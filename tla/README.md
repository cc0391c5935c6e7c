# Verification of Meridian

Meridian is a travel concierge on Aurora PostgreSQL (through the RDS Data API), Amazon Bedrock
AgentCore and Strands. What it must get right is state that outlives the process that keeps it: a
recovery workflow that another worker takes over, courtesy holds that several callers place, confirm
and give back while answers get lost, the identity a call acts for at every hop, a page that must not
ask twice, and a release made of commands that may each be the last. These modules model that state,
TLC checks them on small instances, and TLAPS proves the central results for every instance. Paths
below are relative to `src/meridian/`.

1. [The system](#1-the-system) - 2. [The modules](#2-the-modules) - 3. [What is checked](#3-what-is-checked) -
4. [Findings](#4-findings) - 5. [What is proved](#5-what-is-proved) - 6. [What is left out](#6-what-is-left-out-and-why) -
7. [Plan](#7-plan)

## 1. The system

| Component | State | Operations | Talks to |
|---|---|---|---|
| Execution lease, `backend/db/journey_store.py`, `phase_05_workflow/lease.py` | `journey_executions`, `journeys.status`, one partial unique index | claim with takeover, renew, release | Aurora, one scoped session per call |
| Snapshots, `phase_05_workflow/snapshot_storage.py` | `workflow_snapshots`, append only | fenced insert, newest read | Aurora; locks the execution row `FOR SHARE` |
| Runner and graph, `phase_05_workflow/runner.py`, `graph.py`, `nodes.py`, `hold_intent.py` | a process, and the graph's state inside a snapshot | run or resume, review, choice, consent, hold, read-back, compensation | lease, snapshots, Gateway |
| Stop endpoint, `backend/routers/journeys.py` | `workflow_session_stops` | check, stop the Runtime session, settle and record | lease rows, AgentCore |
| Holds Lambda, `meridian_agentcore/.../meridian_holds/`, migrations 008 and 010 | `hold_requests`, `bookings`, `booking_lines`, two advisory locks | create hold, confirm, release | Aurora; called by the Gateway |
| Data API client, `backend/db/rds_data_client.py` | open transactions, the access audit, settings of a connection | scoped session: begin, check, pin, step down, commit | Aurora |
| Phase 4 agent, `backend/agents/phase_04_production/`, `backend/agentcore/runtime.py` | one turn's progress and its audit row | chat turn, hold, booking | Concierge Runtime |
| Concierge Runtime, `meridian_agentcore/app/MeridianConcierge/` | watchdog, turn threads, AgentCore Memory history | turn, cut-off, history repair | Gateway, Memory |
| Identity, `backend/agentcore/caller_*.py`, `backend/http_auth.py`, interceptor, policies | a cell per request | sign in, verify, forward, pin a traveler | Cognito, Runtimes, Gateway |
| Streaming, `backend/routers/chat.py` | a queue per stream | work, keepalive, ceiling | page, Phase 4, workflow |
| Memory, `backend/memory/store.py`, `backend/routers/memory.py`, `backend/agents/budget.py` | `traveler_preferences` | signal, edit, remove, read, derive a budget ceiling | Aurora; the page and the Lambda read it too |
| Search, `backend/retrieval/`, the catalog Lambda | none; a catalog others change | search, availability, review, prepare a hold | Aurora, Bedrock |
| Page, `frontend/src/` | session and tokens, saved identities of holds, the polled journey | sign-in, refresh, requests, hold, book, recover | backend |
| Releases, `scripts/identity_release/`, `scripts/publish.py` | the AWS stack, the CLI's state file, snapshots, a result file, receipts | render, deploy, gateway stages, rollback, publish | AgentCore, Lambda, App Runner |
| Operator tools: login rotation, login proof, Gateway harness | role verifiers, secrets, policies, `.env`; receipts; a ledger | provision, prove, create and tear down | Aurora, Secrets Manager, IAM, AgentCore |
| Schema scripts, `scripts/init_aurora_schema.py`, `apply_migrations.py`, `seed_data.py` | tables, the migration ledger, the seed | init, migrate, seed, bind | Aurora |
| LangGraph example, `examples/langgraph/` | `checkpoints`, `checkpoint_blobs`, `checkpoint_writes` | `aget_tuple`, `aput`, `aput_writes` | Aurora |
| Phases 1-3, health, diagnostics, captures, stacks | nothing a later step reads | queries, reports, declarations | Aurora, Bedrock, MCP |

What makes it hard:

* Every call to Aurora is a transaction of several HTTP requests. Two of them interleave at each
  statement, and `CURRENT_TIMESTAMP` is the time the transaction began, not the time a statement
  runs. Some statements use `clock_timestamp()` instead, and some mix the two.
* A worker may die anywhere, in particular between two statements or with a commit on the wire.
  Aurora ends what it left open later, one way or the other. A live worker may lose an answer.
* A worker that lost its lease does not know yet, and a Gateway call it sent goes on in a thread that
  outlives it. Only Aurora and the Lambda can refuse.
* A retry must do again what did not happen and must not repeat what did; whether it happened is
  often unknown, and then the answer has to say so.
* Work outlives the request it was started for: a stream the page left, a turn the watchdog ended, a
  save that lands after the repair. What it acts with may be gone or belong to somebody else.
* The operations answer to different locks: a row lock, a row share, a partial unique index that
  makes an insert wait, `SKIP LOCKED`, and two kinds of advisory lock.
* A release spans services with no transaction across them, and its file of what was done is written
  after the fact.

What makes each component correct:

* lease: one execution of a thread runs; a takeover loses nothing that was saved; the loser's late
  release harms nobody; no wait is for ever;
* snapshots: one linear history, nothing from a worker that lost the thread or was stopped;
* stop: an execution is stopped once, and the stop says what it found;
* recovery: a committed hold needs the traveler's consent, is for what they chose, is placed once
  under a saved request, and is found or given back after a failure;
* holds: places taken fit the capacity; one live booking per request, whatever the retries; a
  booking is settled once; no deadlock;
* scope: a session sees and writes its traveler's rows only, and a refusal is on record;
* turn: the answer about a write is placed, refused or unknown, never wrong, and is audited once;
  the conversation it leaves behind can be continued;
* identity: a hold is for the traveler of the caller's own token, in every design of the Gateway;
  "token expired" is said only of a turn that wrote nothing;
* stream and page: what is shown as complete is all there, one click is one hold, a refresh finds
  what was asked for, an expired token ends no session that could go on;
* memory: the page, the turn and the Lambda derive one ceiling, and what was put away stays away;
* search: what is offered could be taken at one and the same moment;
* operations: whatever command dies, nothing works without its grant, no receipt is untrue, a rerun
  finishes.

`PROJECT.json` lists the hazards line by line, with the properties that answer them.

## 2. The modules

| Module | What it is |
|---|---|
| `ExecutionLease`, `SingleWriterLog` | the lease, snapshots, runner and stop endpoint of one thread; what they promise: a log with one writer at a time |
| `Recovery`, `RecoveryPromise` | the graph, the consent, the hold it asks for and its compensation; what they promise |
| `HoldInventory` | the holds Lambda's writes on the places of one package and duration |
| `CallerCredential` | the access token at every hop, the interceptor and the policies |
| `TravelerScope` | the scoped transaction and the binding of a thread to a journey |
| `GovernedTurn`, `TurnHistory`, `EventStream` | one request of the concierge; the history its turns leave; its stream |
| `TravelerMemory`, `HybridSearch` | saved preferences and the ceiling; the search up to a prepared hold |
| `CheckpointSaver` | the LangGraph example's saver |
| `BrowserSession`, `TripWrites`, `RecoveryDesk` | the page: its session, its holds and bookings, its recoveries |
| `GatewayReplacement`, `ReleaseRollback`, `HostedRelease` | the staged release, its rollback, a publish of the hosted site |
| `LoginRotation`, `BackendProof`, `GatewayHarness`, `SchemaSetup` | the operator's other tools |
| `*_proofs` | TLAPS proofs about the modules whose names they bear; `Service_proofs` and `Operations_proofs` about those of the groups (section 5) |
| `MCExecutionLease`, `MCRecovery`, `MCHoldInventory`, `MCCallerCredential` | one component each, for TLC |
| `MCService`, `MCOperations`, `MCLocks`, `MCEnds` | groups of components, for TLC (section 3) |

How they compose. `ExecutionLease` has every statement of the claim and the fence and knows nothing
of what a snapshot contains. `Recovery` takes from it what it establishes (one running execution,
taken over only when lapsed and unlocked; a snapshot saved in one step by the execution that runs) and
puts the graph, the Gateway call and the Lambda's own lease check on top. `HoldInventory` has the
places and the request identities that `Recovery` leaves out. `CallerCredential` says for whom the
Lambda acts, `TravelerScope` which rows it then sees. `GovernedTurn` is the same hold asked for from
the concierge, `TripWrites` and `RecoveryDesk` the page that asks, `EventStream` and `BrowserSession`
what lies between.

### ExecutionLease and SingleWriterLog

A *run* is one invocation of `WorkflowRunner.run`. It claims at most one execution, so a run's name
is its execution id and the columns of `journey_executions` are functions on `Runs`. A row exists
when its `status` is not `"none"`.

| Code | Actions |
|---|---|
| `_run`: read the snapshot, refuse a contradiction | `ReadBeforeClaim` |
| `claim_execution`, statement by statement | `BeginClaim`, `AbandonExpired`, `ReadOwner`, `InsertClaim` |
| its commit, with `JOURNEY_RUNNING_SQL` | `CommitClaim`, `RollBackClaim` |
| `_execute`: read again under the lease | `ReadAfterClaim` |
| `write`: the fenced insert and its commit | `InsertSnapshot`, `CommitSnapshot`, `FailSnapshot` |
| `_run_claimed`: the first of work and heartbeat | `FinishRun`, `CancelRun` |
| `renew`, `release` | `RenewLease`, `RenewFails`, `ReleaseExecution`, `ReleaseFails` |
| `_stop_target`, `StopRuntimeSession` | `StopTarget`, `StopRuntimeSession` |
| `_record_stop` | `ReadSnapshotForStop`, `PickLatest`, `LockExecution`, `SettleExecution` |
| a process dies, time passes | `Die`, `Tick` |

Locks are not variables: they follow from positions. A claim that is abandoning row *e* has
`target[r] = e`; a snapshot insert in flight is `pc[e] = "writing"` (`FOR SHARE`); a stop that holds
its row is `spc[s] = "settle"`; an uncommitted new row is `pc[r] = "commit"`. `Locked` and
`InsertWaits` read them. A process that dies inside a transaction becomes an *orphan*: Aurora may
still commit what it sent, or roll it back, and only then is the run done. Where a commit's answer
may be lost, the action has both outcomes for the worker.

The clocks are kept as the code has them: the claim and the renewal compare with the start of their
transaction (`mem[r].ts`, and any earlier time for a renewal), the fence with the present.
`started_at` and `stopped_at` are compared only with each other, so `started[r]` is the number of
stops recorded when the claim began. A snapshot is its writer, the number of snapshots its state was
built from, and the number of nodes done.

`SingleWriterLog` has owners, retired writers and a log: `Acquire` retires the previous owner,
`Retire` gives up, `Write` appends an entry built on the whole log. `ExecutionLease` implements it
with `owners` the running executions, `retired` those that ran, `log` the snapshots. A stop and a
release are both `Retire`.

### Recovery and RecoveryPromise

Workers are calls of `WorkflowRunner.run`, each naming its execution and the hold request it would
save. A state of the graph (`snap` the newest saved, `graph[w]` a worker's) is the query, the number
of nodes done along `Route`, the pending question (`pause`), whether it was answered, the package
chosen, the saved hold request (`intent`) and its package, and whether the hold is known to stand. A
worker's `call` is the Gateway call it has out; it goes on when the worker dies or is cancelled.

| Code | Actions |
|---|---|
| `run`: the command, the read and refusals before the claim | `Call`, `ReadFirst` |
| claim, renewal, release, the end of a lease | `Claim`, `Renew`, `Release`, `Lapse` |
| the read under the lease: contradiction, consent, answer, choice | `ReadAgain`, `SaveChoice` |
| a node and its snapshot, an interrupt, a gate | `Open`, `Gate`, `ReadNode`, `PrepareHold`, `Interrupt`, `SaveNode` |
| the hold node: lease check, read-back under the journey's lock, send, answer | `CheckLease`, `LockForRead`, `ReadBack`, `SendHold`, `Answered`, `Unknown`, `Rejected` |
| a failure of a node, and the compensation | `FailNode`, `Compensate`, `Undone` |
| the last snapshot | `SaveFinal` |
| the Lambda: execution row, journey, booking | `Begin`, `ClaimExecution`, `LockJourney`, `CommitHold`, `CommitRelease`, `Refuse` |
| the process dies or is cancelled; Aurora frees what it left | `Die`, `Cancel`, `FreeJourney` |

`consented` and `placer` are history variables no guard reads. `RecoveryPromise` keeps who answered,
the saved request and what is booked: `Answer`, `Save`, `Book`, `GiveBack`.

### HoldInventory

Each call of the Lambda is one transaction. `journey`, `party` and `workflow` are a hold call's
arguments, chosen in `Init`: two calls with the same ones are a retry. A derived request id is the
hash of journey and terms, and the ids that follow it past dead bookings are a chain: `requests`
keeps, per key, the bookings of the chain in order, and `probe` is the id a call is at. A workflow
run brings one saved id, key 0.

| Code | Actions |
|---|---|
| begin; `_journey` | `BeginHold`, `LockJourney` |
| `_live_request_id`, one query per id | `NextRequest` |
| SQL `create_courtesy_hold`: replay, or lock, count, insert | `InsertHold` |
| commit | `CommitHold` |
| `confirm_booking` | `BeginSettle`, `LockForConfirm`, `CommitConfirm` |
| `release_hold` | `BeginSettle`, `LockForRelease`, `CommitRelease` |
| any refusal, failure or death | `Rollback` |

The journey lock is held from `"request"` to the end, the package lock from the count to the end
(`pc = "commit"`), a booking's row in `"settle"`. `late` is a history variable that no guard reads:
the bookings whose confirmation committed after their hold had lapsed. It is there because the code
lets them happen (finding `covered`), and the capacity is kept for all others. `Rollback` stands for
the grant check, the saved budget, the amounts, the catalog's price and a lost execution lease: all
end the transaction without a change.

### CallerCredential

`turn[t]` is a request to the backend, or a person's own call of a Runtime or the Gateway; `holder[t]`
the cell of the request that keeps its token; `wire` the invocations on their way to a Runtime, `runs`
the calls there, `effects` what a target did. A token is its person, the traveler it was minted for
and the time it runs out.

| Code | Actions |
|---|---|
| sign-in and the pre-token trigger | `SignIn` |
| `http_auth.py`: cell, verification, the traveler of the request | `Arrive`, `Verify`, `AuthorizeTraveler` |
| the page leaves and the middleware empties the cell | `Leave` |
| both Runtime clients: send, a dropped connection, a conflict, the one retry | `Send`, `NotMade`, `Drop`, `Conflict` |
| a Runtime takes the invocation and calls tools, each checked for expiry | `Take`, `Call`, `Finish` |
| the Gateway admits, the interceptor pins or refuses, policies decide, the target acts | `Admit`, `Intercept`, `Decide`, `Act` |
| somebody calls a Runtime or the Gateway directly, with any arguments | `CallRuntime`, `CallGateway` |

Three designs of the Gateway are modelled: policies alone, interceptor alone, both.

### The rest of the service

| Module | Code and actions |
|---|---|
| `GovernedTurn` | `Request` is `process_turn`, `process_hold` or `process_booking` with its early returns (`Authorize` ... `Reply`); `Thread` the invoke thread of `runtime.py` with its one resend and its events; `Concierge(a)` an attempt in the Runtime (`PlaceCall`, `CallAnswered`, `CallGivesUp`, trace hooks); `Lambda(a)` the target; `AuditTask` the shielded audit write; `Cancel` a cancellation at any await. |
| `TurnHistory` | `Turn(t)` a turn on the conversation: restore, append, save, the watchdog's end (`CutShort`, `TaskStuck`), the wait for an older repair (`settle_history`); `Repair(t)` the repair thread step by step; `SaveLands` a save no one can stop. |
| `EventStream` | `Open` to `Finish` the work and its queue; `Frame`, `Beat`, `Close`, `Notice` the generator with keepalive and ceiling; `Arrive`, `Quiet`, `TooLong` the page's two timers. `Pass` is time, which waits for what is due. |
| `TravelerScope` | `Begin`, `Check`, `Pin`, `AssumeRole` one Data API call each, then `ensure_journey` (`TakeLock`, `Look`, `Create`, `Bind`) on the backend's side and the Lambda's; `Refuse`, `RecordDenied` keep the DENY row; `Fail`, `Abandon`, `Expire` the faults. A setting lives on the connection, as it does in Postgres. |
| `TravelerMemory` | `Learn` a signal, `ServeEdit` an edit or removal; `ServeRead`, `ServeRefresh`, `ServeTurn` the readers; the page's ask, answer and failure of each. The four derivations of the ceiling are operators over the same rows (`PageCeiling`, `TurnCeiling`, `LambdaCeiling`, `InContext`). |
| `HybridSearch` | `Search` steps through both arms, merge, join, gate, rerank in the backend's and in the Lambda's copy; `Check`, `MergeAvailability`, `Review`, `PrepareHold` what the workflow does with the rows; `PlacesChange`, `PricesChange` everybody else. |
| `CheckpointSaver` | `Read` is `aget_tuple`; `PutBlob`, `PutRow` are `aput`, every statement a commit of its own; `Insert`, `AppendRest`, `Commit`, `Cancel` are `aput_writes` in one transaction; `Die`, `Expire` a killed worker. |
| `BrowserSession` | `TimerFires`, `TabShown`, `Renewed`, `RefreshFails` the one refresh; `Send`, `Refuse`, `Resume`, `GiveUp` a request with its one retry; `Greet`, `Speak`, `End` a stream; `SignOut`. |
| `TripWrites` | `HoldClick`, `ReadFirst`, `HoldRead`, `ConfirmClick`, `BookingRead`, `ReadBack`, `StopWaiting`, `Reload`, `Restored` in the page; `Serve`, `Refuse`, `Expire` at the server. |
| `RecoveryDesk` | `Recover`, `Resume`, `Stream`, `Reply`, `Fails` a turn; `Sample`, `Apply`, `Settle`, `RestoreJourney` the polled journey; `ClearChat`, `SetSelectedPhase`, `SetView`, `Reload` what the person does meanwhile. |

### Operations

| Module | Code and actions |
|---|---|
| `GatewayReplacement` | `Render`, `Deploy` (with its plan, its record and its roll-back), `Gateway(m, act)` with attach, grant, read-back and revoke, `HoldsLogs`, `Snapshot`; faults: a command dies, the state file is lost or was never written, a deploy is rolled back, somebody edits the file. |
| `ReleaseRollback` | hop by hop `Compare`, `Journal` and `WriteAhead`, `Send`, `ReadBack`, `Skip`, `Finish`; `Remedy` is what the operator is told to do by hand; `ColdStart` a platform restart of the Lambda. |
| `HostedRelease` | `Publish(p)` from `Inspect` and the findings of the preflight to `DeployRoles`, `DeployImage`, `UpdateService`, `WaitForOperation`, `DeploySite`; `OperationEnds` App Runner, `Commit`, `Prove`, `DeployHop` everybody else. |
| `LoginRotation` | `Find`, `SetLogin`, `StoreSecret`, `TrimPolicy`, `WritePolicy`, `Verify`, then `ReadEnv`, `OpenEnv`, `WriteEnv`; `Break` fails or kills a run before any call or after it took effect. |
| `BackendProof` | `Guard`, `Invalidate`, `StartBackend`, `BindPort`, `Checks`, the recovery (`Pause`, `Resume`), `CleanUp` with its purge statement by statement, the sweep, `Close`, `Return`; interrupts and kills anywhere. |
| `GatewayHarness` | one create or delete per step with its ledger entry (`CreateFails`, `NoteCreated`, `DeletedEntry`, `FailedEntry`), `Probe`, `TeardownFile`; foreign entries in the file, calls whose answer is lost, deaths. |
| `SchemaSetup` | `InitStep`, `MigrateStep`, `SeedStep`, `OtherStep`, each script by its statements, with what each transaction locks; `EnsureTravelerExists` a backend that answers turns meanwhile. |


## 3. What is checked

The components of a group (`MCService`, `MCOperations`, `MCLocks`, `MCEnds`) share no state, so one
module checks them together: `part` picks a component in the first state, `s1`, `s2`, ... hold that
component's variables, and each property says, part by part, which properties of the components it is
the conjunction of. The constants of each instance are in its `INSTANCE ... WITH`. A component that
needs two shapes of instance has two (`History` and `Repairs`, `Hosted` and `Commits`).

| Run | Instance | Distinct states | Shows |
|---|---|---|---|
| `lease` | 2 runs, 2 stops, 1 tick, lease 1 tick, 1 node, 2 snapshots, symmetry | 783 thousand | `IInv`, `OneRunning`, `StopOnce`, `ProgressKept`, `SnapshotsByOwner`, `StoppedWritesNothing`; the refinement `LogSpec` |
| `holds` | 3 holds, 1 confirmation, 1 release, 2 journeys, capacity 2, party 1, 2 ticks, chains of 2, symmetry | 1.2 million | `IInv`, `WithinCapacity`, `OneLiveBooking`, `WorkflowBooksOnce`, `SettledOnce` |
| `recovery` | 2 workers, 2 packages, all five queries, from a fresh thread or one paused at the confirmation, symmetry | 1.6 million | `SavedPlanStands`, `BookedFromSavedIntent`, `OwnerDecides`; the refinement `PromiseSpec` |
| `caller` | 2 turns, 3 people, one of them bound to two travelers, policies or interceptor, tokens that run out, symmetry | 640 thousand | `ActsForItsCaller`, `ExpiredConciergeWroteNothing`, `TokenStaysWithItsRequest`, `OutlivedSendsNothing` |
| `service` | the fourteen parts of `MCService`, symmetry | 811 thousand | `TurnIsTold`, `HistoryIsClosed`, `StreamIsWhole`, `ScopeIsKept`, `SearchIsOfOneMoment`, `PageIsHonest`, `MemoryIsTheTravelers`, `CheckpointsAreWhole`, `SessionIsKept` |
| `operations` | the nine parts of `MCOperations`, symmetry | 500 thousand | `ReleaseIsSafe`, `HostedIsWhole`, `LoginsWork`, `CleanIsClean`, `SchemaIsOnce` |
| `locks` | lease: 2 runs, 1 stop; holds: 2 holds, 1 confirmation, 1 release of one journey; recovery: 2 workers, the first dead with its hold on the wire | 123 thousand | `RunsEnd`, `CallsEnd` |
| `ends` | the ten parts of `MCEnds` | 524 thousand | `TurnsEnd`, `OperatorFinishes`, `EveryWaitEnds`, `PageCatchesUp` |
| `journey`, `covered`, `giveback`, `stranded` | one or two actors | to the counterexample | the findings of section 4 |

`CHECK_DEADLOCK FALSE` everywhere: requests, runs and commands are finite in number and end, and a
state in which all of them have ended is not a deadlock. Waiting for ever is what `locks` and `ends`
check.

Why these bounds are enough for the interesting cases. Two workers are one that owns the thread and
one that takes it over, and two snapshots are progress and progress on top of it. Two stops are what
it takes to stop one execution twice. Three holds are two that fill the capacity and one too many, or
a first booking, its successor and a retry; two ticks let a hold lapse while a transaction begun
before is still at work. Two turns of different people, and a person with two travelers, are what it
takes to act for the wrong one; a lifetime of 2 lets a token run out at each hop. In the groups there
are two of whatever can interfere (sessions on two connections, turns of one conversation, operators,
publishes, rotations; three runs where the third repairs what two left) and a bound on faults that
lets one spoil what another was to clean up. `MaxTime`, `MaxSnapshots`, `MaxFaults` and their like are
bounds of the model; `MaxChain` is the code's 50 made small, and the times of `EventStream` keep the
order of the code's (keepalive < idle < ceiling = cap < the platform's limit). In `caller`,
`Bounded` restricts what a second turn does while both are at work (one tick, interceptor, before
any tool call); one turn alone is explored without it.

Symmetry is used only where no liveness is checked; the permuted values are interchangeable: no
definition singles one out.

Two components are run for operators who follow the docs, because without that the divergences of
section 4 appear: `HostedRelease` with `TightenAny = FALSE` (roles are tightened only for a service
that is already a jwt one) and `Still = TRUE` (nobody commits while a publish builds), `BackendProof`
and `Lines` with `Together = FALSE` (one proof, one rotation of different logins, at a time).

Every property has a mutant, an operator beside the one it replaces, which is a plausible bug of the
code (no unique index, a fence without a lock, a release that always settles, a confirmation without
`FOR UPDATE`, a receipt written first). TLC finds the property violated with it; each conjunct of a
group's property was tried with a bug of its own as well.

### Fairness

Safety needs none. The liveness properties of `MCLocks` and `MCEnds` state their fairness on their left
(`RunsEnd == OnLease /\ LeaseFairness => ...`), and it is what a scheduler, a time limit of the code or
a person who goes on provides:

* Aurora's locks: an invoked run, a call of the Lambda or a stop once made takes its next statement
  when one is possible, and Aurora ends the transaction of a dead process. No failure, death,
  heartbeat or tick is owed, so no wait is excused by a timeout.
* Turns: the event loop runs the request, its audit task and the Runtime's turn, and the code's own
  limits on a response and on the audit write pass. The Gateway and the Lambda owe no answer; a save
  and a repair of the history owe no end; the page of a stream may have gone.
* Page: timers fire, the token endpoint answers or its connection fails; the API need not. A person
  who waits for a trip goes on clicking; reads and writes end.
* Operators: a process that started goes on, somebody repeats the release steps, the rollback with
  its remedies, or `--teardown`, until told that it is done. The platform is never relied on to
  restart the Lambda, and no service to answer.

Weak fairness is enough everywhere: what an action waits for stays true until it is taken, or is
taken away by something that itself ends.

## 4. Findings

Statements of the repository that the code does not keep. Four are runs that TLC must find violated:

1. `journey`: a stop that finds the graph completed closes the execution and leaves
   `journeys.status` running; the run's own release then changes no row and settles nothing
   (`backend/routers/journeys.py:125`, `lease.py:77`).
2. `covered`: a confirmation tests the hold's expiry against the start of its own transaction and
   does not take the package lock. A hold can lapse meanwhile, its places be given to another hold,
   and the first one still be confirmed (`010_confirm_booking.sql:66`, `020_package_places_left.sql:3`).
3. `giveback`: `expected_hold_id` is read from the same saved state as the hold it is compared with, so
   a resumed run that fails releases the hold an earlier run placed (`nodes.py:885`, docstring at 878).
4. `stranded`: when the page leaves a stream, the request's end empties the cell the retained work
   reads, so work that has not invoked its Runtime yet fails (`caller_credential.py:122`,
   `chat.py:1639`).

The others are stated in their modules, each beside the property that holds, with the statement it
contradicts quoted there. TLC finds each violated on a small instance; no run repeats it.

| Property | Module | What the code does |
|---|---|---|
| `AttemptsDistinct` | `ExecutionLease` | reads the next attempt before the insert waits at the index, so two executions can share one (`journey_store.py:226`) |
| `StopMatchesSnapshot` | `ExecutionLease` | a stop reads the newest snapshot before it locks; an insert in flight commits in between (`routers/journeys.py:156`) |
| `StopRefusedOnlyIfStopped` | `ExecutionLease` | compares a stop's clock with the start of a claim's transaction; a claim begun before a stop and committed after it cannot be stopped (`routers/journeys.py:37`) |
| `UnheldIsUnbooked` | `Recovery` | takes an error of the Lambda's commit for a clear refusal (`meridian_holds/lambda_function.py:527`) |
| `FailedIsUnwritten` | `GovernedTurn` | reports a Gateway call that timed out as refused, so the answer is "not completed" though the write may be committed (`turn_trace.py:456`) |
| `ExpiredMeansNothingRan`, `UnsentMeansNothingRan` | `CallerCredential` | a workflow whose search ran is answered "token expired"; a retry's credential error hides that the first attempt may have run (`backend/agentcore/runtime.py:482`) |
| `NoLateRepair` | `TurnHistory` | asks `keep_going()` and only then appends (`turn_watchdog.py:153`) |
| `ReadBackIsHeard`, `QuietMeansGone` | `EventStream` | the page's timers run from the request, the server's ceiling from the first frame (`chat.py:1611`, `1673`) |
| `AccessIsRecorded` | `TravelerScope` | leaves an ALLOW row in the transaction of the work, which may fail after its rows were read (`rds_data_client.py:573`) |
| `BasisInContext` | `TravelerMemory` | the fact the ceiling comes from can be missing from the turn's context (`production_agent.py:264`) |
| `BlobsAreImmutable` | `CheckpointSaver` | two workers that resume one checkpoint number the next version of a channel alike (`aurora_dataapi_saver.py:65`) |
| `AskedOnlyAfterSpeech` | `BrowserSession`, `Greets = TRUE` | the opening status frame counts as content, so an expired stream is never resent (`chat.py:1607`) |
| `NothingForgotten`, two tabs, three intents | `TripWrites` | saves a copy of the identities read before an await (`useMeridianShowcase.ts:1143`) |
| `KeepsReading`, `BlockedIsReadable` | `RecoveryDesk` | ends the reading at the first saved step though the worker goes on; forgets the address of a recovery it still blocks on (`DesktopMeridianApp.tsx:161`, `useMeridianShowcase.ts:771`) |
| `RollbackFinishes` | `GatewayReplacement`, `BackSpec` | no snapshot can be taken between stage 1 and stage 2, and the way back asks for one (`snapshot.py:338`) |
| `CompleteIsComplete`, two snapshots | `ReleaseRollback` | a rollback from another snapshot forgets an owed restart (`rollback.py:301`) |
| `ServiceKeepsItsSecrets`, `TightenAny = TRUE` | `HostedRelease` | tightens roles under a service that is still an iam one (`publish.py:357`) |
| `ImageIsProven`, `Still = FALSE` | `HostedRelease` | builds whatever the working tree is after the proof was compared (`publish.py:358`) |
| `EveryLineStays`, `Together = TRUE` | `LoginRotation` | a whole-file replace drops another run's line (`provision_service_logins.py:295`) |
| `LeftoverFails`, `InterruptedIsRecorded` | `BackendProof` | a purge that breaks off loses the link to the booking; an interrupt outside `prove()` leaves an ok receipt (`kill_and_resume_proof.py:341`, `prove_backend_login.py:591`) |
| `ProvesItsOwn`, `Together = TRUE` | `BackendProof` | the port is tested and let go before the backend binds it (`prove_backend_login.py:553`) |
| `TearsDownWhatExists` | `GatewayHarness` | a resource whose create call never answered is in no ledger (`gateway_harness/resources.py:484`) |
| `LedgerSpeaksOfTheView`, `SeedReplacesTheStub`, `RefusedMeansUpgradable` | `SchemaSetup` | binding an identity undoes migration 021; the seed refuses a database with a stub traveler; a failed first migration leaves a database neither script accepts (`bind_current_identity.py:122`, `seed_data.py:167`, `init_aurora_schema.py:112`) |

## 5. What is proved

TLAPS proves, for every value of the constants, the results below. Each safety proof has the same
form: an inductive invariant `IInv`, the conjunction of named parts; `Init => IInv`; one lemma per
action or group of actions that it keeps every part (a frame lemma covers the parts an action cannot
disturb); and `IInv => ` the property. TLC checks the invariants as well, in runs or as parts of what
they imply.

| Module | Theorems | Assumes |
|---|---|---|
| `ExecutionLease_proofs` | `Inductive`, `TypeCorrect`, `OneExecutionRuns`, `HistoryIsLinear`, `ProgressIsKept`, `JourneyRuns`, `StoppedOnce`, `OwnersWrite`, `StoppedRunsWriteNothing`, `Refinement` | `None` is no run; lease and number of nodes positive; natural bounds |
| `HoldInventory_proofs` | `Inductive`, `TypeCorrect`, `CapacityKept`, `LiveBookings`, `BooksOnce`, `SettledForGood` | finitely many hold calls, disjoint kinds of call, natural bounds, three of them positive |
| `Recovery_proofs` | `Inductive`, `PlanStands`, `BooksSaved`, `Decides`, `KeepsPromise` | `PackagesAssumption`, `QueriesAssumption` |
| `CallerCredential_proofs` | `Inductive`, `TypesHold`, `HoldsActForTheirCaller`, `TokensStay`, `OutlivedWorkSendsNothing`, `ExpiredWroteNothing` | those of the module |
| `Service_proofs` | `ScopeKept` (`TravelerScope`), `TurnKept` (`GovernedTurn`), `StreamKept` (`EventStream`), `DeskKept` (`RecoveryDesk`), `TripsKept` (`TripWrites`), `SessionKept` (`BrowserSession`), `MemoryKept` (`TravelerMemory`) | `NobodyIsNobody`, `BoundsAreNatural`; `MaxCancelsAssumption`; `TimesFit`; `DeskAssumption`; `WritesAssumption`, `OneTab`; `SessionAssumption`; `BoundsAreNatural`, `InputsKnown` |
| `Operations_proofs` | `HostedKept` (`HostedRelease`), `ReleaseKept` (`GatewayReplacement`), `RollbackKept` (`ReleaseRollback`), `RotationKept` (`LoginRotation`), `SetupKept` (`SchemaSetup`), `CheckpointsKept` (`CheckpointSaver`), `HarnessKept` (`GatewayHarness`), `LoginProofKept` (`BackendProof`) | `PublishesAssumption`; `GoalsAssumption`, `BoundsAssumption`; `RollbackAssumption`, `OneSnapshot`; `ScriptsKnown`, `LimitsKnown`; `SetupAssumption`; `ConstantsAreUsable`; `BoundsAreNatural`; `RunsFollow` |
| `MCService_proofs` | `ScopeHolds`, `TurnHolds`, `StreamHolds`, `PageHolds`, `SessionHolds`, `CheckpointsHold`, `MemoryHolds`: the group's own `Spec => []ScopeIsKept`, `[]TurnIsTold`, `[]StreamIsWhole`, `[]PageIsHonest`, `SessionIsKept`, `CheckpointsAreWhole`, `MemoryIsTheTravelers` | `Instances` |
| `MCOperations_proofs` | `HostedHolds`: `Spec => []HostedIsWhole`; `CleanHolds`: `Spec => []CleanIsClean`; `ReleaseHolds`, `LoginsHold`, `SchemaHolds`: `Spec => ReleaseIsSafe`, `Spec => LoginsWork`, `Spec => SchemaIsOnce` | `Instances` |

`Service_proofs` and `Operations_proofs` hold several components: each has a section, which declares the
constants and variables that component adds and instantiates its module under a name
(`Scope == INSTANCE TravelerScope`), so the theorems are about every value of them.
`Operations_proofs` also holds the checkpoints, `Saver`. The group proofs substitute the
group's constants and the places `s1`, `s2`, ... in turn. One such instance (`Proofs2`, `Proofs3`, ...) gives
the theorems of several components, whose variables it names differently: where two components use one
name with different values, a later section declares its own (`at` for the harness's `pc`, `pp` for the
login proof's) and substitutes it. A *match* lemma says that the group's instance and the substituted one
have the same initial states, steps and variables; an *inductive* lemma says that the invariant, while
`part` names this component, is kept by every step of the group, those of other parts leaving it
alone; the theorem follows by the rule for `[]`.

**The lease.** That one execution runs is not inductive: a claim's commit sets a second row running
unless nothing runs but the row it abandons (`InsertAlone`), which holds because the insert waits for,
and is waited for by, every other claim that is past its own insert or holds a row to abandon, and
because such a row is running and held by one claim only (`TakeoversExclusive`). `RowsFollowRuns` says a
run's row is new until it commits, so no retired execution comes back, and that a write in flight keeps
its row running: every way out of `"running"` needs a lock that `FOR SHARE` denies. Then the process of
the running execution works on the newest snapshot (`MemoryFresh`), because only the owner appends and
it read the log after it became the owner; `LinearHistory` and `ProgressKept` follow.
`StopsExclusive` says the lock excludes other stops and takeovers and that the row has no stop yet;
`StopsRetire` that a stopped execution has left `"running"` and began before its stop. The refinement
maps a commit of a claim to `Acquire`, a claim that loses after abandoning, a release and a stop to
`Retire`, a snapshot's commit to `Write`, and everything else to a stutter.

**The holds.** `InsertFits` says one hold is uncommitted at a time, under the package lock, and that it
fits on top of what counts *now*. It fits when it counted, at the start of its transaction, and what
counted then includes what counts now (`ReservedShrinks`). Afterwards what counts only shrinks: the
clock takes lapsed holds out, a release gives places back, and a confirmation keeps a hold that counts
or confirms one that had lapsed, which is `late` and finding 2. Only the hold's own commit adds a booking
(`BookedStep`), and with it at most its party's places (`PlacesAdded`, cardinality of finite sets). For
the live bookings, `ProbesOver` says a call has gone past nothing but bookings that are over, which they
stay (`OverStays`), and that a call about to commit is at the first free id. `SettlesExclusive` says a
confirmation or release about to commit has its held booking to itself, which is what `FOR UPDATE` buys,
and `RowsFollowCalls` that a call has no booking before it commits.

**The recovery.** The newest snapshot is `Sound`: its plan is for the package the traveler chose, an
answered confirmation precedes a request, and a hold it names is booked. A worker whose execution runs
follows that snapshot (`WorkerSound`), so what it saves is sound again; a worker that lost its execution
may hold anything, and the fence refuses it. A call that has locked its execution's row asks for the
saved request (`CallSound`), because the request was saved before the call was sent and is never
replaced: hence `BookedFromSavedIntent`, however late the call is, and `OwnerDecides`. A read-back under
the journey's lock stays true until its call, because whoever could change the booking waits for that
lock (`ReadBackStands`). The refinement maps the read of a confirmation to `Answer`, the snapshot with
the first request to `Save`, `CommitHold` to `Book`, `CommitRelease` to `GiveBack`, and the rest to a
stutter.

**The caller.** Cells are own and empty once their request is over (`CellsAreOwn`); what was sent, and
the runs and effects it led to, agree with the turn it came from or are a person's own call
(`WireAgrees`, `RunsAgree`, `EffectsAgree`); a Gateway call past a layer has what that layer establishes
(`GatewayKnows`): past admission a token of its own, past the interceptor the pinned traveler, past the
policies one bound to the token. A confirmed Concierge turn has one message (`SentOnce`), so the one
that was refused as expired is the only one that could have written.

**The scope.** A setting is local to its transaction, so no connection keeps a traveler (`NothingLeft`)
and a session outside a transaction has no connection, lock or uncommitted row (`Empty`). One past its pin
reads and writes as the app role under its own traveler (`Scoped`), whatever connection it was given, and
the audit row its transaction is about to commit is the one its decision asks for (`Rowed`). What a
session has made but not committed is under the thread's lock (`Working`), so one session binds at a time
(`OneBinds`) and the thread's journey is the one its maker committed with its row (`Made`).

**The turn.** For a confirmed write there is one attempt and nothing runs before it is sent
(`OneAttempt`, `NotSent`). Every event on the wire, everything the request concluded from one and
everything a row says is *backed* by what the Gateway, the Lambda and the Runtime did, and what backs it
stays so (`EventsAreBacked`, `DecisionIsBacked`, `RowSays`). The order of the events matters as well: a
refusal comes right after its cause and only the end of the stream after it (`RefusalIsLast`,
`RefusalHasCause`), and the Runtime's message comes after the settling of the call (`ResultIsSettled`), so
a stream that ends with neither leaves the outcome unknown and is said to. `Phases` says which steps of
the request, its thread and its shielded audit task go together under cancellation; `AllowStands` and
`Reasons` why an allow row or a "not placed" was said.

**The stream.** Events keep their order through four places: what the work handed over, the queue, the
wire, and what the page was shown. `QueuedInOrder` numbers the first two on from what is framed;
`ShownInOrder` says that some count along the wire continues what the page was shown and ends at what is
framed, and that a last event on the wire comes after all the output, so a page that sees it has seen
everything. `HandedAtOnce` says time does not pass over a handed event, so a server at the ceiling with an
empty queue knows the work is not done (`ReadBackIsLate`). For the timers, an open stream was never silent
for more than `Gap`, the longer of the keepalive and the connection's lag (`NotSilent`), frames on the wire
are in order of time, no further apart than that and not late (`WireInTime`), so a page that waits is in
touch (`InTouch`). That a live stream is not taken for a dead one therefore needs `ConnectionIsPrompt`: the
gap and the transit together are shorter than the page's idle timer. `StreamKept` states that part under
it (`LiveWhilePrompt`) and the rest without; in the group's instance it follows from the numbers.

**The page.** A turn's answer is used only if the conversation it was asked in is still the one on the
page, so the proof follows the generation of every turn: the page waits for one turn, of its own generation
(`OneIsAwaited`), and what was put away was put away before that turn (`WipedBefore`). The
first attempt failed at `Restart`: the model dropped the document of a recovery that restarts under the
same key, which the source keeps, and was corrected from it.

**The holds clicked.** Whatever the server holds for a product, or may hold because an answer was lost, the
browser's storage has the key of until it expires (`UnexpiredIsKept`), and between a click and its read of
that key nobody else drew one (`ReadIsCurrent`). With two tabs the second fails and holds are forgotten, which TLC shows
(`NothingForgotten`, section 4); the theorem is about a browser with one tab (`OneTab`) and says so.

**The session.** An ended session stays ended because a token request in flight belongs to the first
generation, the only one with tokens (`OneCall`). That only the person, a refusal or a fault ends it needs
the order of the tokens: unless someone is to blame, what a request is sent again with is later than the
token it was first sent with, and no later token than that first one has expired meanwhile (`TokensFit`). A
request that may still be sent had at most one run, of which nothing was heard (`RunsFit`).

**The hosted release.** One publish works at a time (`OneAtATime`), an operation of App Runner belongs to
the publish that started it (`OperationIsOwned`), and a publish past a step has deployed it
(`InOrder`, `ReceiptFirst`, `ProvenFirst`). A role is tightened only after the service that needed the
wide one is gone (`TightenedLate`), and a roll-back by App Runner goes back to a release that was live.

**The staged release.** A command looks once and acts later. What it saw still holds when it acts
(`CheckedStillHolds`): the stage of a deploy under way is the render's, the Gateway it will delete is saved
and without a grant, and stage 2 meets no log group. A grant is taken back only with the interceptor gone
and none on its way (`RevokesLast`), so an attached interceptor is granted throughout; and no stage takes
the holds target back once the engine, the last one, is there (`EngineComesLast`). The step properties
follow from the same invariant: `Replaces` needs it before the step, `DropsLogs` on both sides of it.

**The rollback.** A restart is owed when the parameter is back and the function's cache is not. The debt
is noted before the parameter is written, first in the run and then in its file (`DebtComesFirst`), so a
death between any two steps loses nothing (`DebtIsKnown`), and a hop is read back only after its write
took effect (`SentIsSaved`). Code 0 says every hop is as saved because those called unchanged or restored
stay so while the run lasts (`DoneIsSaved`) and one is skipped only after another failed
(`SkipsAfterFailure`). The theorem is about the rollbacks from one snapshot (`OneSnapshot`): a file that
names another snapshot is not read (`rollback.py:301`), so with two of them the debt can be forgotten,
which TLC shows and section 4 lists.

**The rotation.** The run that touched a role last is a run of that role (`LastIsItsOwn`), and every write
of the verifier or the secret makes the writer the last one, so a later run that breaks off leaves no
verified run last. A run that overlaps no other finds what is still so when it acts (`FindsAll`), and IAM
keeps consecutive versions (`VersionsFit`), so deleting the oldest one leaves room for the next: such a run
fails only by a call of its own. That no line of `.env` is lost (`KeepsLines`) is proved for runs that follow
one another (`~Together`, `OneInProgress`), since a run's copy of the file is then still the file
(`LinesAreRead`); with overlapping runs TLC shows the loss (`EveryLineStays`, section 4). `LimitsKnown` says
a policy may have at least two versions (IAM allows five) and a login is tried at least once.

**The schema.** The ledger is an initial segment of the migrations, applied in that order
(`LedgerIsInOrder`). What a run has left to do are consecutive ones, of which the first is the ledger's next
or was applied since by another run; about to commit, it is the next, because the run holds that ledger key
and a key that is there refuses the insert (`MigrationFits`). Under its advisory lock a run of the schema
script sees no tables while none are committed (`InitFits`), and a seed that found the tables empty has them
to itself until it commits (`SeedFits`). The assumption is that there is a first migration and that
`"none"` is not an operator.

**The checkpoints.** Aurora is asked for one row or segment at a time, so the invariant says what a
transaction has of its batch at every statement: nothing, the first part of a value, or the whole of it
(`ResumeFits`, `TaskFits`). Rows that one transaction has written are locked for the others and, if they are
task output, not saved yet (`LocksAreApart`), so a commit adds a task's two writes together or, where an
earlier attempt's stand, neither (`OutputIsWhole`); saved output is then never replaced. That a *visible*
checkpoint is one value needs that one worker runs at a time (`~Overlap`): it starts from the newest
checkpoint (`OfTheNewest`), so the version it puts is of no checkpoint that can be seen (`VersionsFollow`,
`PutsWhole`), and what it reads back segment by segment stands still meanwhile (`ReadsAsWritten`). Where two
workers resume one checkpoint they write one version, which TLC shows (`BlobsAreImmutable`, section 4).

**The memory.** A traveler's edit stands above every other row of its key that is as certain as the edit is
(`EditIsAbove`): it is stored last, and it stands until a certain signal, or one of the traveler's own type,
is stored for the same key and supersedes it (`edited` is then `Nothing` again). A less certain signal of
another type is stored without ending it and ranks below it. All three readers take the row that stands highest, so page, turn and Lambda
agree (`OneCeiling`). That a memory put away stays away says that nothing is then under way that could bring
a fact back, an edit that fails and restores the facts before it included (`NothingComes`); that the preview
goes forward, that an answer under way is not of an earlier moment than the one shown (`AnswersAreLater`).
`InputsKnown` describes the seed: one row per type and key, in the order of their times.

**The throwaway Gateway.** A child exists only under its parent (`ParentsStay`), and while a run creates,
every step it is past was made and every resource of its own is in the ledger but the one whose create call
just answered (`NotedInOrder`). A run that joined its creation has therefore noted all there is
(`JoinedIsNoted`). Teardown has deleted or left every entry it is past (`PastIsDone`), and an entry left
without a fault is one whose deletion the service refused because of a child (`LeftIsHeld`): the order takes
targets, policies and the Gateway before what they hang on, so such a child is on no entry, which is what
`OnePassIsEnough` allows. The order is stated as a relation between two entries, `TeardownOrder`, of which
the source's sorted list is the enumeration.

**The login proof.** Proved for runs that follow one another (`RunsFollow`), as an operator runs them: with two
at once the port can pass to the other's backend (`ProvesItsOwn`, section 4). The receipt is void from the
moment a run begins to prove and is that run's until the next begins (`ReceiptFits`, `OlderAreOver`), so an older
pass is gone. A purge goes statement by statement, so `RowsFit` says what is left of a run's rows after each
of them unless the run has failed, and that a recovery that was tried and not failed was whole. A backend
ends before its run writes the receipt, on every path but a kill (`BackendFits`).

Only model-checked:

* liveness under fairness: the runs `locks` and `ends`. TLAPS has no rule for `ENABLED`;
* `SearchIsOfOneMoment` of `HybridSearch`, whose merged lists are built up by recursion (`SelectSeq`,
  folds over sequences): the induction theorems of the library take an operator, which no prover here
  can instantiate;
* `HistoryIsClosed` of `TurnHistory`, whose closing messages are likewise a `SelectSeq` over the saved ones;
* in the two proofs that assume it, what happens when operators overlap (`Together`): the runs that
  expect a violation show what is lost then.

No module declares a recursive operator.

## 6. What is left out, and why

* One thread per journey. `journey_threads` allows more; no code of the application binds a second.
* The grant check, row-level security and Cedar decide on state modelled in `TravelerScope` and
  `CallerCredential` only. In the other modules their refusals are outcomes.
* The contents of prompts, summaries, audit rows and results, the models and the embeddings; what a
  comparison looks at field by field is one value that agrees or does not.
* How long Aurora keeps a transaction open, and how long a call takes: any time, and then it ends.
* The Gateway's policy engine, App Runner, CloudFormation, the RDS Data API and the browser are
  modelled from how the code uses them (external in the map).
* Whole components marked `not_modelled` in `PROJECT.json`: the sum of places left (a read), phases 1
  to 3 (questions with no state), proofs and captures that only read, diagnostics and logging, stack
  declarations, and the script that deletes the demo traveler's bookings, which undoes on purpose what
  the Lambda's calls never undo.

## 7. Plan

1. Done: the modules of section 2, their runs, and the proofs of section 5.
2. Next to prove, in the modules that hold such proofs already: the history's `ReadAfterRepair`, for which
   the saved messages would be a set ordered by their stamps.
3. Next to model: the deployment of the interceptor and of the Lambdas (`interceptor_lambda.py`,
   `lambda_release.py`: ownership by tags, grants that take time to be seen), as parts of
   `ReleaseIsSafe`; the dispatch of the chat router to the phases.
