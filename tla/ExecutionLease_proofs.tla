------------------------ MODULE ExecutionLease_proofs ------------------------
(* The inductive invariant of ExecutionLease, and what follows from it. *)
EXTENDS ExecutionLease, SequenceTheorems, TLAPS

(* The initial states satisfy the inductive invariant: no row, no snapshot, no stop. *)
LEMMA InitIInv == Init => IInv
<1> SUFFICES ASSUME Init PROVE IInv
  OBVIOUS
<1> USE RunsAssumption, BoundsAssumption DEF Init, Terminals, InClaim, Working, InTransaction
<1>1. TypeOK
  BY DEF TypeOK, Statuses, Labels, Memories, NoMemory, SnapshotRows, StopRows
<1>2. OneRunning /\ TakeoversExclusive /\ InsertAlone /\ RowsFollowRuns
  BY DEF OneRunning, TakeoversExclusive, InsertAlone, RowsFollowRuns, Owners
<1>3. MemoryFresh /\ LinearHistory /\ ProgressKept /\ RunningJourney
  BY DEF MemoryFresh, LinearHistory, ProgressKept, RunningJourney, Owners
<1>4. StopsExclusive /\ StopsRetire /\ StopOnce
  BY DEF StopsExclusive, StopsRetire, StopOnce
<1> QED
  BY <1>1, <1>2, <1>3, <1>4 DEF IInv

(* Updates of a process's memory. *)
LEMMA Remembering ==
  ASSUME TypeOK, NEW r \in Runs, NEW m \in Memories, Remember(r, m)
  PROVE  mem' \in [Runs -> Memories]
  BY DEF TypeOK, Remember

(* Each field takes the values the actions give it. *)
LEMMA MemoryUpdates ==
  ASSUME NEW m \in Memories
  PROVE  /\ \A n \in Nat : /\ [m EXCEPT !.ts = n] \in Memories
                           /\ [m EXCEPT !.attempt = n] \in Memories
                           /\ [m EXCEPT !.base = n] \in Memories
         /\ \A n \in 0..Steps : [m EXCEPT !.step = n] \in Memories
         /\ \A n \in Nat, i \in 0..Steps : [m EXCEPT !.base = n, !.step = i] \in Memories
         /\ \A t \in Terminals : [m EXCEPT !.terminal = t] \in Memories
  BY DEF Memories

(* What the actions read is of its type. *)
LEMMA TypesUsed ==
  ASSUME TypeOK
  PROVE  /\ now \in Nat /\ mem \in [Runs -> Memories] /\ Len(snapshots) \in Nat
         /\ NoMemory \in Memories /\ LastStep \in 0..Steps
         /\ \A r \in Runs : attempt[r] \in Nat /\ mem[r] \in Memories /\ mem[r].step \in 0..Steps
<1>1. /\ now \in Nat /\ mem \in [Runs -> Memories]
      /\ \A r \in Runs : attempt[r] \in Nat /\ mem[r] \in Memories
  BY DEF TypeOK
<1>2. \A r \in Runs : mem[r].step \in 0..Steps
  BY <1>1 DEF Memories
<1>3. NoMemory \in Memories
  BY BoundsAssumption DEF NoMemory, Memories, Terminals
<1>4. snapshots \in Seq(SnapshotRows) /\ Len(snapshots) \in Nat
  BY DEF TypeOK
<1>5. LastStep \in 0..Steps
  <2>1. CASE snapshots = <<>>
    BY <2>1, BoundsAssumption DEF LastStep
  <2>2. CASE snapshots # <<>>
    <3>1. Len(snapshots) \in 1..Len(snapshots)
      BY <1>4, <2>2
    <3>2. snapshots[Len(snapshots)] \in SnapshotRows
      <4> HIDE <1>2, <1>3
      <4>1. ASSUME NEW S, NEW q \in Seq(S), NEW i \in 1..Len(q) PROVE q[i] \in S
        OBVIOUS
      <4> QED
        BY <1>4, <3>1, <4>1
    <3> QED
      BY <2>2, <3>2 DEF LastStep, SnapshotRows
  <2> QED
    BY <2>1, <2>2
<1> QED
  BY <1>1, <1>2, <1>3, <1>4, <1>5

(* A process's memory keeps its type. *)
LEMMA MemoryTyped == TypeOK /\ [Next]_vars => mem' \in [Runs -> Memories]
<1> SUFFICES ASSUME TypeOK, [Next]_vars PROVE mem' \in [Runs -> Memories]
  OBVIOUS
<1> USE TypesUsed
<1>1. ASSUME NEW r \in Runs, BeginClaim(r) PROVE mem' \in [Runs -> Memories]
  BY <1>1, MemoryUpdates, Remembering DEF BeginClaim
<1>2. ASSUME NEW r \in Runs, ReadOwner(r) PROVE mem' \in [Runs -> Memories]
  <2>1. CASE LoseClaim(r)
    BY <2>1, Remembering DEF LoseClaim, Answered
  <2>2. CASE ~LoseClaim(r)
    <3>1. PICK n \in {0} \cup {attempt[e] : e \in Rows} :
                Remember(r, [mem[r] EXCEPT !.attempt = n + 1])
      BY <1>2, <2>2 DEF ReadOwner
    <3>2. n + 1 \in Nat
      BY <3>1 DEF Rows
    <3>3. [mem[r] EXCEPT !.attempt = n + 1] \in Memories
      BY <3>2, MemoryUpdates
    <3> QED
      BY <3>1, <3>3, Remembering
  <2> QED
    BY <2>1, <2>2
<1>3. ASSUME NEW r \in Runs, ReadAfterClaim(r) PROVE mem' \in [Runs -> Memories]
  BY <1>3, MemoryUpdates, Remembering DEF ReadAfterClaim
<1>4. ASSUME NEW r \in Runs, InsertSnapshot(r), mem' # mem PROVE mem' \in [Runs -> Memories]
  <2>1. PICK n \in {mem[r].step, mem[r].step + 1} :
              n <= Steps /\ Remember(r, [mem[r] EXCEPT !.step = n])
    BY <1>4 DEF InsertSnapshot
  <2>2. n \in 0..Steps
    BY <2>1, BoundsAssumption
  <2>3. [mem[r] EXCEPT !.step = n] \in Memories
    BY <2>2, MemoryUpdates
  <2> QED
    BY <2>1, <2>3, Remembering
<1>5. ASSUME NEW r \in Runs, CommitSnapshot(r) PROVE mem' \in [Runs -> Memories]
  <2>1. [mem[r] EXCEPT !.base = Len(snapshots) + 1] \in Memories
    <3>1. \A n \in Nat : [mem[r] EXCEPT !.base = n] \in Memories
      BY DEF Memories
    <3> QED
      BY <3>1
  <2> QED
    BY <1>5, <2>1, Remembering DEF CommitSnapshot, Answered
<1>6. ASSUME NEW r \in Runs, FinishRun(r) PROVE mem' \in [Runs -> Memories]
  BY <1>6, MemoryUpdates, Remembering DEF FinishRun
<1>7. ASSUME NEW r \in Runs, InsertClaim(r), mem' # mem PROVE mem' \in [Runs -> Memories]
  BY <1>7, Remembering DEF InsertClaim, LoseClaim, Answered
<1>8. ASSUME NEW r \in Runs,
             CommitClaim(r) \/ RollBackClaim(r) \/ ReleaseFails(r) \/ ReleaseExecution(r)
             \/ FailSnapshot(r)
      PROVE  mem' \in [Runs -> Memories]
  BY <1>8, Remembering
     DEF CommitClaim, RollBackClaim, ReleaseFails, ReleaseExecution, FailSnapshot, Answered
<1>10. ASSUME NEW D \in SUBSET Runs, Killed(D) PROVE mem' \in [Runs -> Memories]
  BY <1>10 DEF Killed
<1>11. CASE UNCHANGED mem
  BY <1>11
<1> QED
  <2>1. ASSUME NEW r \in Runs, Claim(r) \/ Work(r) \/ Failure(r) \/ Heartbeat(r) PROVE mem' \in [Runs -> Memories]
    BY <2>1, <1>1, <1>2, <1>3, <1>4, <1>5, <1>6, <1>7, <1>8, <1>11
     DEF Claim, Work, Failure, Heartbeat, ReadBeforeClaim, AbandonExpired, CancelRun, RenewLease, RenewFails
  <2>2. ASSUME NEW s \in Stops, StopStep(s) PROVE mem' \in [Runs -> Memories]
    BY <2>2, <1>10, <1>11 DEF StopStep, runVars, StopTarget, StopRuntimeSession, Alive, ReadSnapshotForStop,
         PickLatest, LockExecution, SettleExecution
  <2> QED
    BY <2>1, <2>2, <1>10, <1>11 DEF Next, Die, Alive, Tick, vars, runVars

(* The positions of the runs, and the orphaned transactions, keep their types. *)
LEMMA PositionsTyped ==
  TypeOK /\ [Next]_vars =>
    /\ pc' \in [Runs -> Labels]
    /\ orphans' \subseteq {r \in Runs : pc'[r] \in InTransaction}
<1> SUFFICES ASSUME TypeOK, [Next]_vars
             PROVE  /\ pc' \in [Runs -> Labels]
                    /\ orphans' \subseteq {r \in Runs : pc'[r] \in InTransaction}
  OBVIOUS
<1> DEFINE Positions(f, o) == f \in [Runs -> Labels] /\ o \subseteq {r \in Runs : f[r] \in InTransaction}
<1>a. Positions(pc, orphans)
  BY DEF TypeOK
<1>b. InTransaction \subseteq Labels /\ {"begin", "done", "claimed", "work", "closing"} \subseteq Labels
      /\ {"start", "begin", "claimed", "work", "done"} \cap InTransaction = {}
      /\ {"abandon", "owner", "insert", "commit", "writing", "closing"} = InTransaction
  BY DEF InTransaction, Labels, InClaim, Working
<1>c. ASSUME NEW r \in Runs, NEW l \in Labels, Goto(r, l), orphans' = orphans,
             l \in InTransaction \/ pc[r] \notin InTransaction \/ r \notin orphans
      PROVE  Positions(pc', orphans')
  BY <1>a, <1>c DEF Goto
<1>d. ASSUME NEW r \in Runs, NEW l \in Labels, NEW m, Answered(r, l, m)
      PROVE  Positions(pc', orphans')
  <2>1. PICK k \in Labels : pc' = [pc EXCEPT ![r] = k]
    BY <1>b, <1>d DEF Answered
  <2>2. orphans' = orphans \ {r}
    BY <1>d DEF Answered
  <2> QED
    BY <1>a, <2>1, <2>2
<1>e. ASSUME NEW D \in SUBSET Runs, Killed(D) PROVE Positions(pc', orphans')
  <2>1. pc' \in [Runs -> Labels]
    BY <1>a, <1>b, <1>e DEF Killed
  <2>2. ASSUME NEW r \in orphans' PROVE r \in Runs /\ pc'[r] \in InTransaction
    <3>1. r \in Runs /\ pc[r] \in InTransaction
      BY <1>a, <1>e DEF Killed
    <3> QED
      BY <1>e, <3>1 DEF Killed
  <2> QED
    BY <2>1, <2>2
<1>f. ASSUME pc' = pc, orphans' = orphans PROVE Positions(pc', orphans')
  BY <1>a, <1>f
<1> HIDE DEF Positions
<1>1. ASSUME NEW r \in Runs, Claim(r) PROVE Positions(pc', orphans')
  <2>1. CASE ReadBeforeClaim(r)
    <3>1. \E l \in {"begin", "done"} : Goto(r, l)
      BY <2>1 DEF ReadBeforeClaim
    <3> QED
      BY <2>1, <3>1, <1>b, <1>c DEF ReadBeforeClaim
  <2>2. CASE BeginClaim(r) \/ AbandonExpired(r)
    BY <2>2, <1>b, <1>c DEF BeginClaim, AbandonExpired
  <2>3. CASE ReadOwner(r) \/ InsertClaim(r)
    BY <2>3, <1>b, <1>c, <1>d DEF ReadOwner, InsertClaim, LoseClaim
  <2>4. CASE CommitClaim(r)
    BY <2>4, <1>b, <1>d DEF CommitClaim
  <2> QED
    BY <1>1, <2>1, <2>2, <2>3, <2>4 DEF Claim
<1>2. ASSUME NEW r \in Runs, Work(r) PROVE Positions(pc', orphans')
  <2>1. CASE ReadAfterClaim(r)
    <3>1. \E l \in {"closing", "work"} : Goto(r, l)
      BY <2>1 DEF ReadAfterClaim
    <3> QED
      BY <2>1, <3>1, <1>b, <1>c DEF ReadAfterClaim
  <2>2. CASE InsertSnapshot(r) \/ FinishRun(r) \/ CancelRun(r)
    BY <2>2, <1>b, <1>c DEF InsertSnapshot, FinishRun, CancelRun
  <2>3. CASE CommitSnapshot(r) \/ ReleaseExecution(r)
    BY <2>3, <1>b, <1>d DEF CommitSnapshot, ReleaseExecution
  <2> QED
    BY <1>2, <2>1, <2>2, <2>3 DEF Work
<1>3. ASSUME NEW r \in Runs, Failure(r) PROVE Positions(pc', orphans')
  BY <1>3, <1>b, <1>d DEF Failure, RollBackClaim, FailSnapshot, ReleaseFails
<1>4. ASSUME NEW r \in Runs, Heartbeat(r) \/ Die(r) PROVE Positions(pc', orphans')
  BY <1>4, <1>e, <1>f DEF Heartbeat, RenewLease, RenewFails, Die, Alive
<1>5. ASSUME NEW s \in Stops, StopStep(s) PROVE Positions(pc', orphans')
  BY <1>5, <1>e, <1>f DEF StopStep, runVars, StopTarget, StopRuntimeSession, Alive, ReadSnapshotForStop,
         PickLatest, LockExecution, SettleExecution
<1>6. ASSUME Tick PROVE Positions(pc', orphans')
  BY <1>6, <1>f DEF Tick, rowVars, runVars, stopVars
<1>7. ASSUME UNCHANGED vars PROVE Positions(pc', orphans')
  BY <1>7, <1>f DEF vars, rowVars, runVars, stopVars
<1>8. Positions(pc', orphans')
  BY <1>1, <1>2, <1>3, <1>4, <1>5, <1>6, <1>7 DEF Next
<1> QED
  BY <1>8 DEF Positions

(* The columns of the tables, and the rows that claims abandon, keep their types. *)
LEMMA ColumnsTyped ==
  TypeOK /\ [Next]_vars =>
    /\ now' \in Nat /\ status' \in [Runs -> Statuses] /\ attempt' \in [Runs -> Nat]
    /\ lease' \in [Runs -> Nat] /\ started' \in [Runs -> Nat]
    /\ journey' \in Terminals \cup {"active", "running"}
    /\ target' \in [Runs -> Runs \cup {None}]
<1> DEFINE Columns == /\ now \in Nat /\ status \in [Runs -> Statuses] /\ attempt \in [Runs -> Nat]
                      /\ lease \in [Runs -> Nat] /\ started \in [Runs -> Nat]
                      /\ journey \in Terminals \cup {"active", "running"}
                      /\ target \in [Runs -> Runs \cup {None}]
<1> SUFFICES ASSUME TypeOK, [Next]_vars PROVE Columns'
  OBVIOUS
<1>a. Columns /\ mem \in [Runs -> Memories] /\ picked \in [Stops -> Runs \cup {None}]
      /\ Len(stops) \in Nat
  BY DEF TypeOK
<1>b. \A r \in Runs : mem[r].ts \in Nat /\ mem[r].attempt \in Nat /\ mem[r].terminal \in Terminals
  BY <1>a DEF Memories
<1>c. {"running", "abandoned", "succeeded"} \subseteq Statuses /\ Terminals \subseteq Statuses
  BY DEF Statuses, Terminals
<1>d. ASSUME NEW r \in Runs PROVE Abandoning(r) \in [Runs -> Statuses]
  BY <1>a, <1>c DEF Abandoning
<1>1. ASSUME NEW r \in Runs, Claim(r) PROVE Columns'
  <2>1. ASSUME ReadBeforeClaim(r) \/ BeginClaim(r) \/ AbandonExpired(r) PROVE Columns'
    BY <2>1, <1>a DEF ReadBeforeClaim, BeginClaim, AbandonExpired, rowVars
  <2>2. ASSUME ReadOwner(r) \/ InsertClaim(r) PROVE Columns'
    BY <2>2, <1>a, <1>d DEF ReadOwner, InsertClaim, LoseClaim, rowVars
  <2>3. ASSUME CommitClaim(r) PROVE Columns'
    BY <2>3, <1>a, <1>b, <1>c, <1>d, BoundsAssumption DEF CommitClaim
  <2> QED
    BY <1>1, <2>1, <2>2, <2>3 DEF Claim
<1>2. ASSUME NEW r \in Runs, Work(r) PROVE Columns'
  <2>1. ASSUME ReleaseExecution(r) PROVE Columns'
    <3>1. CASE status[r] = "running"
      <4>1. mem[r].terminal \in Statuses /\ mem[r].terminal \in Terminals
        BY <1>b, <1>c
      <4>a. PICK k \in Statuses : /\ status' = [status EXCEPT ![r] = k]
                                   /\ lease' = [lease EXCEPT ![r] = 0]
        BY <2>1, <3>1, <4>1 DEF ReleaseExecution
      <4>2. status' \in [Runs -> Statuses] /\ lease' \in [Runs -> Nat]
        BY <4>a, <1>a
      <4>3. journey' \in Terminals \cup {"active", "running"}
        BY <2>1, <3>1, <4>1, <1>a DEF ReleaseExecution
      <4> QED
        BY <2>1, <4>2, <4>3, <1>a DEF ReleaseExecution
    <3>2. CASE status[r] # "running"
      BY <2>1, <3>2, <1>a DEF ReleaseExecution
    <3> QED
      BY <3>1, <3>2
  <2>2. ASSUME ~ReleaseExecution(r) PROVE Columns'
    BY <2>2, <1>2, <1>a DEF Work, ReadAfterClaim, InsertSnapshot, CommitSnapshot, FinishRun, CancelRun, rowVars
  <2> QED
    BY <2>1, <2>2
<1>3. ASSUME NEW r \in Runs, Failure(r) \/ Die(r) PROVE Columns'
  BY <1>3, <1>a DEF Failure, RollBackClaim, FailSnapshot, ReleaseFails, Die, rowVars
<1>4. ASSUME NEW r \in Runs, Heartbeat(r) PROVE Columns'
  <2>1. ASSUME NEW t \in 0..now, lease' = [lease EXCEPT ![r] = t + LeaseTicks]
        PROVE  lease' \in [Runs -> Nat]
    <3>1. t + LeaseTicks \in Nat
      BY <1>a, BoundsAssumption
    <3> QED
      BY <2>1, <3>1, <1>a
  <2>2. lease' \in [Runs -> Nat]
    BY <2>1, <1>4, <1>a DEF Heartbeat, RenewLease, RenewFails, rowVars
  <2> QED
    BY <2>2, <1>4, <1>a DEF Heartbeat, RenewLease, RenewFails, rowVars
<1>5. ASSUME NEW s \in Stops, StopStep(s) PROVE Columns'
  <2>1. ASSUME SettleExecution(s) PROVE Columns'
    <3>1. PICK k \in Statuses : status' = status \/ status' = [status EXCEPT ![picked[s]] = k]
      BY <2>1, <1>c DEF SettleExecution
    <3>2. status' \in [Runs -> Statuses]
      BY <3>1, <1>a
    <3>3. lease' \in [Runs -> Nat]
      BY <2>1, <1>a DEF SettleExecution
    <3> QED
      BY <2>1, <3>2, <3>3, <1>a DEF SettleExecution, runVars
  <2>2. ASSUME ~SettleExecution(s) PROVE Columns'
    BY <1>5, <2>2, <1>a DEF StopStep, StopTarget, StopRuntimeSession, ReadSnapshotForStop,
       PickLatest, LockExecution, runVars, rowVars
  <2> QED
    BY <2>1, <2>2
<1>6. ASSUME Tick PROVE Columns'
  BY <1>6, <1>a DEF Tick, rowVars, runVars
<1>7. ASSUME UNCHANGED vars PROVE Columns'
  BY <1>7, <1>a DEF vars, rowVars, runVars
<1> HIDE DEF Columns
<1> QED
  BY <1>1, <1>2, <1>3, <1>4, <1>5, <1>6, <1>7 DEF Next

(* The logs keep their types. *)
LEMMA LogsTyped ==
  TypeOK /\ [Next]_vars => snapshots' \in Seq(SnapshotRows) /\ stops' \in Seq(StopRows)
<1> DEFINE Logs == snapshots \in Seq(SnapshotRows) /\ stops \in Seq(StopRows)
<1> SUFFICES ASSUME TypeOK, [Next]_vars PROVE Logs'
  OBVIOUS
<1>a. Logs
  BY DEF TypeOK
<1>1. ASSUME NEW r \in Runs, CommitSnapshot(r) PROVE Logs'
  <2>1. [by |-> r, base |-> mem[r].base, step |-> mem[r].step] \in SnapshotRows
    BY DEF TypeOK, SnapshotRows, Memories
  <2> QED
    BY <1>1, <1>a, <2>1 DEF CommitSnapshot
<1>2. ASSUME NEW s \in Stops, SettleExecution(s), picked[s] \in Runs PROVE Logs'
  <2>1. During(s) \in {"running", "finished", "waiting"}
    BY DEF During
  <2>2. [exec |-> picked[s], during |-> During(s)] \in StopRows
    BY <1>2, <2>1 DEF StopRows
  <2> QED
    BY <1>2, <1>a, <2>2 DEF SettleExecution
<1>3. ASSUME UNCHANGED <<snapshots, stops>> PROVE Logs'
  BY <1>3, <1>a
<1> HIDE DEF Logs
<1>4. ASSUME NEW r \in Runs, Claim(r) \/ Work(r) \/ Failure(r) \/ Heartbeat(r) \/ Die(r) PROVE Logs'
  BY <1>4, <1>1, <1>3
     DEF Claim, ReadBeforeClaim, BeginClaim, AbandonExpired, ReadOwner, InsertClaim, CommitClaim,
         Work, ReadAfterClaim, InsertSnapshot, FinishRun, CancelRun, ReleaseExecution,
         Failure, RollBackClaim, FailSnapshot, ReleaseFails, Heartbeat, RenewLease, RenewFails, Die
<1>5. ASSUME NEW s \in Stops, StopStep(s) PROVE Logs'
  <2>1. SettleExecution(s) => picked[s] \in Runs
    BY DEF SettleExecution, TypeOK
  <2> QED
    BY <1>5, <2>1, <1>2, <1>3
       DEF StopStep, StopTarget, StopRuntimeSession, ReadSnapshotForStop, PickLatest, LockExecution
<1>6. ASSUME Tick \/ UNCHANGED vars PROVE Logs'
  BY <1>6, <1>3 DEF Tick, vars
<1> QED
  BY <1>4, <1>5, <1>6 DEF Next

(* Requests, heartbeats and the stop requests keep their types. *)
LEMMA RequestsTyped ==
  TypeOK /\ [Next]_vars =>
    /\ resume' \in [Runs -> BOOLEAN] /\ pulse' \in [Runs -> {"off", "beat", "lost"}]
    /\ spc' \in [Stops -> {"idle", "kill", "read", "pick", "lock", "settle", "done", "refused"}]
    /\ seen' \in [Stops -> BOOLEAN] /\ picked' \in [Stops -> Runs \cup {None}]
    /\ \A s \in Stops : spc'[s] \in {"lock", "settle"} => picked'[s] \in Runs
<1> DEFINE Requests ==
      /\ resume \in [Runs -> BOOLEAN] /\ pulse \in [Runs -> {"off", "beat", "lost"}]
      /\ spc \in [Stops -> {"idle", "kill", "read", "pick", "lock", "settle", "done", "refused"}]
      /\ seen \in [Stops -> BOOLEAN] /\ picked \in [Stops -> Runs \cup {None}]
      /\ \A s \in Stops : spc[s] \in {"lock", "settle"} => picked[s] \in Runs
<1> SUFFICES ASSUME TypeOK, [Next]_vars PROVE Requests'
  OBVIOUS
<1>a. Requests
  BY DEF TypeOK
<1>1. ASSUME NEW r \in Runs, UNCHANGED <<resume, stopVars>>,
             NEW k \in {"off", "beat", "lost"},
             pulse' = pulse \/ pulse' = [pulse EXCEPT ![r] = k]
      PROVE  Requests'
  BY <1>1, <1>a DEF stopVars
<1>2. ASSUME UNCHANGED <<resume, pulse, stopVars>> PROVE Requests'
  BY <1>2, <1>a DEF stopVars
<1>3. ASSUME NEW s \in Stops, StopStep(s) PROVE Requests'
  BY <1>3, <1>a DEF StopStep, StopTarget, StopRuntimeSession, ReadSnapshotForStop, PickLatest,
                    LockExecution, SettleExecution, StopStepTo, runVars, Completed
<1> HIDE DEF Requests
<1>4. ASSUME NEW r \in Runs, Claim(r) PROVE Requests'
  BY <1>4, <1>1, <1>2
     DEF Claim, ReadBeforeClaim, BeginClaim, AbandonExpired, ReadOwner, InsertClaim, CommitClaim
<1>5. ASSUME NEW r \in Runs, Work(r) \/ Failure(r) \/ Die(r) PROVE Requests'
  BY <1>5, <1>1, <1>2
     DEF Work, ReadAfterClaim, InsertSnapshot, CommitSnapshot, FinishRun, CancelRun,
         ReleaseExecution, Failure, RollBackClaim, FailSnapshot, ReleaseFails, Die
<1>6. ASSUME NEW r \in Runs, Heartbeat(r) PROVE Requests'
  BY <1>6, <1>1, <1>2 DEF Heartbeat, RenewLease, RenewFails, Beats
<1>7. ASSUME Tick PROVE Requests'
  BY <1>7, <1>2 DEF Tick, runVars
<1>8. ASSUME UNCHANGED vars PROVE Requests'
  BY <1>8, <1>2 DEF vars, runVars
<1> QED
  BY <1>3, <1>4, <1>5, <1>6, <1>7, <1>8 DEF Next

(* Every step keeps every variable in its type. *)
LEMMA TypeStep == TypeOK /\ [Next]_vars => TypeOK'
<1> SUFFICES ASSUME TypeOK, [Next]_vars PROVE TypeOK'
  OBVIOUS
<1> QED
  BY MemoryTyped, PositionsTyped, ColumnsTyped, LogsTyped, RequestsTyped DEF TypeOK

-----------------------------------------------------------------------------
(* Claims and takeovers: one execution runs, and a row is abandoned by one claim. *)

Claims == OneRunning /\ TakeoversExclusive /\ InsertAlone /\ RowsFollowRuns
Unclaimed == {"abandon", "owner", "insert", "commit", "start", "begin"}

(* A step that changes no row and takes none over keeps the claims in order. *)
LEMMA QuietStep ==
  ASSUME Claims, UNCHANGED <<status, target>>,
         \A q \in Runs : pc'[q] # pc[q] =>
            /\ pc'[q] \notin {"commit", "writing"}
            /\ target[q] # None => pc'[q] \in {"owner", "insert"}
            /\ pc'[q] \in Unclaimed => pc[q] \in Unclaimed
  PROVE  Claims'
  BY DEF Claims, OneRunning, TakeoversExclusive, InsertAlone, RowsFollowRuns, Owners,
         InClaim, Unclaimed

(* LoseClaim, which a consistent table allows only to a claim that abandons nothing. *)
LEMMA LoseClaimStep ==
  ASSUME TypeOK, Claims, NEW r \in Runs, pc[r] \in {"owner", "insert"}, LoseClaim(r)
  PROVE  Claims'
<1>1. target[r] = None
  BY DEF LoseClaim, LiveOwner, Claims, OneRunning, TakeoversExclusive, Owners
<1>2. status' = status
  BY <1>1, RunsAssumption DEF LoseClaim, Abandoning, TypeOK
<1>3. target' = target
  BY <1>1 DEF LoseClaim, TypeOK
<1>4. \A q \in Runs : pc'[q] # pc[q] => q = r /\ pc'[q] = "done"
  BY DEF LoseClaim, Answered, TypeOK
<1> QED
  BY <1>1, <1>2, <1>3, <1>4, QuietStep DEF Unclaimed

(* A claim's statements keep the claims in order. *)
LEMMA ClaimKeepsClaims ==
  ASSUME TypeOK, Claims, NEW r \in Runs, Claim(r) \/ RollBackClaim(r) PROVE Claims'
<1>a. /\ status \in [Runs -> Statuses] /\ pc \in [Runs -> Labels]
      /\ target \in [Runs -> Runs \cup {None}]
  BY DEF TypeOK
<1>b. target[r] # None => pc[r] \in {"owner", "insert", "commit"}
  BY DEF Claims, TakeoversExclusive
<1>1. ASSUME ReadBeforeClaim(r) \/ BeginClaim(r) PROVE Claims'
  <2>1. \A q \in Runs : pc'[q] # pc[q] =>
            q = r /\ pc[q] \in {"start", "begin"} /\ pc'[q] \in {"done", "begin", "abandon"}
    BY <1>1, <1>a DEF ReadBeforeClaim, BeginClaim, Goto
  <2>2. UNCHANGED <<status, target>>
    BY <1>1 DEF ReadBeforeClaim, BeginClaim, rowVars
  <2> QED
    BY <1>b, <2>1, <2>2, QuietStep DEF Unclaimed
<1>2. ASSUME AbandonExpired(r) PROVE Claims'
  <2>1. pc' = [pc EXCEPT ![r] = "owner"] /\ pc[r] = "abandon" /\ status' = status
    BY <1>2 DEF AbandonExpired, Goto, rowVars
  <2>2. CASE target' = target
    BY <1>a, <1>b, <2>1, <2>2, QuietStep DEF Unclaimed
  <2>3. CASE target' # target
    <3>1. PICK e \in Runs : /\ Expired(e, r) /\ ~Locked(e)
                            /\ target' = [target EXCEPT ![r] = e]
      BY <1>2, <2>3 DEF AbandonExpired
    <3>2. status[e] = "running" /\ pc[e] # "writing" /\ \A q \in Runs : target[q] # e
      BY <3>1 DEF Expired, Locked, LockedForUpdate, BeingAbandoned
    <3>3. \A q \in Runs : pc[q] # "commit"
      BY <3>2, RunsAssumption DEF Claims, InsertAlone, Owners
    <3> QED
      BY <1>a, <1>b, <2>1, <3>1, <3>2, <3>3, RunsAssumption
         DEF Claims, OneRunning, TakeoversExclusive, InsertAlone, RowsFollowRuns, Owners, InClaim
  <2> QED
    BY <2>2, <2>3
<1>3. ASSUME ReadOwner(r) PROVE Claims'
  <2>1. CASE LoseClaim(r)
    BY <1>3, <2>1, LoseClaimStep DEF ReadOwner
  <2>2. CASE ~LoseClaim(r)
    <3>1. pc' = [pc EXCEPT ![r] = "insert"] /\ pc[r] = "owner" /\ UNCHANGED <<status, target>>
      BY <1>3, <2>2 DEF ReadOwner, Goto
    <3> QED
      BY <1>a, <3>1, QuietStep DEF Unclaimed
  <2> QED
    BY <2>1, <2>2
<1>4. ASSUME InsertClaim(r) PROVE Claims'
  <2>1. CASE LoseClaim(r)
    BY <1>4, <2>1, LoseClaimStep DEF InsertClaim
  <2>2. CASE ~LoseClaim(r)
    <3>1. /\ pc' = [pc EXCEPT ![r] = "commit"] /\ pc[r] = "insert" /\ UNCHANGED <<status, target>>
          /\ ~LiveOwner(r) /\ ~InsertWaits(r)
      BY <1>4, <2>2 DEF InsertClaim, Goto
    <3> QED
      BY <1>a, <3>1
         DEF LiveOwner, InsertWaits, Claims, OneRunning, TakeoversExclusive, InsertAlone,
             RowsFollowRuns, Owners, InClaim
  <2> QED
    BY <2>1, <2>2
<1>5. ASSUME CommitClaim(r) PROVE Claims'
  <2>1. /\ pc[r] = "commit" /\ target' = [target EXCEPT ![r] = None]
        /\ \A q \in Runs : status'[q] = IF q = r THEN "running"
                                        ELSE IF q = target[r] THEN "abandoned" ELSE status[q]
        /\ \A q \in Runs \ {r} : pc'[q] = pc[q]
        /\ pc'[r] \in {"claimed", "done"}
    BY <1>5, <1>a DEF CommitClaim, Abandoning, Answered
  <2>2. /\ Owners \subseteq {target[r]}
        /\ \A q \in Runs \ {r} : pc[q] # "commit" /\ target[q] = None
        /\ target[r] # None => pc[target[r]] # "writing"
    BY <2>1 DEF Claims, InsertAlone, TakeoversExclusive
  <2>3. \A q \in Runs : status'[q] = "running" <=> q = r
    BY <2>1, <2>2 DEF Owners
  <2>4. \A q \in Runs : target'[q] = None /\ pc'[q] # "commit"
    BY <1>a, <2>1, <2>2
  <2>5. RowsFollowRuns'
    <3>1. \A q \in Runs \ {r} : /\ pc[q] \in InClaim \cup {"start", "begin"} => status[q] = "none"
                                /\ pc[q] = "writing" => status[q] = "running"
      BY DEF Claims, RowsFollowRuns
    <3>2. \A q \in Runs \ {r} : status[q] = "running" => q = target[r]
      BY <2>2 DEF Owners
    <3>3. \A q \in Runs \ {r} : q = target[r] => pc[q] # "writing" /\ status[q] = "running"
      BY <2>1, RunsAssumption DEF Claims, TakeoversExclusive, Owners
    <3> QED
      BY <2>1, <3>1, <3>2, <3>3 DEF RowsFollowRuns, InClaim
  <2> QED
    BY <2>3, <2>4, <2>5 DEF Claims, OneRunning, TakeoversExclusive, InsertAlone, Owners
<1>6. ASSUME RollBackClaim(r) PROVE Claims'
  <2>1. /\ pc[r] \in InClaim /\ target' = [target EXCEPT ![r] = None] /\ status' = status
        /\ pc' = [pc EXCEPT ![r] = "done"]
    BY <1>6 DEF RollBackClaim, Answered, rowVars
  <2> QED
    BY <1>a, <2>1
       DEF Claims, OneRunning, TakeoversExclusive, InsertAlone, RowsFollowRuns, Owners, InClaim
<1> QED
  BY <1>1, <1>2, <1>3, <1>4, <1>5, <1>6 DEF Claim

(* A run's work, its heartbeat and the stops keep the claims in order. *)
LEMMA OthersKeepClaims ==
  ASSUME TypeOK, Claims, StopsExclusive, Next, \A r \in Runs : ~(Claim(r) \/ RollBackClaim(r))
  PROVE  Claims'
<1>a. /\ status \in [Runs -> Statuses] /\ pc \in [Runs -> Labels]
      /\ target \in [Runs -> Runs \cup {None}]
      /\ \A r \in Runs : target[r] # None => pc[r] \in {"owner", "insert", "commit"}
  BY DEF TypeOK, Claims, TakeoversExclusive
<1>1. ASSUME NEW r \in Runs, UNCHANGED <<status, target>>,
             \A q \in Runs : pc'[q] # pc[q] =>
                /\ q = r /\ pc[q] \in {"claimed", "work", "writing", "closing"}
                /\ pc'[q] \in {"work", "closing", "done"}
      PROVE  Claims'
  BY <1>a, <1>1, QuietStep DEF Unclaimed
<1>2. ASSUME NEW r \in Runs, ReadAfterClaim(r) \/ CommitSnapshot(r) \/ FinishRun(r) \/ CancelRun(r)
                             \/ FailSnapshot(r) \/ ReleaseFails(r)
      PROVE  Claims'
  <2>1. UNCHANGED <<status, target>>
    BY <1>2 DEF ReadAfterClaim, CommitSnapshot, FinishRun, CancelRun, FailSnapshot,
                ReleaseFails, rowVars
  <2>2. \A q \in Runs : pc'[q] # pc[q] =>
                /\ q = r /\ pc[q] \in {"claimed", "work", "writing", "closing"}
                /\ pc'[q] \in {"work", "closing", "done"}
    BY <1>2, <1>a DEF ReadAfterClaim, CommitSnapshot, FinishRun, CancelRun, FailSnapshot,
                ReleaseFails, Goto, Answered
  <2> QED
    BY <1>1, <2>1, <2>2
<1>3. ASSUME NEW r \in Runs, InsertSnapshot(r) PROVE Claims'
  <2>1. /\ UNCHANGED <<status, target>> /\ pc[r] = "work" /\ \A q \in Runs : target[q] # r
        /\ \/ status[r] = "running" /\ pc' = [pc EXCEPT ![r] = "writing"]
           \/ pc' = [pc EXCEPT ![r] = "closing"]
    BY <1>3 DEF InsertSnapshot, rowVars, Goto, HoldsLease, LockedForUpdate, BeingAbandoned
  <2> QED
    BY <1>a, <2>1 DEF Claims, OneRunning, TakeoversExclusive, InsertAlone, RowsFollowRuns, Owners,
                      InClaim
<1>4. ASSUME NEW e \in Runs, target' = target, \A q \in Runs : target[q] # e,
             \A q \in Runs \ {e} : status'[q] = status[q],
             status[e] # "none" => status'[e] \notin {"none", "running"},
             status[e] = "none" => status'[e] = "none",
             pc[e] \in {"writing", "closing"} => pc'[e] \notin {"writing", "commit"} \cup Unclaimed,
             \A q \in Runs : pc'[q] # pc[q] => q = e /\ pc[q] = "closing",
             pc[e] # "writing"
      PROVE  Claims'
  BY <1>a, <1>4 DEF Claims, OneRunning, TakeoversExclusive, InsertAlone, RowsFollowRuns, Owners,
                    InClaim, Unclaimed
<1>5. ASSUME NEW r \in Runs, ReleaseExecution(r) PROVE Claims'
  <2>1. /\ pc[r] = "closing" /\ target' = target /\ \A q \in Runs : target[q] # r
        /\ pc' = [pc EXCEPT ![r] = "done"]
    BY <1>5 DEF ReleaseExecution, Answered, LockedForUpdate, BeingAbandoned
  <2>2. mem[r].terminal \notin {"none", "running"}
    BY DEF TypeOK, Memories, Terminals
  <2>3. /\ \A q \in Runs \ {r} : status'[q] = status[q]
        /\ status[r] # "none" => status'[r] \notin {"none", "running"}
        /\ status[r] = "none" => status'[r] = "none"
    BY <1>5, <1>a, <2>2 DEF ReleaseExecution
  <2> QED
    BY <1>4, <1>a, <2>1, <2>3 DEF Unclaimed
<1>6. ASSUME NEW s \in Stops, SettleExecution(s) PROVE Claims'
  <2> DEFINE e == picked[s]
  <2>1. e \in Runs /\ status[e] # "none" /\ pc[e] # "writing" /\ \A q \in Runs : target[q] # e
    BY <1>6 DEF SettleExecution, StopsExclusive, Rows
  <2>2. UNCHANGED <<pc, target>>
    BY <1>6 DEF SettleExecution, runVars
  <2>3. \A q \in Runs \ {e} : status'[q] = status[q]
    BY <1>6, <1>a DEF SettleExecution
  <2>4. status'[e] \notin {"none", "running"}
    BY <1>6, <1>a, <2>1 DEF SettleExecution
  <2> HIDE DEF e
  <2> QED
    BY <1>4, <2>1, <2>2, <2>3, <2>4 DEF Unclaimed
<1>7. ASSUME NEW D \in SUBSET Alive, Killed(D), UNCHANGED <<status, target>> PROVE Claims'
  <2>1. \A q \in Runs : pc'[q] # pc[q] => pc'[q] = "done" /\ pc[q] \notin InTransaction
    BY <1>7, <1>a DEF Killed, Alive
  <2> QED
    BY <1>a, <1>7, <2>1, QuietStep DEF Unclaimed, InTransaction, InClaim
<1>8. ASSUME UNCHANGED <<pc, status, target>> PROVE Claims'
  BY <1>8, QuietStep
<1>9. ASSUME NEW r \in Runs, Heartbeat(r) \/ Die(r) PROVE Claims'
  <2>1. CASE Heartbeat(r)
    BY <2>1, <1>8 DEF Heartbeat, RenewLease, RenewFails, rowVars
  <2>2. CASE Die(r)
    BY <2>2, <1>7 DEF Die, rowVars
  <2> QED
    BY <1>9, <2>1, <2>2
<1>10. ASSUME NEW s \in Stops, StopStep(s) PROVE Claims'
  <2>1. CASE StopRuntimeSession(s)
    BY <2>1, <1>7, <1>8 DEF StopRuntimeSession, rowVars
  <2>2. CASE StopTarget(s) \/ ReadSnapshotForStop(s) \/ PickLatest(s) \/ LockExecution(s)
    BY <2>2, <1>8 DEF StopTarget, ReadSnapshotForStop, PickLatest, LockExecution, rowVars, runVars
  <2> QED
    BY <1>10, <1>6, <2>1, <2>2 DEF StopStep
<1>11. ASSUME Tick PROVE Claims'
  BY <1>11, <1>8 DEF Tick, rowVars, runVars
<1> QED
  BY <1>2, <1>3, <1>5, <1>9, <1>10, <1>11 DEF Next, Work, Failure

(* One execution runs, whatever claims, takeovers, releases and stops interleave. *)
LEMMA ClaimsStep == TypeOK /\ Claims /\ StopsExclusive /\ [Next]_vars => Claims'
<1>1. ASSUME Claims, UNCHANGED vars PROVE Claims'
  BY <1>1, QuietStep DEF vars, rowVars, runVars
<1> QED
  BY <1>1, ClaimKeepsClaims, OthersKeepClaims

-----------------------------------------------------------------------------
(* Snapshots: the running execution works on the newest one. *)

Snapshots == MemoryFresh /\ LinearHistory /\ ProgressKept

(* A step that appends no snapshot keeps the history, and what it lets run is fresh. *)
LEMMA QuietSnapshots ==
  ASSUME Snapshots, snapshots' = snapshots,
         \A q \in Runs : status'[q] = "running" /\ pc'[q] \in {"work", "writing"} =>
            status[q] = "running" /\ pc'[q] = pc[q] /\ mem'[q] = mem[q]
  PROVE  Snapshots'
  BY DEF Snapshots, MemoryFresh, LinearHistory, ProgressKept, Owners, LastStep

(* A snapshot extends the newest one, and no other process works on the running row. *)
LEMMA CommitKeepsSnapshots ==
  ASSUME TypeOK, Claims, Snapshots, NEW r \in Runs, CommitSnapshot(r) PROVE Snapshots'
<1> DEFINE n == Len(snapshots)
           new == [by |-> r, base |-> mem[r].base, step |-> mem[r].step]
<1>a. /\ snapshots \in Seq(SnapshotRows) /\ n \in Nat /\ new \in SnapshotRows
      /\ mem[r].step \in 0..Steps /\ LastStep \in 0..Steps
  BY TypesUsed DEF TypeOK, SnapshotRows, Memories
<1>1. status[r] = "running" /\ \A q \in Runs : status[q] = "running" => q = r
  BY DEF CommitSnapshot, Claims, RowsFollowRuns, OneRunning, Owners
<1>2. mem[r].base = n /\ mem[r].step \in {LastStep, LastStep + 1}
  BY <1>1 DEF CommitSnapshot, Snapshots, MemoryFresh, Owners
<1>3. snapshots' = Append(snapshots, new)
  BY DEF CommitSnapshot
<1>4. /\ Len(snapshots') = n + 1 /\ snapshots'[n + 1] = new
      /\ \A i \in 1..n : snapshots'[i] = snapshots[i]
  BY <1>a, <1>3
<1> HIDE DEF n, new
<1>5. LinearHistory'
  BY <1>a, <1>2, <1>4 DEF LinearHistory, Snapshots, n, new
<1>6. LastStep' = mem[r].step
  BY <1>a, <1>4 DEF LastStep, new
<1>7. ProgressKept'
  BY <1>a, <1>2, <1>4 DEF ProgressKept, Snapshots, n, new, LastStep
<1>8. MemoryFresh'
  <2>1. status' = status /\ \A q \in Owners' : q = r
    BY <1>1 DEF CommitSnapshot, rowVars, Owners
  <2>2. \/ pc'[r] \in {"done", "closing"}
        \/ pc'[r] = "work" /\ mem'[r] = [mem[r] EXCEPT !.base = n + 1]
    BY DEF CommitSnapshot, Answered, Remember, TypeOK, n
  <2>3. mem[r] \in Memories
    BY DEF TypeOK
  <2>4. pc'[r] = "work" => mem'[r].base = n + 1 /\ mem'[r].step = mem[r].step
    BY <2>2, <2>3 DEF Memories
  <2> QED
    BY <1>4, <1>6, <2>1, <2>2, <2>4 DEF MemoryFresh
<1> QED
  BY <1>5, <1>7, <1>8 DEF Snapshots

(* Every other step is quiet, except the read after the claim and the insert. *)
LEMMA SnapshotsStep == TypeOK /\ Claims /\ Snapshots /\ [Next]_vars => Snapshots'
<1> SUFFICES ASSUME TypeOK, Claims, Snapshots, [Next]_vars PROVE Snapshots'
  OBVIOUS
<1>a. /\ status \in [Runs -> Statuses] /\ pc \in [Runs -> Labels]
      /\ target \in [Runs -> Runs \cup {None}] /\ mem \in [Runs -> Memories]
  BY DEF TypeOK
<1>1. ASSUME NEW r \in Runs, ReadAfterClaim(r) PROVE Snapshots'
  <2>1. mem' = [mem EXCEPT ![r] = [mem[r] EXCEPT !.base = Len(snapshots), !.step = LastStep]]
    BY <1>1 DEF ReadAfterClaim, Remember
  <2>2. mem[r] \in Memories
    BY <1>a
  <2>3. mem'[r].base = Len(snapshots) /\ mem'[r].step = LastStep
    BY <1>a, <2>1, <2>2 DEF Memories
  <2>4. /\ UNCHANGED <<snapshots, status>> /\ pc'[r] \in {"closing", "work"}
        /\ \A q \in Runs \ {r} : pc'[q] = pc[q] /\ mem'[q] = mem[q]
    BY <1>1, <1>a, <2>1 DEF ReadAfterClaim, Goto, rowVars
  <2>5. MemoryFresh'
    BY <2>3, <2>4 DEF Snapshots, MemoryFresh, Owners, LastStep
  <2> QED
    BY <2>4, <2>5 DEF Snapshots, LinearHistory, ProgressKept
<1>2. ASSUME NEW r \in Runs, InsertSnapshot(r) PROVE Snapshots'
  <2>1. UNCHANGED <<snapshots, status>> /\ pc[r] = "work"
    BY <1>2 DEF InsertSnapshot, rowVars
  <2>2. CASE HoldsLease(r)
    <3>1. PICK n \in {mem[r].step, mem[r].step + 1} : Remember(r, [mem[r] EXCEPT !.step = n])
      BY <1>2, <2>2 DEF InsertSnapshot
    <3>2. mem[r] \in Memories
      BY <1>a
    <3>3. mem'[r].step = n /\ mem'[r].base = mem[r].base /\ \A q \in Runs \ {r} : mem'[q] = mem[q]
      BY <1>a, <3>1, <3>2 DEF Memories, Remember
    <3>4. pc' = [pc EXCEPT ![r] = "writing"]
      BY <1>2, <2>2 DEF InsertSnapshot, Goto
    <3>5. MemoryFresh'
      BY <1>a, <2>1, <3>1, <3>3, <3>4 DEF Snapshots, MemoryFresh, Owners, LastStep
    <3> QED
      BY <2>1, <3>5 DEF Snapshots, LinearHistory, ProgressKept
  <2>3. CASE ~HoldsLease(r)
    <3>1. pc' = [pc EXCEPT ![r] = "closing"] /\ mem' = mem
      BY <1>2, <2>3 DEF InsertSnapshot, Goto
    <3> QED
      BY <1>a, <2>1, <3>1, QuietSnapshots
  <2> QED
    BY <2>2, <2>3
<1>3. ASSUME UNCHANGED <<pc, mem, snapshots>>,
             \A q \in Runs : status'[q] = "running" => status[q] = "running"
      PROVE  Snapshots'
  BY <1>3, QuietSnapshots
<1>4. ASSUME NEW r \in Runs, snapshots' = snapshots,
             \A q \in Runs \ {r} : status'[q] = "running" => status[q] = "running",
             \A q \in Runs \ {r} : pc'[q] = pc[q] /\ mem'[q] = mem[q],
             pc'[r] \notin {"work", "writing"}
      PROVE  Snapshots'
  BY <1>4, QuietSnapshots
<1>5. ASSUME NEW r \in Runs, Claim(r) \/ RollBackClaim(r) PROVE Snapshots'
  <2>1. /\ snapshots' = snapshots
        /\ \A q \in Runs \ {r} : pc'[q] = pc[q]
        /\ pc'[r] \notin {"work", "writing"}
    BY <1>5, <1>a
       DEF Claim, ReadBeforeClaim, BeginClaim, AbandonExpired, ReadOwner, InsertClaim, CommitClaim,
           RollBackClaim, LoseClaim, Answered, Goto
  <2>2. \A q \in Runs \ {r} : mem'[q] = mem[q]
    BY <1>5, <1>a
       DEF Claim, ReadBeforeClaim, BeginClaim, AbandonExpired, ReadOwner, InsertClaim, CommitClaim,
           RollBackClaim, LoseClaim, Answered, Remember
  <2>3. \A q \in Runs \ {r} : status'[q] = "running" => status[q] = "running"
    BY <1>5, <1>a
       DEF Claim, ReadBeforeClaim, BeginClaim, AbandonExpired, ReadOwner, InsertClaim, CommitClaim,
           RollBackClaim, LoseClaim, Abandoning, rowVars
  <2> QED
    BY <1>4, <2>1, <2>2, <2>3
<1>6. ASSUME NEW r \in Runs,
             FinishRun(r) \/ CancelRun(r) \/ FailSnapshot(r) \/ ReleaseFails(r) \/ ReleaseExecution(r)
      PROVE  Snapshots'
  <2>1. /\ snapshots' = snapshots
        /\ \A q \in Runs \ {r} : pc'[q] = pc[q]
        /\ pc'[r] \notin {"work", "writing"}
    BY <1>6, <1>a
       DEF FinishRun, CancelRun, FailSnapshot, ReleaseFails, ReleaseExecution, Answered, Goto
  <2>2. \A q \in Runs \ {r} : mem'[q] = mem[q]
    BY <1>6, <1>a
       DEF FinishRun, CancelRun, FailSnapshot, ReleaseFails, ReleaseExecution, Answered, Remember
  <2>3. \A q \in Runs \ {r} : status'[q] = "running" => status[q] = "running"
    BY <1>6, <1>a
       DEF FinishRun, CancelRun, FailSnapshot, ReleaseFails, ReleaseExecution, rowVars
  <2> QED
    BY <1>4, <2>1, <2>2, <2>3
<1>7. ASSUME NEW D \in SUBSET Runs, Killed(D), UNCHANGED <<status, snapshots>> PROVE Snapshots'
  <2>1. \A q \in Runs : pc'[q] # "done" => pc'[q] = pc[q] /\ mem'[q] = mem[q]
    BY <1>7, <1>a DEF Killed
  <2> QED
    BY <1>7, <2>1, QuietSnapshots
<1>8. ASSUME NEW r \in Runs, Heartbeat(r) \/ Die(r) PROVE Snapshots'
  BY <1>8, <1>3, <1>7 DEF Heartbeat, RenewLease, RenewFails, Die, Alive, rowVars
<1>9. ASSUME NEW s \in Stops, StopStep(s) PROVE Snapshots'
  <2>1. CASE StopRuntimeSession(s)
    BY <2>1, <1>3, <1>7 DEF StopRuntimeSession, Alive, rowVars
  <2>2. CASE SettleExecution(s)
    <3>1. \A q \in Runs : status'[q] = "running" => status[q] = "running"
      BY <2>2, <1>a DEF SettleExecution
    <3> QED
      BY <2>2, <3>1, <1>3 DEF SettleExecution, runVars
  <2>3. CASE StopTarget(s) \/ ReadSnapshotForStop(s) \/ PickLatest(s) \/ LockExecution(s)
    BY <2>3, <1>3 DEF StopTarget, ReadSnapshotForStop, PickLatest, LockExecution, rowVars, runVars
  <2> QED
    BY <1>9, <2>1, <2>2, <2>3 DEF StopStep
<1>10. ASSUME Tick \/ UNCHANGED vars PROVE Snapshots'
  <2>1. CASE Tick
    BY <2>1, <1>3 DEF Tick, rowVars, runVars
  <2>2. CASE UNCHANGED vars
    BY <2>2, <1>3 DEF vars, rowVars, runVars
  <2> QED
    BY <1>10, <2>1, <2>2
<1> QED
  BY <1>1, <1>2, <1>5, <1>6, <1>8, <1>9, <1>10, CommitKeepsSnapshots DEF Next, Work, Failure

-----------------------------------------------------------------------------
(* The journey, and the stops. *)

(* While an execution runs the journey says so. *)
LEMMA JourneyStep ==
  TypeOK /\ Claims /\ RunningJourney /\ [Next]_vars => RunningJourney'
<1> SUFFICES ASSUME TypeOK, Claims, RunningJourney, [Next]_vars PROVE RunningJourney'
  OBVIOUS
<1>a. status \in [Runs -> Statuses]
  BY DEF TypeOK
<1>1. ASSUME journey' = journey, \A q \in Runs : status'[q] = "running" => status[q] = "running"
      PROVE  RunningJourney'
  BY <1>1 DEF RunningJourney, Owners
<1>2. ASSUME NEW r \in Runs, ReleaseExecution(r) PROVE RunningJourney'
  <2>1. CASE status[r] = "running"
    <3>1. \A q \in Runs : status[q] = "running" => q = r
      BY <2>1 DEF Claims, OneRunning, Owners
    <3>2. status' = [status EXCEPT ![r] = mem[r].terminal] /\ mem[r].terminal # "running"
      BY <1>2, <2>1 DEF ReleaseExecution, TypeOK, Memories, Terminals
    <3> QED
      BY <1>a, <3>1, <3>2 DEF RunningJourney, Owners
  <2>2. CASE status[r] # "running"
    BY <1>1, <1>2, <2>2 DEF ReleaseExecution
  <2> QED
    BY <2>1, <2>2
<1>3. ASSUME NEW r \in Runs, Claim(r) \/ RollBackClaim(r) PROVE RunningJourney'
  <2>1. CASE CommitClaim(r)
    BY <2>1 DEF CommitClaim, RunningJourney
  <2>2. CASE ~CommitClaim(r)
    <3>1. journey' = journey
      BY <1>3, <2>2 DEF Claim, ReadBeforeClaim, BeginClaim, AbandonExpired, ReadOwner,
                        InsertClaim, RollBackClaim
    <3>2. \A q \in Runs : status'[q] = "running" => status[q] = "running"
      BY <1>3, <2>2, <1>a DEF Claim, ReadBeforeClaim, BeginClaim, AbandonExpired, ReadOwner,
                        InsertClaim, RollBackClaim, LoseClaim, Abandoning, rowVars
    <3> QED
      BY <1>1, <3>1, <3>2
  <2> QED
    BY <2>1, <2>2
<1>4. ASSUME NEW r \in Runs, (Work(r) /\ ~ReleaseExecution(r)) \/ FailSnapshot(r) \/ ReleaseFails(r)
                             \/ Heartbeat(r) \/ Die(r)
      PROVE  RunningJourney'
  BY <1>4, <1>1 DEF Work, ReadAfterClaim, InsertSnapshot, CommitSnapshot, FinishRun, CancelRun,
       FailSnapshot, ReleaseFails, Heartbeat, RenewLease, RenewFails, Die, rowVars
<1>5. ASSUME NEW s \in Stops, StopStep(s) PROVE RunningJourney'
  <2>1. CASE SettleExecution(s)
    BY <2>1, <1>1, <1>a DEF SettleExecution
  <2>2. CASE ~SettleExecution(s)
    BY <1>5, <2>2, <1>1 DEF StopStep, StopRuntimeSession, StopTarget, ReadSnapshotForStop, PickLatest,
                      LockExecution, rowVars
  <2> QED
    BY <2>1, <2>2
<1>6. ASSUME Tick PROVE RunningJourney'
  BY <1>6, <1>1 DEF Tick, rowVars
<1>7. ASSUME UNCHANGED vars PROVE RunningJourney'
  BY <1>7, <1>1 DEF vars, rowVars
<1> QED
  BY <1>2, <1>3, <1>4, <1>5, <1>6, <1>7 DEF Next, Failure

StopOrder == StopsExclusive /\ StopsRetire /\ StopOnce

(* A step that records no stop keeps their order if it starts no stopped execution,  *)
(* takes over or writes no row a stop holds, and retires no row's record.           *)
LEMMA QuietStops ==
  ASSUME StopOrder, UNCHANGED <<stops, spc, picked>>,
         \A e \in Runs : \/ started'[e] = started[e]
                         \/ started'[e] = Len(stops) /\ status[e] = "none",
         Len(stops) \in Nat,
         \A e \in Rows : e \in Rows' /\ (status[e] # "running" => status'[e] # "running"),
         \A e \in Runs : BeingStopped(e) => pc'[e] # "writing" \/ pc'[e] = pc[e],
         \A q \in Runs : target'[q] = target[q] \/ ~BeingStopped(target'[q]),
         \A s \in Stops : picked[s] # None \/ spc[s] # "settle"
  PROVE  StopOrder'
<1>1. StopOnce'
  BY DEF StopOrder, StopOnce
<1>2. StopsRetire'
  BY DEF StopOrder, StopsRetire, Retired, Rows
<1>3. StopsExclusive'
  BY DEF StopOrder, StopsExclusive, BeingStopped, Rows
<1> QED
  BY <1>1, <1>2, <1>3 DEF StopOrder

(* A run leaves every stop's record and held row as they are. *)
LEMMA RunsKeepStops ==
  ASSUME TypeOK, Claims, StopOrder, NEW r \in Runs,
         Claim(r) \/ Work(r) \/ Failure(r) \/ Heartbeat(r) \/ Die(r)
  PROVE  StopOrder'
<1>a. /\ status \in [Runs -> Statuses] /\ pc \in [Runs -> Labels]
      /\ target \in [Runs -> Runs \cup {None}] /\ started \in [Runs -> Nat]
      /\ Len(stops) \in Nat
      /\ \A s \in Stops : spc[s] = "settle" => picked[s] \in Runs
  BY DEF TypeOK
<1>1. UNCHANGED <<stops, spc, picked>>
  BY DEF Claim, ReadBeforeClaim, BeginClaim, AbandonExpired, ReadOwner, InsertClaim, CommitClaim,
         Work, ReadAfterClaim, InsertSnapshot, CommitSnapshot, FinishRun, CancelRun, ReleaseExecution,
         Failure, RollBackClaim, FailSnapshot, ReleaseFails, Heartbeat, RenewLease, RenewFails, Die,
         stopVars
<1>2. \A e \in Runs : \/ started'[e] = started[e]
                      \/ started'[e] = Len(stops) /\ status[e] = "none"
  <2>1. CASE BeginClaim(r)
    <3>1. status[r] = "none" /\ started' = [started EXCEPT ![r] = Len(stops)]
      BY <2>1 DEF BeginClaim, Claims, RowsFollowRuns
    <3> QED
      BY <3>1, <1>a
  <2>2. CASE ~BeginClaim(r)
    <3>1. started' = started
      BY <2>2 DEF Claim, ReadBeforeClaim, AbandonExpired, ReadOwner, InsertClaim, CommitClaim,
           Work, ReadAfterClaim, InsertSnapshot, CommitSnapshot, FinishRun, CancelRun, ReleaseExecution,
           Failure, RollBackClaim, FailSnapshot, ReleaseFails, Heartbeat, RenewLease, RenewFails, Die,
           rowVars
    <3> QED
      BY <3>1
  <2> QED
    BY <2>1, <2>2
<1>3. \A e \in Rows : e \in Rows' /\ (status[e] # "running" => status'[e] # "running")
  <2>1. CASE CommitClaim(r)
    BY <2>1, <1>a DEF CommitClaim, Abandoning, Rows, Claims, RowsFollowRuns, InClaim, TakeoversExclusive, Owners
  <2>2. CASE ReleaseExecution(r)
    <3>1. mem[r].terminal \notin {"none", "running"}
      BY DEF TypeOK, Memories, Terminals
    <3> QED
      BY <2>2, <3>1, <1>a DEF ReleaseExecution, Rows
  <2>3. CASE LoseClaim(r)
    BY <2>3, <1>a DEF LoseClaim, Abandoning, Rows, Claims, TakeoversExclusive, Owners
  <2>4. CASE status' = status
    BY <2>4 DEF Rows
  <2> QED
    BY <2>1, <2>2, <2>3, <2>4
     DEF Claim, ReadBeforeClaim, BeginClaim, AbandonExpired, ReadOwner, InsertClaim,
         Work, ReadAfterClaim, InsertSnapshot, CommitSnapshot, FinishRun, CancelRun,
         Failure, RollBackClaim, FailSnapshot, ReleaseFails, Heartbeat, RenewLease, RenewFails, Die,
         rowVars
<1>4. \A e \in Runs : BeingStopped(e) => pc'[e] # "writing" \/ pc'[e] = pc[e]
  BY <1>a DEF Claim, ReadBeforeClaim, BeginClaim, AbandonExpired, ReadOwner, InsertClaim, CommitClaim,
         Work, ReadAfterClaim, InsertSnapshot, CommitSnapshot, FinishRun, CancelRun, ReleaseExecution,
         Failure, RollBackClaim, FailSnapshot, ReleaseFails, Heartbeat, RenewLease, RenewFails, Die,
         LoseClaim, Answered, Goto, Killed, LockedForUpdate
<1>5. \A q \in Runs : target'[q] = target[q] \/ ~BeingStopped(target'[q])
  <2>1. CASE \E e \in Runs : ~Locked(e) /\ target' = [target EXCEPT ![r] = e]
    BY <2>1, <1>a DEF Locked, LockedForUpdate
  <2>2. CASE target' = [target EXCEPT ![r] = None]
    BY <2>2, <1>a, RunsAssumption DEF BeingStopped
  <2>3. CASE target' = target
    BY <2>3
  <2> QED
    BY <2>1, <2>2, <2>3
     DEF Claim, ReadBeforeClaim, BeginClaim, AbandonExpired, ReadOwner, InsertClaim, CommitClaim, LoseClaim,
         Work, ReadAfterClaim, InsertSnapshot, CommitSnapshot, FinishRun, CancelRun, ReleaseExecution,
         Failure, RollBackClaim, FailSnapshot, ReleaseFails, Heartbeat, RenewLease, RenewFails, Die
<1> QED
  BY <1>a, <1>1, <1>2, <1>3, <1>4, <1>5, RunsAssumption, QuietStops

(* A stop that gets the row's lock before any newer stop is the row's first. *)
LEMMA LockKeepsStops ==
  ASSUME TypeOK, Claims, StopOrder, NEW s \in Stops, LockExecution(s)
  PROVE  StopOrder'
<1> DEFINE e == picked[s]
<1>a. /\ spc \in [Stops -> {"idle", "kill", "read", "pick", "lock", "settle", "done", "refused"}]
      /\ e \in Rows /\ spc[s] = "lock" /\ ~Locked(e)
      /\ Len(stops) \in Nat /\ started \in [Runs -> Nat] /\ pc[e] # "writing"
      /\ target \in [Runs -> Runs \cup {None}]
  BY DEF TypeOK, StopOrder, StopsExclusive, LockExecution, Locked
<1>b. UNCHANGED <<stops, picked, status, started, pc, target>>
  BY DEF LockExecution, rowVars, runVars
<1>1. spc' = [spc EXCEPT ![s] = IF AlreadyStopped(e) THEN "refused" ELSE "settle"]
  BY DEF LockExecution, StopStepTo
<1>2. spc'[s] = "settle" => \A i \in 1..Len(stops) : stops[i].exec # e
  BY <1>1, <1>a DEF AlreadyStopped, StopOrder, StopsRetire, Rows
<1>3. (\A r \in Runs : target[r] # e) /\ \A t \in Stops : spc[t] = "settle" => picked[t] # e
  BY <1>a DEF Locked, LockedForUpdate, BeingAbandoned, BeingStopped
<1>4. StopsExclusive'
  BY <1>a, <1>b, <1>1, <1>2, <1>3 DEF StopOrder, StopsExclusive, Rows
<1>5. StopsRetire' /\ StopOnce'
  BY <1>b DEF StopOrder, StopsRetire, StopOnce, Retired, Rows
<1> QED
  BY <1>4, <1>5 DEF StopOrder

(* The recorded stop is the only one of its execution, which it retires. *)
LEMMA SettleKeepsStops ==
  ASSUME TypeOK, Claims, StopOrder, NEW s \in Stops, SettleExecution(s)
  PROVE  StopOrder'
<1> DEFINE e == picked[s]
           n == Len(stops)
<1>a. /\ spc \in [Stops -> {"idle", "kill", "read", "pick", "lock", "settle", "done", "refused"}]
      /\ status \in [Runs -> Statuses] /\ started \in [Runs -> Nat] /\ n \in Nat
      /\ e \in Rows /\ e \in Runs /\ spc[s] = "settle" /\ stops \in Seq(StopRows)
  BY DEF TypeOK, StopOrder, StopsExclusive, SettleExecution, Rows
<1>b. UNCHANGED <<picked, started, pc, target>> /\ spc' = [spc EXCEPT ![s] = "done"]
  BY DEF SettleExecution, runVars, StopStepTo
<1>1. PICK d \in {During(s)} : stops' = Append(stops, [exec |-> e, during |-> d])
  BY DEF SettleExecution
<1>2. d \in {"running", "finished", "waiting"}
  BY <1>1 DEF During
<1>3. [exec |-> e, during |-> d] \in StopRows
  BY <1>2, <1>a DEF StopRows
<1>4. /\ Len(stops') = n + 1 /\ stops'[n + 1].exec = e
      /\ \A i \in 1..n : stops'[i] = stops[i]
  BY <1>a, <1>1, <1>3
<1>5. /\ \A f \in Runs : status[f] # "none" => status'[f] # "none"
      /\ \A f \in Runs : status[f] \notin {"none", "running"} => status'[f] = status[f]
      /\ status'[e] \notin {"none", "running"}
  BY <1>a DEF SettleExecution, Rows
<1>6. /\ \A i \in 1..n : stops[i].exec # e
      /\ \A t \in Stops : spc[t] = "settle" /\ picked[t] = e => t = s
  BY <1>a DEF StopOrder, StopsExclusive
<1> HIDE DEF e, n
<1>7. StopOnce'
  <2>1. \A i, j \in 1..n : stops[i].exec = stops[j].exec => i = j
    BY DEF StopOrder, StopOnce, n
  <2>2. \A i \in 1..Len(stops') : i \in 1..n \/ i = n + 1
    BY <1>a, <1>4
  <2> QED
    BY <1>4, <1>6, <2>1, <2>2 DEF StopOnce
<1>8. StopsRetire'
  <2>1. /\ \A f \in Runs : started[f] <= n
        /\ \A i \in 1..n : stops[i].exec \in Retired /\ started[stops[i].exec] < i
    BY DEF StopOrder, StopsRetire, n
  <2>2. \A f \in Retired : f \in Retired'
    BY <1>5 DEF Retired, Rows
  <2>3. e \in Retired' /\ started[e] < n + 1
    BY <1>a, <1>5, <2>1 DEF Retired, Rows
  <2>4. \A f \in Runs : started'[f] <= n + 1
    BY <1>a, <1>b, <2>1
  <2>5. \A i \in 1..Len(stops') : stops'[i].exec \in Retired' /\ started'[stops'[i].exec] < i
    <3>1. \A i \in 1..Len(stops') : i \in 1..n \/ i = n + 1
      BY <1>a, <1>4
    <3> QED
      BY <1>b, <1>4, <2>1, <2>2, <2>3, <3>1
  <2> QED
    BY <1>4, <2>4, <2>5 DEF StopsRetire
<1>9. StopsExclusive'
  <2>1. \A t \in Stops : spc'[t] \in {"lock", "settle"} => t # s /\ spc[t] = spc'[t]
    BY <1>a, <1>b
  <2>2. \A t \in Stops : spc'[t] = "settle" => \A i \in 1..Len(stops') : stops'[i].exec # picked[t]
    BY <2>1, <1>a, <1>4, <1>6 DEF StopOrder, StopsExclusive, n
  <2>3. \A t \in Stops : spc'[t] \in {"lock", "settle"} => picked[t] \in Rows'
    BY <2>1, <1>5 DEF StopOrder, StopsExclusive, Rows
  <2> QED
    BY <2>1, <2>2, <2>3, <1>b DEF StopOrder, StopsExclusive
<1> QED
  BY <1>7, <1>8, <1>9 DEF StopOrder

(* No step lets two stops hold, or record, one execution. *)
LEMMA StopsStep == TypeOK /\ Claims /\ StopOrder /\ [Next]_vars => StopOrder'
<1> SUFFICES ASSUME TypeOK, Claims, StopOrder, [Next]_vars PROVE StopOrder'
  OBVIOUS
<1>a. /\ spc \in [Stops -> {"idle", "kill", "read", "pick", "lock", "settle", "done", "refused"}]
      /\ picked \in [Stops -> Runs \cup {None}] /\ pc \in [Runs -> Labels]
      /\ started \in [Runs -> Nat]
  BY DEF TypeOK
<1>1. ASSUME UNCHANGED <<stops, status, started, target>>,
             \A e \in Runs : pc'[e] # "writing" \/ pc'[e] = pc[e],
             \A s \in Stops : /\ spc'[s] = "lock" =>
                                   (spc[s] = "lock" /\ picked'[s] = picked[s]) \/ picked'[s] \in Rows
                              /\ spc'[s] = "settle" => spc[s] = "settle" /\ picked'[s] = picked[s]
      PROVE  StopOrder'
  <2>1. StopsExclusive'
    BY <1>1 DEF StopOrder, StopsExclusive, Rows
  <2>2. StopsRetire' /\ StopOnce'
    BY <1>1 DEF StopOrder, StopsRetire, StopOnce, Retired, Rows
  <2> QED
    BY <2>1, <2>2 DEF StopOrder
<1>2. ASSUME NEW s \in Stops, StopTarget(s) \/ ReadSnapshotForStop(s) PROVE StopOrder'
  BY <1>1, <1>2, <1>a DEF StopTarget, ReadSnapshotForStop, StopStepTo, rowVars, runVars
<1>3. ASSUME NEW s \in Stops, PickLatest(s) PROVE StopOrder'
  BY <1>1, <1>3, <1>a DEF PickLatest, Latest, StopStepTo, rowVars, runVars
<1>4. ASSUME NEW s \in Stops, StopRuntimeSession(s) PROVE StopOrder'
  <2>1. \A e \in Runs : pc'[e] # "writing" \/ pc'[e] = pc[e]
    BY <1>4, <1>a DEF StopRuntimeSession, Killed
  <2> QED
    BY <1>1, <1>4, <1>a, <2>1 DEF StopRuntimeSession, StopStepTo, rowVars
<1>5. ASSUME Tick PROVE StopOrder'
  BY <1>1, <1>5 DEF Tick, rowVars, runVars, stopVars
<1>6. ASSUME UNCHANGED vars PROVE StopOrder'
  BY <1>1, <1>6 DEF vars, rowVars, runVars, stopVars
<1> QED
  BY <1>2, <1>3, <1>4, <1>5, <1>6, RunsKeepStops, LockKeepsStops, SettleKeepsStops DEF Next, StopStep

-----------------------------------------------------------------------------
(* The theorems. *)

(* The invariant is inductive. *)
LEMMA StepIInv == IInv /\ [Next]_vars => IInv'
<1> SUFFICES ASSUME IInv, [Next]_vars PROVE IInv'
  OBVIOUS
<1>1. TypeOK /\ Claims /\ Snapshots /\ RunningJourney /\ StopOrder
  BY DEF IInv, Claims, Snapshots, StopOrder
<1>2. TypeOK' /\ Claims' /\ Snapshots' /\ RunningJourney' /\ StopOrder'
  BY <1>1, TypeStep, ClaimsStep, SnapshotsStep, JourneyStep, StopsStep DEF StopOrder
<1> QED
  BY <1>2 DEF IInv, Claims, Snapshots, StopOrder

(* In every behaviour of the lease, with any number of workers, stops and snapshots, *)
(* the inductive invariant holds.                                                  *)
THEOREM Inductive == Spec => []IInv
  BY InitIInv, StepIInv, PTL DEF Spec

(* Every variable keeps its type. *)
THEOREM TypeCorrect == Spec => []TypeOK
<1>1. IInv => TypeOK
  BY DEF IInv
<1> QED
  BY <1>1, Inductive, PTL

(* At most one execution of a thread is ever running. *)
THEOREM OneExecutionRuns == Spec => []OneRunning
<1>1. IInv => OneRunning
  BY DEF IInv
<1> QED
  BY <1>1, Inductive, PTL

(* Every snapshot was computed from the one saved just before it. *)
THEOREM HistoryIsLinear == Spec => []LinearHistory
<1>1. IInv => LinearHistory
  BY DEF IInv
<1> QED
  BY <1>1, Inductive, PTL

(* Saved progress neither goes back nor skips a step. *)
THEOREM ProgressIsKept == Spec => []ProgressKept
<1>1. IInv => ProgressKept
  BY DEF IInv
<1> QED
  BY <1>1, Inductive, PTL

(* A journey whose execution runs is "running". *)
THEOREM JourneyRuns == Spec => []RunningJourney
<1>1. IInv => RunningJourney
  BY DEF IInv
<1> QED
  BY <1>1, Inductive, PTL

(* An execution is stopped at most once. *)
THEOREM StoppedOnce == Spec => []StopOnce
<1>1. IInv => StopOnce
  BY DEF IInv
<1> QED
  BY <1>1, Inductive, PTL

(* What every step of the system adds to the snapshots: nothing, or one of a run whose *)
(* execution is running and has not been stopped.                                    *)
LEMMA WritesAreOwned ==
  ASSUME IInv, [Next]_vars
  PROVE  \/ snapshots' = snapshots
         \/ \E r \in Runs : CommitSnapshot(r) /\ status[r] = "running"
<1>1. ASSUME NEW r \in Runs, CommitSnapshot(r) PROVE status[r] = "running"
  BY <1>1 DEF IInv, RowsFollowRuns, CommitSnapshot
<1>2. ASSUME NEW r \in Runs, Claim(r) \/ Work(r) \/ Failure(r) \/ Heartbeat(r) \/ Die(r)
      PROVE  snapshots' = snapshots \/ CommitSnapshot(r)
  BY <1>2
     DEF Claim, ReadBeforeClaim, BeginClaim, AbandonExpired, ReadOwner, InsertClaim, CommitClaim,
         Work, ReadAfterClaim, InsertSnapshot, FinishRun, CancelRun, ReleaseExecution,
         Failure, RollBackClaim, FailSnapshot, ReleaseFails, Heartbeat, RenewLease, RenewFails, Die
<1>3. ASSUME NEW s \in Stops, StopStep(s) PROVE snapshots' = snapshots
  BY <1>3 DEF StopStep, StopTarget, StopRuntimeSession, ReadSnapshotForStop, PickLatest,
              LockExecution, SettleExecution
<1>4. ASSUME Tick \/ UNCHANGED vars PROVE snapshots' = snapshots
  BY <1>4 DEF Tick, vars
<1> QED
  BY <1>1, <1>2, <1>3, <1>4 DEF Next

(* The new entries of a step that commits a snapshot are that run's. *)
LEMMA NewSnapshots ==
  ASSUME TypeOK, NEW r \in Runs, CommitSnapshot(r),
         NEW i \in 1..Len(snapshots'), i > Len(snapshots)
  PROVE  snapshots'[i].by = r
<1> DEFINE new == [by |-> r, base |-> mem[r].base, step |-> mem[r].step]
<1>1. snapshots' = Append(snapshots, new) /\ snapshots \in Seq(SnapshotRows)
  BY DEF CommitSnapshot, TypeOK
<1>2. new \in SnapshotRows
  BY DEF TypeOK, Memories, SnapshotRows
<1>3. i = Len(snapshots) + 1 /\ snapshots'[i] = new
  BY <1>1, <1>2
<1> QED
  BY <1>3

(* A snapshot becomes visible only while its execution is still the running one. *)
THEOREM OwnersWrite == Spec => SnapshotsByOwner
<1> DEFINE Step == \A i \in 1..Len(snapshots') :
                      i > Len(snapshots) => status[snapshots'[i].by] = "running"
<1>1. ASSUME IInv, [Next]_vars PROVE [Step]_vars
  <2>1. CASE snapshots' = snapshots
    BY <2>1, <1>1 DEF IInv, TypeOK
  <2>2. CASE \E r \in Runs : CommitSnapshot(r) /\ status[r] = "running"
    BY <2>2, <1>1, NewSnapshots DEF IInv
  <2> QED
    BY <1>1, <2>1, <2>2, WritesAreOwned
<1> QED
  BY <1>1, Inductive, PTL DEF Spec, SnapshotsByOwner

(* A stopped execution saves no further snapshot. *)
THEOREM StoppedRunsWriteNothing == Spec => StoppedWritesNothing
<1> DEFINE Step == \A i \in 1..Len(snapshots') : i > Len(snapshots) =>
                      \A j \in 1..Len(stops) : stops[j].exec # snapshots'[i].by
<1>1. ASSUME IInv, [Next]_vars PROVE [Step]_vars
  <2>1. CASE snapshots' = snapshots
    BY <2>1, <1>1 DEF IInv, TypeOK
  <2>2. ASSUME NEW r \in Runs, CommitSnapshot(r), status[r] = "running" PROVE Step
    <3>1. \A j \in 1..Len(stops) : stops[j].exec # r
      BY <1>1, <2>2 DEF IInv, StopsRetire, Retired
    <3> QED
      BY <1>1, <2>2, <3>1, NewSnapshots DEF IInv
  <2> QED
    BY <1>1, <2>1, <2>2, WritesAreOwned
<1> QED
  BY <1>1, Inductive, PTL DEF Spec, StoppedWritesNothing

-----------------------------------------------------------------------------
(* The refinement: the thread is a log with one writer at a time. *)

Entries == [i \in 1..Len(snapshots) |-> [by |-> snapshots[i].by, base |-> snapshots[i].base]]

(* What moves the abstract log: a claim's commit, a run leaving "running" by a release *)
(* or a stop, and a snapshot's commit.  Every other step leaves it as it is.          *)
LEMMA LogMoves ==
  ASSUME IInv, [Next]_vars
  PROVE  \/ \E r \in Runs : CommitClaim(r) \/ CommitSnapshot(r)
         \/ \E r \in Owners : /\ \E t \in {"failed", "paused", "succeeded", "abandoned"} :
                                    status' = [status EXCEPT ![r] = t]
                              /\ snapshots' = snapshots
         \/ UNCHANGED <<status, snapshots>>
<1>a. TypeOK /\ Claims /\ StopsExclusive
  BY DEF IInv, Claims
<1>1. ASSUME NEW r \in Runs, LoseClaim(r) PROVE status' = status
  <2>1. target[r] = None
    BY <1>a, <1>1 DEF LoseClaim, LiveOwner, Claims, OneRunning, TakeoversExclusive, Owners
  <2> QED
    BY <1>a, <1>1, <2>1, RunsAssumption DEF LoseClaim, Abandoning, TypeOK
<1>2. ASSUME NEW r \in Runs, ReleaseExecution(r), status[r] = "running"
      PROVE  /\ mem[r].terminal \in Terminals /\ snapshots' = snapshots
             /\ status' = [status EXCEPT ![r] = mem[r].terminal]
  BY <1>a, <1>2 DEF ReleaseExecution, TypeOK, Memories
<1>3. ASSUME NEW r \in Runs, ReleaseExecution(r), status[r] # "running"
      PROVE  UNCHANGED <<status, snapshots>>
  BY <1>3 DEF ReleaseExecution
<1>4. ASSUME NEW s \in Stops, SettleExecution(s)
      PROVE  \/ UNCHANGED <<status, snapshots>>
             \/ /\ picked[s] \in Owners /\ snapshots' = snapshots
                /\ \E t \in {"succeeded", "abandoned"} : status' = [status EXCEPT ![picked[s]] = t]
  BY <1>a, <1>4 DEF SettleExecution, TypeOK, Owners
<1>5. ASSUME NEW r \in Runs, ReadOwner(r) \/ InsertClaim(r)
      PROVE  UNCHANGED <<status, snapshots>>
  BY <1>1, <1>5 DEF ReadOwner, InsertClaim
<1>6. ASSUME NEW r \in Runs, Claim(r) \/ Work(r) \/ Failure(r) \/ Heartbeat(r) \/ Die(r),
             ~CommitClaim(r), ~CommitSnapshot(r), ~ReleaseExecution(r)
      PROVE  UNCHANGED <<status, snapshots>>
  BY <1>5, <1>6
     DEF Claim, ReadBeforeClaim, BeginClaim, AbandonExpired, Work, ReadAfterClaim, InsertSnapshot,
         FinishRun, CancelRun, Failure, RollBackClaim, FailSnapshot, ReleaseFails,
         Heartbeat, RenewLease, RenewFails, Die, rowVars
<1>7. ASSUME NEW s \in Stops, StopStep(s), ~SettleExecution(s) PROVE UNCHANGED <<status, snapshots>>
  BY <1>7 DEF StopStep, StopTarget, StopRuntimeSession, ReadSnapshotForStop, PickLatest,
              LockExecution, rowVars
<1>8. ASSUME Tick \/ UNCHANGED vars PROVE UNCHANGED <<status, snapshots>>
  BY <1>8 DEF Tick, vars, rowVars
<1> QED
  BY <1>2, <1>3, <1>4, <1>6, <1>7, <1>8 DEF Next, Owners, Terminals

(* A claim's commit acquires the log, and retires the worker it takes over from. *)
LEMMA ClaimAcquires ==
  ASSUME IInv, NEW r \in Runs, CommitClaim(r) PROVE Log!Acquire(r)
<1>a. /\ status \in [Runs -> Statuses] /\ snapshots' = snapshots
      /\ target \in [Runs -> Runs \cup {None}]
  BY DEF IInv, TypeOK, CommitClaim
<1>1. status[r] = "none" /\ Owners \subseteq {target[r]} /\ (target[r] # None => target[r] \in Owners)
  BY DEF IInv, CommitClaim, RowsFollowRuns, InClaim, InsertAlone, TakeoversExclusive
<1>2. status' = [e \in Runs |-> IF e = r THEN "running"
                                ELSE IF e = target[r] THEN "abandoned" ELSE status[e]]
  BY <1>a DEF CommitClaim, Abandoning
<1>3. Owners' = {r} /\ r \notin Retired \cup Owners
  BY <1>a, <1>1, <1>2, RunsAssumption DEF Owners, Retired, Rows
<1>4. Owners = {} \/ Owners = {target[r]}
  BY <1>1
<1>5. ASSUME NEW e \in Runs
      PROVE  e \in Retired' <=> (e \in Retired \/ e \in Owners)
  <2>1. e \in Retired' <=> status'[e] \notin {"none", "running"}
    BY DEF Retired, Rows
  <2>2. CASE e = r
    BY <2>1, <2>2, <1>1, <1>2 DEF Retired, Rows, Owners
  <2>3. CASE e # r /\ e = target[r]
    BY <2>1, <2>3, <1>1, <1>2, RunsAssumption DEF Retired, Rows, Owners
  <2>4. CASE e # r /\ e # target[r]
    BY <2>1, <2>4, <1>1, <1>2 DEF Retired, Rows, Owners
  <2> QED
    BY <2>2, <2>3, <2>4
<1>6. Retired' = Retired \cup Owners
  BY <1>5 DEF Owners, Retired, Rows
<1> QED
  BY <1>a, <1>3, <1>6 DEF Log!Acquire

(* A run that leaves "running" is retired. *)
LEMMA LeavingRetires ==
  ASSUME IInv, NEW r \in Owners, snapshots' = snapshots,
         NEW t \in {"failed", "paused", "succeeded", "abandoned"}, status' = [status EXCEPT ![r] = t]
  PROVE  Log!Retire(r)
<1>1. status \in [Runs -> Statuses]
  BY DEF IInv, TypeOK
<1>2. Owners' = Owners \ {r} /\ Retired' = Retired \cup {r}
  BY <1>1 DEF Owners, Retired, Rows
<1> QED
  BY <1>2 DEF Log!Retire

(* A snapshot's commit is a write of the owner's, computed from the newest entry. *)
LEMMA CommitWrites ==
  ASSUME IInv, NEW r \in Runs, CommitSnapshot(r) PROVE Log!Write(r)
<1> DEFINE new == [by |-> r, base |-> mem[r].base, step |-> mem[r].step]
           n == Len(snapshots)
<1>1. r \in Owners /\ mem[r].base = n /\ UNCHANGED <<Owners, Retired>>
  BY DEF IInv, RowsFollowRuns, CommitSnapshot, MemoryFresh, Owners, Retired, Rows, rowVars
<1>2. snapshots' = Append(snapshots, new) /\ snapshots \in Seq(SnapshotRows)
  BY DEF CommitSnapshot, IInv, TypeOK
<1>3. new \in SnapshotRows
  BY DEF IInv, TypeOK, Memories, SnapshotRows
<1>4. /\ Len(snapshots') = n + 1 /\ n \in Nat /\ snapshots'[n + 1] = new
      /\ \A i \in 1..n : snapshots'[i] = snapshots[i]
  BY <1>2, <1>3
<1>5. Entries \in Seq([by : Runs, base : Nat]) /\ Len(Entries) = n
  <2>1. ASSUME NEW i \in 1..n PROVE [by |-> snapshots[i].by, base |-> snapshots[i].base] \in [by : Runs, base : Nat]
    <3>1. snapshots[i] \in SnapshotRows
      BY <1>2, ElementOfSeq
    <3> QED
      BY <3>1 DEF SnapshotRows
  <2>2. Entries \in [1..n -> [by : Runs, base : Nat]]
    BY <2>1 DEF Entries
  <2>3. Entries \in Seq([by : Runs, base : Nat])
    BY <2>2, <1>4, SeqDef
  <2>4. Len(Entries) \in Nat /\ 1..Len(Entries) = 1..n
    BY <2>2, <2>3, LenProperties
  <2>5. Len(Entries) = n
    <3> HIDE DEF n
    <3> QED
      BY <2>4, <1>4
  <2> QED
    BY <2>3, <2>5
<1>6. Entries' = Append(Entries, [by |-> r, base |-> n])
  <2>1. [by |-> r, base |-> n] \in [by : Runs, base : Nat]
    BY <1>4
  <2>2. /\ Append(Entries, [by |-> r, base |-> n]) \in Seq([by : Runs, base : Nat])
        /\ Len(Append(Entries, [by |-> r, base |-> n])) = n + 1
        /\ \A i \in 1..n : Append(Entries, [by |-> r, base |-> n])[i] = Entries[i]
        /\ Append(Entries, [by |-> r, base |-> n])[n + 1] = [by |-> r, base |-> n]
    BY <1>5, <2>1, AppendProperties
  <2>3. \A i \in 1..(n + 1) : Entries'[i] = Append(Entries, [by |-> r, base |-> n])[i]
    BY <1>1, <1>4, <2>2 DEF Entries
  <2> QED
    BY <1>4, <2>2, <2>3 DEF Entries
<1> QED
  BY <1>1, <1>5, <1>6 DEF Log!Write, Entries

(* The thread implements a log with one writer at a time. *)
THEOREM Refinement == Spec => LogSpec
<1>1. Init => Log!Init
  BY DEF Init, Log!Init, Owners, Retired, Rows
<1>2. IInv /\ [Next]_vars => [Log!Next]_(Log!vars)
  <2> SUFFICES ASSUME IInv, [Next]_vars PROVE [Log!Next]_(Log!vars)
    OBVIOUS
  <2>1. ASSUME UNCHANGED <<status, snapshots>> PROVE UNCHANGED Log!vars
    BY <2>1 DEF Log!vars, Owners, Retired, Rows
  <2> QED
    BY <2>1, LogMoves, ClaimAcquires, LeavingRetires, CommitWrites DEF Log!Next, Owners
<1> QED
  BY <1>1, <1>2, Inductive, PTL DEF Spec, LogSpec, Log!Spec

=============================================================================
