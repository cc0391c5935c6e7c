------------------------- MODULE MCOperations_proofs -------------------------
(* The group's behaviours keep what Operations_proofs proves of each component: *)
(* the theorems are cited through an instance of that module, over the places   *)
(* that hold the component's variables.  One instance serves two components     *)
(* when no variable of the one has the name of a variable of the other.         *)
EXTENDS MCOperations, TLAPS

\* Constants and variables of the components that an instance is not about.
Publishes == Unused
MaxCommit == Unused
TightenAny == Unused
Still == Unused
pc == Unused
mode == Unused
kind == Unused
tighten == Unused
image == Unused
head == Unused
proof == Unused
proven == Unused
hops == Unused
roles == Unused
service == Unused
op == Unused
ended == Unused
site == Unused
receipt == Unused
Goals == Unused
MaxGateways == Unused
MaxFaults == Unused
gate == Unused
learned == Unused
moving == Unused
logGroup == Unused
file == Unused
render == Unused
url == Unused
saved == Unused
ready == Unused
pin == Unused
cmd == Unused
orphan == Unused
made == Unused
faults == Unused
Snaps == Unused
live == Unused
cache == Unused
result == Unused
run == Unused
replaced == Unused
Runs == Unused
Logins == Unused
InPlace == Unused
NoRun == Unused
MaxVersions == Unused
Attempts == Unused
Together == Unused
login == Unused
found == Unused
attempt == Unused
lines == Unused
verifier == Unused
secret == Unused
versions == Unused
env == Unused
last == Unused
alone == Unused
broken == Unused
Operators == Unused
Scripts == Unused
Newest == Unused
MaxRuns == Unused
db == Unused
advisory == Unused
keys == Unused
runs == Unused
Workers == Unused
Overlap == Unused
MaxStarts == Unused
MaxVersion == Unused
checkpoints == Unused
blobs == Unused
writes == Unused
base == Unused
value == Unused
id == Unused
size == Unused
parts == Unused
tx == Unused
row == Unused
seg == Unused
starts == Unused
MaxBreaks == Unused
MaxPasted == Unused
cloud == Unused
logs == Unused
joined == Unused
book == Unused
at == Unused
step == Unused
entries == Unused
todo == Unused
owned == Unused
groups == Unused
left == Unused
code == Unused
hit == Unused
breaks == Unused
pasted == Unused
Jobs == Unused
NoJob == Unused
Parallel == Unused
MaxUpsets == Unused
pp == Unused
exit == Unused
verdict == Unused
backend == Unused
answerer == Unused
failed == Unused
tried == Unused
whole == Unused
data == Unused
purge == Unused
superseded == Unused
upsets == Unused

-----------------------------------------------------------------------------
Proofs1 == INSTANCE Operations_proofs WITH
    Goals <- {"iam", "jwt"}, MaxGateways <- 4, MaxFaults <- 1, gate <- s1, learned <- s2,
    moving <- s3, logGroup <- s4, file <- s5, render <- s6, url <- s7, saved <- s8, ready <- s9,
    pin <- s10, cmd <- s11, orphan <- s12, made <- s13, faults <- s14, Publishes <- {1, 2},
    MaxCommit <- 1, TightenAny <- FALSE, Still <- TRUE, pc <- s1, mode <- s2, kind <- s3,
    tighten <- s4, image <- s5, head <- s6, proof <- s7, proven <- s8, hops <- s9, roles <- s10,
    service <- s11, op <- s12, ended <- s13, site <- s14, receipt <- s15

\* The group's instance and the one Operations_proofs makes are the same system, over the
\* same places, and promise the same things.
LEMMA ReleaseMatch ==
    /\ Release!Init => Proofs1!Release!Init
    /\ Release!Next => Proofs1!Release!Next
    /\ UNCHANGED Release!vars => UNCHANGED Proofs1!Release!vars
    /\ Proofs1!ReleasePromise =>
         /\ Release!TypeOK
         /\ Release!AttachedIsGranted
         /\ Release!NothingLeftBehind
         /\ Release!AgreedPlanIsSafe
    /\ Proofs1!Release!Replaces => Release!Replaces
    /\ Proofs1!Release!DropsLogs => Release!DropsLogs
<1>1. Release!Init => Proofs1!Release!Init
  BY DEF Release!Init, Proofs1!Release!Init, Release!Listed, Proofs1!Release!Listed, Release!Idle,
         Proofs1!Release!Idle
<1>2. Release!Next => Proofs1!Release!Next
  BY DEF Release!Next, Proofs1!Release!Next, Release!Running, Proofs1!Release!Running,
         Release!Faulty, Proofs1!Release!Faulty, Release!Render, Proofs1!Release!Render,
         Release!Deploy, Proofs1!Release!Deploy, Release!Modes, Proofs1!Release!Modes,
         Release!Actions, Proofs1!Release!Actions, Release!Gateway, Proofs1!Release!Gateway,
         Release!HoldsLogs, Proofs1!Release!HoldsLogs, Release!Snapshot, Proofs1!Release!Snapshot,
         Release!SyncUrl, Proofs1!Release!SyncUrl, Release!Interceptor, Proofs1!Release!Interceptor,
         Release!Prepare, Proofs1!Release!Prepare, Release!RepairFile, Proofs1!Release!RepairFile,
         Release!Plan, Proofs1!Release!Plan, Release!DeployDone, Proofs1!Release!DeployDone,
         Release!Grant, Proofs1!Release!Grant, Release!Attach, Proofs1!Release!Attach,
         Release!Detach, Proofs1!Release!Detach, Release!ReadBack, Proofs1!Release!ReadBack,
         Release!Revoke, Proofs1!Release!Revoke, Release!Land, Proofs1!Release!Land,
         Release!DeployUnrecorded, Proofs1!Release!DeployUnrecorded, Release!DeployRolledBack,
         Proofs1!Release!DeployRolledBack, Release!ReadBackGivesUp, Proofs1!Release!ReadBackGivesUp,
         Release!Die, Proofs1!Release!Die, Release!InterceptorDelete,
         Proofs1!Release!InterceptorDelete, Release!Edit, Proofs1!Release!Edit, Release!LoseFile,
         Proofs1!Release!LoseFile, Release!Reset, Proofs1!Release!Reset, Release!Begins,
         Proofs1!Release!Begins, Release!FileStage, Proofs1!Release!FileStage, Release!Stack,
         Proofs1!Release!Stack, Release!StageAgrees, Proofs1!Release!StageAgrees,
         Release!FirstStageReady, Proofs1!Release!FirstStageReady, Release!LogsGate,
         Proofs1!Release!LogsGate, Release!Desk, Proofs1!Release!Desk, Release!Live,
         Proofs1!Release!Live, Release!HoldsFunction, Proofs1!Release!HoldsFunction, Release!Listed,
         Proofs1!Release!Listed, Release!PlanSafe, Proofs1!Release!PlanSafe, Release!Idle,
         Proofs1!Release!Idle, Release!Collides, Proofs1!Release!Collides, Release!Built,
         Proofs1!Release!Built, Release!Unchanged, Proofs1!Release!Unchanged, Release!At,
         Proofs1!Release!At, Release!Matches, Proofs1!Release!Matches, Release!Fault,
         Proofs1!Release!Fault, Release!NoFile, Proofs1!Release!NoFile, Release!StageFor,
         Proofs1!Release!StageFor, Release!LiveStage, Proofs1!Release!LiveStage, Release!Residue,
         Proofs1!Release!Residue, Release!SnapshotUsable, Proofs1!Release!SnapshotUsable,
         Release!Adds, Proofs1!Release!Adds, Release!Removes, Proofs1!Release!Removes,
         Release!Rendered, Proofs1!Release!Rendered
<1>3. UNCHANGED Release!vars => UNCHANGED Proofs1!Release!vars
  BY DEF Release!vars, Proofs1!Release!vars
<1>4. Proofs1!ReleasePromise =>
         /\ Release!TypeOK
         /\ Release!AttachedIsGranted
         /\ Release!NothingLeftBehind
         /\ Release!AgreedPlanIsSafe
  BY DEF Proofs1!ReleasePromise, Release!TypeOK, Proofs1!Release!TypeOK, Release!AttachedIsGranted,
         Proofs1!Release!AttachedIsGranted, Release!NothingLeftBehind,
         Proofs1!Release!NothingLeftBehind, Release!AgreedPlanIsSafe,
         Proofs1!Release!AgreedPlanIsSafe, Release!Gates, Proofs1!Release!Gates, Release!Files,
         Proofs1!Release!Files, Release!Modes, Proofs1!Release!Modes, Release!Stages,
         Proofs1!Release!Stages, Release!Idle, Proofs1!Release!Idle, Release!Actions,
         Proofs1!Release!Actions, Release!PlanSafe, Proofs1!Release!PlanSafe, Release!Live,
         Proofs1!Release!Live, Release!Adds, Proofs1!Release!Adds, Release!Removes,
         Proofs1!Release!Removes, Release!Rendered, Proofs1!Release!Rendered
<1>5. Proofs1!Release!Replaces => Release!Replaces
  BY DEF Release!Replaces, Proofs1!Release!Replaces
<1>6. Proofs1!Release!DropsLogs => Release!DropsLogs
  BY DEF Release!DropsLogs, Proofs1!Release!DropsLogs, Release!HoldsFunction,
         Proofs1!Release!HoldsFunction
<1>7. QED BY <1>1, <1>2, <1>3, <1>4, <1>5, <1>6

\* The group's steps are this component's steps while the behaviour is of it, and leave its
\* places alone otherwise.
LEMMA ReleaseInductive ==
    /\ Init => (OnRelease => Proofs1!Release!IInv)
    /\ (OnRelease => Proofs1!Release!IInv) /\ [Next]_all => (OnRelease => Proofs1!Release!IInv)'
    /\ (OnRelease => Proofs1!Release!IInv) =>
         (OnRelease =>
            /\ Release!TypeOK
            /\ Release!AttachedIsGranted
            /\ Release!NothingLeftBehind
            /\ Release!AgreedPlanIsSafe)
    /\ (OnRelease => Proofs1!Release!IInv) /\ [Next]_all => (OnRelease => Release!Replaces)
    /\ (OnRelease => Proofs1!Release!IInv) /\ [Next]_all => (OnRelease => Release!DropsLogs)
<1>1. Proofs1!Release!GoalsAssumption /\ Proofs1!Release!BoundsAssumption
  BY Instances DEF Release!GoalsAssumption, Proofs1!Release!GoalsAssumption,
     Release!BoundsAssumption, Proofs1!Release!BoundsAssumption
<1>2. Init => (OnRelease => Proofs1!Release!IInv)
  BY <1>1, Proofs1!ReleaseInit, ReleaseMatch DEF Init, ReleaseInit, OnRelease, RollbackInit,
     OnRollback, HostedInit, OnHosted, CommitsInit, OnCommits, RotationInit, OnRotation, LinesInit,
     OnLines, HarnessInit, OnHarness, ProofInit, OnProof, SetupInit, OnSetup
<1>3. OnRelease /\ [Next]_all => Release!Next \/ UNCHANGED Release!vars
  BY DEF all, Next, Release!vars, ReleaseNext, OnRelease, RollbackNext, OnRollback, HostedNext,
         OnHosted, CommitsNext, OnCommits, RotationNext, OnRotation, LinesNext, OnLines,
         HarnessNext, OnHarness, ProofNext, OnProof, SetupNext, OnSetup
<1>4. [Next]_all => part' = part
  BY DEF all, Next, ReleaseNext, RollbackNext, HostedNext, CommitsNext, RotationNext, LinesNext,
         HarnessNext, ProofNext, SetupNext
<1>5. (OnRelease => Proofs1!Release!IInv) /\ [Next]_all => (OnRelease => Proofs1!Release!IInv)'
  BY <1>1, <1>3, <1>4, Proofs1!ReleaseStep, ReleaseMatch DEF OnRelease
<1>6. (OnRelease => Proofs1!Release!IInv) =>
        (OnRelease =>
            /\ Release!TypeOK
            /\ Release!AttachedIsGranted
            /\ Release!NothingLeftBehind
            /\ Release!AgreedPlanIsSafe)
  BY <1>1, Proofs1!ReleaseSays, ReleaseMatch
<1>7. (OnRelease => Proofs1!Release!IInv) /\ [Next]_all => (OnRelease => Release!Replaces)
  BY <1>1, <1>3, <1>4, <1>5, Proofs1!StepReplaces, ReleaseMatch DEF OnRelease
<1>8. (OnRelease => Proofs1!Release!IInv) /\ [Next]_all => (OnRelease => Release!DropsLogs)
  BY <1>1, <1>3, <1>4, <1>5, Proofs1!StepDropsLogs, ReleaseMatch DEF OnRelease
<1>9. QED BY <1>2, <1>5, <1>6, <1>7, <1>8

-----------------------------------------------------------------------------
\* The group's instance and the one Operations_proofs makes are the same system, over the
\* same places, and promise the same things.
LEMMA HostedMatch ==
    /\ Hosted!Init => Proofs1!Hosted!Init
    /\ Hosted!Next => Proofs1!Hosted!Next
    /\ UNCHANGED Hosted!vars => UNCHANGED Proofs1!Hosted!vars
    /\ Proofs1!HostedPromise =>
         /\ Hosted!DeployedIsWhole
         /\ Hosted!ServiceKeepsItsSecrets
<1>1. Hosted!Init => Proofs1!Hosted!Init
  BY DEF Hosted!Init, Proofs1!Hosted!Init, Hosted!Modes, Proofs1!Hosted!Modes, Hosted!Hops,
         Proofs1!Hosted!Hops, Hosted!Secrets, Proofs1!Hosted!Secrets
<1>2. Hosted!Next => Proofs1!Hosted!Next
  BY DEF Hosted!Next, Proofs1!Hosted!Next, Hosted!Commit, Proofs1!Hosted!Commit, Hosted!Prove,
         Proofs1!Hosted!Prove, Hosted!DeployHop, Proofs1!Hosted!DeployHop, Hosted!OperationEnds,
         Proofs1!Hosted!OperationEnds, Hosted!Publish, Proofs1!Hosted!Publish, Hosted!Quiet,
         Proofs1!Hosted!Quiet, Hosted!Hops, Proofs1!Hosted!Hops, Hosted!Modes, Proofs1!Hosted!Modes,
         Hosted!Inspect, Proofs1!Hosted!Inspect, Hosted!Check, Proofs1!Hosted!Check,
         Hosted!StartReceipt, Proofs1!Hosted!StartReceipt, Hosted!DeployRoles,
         Proofs1!Hosted!DeployRoles, Hosted!DeployImage, Proofs1!Hosted!DeployImage,
         Hosted!UpdateService, Proofs1!Hosted!UpdateService, Hosted!WaitForOperation,
         Proofs1!Hosted!WaitForOperation, Hosted!DeploySite, Proofs1!Hosted!DeploySite,
         Hosted!FinishReceipt, Proofs1!Hosted!FinishReceipt, Hosted!Fail, Proofs1!Hosted!Fail,
         Hosted!Running, Proofs1!Hosted!Running, Hosted!Goto, Proofs1!Hosted!Goto, Hosted!Findings,
         Proofs1!Hosted!Findings, Hosted!Grants, Proofs1!Hosted!Grants, Hosted!Retained,
         Proofs1!Hosted!Retained, Hosted!GatewayAgrees, Proofs1!Hosted!GatewayAgrees,
         Hosted!RuntimesAgree, Proofs1!Hosted!RuntimesAgree, Hosted!PoliciesAgree,
         Proofs1!Hosted!PoliciesAgree, Hosted!InterceptorAgrees, Proofs1!Hosted!InterceptorAgrees,
         Hosted!IdentityAgrees, Proofs1!Hosted!IdentityAgrees, Hosted!BudgetAgrees,
         Proofs1!Hosted!BudgetAgrees, Hosted!ProofIsThisCommits, Proofs1!Hosted!ProofIsThisCommits,
         Hosted!Secrets, Proofs1!Hosted!Secrets
<1>3. UNCHANGED Hosted!vars => UNCHANGED Proofs1!Hosted!vars
  BY DEF Hosted!vars, Proofs1!Hosted!vars
<1>4. Proofs1!HostedPromise =>
         /\ Hosted!DeployedIsWhole
         /\ Hosted!ServiceKeepsItsSecrets
  BY DEF Proofs1!HostedPromise, Hosted!DeployedIsWhole, Proofs1!Hosted!DeployedIsWhole,
         Hosted!ServiceKeepsItsSecrets, Proofs1!Hosted!ServiceKeepsItsSecrets, Hosted!Grants,
         Proofs1!Hosted!Grants, Hosted!Needs, Proofs1!Hosted!Needs, Hosted!Secrets,
         Proofs1!Hosted!Secrets
<1>5. QED BY <1>1, <1>2, <1>3, <1>4

\* The group's steps are this component's steps while the behaviour is of it, and leave its
\* places alone otherwise.
LEMMA HostedInductive ==
    /\ Init => (OnHosted => Proofs1!Hosted!IInv)
    /\ (OnHosted => Proofs1!Hosted!IInv) /\ [Next]_all => (OnHosted => Proofs1!Hosted!IInv)'
    /\ (OnHosted => Proofs1!Hosted!IInv) =>
         (OnHosted => Hosted!DeployedIsWhole /\ Hosted!ServiceKeepsItsSecrets)
<1>1. Proofs1!Hosted!PublishesAssumption
  BY Instances DEF Hosted!PublishesAssumption, Proofs1!Hosted!PublishesAssumption
<1>2. Init => (OnHosted => Proofs1!Hosted!IInv)
  BY <1>1, Proofs1!HostedInit, HostedMatch DEF Init, ReleaseInit, OnRelease, RollbackInit,
     OnRollback, HostedInit, OnHosted, CommitsInit, OnCommits, RotationInit, OnRotation, LinesInit,
     OnLines, HarnessInit, OnHarness, ProofInit, OnProof, SetupInit, OnSetup
<1>3. OnHosted /\ [Next]_all => Hosted!Next \/ UNCHANGED Hosted!vars
  BY DEF all, Next, Hosted!vars, ReleaseNext, OnRelease, RollbackNext, OnRollback, HostedNext,
         OnHosted, CommitsNext, OnCommits, RotationNext, OnRotation, LinesNext, OnLines,
         HarnessNext, OnHarness, ProofNext, OnProof, SetupNext, OnSetup
<1>4. [Next]_all => part' = part
  BY DEF all, Next, ReleaseNext, RollbackNext, HostedNext, CommitsNext, RotationNext, LinesNext,
         HarnessNext, ProofNext, SetupNext
<1>5. (OnHosted => Proofs1!Hosted!IInv) /\ [Next]_all => (OnHosted => Proofs1!Hosted!IInv)'
  BY <1>1, <1>3, <1>4, Proofs1!HostedStep, HostedMatch DEF OnHosted
<1>6. (OnHosted => Proofs1!Hosted!IInv) =>
        (OnHosted => Hosted!DeployedIsWhole /\ Hosted!ServiceKeepsItsSecrets)
  BY <1>1, Proofs1!HostedSays, HostedMatch
<1>7. QED BY <1>2, <1>5, <1>6

-----------------------------------------------------------------------------
Proofs2 == INSTANCE Operations_proofs WITH
    Snaps <- {"s1"}, MaxFaults <- 1, live <- s1, cache <- s2, result <- s3, run <- s4,
    replaced <- s5, faults <- s6, Publishes <- {1}, MaxCommit <- 2, TightenAny <- FALSE,
    Still <- TRUE, pc <- s1, mode <- s2, kind <- s3, tighten <- s4, image <- s5, head <- s6,
    proof <- s7, proven <- s8, hops <- s9, roles <- s10, service <- s11, op <- s12, ended <- s13,
    site <- s14, receipt <- s15, MaxBreaks <- 2, MaxPasted <- 1, cloud <- s1, logs <- s2,
    joined <- s3, book <- s4, at <- s5, step <- s6, entries <- s7, todo <- s8, owned <- s9,
    groups <- s10, left <- s11, code <- s12, hit <- s13, breaks <- s14, pasted <- s15

\* The group's instance and the one Operations_proofs makes are the same system, over the
\* same places, and promise the same things.
LEMMA RollbackMatch ==
    /\ Rollback!Init => Proofs2!Rollback!Init
    /\ Rollback!Next => Proofs2!Rollback!Next
    /\ UNCHANGED Rollback!vars => UNCHANGED Proofs2!Rollback!vars
    /\ Proofs2!RollbackPromise =>
         /\ Rollback!TypeOK
         /\ Rollback!RestartIsOwed
    /\ Proofs2!Rollback!Completes => Rollback!Completes
<1>1. Rollback!Init => Proofs2!Rollback!Init
  BY DEF Rollback!Init, Proofs2!Rollback!Init, Rollback!Hops, Proofs2!Rollback!Hops,
         Rollback!Values, Proofs2!Rollback!Values, Rollback!NoResult, Proofs2!Rollback!NoResult,
         Rollback!NoRun, Proofs2!Rollback!NoRun, Rollback!Steps, Proofs2!Rollback!Steps
<1>2. Rollback!Next => Proofs2!Rollback!Next
  BY DEF Rollback!Next, Proofs2!Rollback!Next, Rollback!Working, Proofs2!Rollback!Working,
         Rollback!Faulty, Proofs2!Rollback!Faulty, Rollback!ColdStart, Proofs2!Rollback!ColdStart,
         Rollback!Start, Proofs2!Rollback!Start, Rollback!Hops, Proofs2!Rollback!Hops,
         Rollback!Remedy, Proofs2!Rollback!Remedy, Rollback!Skip, Proofs2!Rollback!Skip,
         Rollback!Compare, Proofs2!Rollback!Compare, Rollback!WriteAhead,
         Proofs2!Rollback!WriteAhead, Rollback!Send, Proofs2!Rollback!Send, Rollback!ReadBack,
         Proofs2!Rollback!ReadBack, Rollback!Finish, Proofs2!Rollback!Finish, Rollback!CompareFails,
         Proofs2!Rollback!CompareFails, Rollback!SendFails, Proofs2!Rollback!SendFails,
         Rollback!ReadBackFails, Proofs2!Rollback!ReadBackFails, Rollback!Die, Proofs2!Rollback!Die,
         Rollback!Unreadable, Proofs2!Rollback!Unreadable, Rollback!NoRun, Proofs2!Rollback!NoRun,
         Rollback!PreviousPending, Proofs2!Rollback!PreviousPending, Rollback!Steps,
         Proofs2!Rollback!Steps, Rollback!ByHand, Proofs2!Rollback!ByHand, Rollback!In,
         Proofs2!Rollback!In, Rollback!Needs, Proofs2!Rollback!Needs, Rollback!Step,
         Proofs2!Rollback!Step, Rollback!Failed, Proofs2!Rollback!Failed, Rollback!Ends,
         Proofs2!Rollback!Ends, Rollback!Compares, Proofs2!Rollback!Compares, Rollback!Differs,
         Proofs2!Rollback!Differs, Rollback!Journal, Proofs2!Rollback!Journal, Rollback!Sends,
         Proofs2!Rollback!Sends, Rollback!Code, Proofs2!Rollback!Code, Rollback!Fault,
         Proofs2!Rollback!Fault, Rollback!NoResult, Proofs2!Rollback!NoResult, Rollback!Broken,
         Proofs2!Rollback!Broken
<1>3. UNCHANGED Rollback!vars => UNCHANGED Proofs2!Rollback!vars
  BY DEF Rollback!vars, Proofs2!Rollback!vars
<1>4. Proofs2!RollbackPromise =>
         /\ Rollback!TypeOK
         /\ Rollback!RestartIsOwed
  BY DEF Proofs2!RollbackPromise, Rollback!TypeOK, Proofs2!Rollback!TypeOK, Rollback!RestartIsOwed,
         Proofs2!Rollback!RestartIsOwed, Rollback!Hops, Proofs2!Rollback!Hops, Rollback!Values,
         Proofs2!Rollback!Values, Rollback!NoResult, Proofs2!Rollback!NoResult, Rollback!Broken,
         Proofs2!Rollback!Broken, Rollback!NoRun, Proofs2!Rollback!NoRun, Rollback!Rollbacks,
         Proofs2!Rollback!Rollbacks, Rollback!Steps, Proofs2!Rollback!Steps, Rollback!Statuses,
         Proofs2!Rollback!Statuses
<1>5. Proofs2!Rollback!Completes => Rollback!Completes
  BY DEF Rollback!Completes, Proofs2!Rollback!Completes, Rollback!Hops, Proofs2!Rollback!Hops,
         Rollback!Steps, Proofs2!Rollback!Steps
<1>6. QED BY <1>1, <1>2, <1>3, <1>4, <1>5

\* The group's steps are this component's steps while the behaviour is of it, and leave its
\* places alone otherwise.
LEMMA RollbackInductive ==
    /\ Init => (OnRollback => Proofs2!Rollback!IInv)
    /\ (OnRollback => Proofs2!Rollback!IInv) /\ [Next]_all
         => (OnRollback => Proofs2!Rollback!IInv)'
    /\ (OnRollback => Proofs2!Rollback!IInv) =>
         (OnRollback => Rollback!TypeOK /\ Rollback!RestartIsOwed)
    /\ (OnRollback => Proofs2!Rollback!IInv) /\ [Next]_all => (OnRollback => Rollback!Completes)
<1>1. Proofs2!Rollback!RollbackAssumption /\ Proofs2!Rollback!OneSnapshot
  BY Instances DEF Rollback!RollbackAssumption, Proofs2!Rollback!RollbackAssumption,
     Rollback!OneSnapshot, Proofs2!Rollback!OneSnapshot
<1>2. Init => (OnRollback => Proofs2!Rollback!IInv)
  BY <1>1, Proofs2!RollbackInit, RollbackMatch DEF Init, ReleaseInit, OnRelease, RollbackInit,
     OnRollback, HostedInit, OnHosted, CommitsInit, OnCommits, RotationInit, OnRotation, LinesInit,
     OnLines, HarnessInit, OnHarness, ProofInit, OnProof, SetupInit, OnSetup
<1>3. OnRollback /\ [Next]_all => Rollback!Next \/ UNCHANGED Rollback!vars
  BY DEF all, Next, Rollback!vars, ReleaseNext, OnRelease, RollbackNext, OnRollback, HostedNext,
         OnHosted, CommitsNext, OnCommits, RotationNext, OnRotation, LinesNext, OnLines,
         HarnessNext, OnHarness, ProofNext, OnProof, SetupNext, OnSetup
<1>4. [Next]_all => part' = part
  BY DEF all, Next, ReleaseNext, RollbackNext, HostedNext, CommitsNext, RotationNext, LinesNext,
         HarnessNext, ProofNext, SetupNext
<1>5. (OnRollback => Proofs2!Rollback!IInv) /\ [Next]_all
        => (OnRollback => Proofs2!Rollback!IInv)'
  BY <1>1, <1>3, <1>4, Proofs2!RollbackStep, RollbackMatch DEF OnRollback
<1>6. (OnRollback => Proofs2!Rollback!IInv) =>
        (OnRollback => Rollback!TypeOK /\ Rollback!RestartIsOwed)
  BY <1>1, Proofs2!RollbackSays, RollbackMatch
<1>7. (OnRollback => Proofs2!Rollback!IInv) /\ [Next]_all => (OnRollback => Rollback!Completes)
  BY <1>1, <1>3, <1>4, <1>5, Proofs2!StepCompletes, RollbackMatch DEF OnRollback
<1>8. QED BY <1>2, <1>5, <1>6, <1>7

-----------------------------------------------------------------------------
\* The group's instance and the one Operations_proofs makes are the same system, over the
\* same places, and promise the same things.
LEMMA CommitsMatch ==
    /\ Commits!Init => Proofs2!Hosted!Init
    /\ Commits!Next => Proofs2!Hosted!Next
    /\ UNCHANGED Commits!vars => UNCHANGED Proofs2!Hosted!vars
    /\ Proofs2!HostedPromise =>
         /\ Commits!ImageIsProven
<1>1. Commits!Init => Proofs2!Hosted!Init
  BY DEF Commits!Init, Proofs2!Hosted!Init, Commits!Modes, Proofs2!Hosted!Modes, Commits!Hops,
         Proofs2!Hosted!Hops, Commits!Secrets, Proofs2!Hosted!Secrets
<1>2. Commits!Next => Proofs2!Hosted!Next
  BY DEF Commits!Next, Proofs2!Hosted!Next, Commits!Commit, Proofs2!Hosted!Commit, Commits!Prove,
         Proofs2!Hosted!Prove, Commits!DeployHop, Proofs2!Hosted!DeployHop, Commits!OperationEnds,
         Proofs2!Hosted!OperationEnds, Commits!Publish, Proofs2!Hosted!Publish, Commits!Quiet,
         Proofs2!Hosted!Quiet, Commits!Hops, Proofs2!Hosted!Hops, Commits!Modes,
         Proofs2!Hosted!Modes, Commits!Inspect, Proofs2!Hosted!Inspect, Commits!Check,
         Proofs2!Hosted!Check, Commits!StartReceipt, Proofs2!Hosted!StartReceipt,
         Commits!DeployRoles, Proofs2!Hosted!DeployRoles, Commits!DeployImage,
         Proofs2!Hosted!DeployImage, Commits!UpdateService, Proofs2!Hosted!UpdateService,
         Commits!WaitForOperation, Proofs2!Hosted!WaitForOperation, Commits!DeploySite,
         Proofs2!Hosted!DeploySite, Commits!FinishReceipt, Proofs2!Hosted!FinishReceipt,
         Commits!Fail, Proofs2!Hosted!Fail, Commits!Running, Proofs2!Hosted!Running, Commits!Goto,
         Proofs2!Hosted!Goto, Commits!Findings, Proofs2!Hosted!Findings, Commits!Grants,
         Proofs2!Hosted!Grants, Commits!Retained, Proofs2!Hosted!Retained, Commits!GatewayAgrees,
         Proofs2!Hosted!GatewayAgrees, Commits!RuntimesAgree, Proofs2!Hosted!RuntimesAgree,
         Commits!PoliciesAgree, Proofs2!Hosted!PoliciesAgree, Commits!InterceptorAgrees,
         Proofs2!Hosted!InterceptorAgrees, Commits!IdentityAgrees, Proofs2!Hosted!IdentityAgrees,
         Commits!BudgetAgrees, Proofs2!Hosted!BudgetAgrees, Commits!ProofIsThisCommits,
         Proofs2!Hosted!ProofIsThisCommits, Commits!Secrets, Proofs2!Hosted!Secrets
<1>3. UNCHANGED Commits!vars => UNCHANGED Proofs2!Hosted!vars
  BY DEF Commits!vars, Proofs2!Hosted!vars
<1>4. Proofs2!HostedPromise =>
         /\ Commits!ImageIsProven
  BY DEF Proofs2!HostedPromise, Commits!ImageIsProven, Proofs2!Hosted!ImageIsProven
<1>5. QED BY <1>1, <1>2, <1>3, <1>4

\* The group's steps are this component's steps while the behaviour is of it, and leave its
\* places alone otherwise.
LEMMA CommitsInductive ==
    /\ Init => (OnCommits => Proofs2!Hosted!IInv)
    /\ (OnCommits => Proofs2!Hosted!IInv) /\ [Next]_all => (OnCommits => Proofs2!Hosted!IInv)'
    /\ (OnCommits => Proofs2!Hosted!IInv) =>
         (OnCommits => Commits!ImageIsProven)
<1>1. Proofs2!Hosted!PublishesAssumption
  BY Instances DEF Commits!PublishesAssumption, Proofs2!Hosted!PublishesAssumption
<1>2. Init => (OnCommits => Proofs2!Hosted!IInv)
  BY <1>1, Proofs2!HostedInit, CommitsMatch DEF Init, ReleaseInit, OnRelease, RollbackInit,
     OnRollback, HostedInit, OnHosted, CommitsInit, OnCommits, RotationInit, OnRotation, LinesInit,
     OnLines, HarnessInit, OnHarness, ProofInit, OnProof, SetupInit, OnSetup
<1>3. OnCommits /\ [Next]_all => Commits!Next \/ UNCHANGED Commits!vars
  BY DEF all, Next, Commits!vars, ReleaseNext, OnRelease, RollbackNext, OnRollback, HostedNext,
         OnHosted, CommitsNext, OnCommits, RotationNext, OnRotation, LinesNext, OnLines,
         HarnessNext, OnHarness, ProofNext, OnProof, SetupNext, OnSetup
<1>4. [Next]_all => part' = part
  BY DEF all, Next, ReleaseNext, RollbackNext, HostedNext, CommitsNext, RotationNext, LinesNext,
         HarnessNext, ProofNext, SetupNext
<1>5. (OnCommits => Proofs2!Hosted!IInv) /\ [Next]_all => (OnCommits => Proofs2!Hosted!IInv)'
  BY <1>1, <1>3, <1>4, Proofs2!HostedStep, CommitsMatch DEF OnCommits
<1>6. (OnCommits => Proofs2!Hosted!IInv) =>
        (OnCommits => Commits!ImageIsProven)
  BY <1>1, Proofs2!HostedSays, CommitsMatch
<1>7. QED BY <1>2, <1>5, <1>6

-----------------------------------------------------------------------------
\* The group's instance and the one Operations_proofs makes are the same system, over the
\* same places, and promise the same things.
LEMMA HarnessMatch ==
    /\ Harness!Init => Proofs2!Harness!Init
    /\ Harness!Next => Proofs2!Harness!Next
    /\ UNCHANGED Harness!vars => UNCHANGED Proofs2!Harness!vars
    /\ Proofs2!HarnessPromise =>
         /\ Harness!TypeOK
         /\ Harness!OthersAreKept
         /\ Harness!NamedAreTracked
         /\ Harness!CleanExitIsClean
         /\ Harness!OnePassIsEnough
<1>1. Harness!Init => Proofs2!Harness!Init
  BY DEF Harness!Init, Proofs2!Harness!Init, Harness!Neighbour, Proofs2!Harness!Neighbour,
         Harness!Of, Proofs2!Harness!Of
<1>2. Harness!Next => Proofs2!Harness!Next
  BY DEF Harness!Next, Proofs2!Harness!Next, Harness!Start, Proofs2!Harness!Start,
         Harness!CreateFails, Proofs2!Harness!CreateFails, Harness!WaitFails,
         Proofs2!Harness!WaitFails, Harness!TeardownFile, Proofs2!Harness!TeardownFile,
         Harness!Interrupt, Proofs2!Harness!Interrupt, Harness!Die, Proofs2!Harness!Die,
         Harness!Paste, Proofs2!Harness!Paste, Harness!Proceed, Proofs2!Harness!Proceed,
         Harness!account, Proofs2!Harness!account, Harness!Callable, Proofs2!Harness!Callable,
         Harness!Fault, Proofs2!Harness!Fault, Harness!Steps, Proofs2!Harness!Steps,
         Harness!Binding, Proofs2!Harness!Binding, Harness!Neighbour, Proofs2!Harness!Neighbour,
         Harness!process, Proofs2!Harness!process, Harness!NoteNamed, Proofs2!Harness!NoteNamed,
         Harness!Created, Proofs2!Harness!Created, Harness!NoteCreated, Proofs2!Harness!NoteCreated,
         Harness!Probe, Proofs2!Harness!Probe, Harness!BeginTeardown, Proofs2!Harness!BeginTeardown,
         Harness!GoneEntry, Proofs2!Harness!GoneEntry, Harness!ForeignEntry,
         Proofs2!Harness!ForeignEntry, Harness!DeletedEntry, Proofs2!Harness!DeletedEntry,
         Harness!FailedEntry, Proofs2!Harness!FailedEntry, Harness!DeleteLogGroups,
         Proofs2!Harness!DeleteLogGroups, Harness!Named, Proofs2!Harness!Named, Harness!Mine,
         Proofs2!Harness!Mine, Harness!Gateway, Proofs2!Harness!Gateway, Harness!Engine,
         Proofs2!Harness!Engine, Harness!Of, Proofs2!Harness!Of, Harness!Note, Proofs2!Harness!Note,
         Harness!Function, Proofs2!Harness!Function, Harness!NoFault, Proofs2!Harness!NoFault,
         Harness!Entry, Proofs2!Harness!Entry, Harness!IsOurs, Proofs2!Harness!IsOurs,
         Harness!Refused, Proofs2!Harness!Refused, Harness!Held, Proofs2!Harness!Held,
         Harness!Anchor, Proofs2!Harness!Anchor, Harness!TeardownOrder,
         Proofs2!Harness!TeardownOrder, Harness!Tagged, Proofs2!Harness!Tagged, Harness!KindBefore,
         Proofs2!Harness!KindBefore, Harness!Kinds, Proofs2!Harness!Kinds
<1>3. UNCHANGED Harness!vars => UNCHANGED Proofs2!Harness!vars
  BY DEF Harness!vars, Proofs2!Harness!vars
<1>4. Proofs2!HarnessPromise =>
         /\ Harness!TypeOK
         /\ Harness!OthersAreKept
         /\ Harness!NamedAreTracked
         /\ Harness!CleanExitIsClean
         /\ Harness!OnePassIsEnough
  BY DEF Proofs2!HarnessPromise, Harness!TypeOK, Proofs2!Harness!TypeOK, Harness!OthersAreKept,
         Proofs2!Harness!OthersAreKept, Harness!NamedAreTracked, Proofs2!Harness!NamedAreTracked,
         Harness!CleanExitIsClean, Proofs2!Harness!CleanExitIsClean, Harness!OnePassIsEnough,
         Proofs2!Harness!OnePassIsEnough, Harness!Ours, Proofs2!Harness!Ours, Harness!Neighbour,
         Proofs2!Harness!Neighbour, Harness!Function, Proofs2!Harness!Function, Harness!Steps,
         Proofs2!Harness!Steps, Harness!Role, Proofs2!Harness!Role, Harness!Anchor,
         Proofs2!Harness!Anchor, Harness!Of, Proofs2!Harness!Of, Harness!Mine, Proofs2!Harness!Mine,
         Harness!Gateway, Proofs2!Harness!Gateway, Harness!Engine, Proofs2!Harness!Engine,
         Harness!Binding, Proofs2!Harness!Binding, Harness!ToSet, Proofs2!Harness!ToSet
<1>5. QED BY <1>1, <1>2, <1>3, <1>4

\* The group's steps are this component's steps while the behaviour is of it, and leave its
\* places alone otherwise.
LEMMA HarnessInductive ==
    /\ Init => (OnHarness => Proofs2!Harness!IInv)
    /\ (OnHarness => Proofs2!Harness!IInv) /\ [Next]_all => (OnHarness => Proofs2!Harness!IInv)'
    /\ (OnHarness => Proofs2!Harness!IInv) =>
         (OnHarness =>
            /\ Harness!TypeOK
            /\ Harness!OthersAreKept
            /\ Harness!NamedAreTracked
            /\ Harness!CleanExitIsClean
            /\ Harness!OnePassIsEnough)
<1>1. Proofs2!Harness!BoundsAreNatural
  BY Instances DEF Harness!BoundsAreNatural, Proofs2!Harness!BoundsAreNatural
<1>2. Init => (OnHarness => Proofs2!Harness!IInv)
  BY <1>1, Proofs2!HarnessInit, HarnessMatch DEF Init, ReleaseInit, OnRelease, RollbackInit,
     OnRollback, HostedInit, OnHosted, CommitsInit, OnCommits, RotationInit, OnRotation, LinesInit,
     OnLines, HarnessInit, OnHarness, ProofInit, OnProof, SetupInit, OnSetup
<1>3. OnHarness /\ [Next]_all => Harness!Next \/ UNCHANGED Harness!vars
  BY DEF all, Next, Harness!vars, ReleaseNext, OnRelease, RollbackNext, OnRollback, HostedNext,
         OnHosted, CommitsNext, OnCommits, RotationNext, OnRotation, LinesNext, OnLines,
         HarnessNext, OnHarness, ProofNext, OnProof, SetupNext, OnSetup
<1>4. [Next]_all => part' = part
  BY DEF all, Next, ReleaseNext, RollbackNext, HostedNext, CommitsNext, RotationNext, LinesNext,
         HarnessNext, ProofNext, SetupNext
<1>5. (OnHarness => Proofs2!Harness!IInv) /\ [Next]_all => (OnHarness => Proofs2!Harness!IInv)'
  BY <1>1, <1>3, <1>4, Proofs2!HarnessStep, HarnessMatch DEF OnHarness
<1>6. (OnHarness => Proofs2!Harness!IInv) =>
        (OnHarness =>
            /\ Harness!TypeOK
            /\ Harness!OthersAreKept
            /\ Harness!NamedAreTracked
            /\ Harness!CleanExitIsClean
            /\ Harness!OnePassIsEnough)
  BY <1>1, Proofs2!HarnessSays, HarnessMatch
<1>7. QED BY <1>2, <1>5, <1>6

-----------------------------------------------------------------------------
Proofs3 == INSTANCE Operations_proofs WITH
    Runs <- {r1, r2, r3}, NoRun <- none, MaxVersions <- 2, Attempts <- 3, Logins <- {"gateway"},
    InPlace <- {}, MaxFaults <- 1, Together <- TRUE, pc <- s1, login <- s2, found <- s3,
    attempt <- s4, lines <- s5, verifier <- s6, secret <- s7, versions <- s8, env <- s9,
    last <- s10, alone <- s11, broken <- s12, faults <- s13, Operators <- {a, b},
    Scripts <- {"init", "migrate", "one", "dry", "seed", "catalog", "bind", "decoy"}, Newest <- 2,
    MaxRuns <- 3, db <- s1, run <- s2, advisory <- s3, keys <- s4, runs <- s5

\* The group's instance and the one Operations_proofs makes are the same system, over the
\* same places, and promise the same things.
LEMMA RotationMatch ==
    /\ Rotation!Init => Proofs3!Rotation!Init
    /\ Rotation!Next => Proofs3!Rotation!Next
    /\ UNCHANGED Rotation!vars => UNCHANGED Proofs3!Rotation!vars
    /\ Proofs3!RotationPromise =>
         /\ Rotation!TypeOK
         /\ Rotation!LastVerifiedWorks
         /\ Rotation!RerunRepairs
<1>1. Rotation!Init => Proofs3!Rotation!Init
  BY DEF Rotation!Init, Proofs3!Rotation!Init
<1>2. Rotation!Next => Proofs3!Rotation!Next
  BY DEF Rotation!Next, Proofs3!Rotation!Next, Rotation!Provision, Proofs3!Rotation!Provision,
         Rotation!ReadEnv, Proofs3!Rotation!ReadEnv, Rotation!OpenEnv, Proofs3!Rotation!OpenEnv,
         Rotation!WriteEnv, Proofs3!Rotation!WriteEnv, Rotation!Break, Proofs3!Rotation!Break,
         Rotation!Find, Proofs3!Rotation!Find, Rotation!SetLogin, Proofs3!Rotation!SetLogin,
         Rotation!StoreSecret, Proofs3!Rotation!StoreSecret, Rotation!TrimPolicy,
         Proofs3!Rotation!TrimPolicy, Rotation!WritePolicy, Proofs3!Rotation!WritePolicy,
         Rotation!Verify, Proofs3!Rotation!Verify, Rotation!CannotConnect,
         Proofs3!Rotation!CannotConnect, Rotation!Goto, Proofs3!Rotation!Goto,
         Rotation!OpensInPlace, Proofs3!Rotation!OpensInPlace, Rotation!InProgress,
         Proofs3!Rotation!InProgress, Rotation!Full, Proofs3!Rotation!Full, Rotation!Oldest,
         Proofs3!Rotation!Oldest, Rotation!Newest, Proofs3!Rotation!Newest, Rotation!Verifies,
         Proofs3!Rotation!Verifies, Rotation!Connects, Proofs3!Rotation!Connects, Rotation!Ended,
         Proofs3!Rotation!Ended, Rotation!Cardinality, Proofs3!Rotation!Cardinality
<1>3. UNCHANGED Rotation!vars => UNCHANGED Proofs3!Rotation!vars
  BY DEF Rotation!vars, Proofs3!Rotation!vars
<1>4. Proofs3!RotationPromise =>
         /\ Rotation!TypeOK
         /\ Rotation!LastVerifiedWorks
         /\ Rotation!RerunRepairs
  BY DEF Proofs3!RotationPromise, Rotation!TypeOK, Proofs3!Rotation!TypeOK,
         Rotation!LastVerifiedWorks, Proofs3!Rotation!LastVerifiedWorks, Rotation!RerunRepairs,
         Proofs3!Rotation!RerunRepairs, Rotation!Connects, Proofs3!Rotation!Connects
<1>5. QED BY <1>1, <1>2, <1>3, <1>4

\* The group's steps are this component's steps while the behaviour is of it, and leave its
\* places alone otherwise.
LEMMA RotationInductive ==
    /\ Init => (OnRotation => Proofs3!Rotation!IInv)
    /\ (OnRotation => Proofs3!Rotation!IInv) /\ [Next]_all
         => (OnRotation => Proofs3!Rotation!IInv)'
    /\ (OnRotation => Proofs3!Rotation!IInv) =>
         (OnRotation =>
            /\ Rotation!TypeOK
            /\ Rotation!LastVerifiedWorks
            /\ Rotation!RerunRepairs)
<1>1. Proofs3!Rotation!ScriptsKnown /\ Proofs3!Rotation!LimitsKnown
  BY Instances DEF Rotation!ScriptsKnown, Proofs3!Rotation!ScriptsKnown, Rotation!LimitsKnown,
     Proofs3!Rotation!LimitsKnown
<1>2. Init => (OnRotation => Proofs3!Rotation!IInv)
  BY <1>1, Proofs3!RotationInit, RotationMatch DEF Init, ReleaseInit, OnRelease, RollbackInit,
     OnRollback, HostedInit, OnHosted, CommitsInit, OnCommits, RotationInit, OnRotation, LinesInit,
     OnLines, HarnessInit, OnHarness, ProofInit, OnProof, SetupInit, OnSetup
<1>3. OnRotation /\ [Next]_all => Rotation!Next \/ UNCHANGED Rotation!vars
  BY DEF all, Next, Rotation!vars, ReleaseNext, OnRelease, RollbackNext, OnRollback, HostedNext,
         OnHosted, CommitsNext, OnCommits, RotationNext, OnRotation, LinesNext, OnLines,
         HarnessNext, OnHarness, ProofNext, OnProof, SetupNext, OnSetup
<1>4. [Next]_all => part' = part
  BY DEF all, Next, ReleaseNext, RollbackNext, HostedNext, CommitsNext, RotationNext, LinesNext,
         HarnessNext, ProofNext, SetupNext
<1>5. (OnRotation => Proofs3!Rotation!IInv) /\ [Next]_all
        => (OnRotation => Proofs3!Rotation!IInv)'
  BY <1>1, <1>3, <1>4, Proofs3!RotationStep, RotationMatch DEF OnRotation
<1>6. (OnRotation => Proofs3!Rotation!IInv) =>
        (OnRotation =>
            /\ Rotation!TypeOK
            /\ Rotation!LastVerifiedWorks
            /\ Rotation!RerunRepairs)
  BY <1>1, Proofs3!RotationSays, RotationMatch
<1>7. QED BY <1>2, <1>5, <1>6

-----------------------------------------------------------------------------
\* The group's instance and the one Operations_proofs makes are the same system, over the
\* same places, and promise the same things.
LEMMA SetupMatch ==
    /\ Setup!Init => Proofs3!Setup!Init
    /\ Setup!Next => Proofs3!Setup!Next
    /\ UNCHANGED Setup!vars => UNCHANGED Proofs3!Setup!vars
    /\ Proofs3!SetupPromise =>
         /\ Setup!TypeOK
         /\ Setup!OnceAndInOrder
         /\ Setup!SeedIsWholeOnce
    /\ Proofs3!Setup!Keeps => Setup!Keeps
<1>1. Setup!Init => Proofs3!Setup!Init
  BY DEF Setup!Init, Proofs3!Setup!Init, Setup!None, Proofs3!Setup!None, Setup!Migrations,
         Proofs3!Setup!Migrations
<1>2. Setup!Next => Proofs3!Setup!Next
  BY DEF Setup!Next, Proofs3!Setup!Next, Setup!Start, Proofs3!Setup!Start, Setup!InitStep,
         Proofs3!Setup!InitStep, Setup!MigrateStep, Proofs3!Setup!MigrateStep, Setup!SeedStep,
         Proofs3!Setup!SeedStep, Setup!OtherStep, Proofs3!Setup!OtherStep, Setup!Fail,
         Proofs3!Setup!Fail, Setup!Die, Proofs3!Setup!Die, Setup!Expire, Proofs3!Setup!Expire,
         Setup!EnsureTravelerExists, Proofs3!Setup!EnsureTravelerExists, Setup!Ended,
         Proofs3!Setup!Ended, Setup!FirstStep, Proofs3!Setup!FirstStep, Setup!InitLook,
         Proofs3!Setup!InitLook, Setup!InitLock, Proofs3!Setup!InitLock, Setup!InitLookAgain,
         Proofs3!Setup!InitLookAgain, Setup!InitCommit, Proofs3!Setup!InitCommit, Setup!EnsureTable,
         Proofs3!Setup!EnsureTable, Setup!List, Proofs3!Setup!List, Setup!Statements,
         Proofs3!Setup!Statements, Setup!Mark, Proofs3!Setup!Mark, Setup!MigrationCommit,
         Proofs3!Setup!MigrationCommit, Setup!SeedLock, Proofs3!Setup!SeedLock, Setup!RequireEmpty,
         Proofs3!Setup!RequireEmpty, Setup!WriteSection, Proofs3!Setup!WriteSection,
         Setup!SeedCommit, Proofs3!Setup!SeedCommit, Setup!BindDrop, Proofs3!Setup!BindDrop,
         Setup!BindCreate, Proofs3!Setup!BindCreate, Setup!InsertDecoy, Proofs3!Setup!InsertDecoy,
         Setup!TravelersFree, Proofs3!Setup!TravelersFree, Setup!End, Proofs3!Setup!End, Setup!Move,
         Proofs3!Setup!Move, Setup!Travelers, Proofs3!Setup!Travelers, Setup!StepTo,
         Proofs3!Setup!StepTo, Setup!HasTables, Proofs3!Setup!HasTables, Setup!None,
         Proofs3!Setup!None, Setup!Release, Proofs3!Setup!Release, Setup!Migrations,
         Proofs3!Setup!Migrations, Setup!PendingPaths, Proofs3!Setup!PendingPaths, Setup!Onward,
         Proofs3!Setup!Onward, Setup!ViewAfter, Proofs3!Setup!ViewAfter, Setup!Packages,
         Proofs3!Setup!Packages, Setup!HasData, Proofs3!Setup!HasData, Setup!Bookings,
         Proofs3!Setup!Bookings, Setup!Sections, Proofs3!Setup!Sections, Setup!Cardinality,
         Proofs3!Setup!Cardinality, Setup!Min, Proofs3!Setup!Min
<1>3. UNCHANGED Setup!vars => UNCHANGED Proofs3!Setup!vars
  BY DEF Setup!vars, Proofs3!Setup!vars
<1>4. Proofs3!SetupPromise =>
         /\ Setup!TypeOK
         /\ Setup!OnceAndInOrder
         /\ Setup!SeedIsWholeOnce
  BY DEF Proofs3!SetupPromise, Setup!TypeOK, Proofs3!Setup!TypeOK, Setup!OnceAndInOrder,
         Proofs3!Setup!OnceAndInOrder, Setup!SeedIsWholeOnce, Proofs3!Setup!SeedIsWholeOnce,
         Setup!Migrations, Proofs3!Setup!Migrations, Setup!Sections, Proofs3!Setup!Sections,
         Setup!AllScripts, Proofs3!Setup!AllScripts, Setup!Places, Proofs3!Setup!Places, Setup!None,
         Proofs3!Setup!None, Setup!Packages, Proofs3!Setup!Packages, Setup!Bookings,
         Proofs3!Setup!Bookings, Setup!Ended, Proofs3!Setup!Ended, Setup!Steps, Proofs3!Setup!Steps,
         Setup!Range, Proofs3!Setup!Range
<1>5. Proofs3!Setup!Keeps => Setup!Keeps
  BY DEF Setup!Keeps, Proofs3!Setup!Keeps, Setup!Travelers, Proofs3!Setup!Travelers
<1>6. QED BY <1>1, <1>2, <1>3, <1>4, <1>5

\* The group's steps are this component's steps while the behaviour is of it, and leave its
\* places alone otherwise.
LEMMA SetupInductive ==
    /\ Init => (OnSetup => Proofs3!Setup!IInv)
    /\ (OnSetup => Proofs3!Setup!IInv) /\ [Next]_all => (OnSetup => Proofs3!Setup!IInv)'
    /\ (OnSetup => Proofs3!Setup!IInv) =>
         (OnSetup =>
            /\ Setup!TypeOK
            /\ Setup!OnceAndInOrder
            /\ Setup!SeedIsWholeOnce)
    /\ (OnSetup => Proofs3!Setup!IInv) /\ [Next]_all => (OnSetup => Setup!Keeps)
<1>1. Proofs3!Setup!SetupAssumption
  BY Instances DEF Setup!SetupAssumption, Proofs3!Setup!SetupAssumption, Setup!AllScripts,
     Proofs3!Setup!AllScripts
<1>2. Init => (OnSetup => Proofs3!Setup!IInv)
  BY <1>1, Proofs3!SetupInit, SetupMatch DEF Init, ReleaseInit, OnRelease, RollbackInit, OnRollback,
     HostedInit, OnHosted, CommitsInit, OnCommits, RotationInit, OnRotation, LinesInit, OnLines,
     HarnessInit, OnHarness, ProofInit, OnProof, SetupInit, OnSetup
<1>3. OnSetup /\ [Next]_all => Setup!Next \/ UNCHANGED Setup!vars
  BY DEF all, Next, Setup!vars, ReleaseNext, OnRelease, RollbackNext, OnRollback, HostedNext,
         OnHosted, CommitsNext, OnCommits, RotationNext, OnRotation, LinesNext, OnLines,
         HarnessNext, OnHarness, ProofNext, OnProof, SetupNext, OnSetup
<1>4. [Next]_all => part' = part
  BY DEF all, Next, ReleaseNext, RollbackNext, HostedNext, CommitsNext, RotationNext, LinesNext,
         HarnessNext, ProofNext, SetupNext
<1>5. (OnSetup => Proofs3!Setup!IInv) /\ [Next]_all => (OnSetup => Proofs3!Setup!IInv)'
  BY <1>1, <1>3, <1>4, Proofs3!SetupStep, SetupMatch DEF OnSetup
<1>6. (OnSetup => Proofs3!Setup!IInv) =>
        (OnSetup =>
            /\ Setup!TypeOK
            /\ Setup!OnceAndInOrder
            /\ Setup!SeedIsWholeOnce)
  BY <1>1, Proofs3!SetupSays, SetupMatch
<1>7. (OnSetup => Proofs3!Setup!IInv) /\ [Next]_all => (OnSetup => Setup!Keeps)
  BY <1>1, <1>3, <1>4, <1>5, Proofs3!StepKeepsData, SetupMatch DEF OnSetup
<1>8. QED BY <1>2, <1>5, <1>6, <1>7

-----------------------------------------------------------------------------
Proofs4 == INSTANCE Operations_proofs WITH
    Runs <- {r1, r2, r3}, NoRun <- none, MaxVersions <- 2, Attempts <- 2,
    Logins <- {"gateway", "workflow"}, InPlace <- {"workflow"}, MaxFaults <- 1, Together <- FALSE,
    pc <- s1, login <- s2, found <- s3, attempt <- s4, lines <- s5, verifier <- s6, secret <- s7,
    versions <- s8, env <- s9, last <- s10, alone <- s11, broken <- s12, faults <- s13,
    Jobs <- {r1, r2, r3}, NoJob <- none, Parallel <- FALSE, MaxUpsets <- 2, pp <- s1, exit <- s2,
    verdict <- s3, backend <- s4, answerer <- s5, failed <- s6, tried <- s7, whole <- s8,
    data <- s9, purge <- s10, superseded <- s11, upsets <- s12

\* The group's instance and the one Operations_proofs makes are the same system, over the
\* same places, and promise the same things.
LEMMA LinesMatch ==
    /\ Lines!Init => Proofs4!Rotation!Init
    /\ Lines!Next => Proofs4!Rotation!Next
    /\ UNCHANGED Lines!vars => UNCHANGED Proofs4!Rotation!vars
    /\ Proofs4!RotationPromise =>
         /\ Lines!TypeOK
    /\ Proofs4!Rotation!KeepsLines => Lines!KeepsLines
<1>1. Lines!Init => Proofs4!Rotation!Init
  BY DEF Lines!Init, Proofs4!Rotation!Init
<1>2. Lines!Next => Proofs4!Rotation!Next
  BY DEF Lines!Next, Proofs4!Rotation!Next, Lines!Provision, Proofs4!Rotation!Provision,
         Lines!ReadEnv, Proofs4!Rotation!ReadEnv, Lines!OpenEnv, Proofs4!Rotation!OpenEnv,
         Lines!WriteEnv, Proofs4!Rotation!WriteEnv, Lines!Break, Proofs4!Rotation!Break, Lines!Find,
         Proofs4!Rotation!Find, Lines!SetLogin, Proofs4!Rotation!SetLogin, Lines!StoreSecret,
         Proofs4!Rotation!StoreSecret, Lines!TrimPolicy, Proofs4!Rotation!TrimPolicy,
         Lines!WritePolicy, Proofs4!Rotation!WritePolicy, Lines!Verify, Proofs4!Rotation!Verify,
         Lines!CannotConnect, Proofs4!Rotation!CannotConnect, Lines!Goto, Proofs4!Rotation!Goto,
         Lines!OpensInPlace, Proofs4!Rotation!OpensInPlace, Lines!InProgress,
         Proofs4!Rotation!InProgress, Lines!Full, Proofs4!Rotation!Full, Lines!Oldest,
         Proofs4!Rotation!Oldest, Lines!Newest, Proofs4!Rotation!Newest, Lines!Verifies,
         Proofs4!Rotation!Verifies, Lines!Connects, Proofs4!Rotation!Connects, Lines!Ended,
         Proofs4!Rotation!Ended, Lines!Cardinality, Proofs4!Rotation!Cardinality
<1>3. UNCHANGED Lines!vars => UNCHANGED Proofs4!Rotation!vars
  BY DEF Lines!vars, Proofs4!Rotation!vars
<1>4. Proofs4!RotationPromise =>
         /\ Lines!TypeOK
  BY DEF Proofs4!RotationPromise, Lines!TypeOK, Proofs4!Rotation!TypeOK
<1>5. Proofs4!Rotation!KeepsLines => Lines!KeepsLines
  BY DEF Lines!KeepsLines, Proofs4!Rotation!KeepsLines, Lines!InProgress,
         Proofs4!Rotation!InProgress, Lines!Ended, Proofs4!Rotation!Ended
<1>6. QED BY <1>1, <1>2, <1>3, <1>4, <1>5

\* The group's steps are this component's steps while the behaviour is of it, and leave its
\* places alone otherwise.
LEMMA LinesInductive ==
    /\ Init => (OnLines => Proofs4!Rotation!IInv)
    /\ (OnLines => Proofs4!Rotation!IInv) /\ [Next]_all => (OnLines => Proofs4!Rotation!IInv)'
    /\ (OnLines => Proofs4!Rotation!IInv) =>
         (OnLines => Lines!TypeOK)
    /\ (OnLines => Proofs4!Rotation!IInv) /\ [Next]_all => (OnLines => Lines!KeepsLines)
<1>1. Proofs4!Rotation!ScriptsKnown /\ Proofs4!Rotation!LimitsKnown
  BY Instances DEF Lines!ScriptsKnown, Proofs4!Rotation!ScriptsKnown, Lines!LimitsKnown,
     Proofs4!Rotation!LimitsKnown
<1>2. Init => (OnLines => Proofs4!Rotation!IInv)
  BY <1>1, Proofs4!RotationInit, LinesMatch DEF Init, ReleaseInit, OnRelease, RollbackInit,
     OnRollback, HostedInit, OnHosted, CommitsInit, OnCommits, RotationInit, OnRotation, LinesInit,
     OnLines, HarnessInit, OnHarness, ProofInit, OnProof, SetupInit, OnSetup
<1>3. OnLines /\ [Next]_all => Lines!Next \/ UNCHANGED Lines!vars
  BY DEF all, Next, Lines!vars, ReleaseNext, OnRelease, RollbackNext, OnRollback, HostedNext,
         OnHosted, CommitsNext, OnCommits, RotationNext, OnRotation, LinesNext, OnLines,
         HarnessNext, OnHarness, ProofNext, OnProof, SetupNext, OnSetup
<1>4. [Next]_all => part' = part
  BY DEF all, Next, ReleaseNext, RollbackNext, HostedNext, CommitsNext, RotationNext, LinesNext,
         HarnessNext, ProofNext, SetupNext
<1>5. (OnLines => Proofs4!Rotation!IInv) /\ [Next]_all => (OnLines => Proofs4!Rotation!IInv)'
  BY <1>1, <1>3, <1>4, Proofs4!RotationStep, LinesMatch DEF OnLines
<1>6. (OnLines => Proofs4!Rotation!IInv) =>
        (OnLines => Lines!TypeOK)
  BY <1>1, Proofs4!RotationSays, LinesMatch
<1>7. (OnLines => Proofs4!Rotation!IInv) /\ [Next]_all => (OnLines => Lines!KeepsLines)
  BY <1>1, <1>3, <1>4, <1>5, Proofs4!StepKeepsLines, LinesMatch DEF OnLines
<1>8. QED BY <1>2, <1>5, <1>6, <1>7

-----------------------------------------------------------------------------
\* The group's instance and the one Operations_proofs makes are the same system, over the
\* same places, and promise the same things.
LEMMA ProofMatch ==
    /\ Proof!Init => Proofs4!LoginProof!Init
    /\ Proof!Next => Proofs4!LoginProof!Next
    /\ UNCHANGED Proof!vars => UNCHANGED Proofs4!LoginProof!vars
    /\ Proofs4!LoginProofPromise =>
         /\ Proof!PassIsWhole
         /\ Proof!OldPassIsGone
         /\ Proof!NoOpenBackendLeft
<1>1. Proof!Init => Proofs4!LoginProof!Init
  BY DEF Proof!Init, Proofs4!LoginProof!Init, Proof!NoPurge, Proofs4!LoginProof!NoPurge
<1>2. Proof!Next => Proofs4!LoginProof!Next
  BY DEF Proof!Next, Proofs4!LoginProof!Next, Proof!Guard, Proofs4!LoginProof!Guard,
         Proof!Invalidate, Proofs4!LoginProof!Invalidate, Proof!StartBackend,
         Proofs4!LoginProof!StartBackend, Proof!BindPort, Proofs4!LoginProof!BindPort,
         Proof!Healthy, Proofs4!LoginProof!Healthy, Proof!NeverHealthy,
         Proofs4!LoginProof!NeverHealthy, Proof!Checks, Proofs4!LoginProof!Checks, Proof!Pause,
         Proofs4!LoginProof!Pause, Proof!Resume, Proofs4!LoginProof!Resume, Proof!RecoveryFails,
         Proofs4!LoginProof!RecoveryFails, Proof!CleanUp, Proofs4!LoginProof!CleanUp,
         Proof!PurgeBookings, Proofs4!LoginProof!PurgeBookings, Proof!PurgeJourney,
         Proofs4!LoginProof!PurgeJourney, Proof!CleanedUp, Proofs4!LoginProof!CleanedUp,
         Proof!CleanUpBreaks, Proofs4!LoginProof!CleanUpBreaks, Proof!Stop, Proofs4!LoginProof!Stop,
         Proof!SweepOne, Proofs4!LoginProof!SweepOne, Proof!SweptOne, Proofs4!LoginProof!SweptOne,
         Proof!SweepBreaks, Proofs4!LoginProof!SweepBreaks, Proof!Swept, Proofs4!LoginProof!Swept,
         Proof!Close, Proofs4!LoginProof!Close, Proof!Return, Proofs4!LoginProof!Return,
         Proof!Interrupts, Proofs4!LoginProof!Interrupts, Proof!Bound, Proofs4!LoginProof!Bound,
         Proof!At, Proofs4!LoginProof!At, Proof!tool, Proofs4!LoginProof!tool, Proof!ThreadRows,
         Proofs4!LoginProof!ThreadRows, Proof!NoPurge, Proofs4!LoginProof!NoPurge, Proof!StartPurge,
         Proofs4!LoginProof!StartPurge, Proof!Fault, Proofs4!LoginProof!Fault, Proof!Findable,
         Proofs4!LoginProof!Findable, Proof!Passed, Proofs4!LoginProof!Passed,
         Proof!InterruptOutside, Proofs4!LoginProof!InterruptOutside, Proof!InterruptInside,
         Proofs4!LoginProof!InterruptInside, Proof!InterruptStopping,
         Proofs4!LoginProof!InterruptStopping, Proof!Kill, Proofs4!LoginProof!Kill, Proof!Leaves,
         Proofs4!LoginProof!Leaves, Proof!Working, Proofs4!LoginProof!Working
<1>3. UNCHANGED Proof!vars => UNCHANGED Proofs4!LoginProof!vars
  BY DEF Proof!vars, Proofs4!LoginProof!vars, Proof!tool, Proofs4!LoginProof!tool
<1>4. Proofs4!LoginProofPromise =>
         /\ Proof!PassIsWhole
         /\ Proof!OldPassIsGone
         /\ Proof!NoOpenBackendLeft
  BY DEF Proofs4!LoginProofPromise, Proof!PassIsWhole, Proofs4!LoginProof!PassIsWhole,
         Proof!OldPassIsGone, Proofs4!LoginProof!OldPassIsGone, Proof!NoOpenBackendLeft,
         Proofs4!LoginProof!NoOpenBackendLeft, Proof!Pass, Proofs4!LoginProof!Pass
<1>5. QED BY <1>1, <1>2, <1>3, <1>4

\* The group's steps are this component's steps while the behaviour is of it, and leave its
\* places alone otherwise.
LEMMA ProofInductive ==
    /\ Init => (OnProof => Proofs4!LoginProof!IInv)
    /\ (OnProof => Proofs4!LoginProof!IInv) /\ [Next]_all => (OnProof => Proofs4!LoginProof!IInv)'
    /\ (OnProof => Proofs4!LoginProof!IInv) =>
         (OnProof =>
            /\ Proof!PassIsWhole
            /\ Proof!OldPassIsGone
            /\ Proof!NoOpenBackendLeft)
<1>1. Proofs4!LoginProof!RunsFollow
  BY Instances DEF Proof!RunsFollow, Proofs4!LoginProof!RunsFollow
<1>2. Init => (OnProof => Proofs4!LoginProof!IInv)
  BY <1>1, Proofs4!LoginProofInit, ProofMatch DEF Init, ReleaseInit, OnRelease, RollbackInit,
     OnRollback, HostedInit, OnHosted, CommitsInit, OnCommits, RotationInit, OnRotation, LinesInit,
     OnLines, HarnessInit, OnHarness, ProofInit, OnProof, SetupInit, OnSetup
<1>3. OnProof /\ [Next]_all => Proof!Next \/ UNCHANGED Proof!vars
  BY DEF all, Next, Proof!vars, Proof!tool, ReleaseNext, OnRelease, RollbackNext, OnRollback,
         HostedNext, OnHosted, CommitsNext, OnCommits, RotationNext, OnRotation, LinesNext, OnLines,
         HarnessNext, OnHarness, ProofNext, OnProof, SetupNext, OnSetup
<1>4. [Next]_all => part' = part
  BY DEF all, Next, ReleaseNext, RollbackNext, HostedNext, CommitsNext, RotationNext, LinesNext,
         HarnessNext, ProofNext, SetupNext
<1>5. (OnProof => Proofs4!LoginProof!IInv) /\ [Next]_all => (OnProof => Proofs4!LoginProof!IInv)'
  BY <1>1, <1>3, <1>4, Proofs4!LoginProofStep, ProofMatch DEF OnProof
<1>6. (OnProof => Proofs4!LoginProof!IInv) =>
        (OnProof =>
            /\ Proof!PassIsWhole
            /\ Proof!OldPassIsGone
            /\ Proof!NoOpenBackendLeft)
  BY <1>1, Proofs4!LoginProofSays, ProofMatch
<1>7. QED BY <1>2, <1>5, <1>6

-----------------------------------------------------------------------------
\* A release and its rollback are safe in the group's behaviours, whatever command died between
\* two of its steps: no Gateway works without its grant or goes unsaved, no stale file plans a
\* deletion, and an owed restart is not forgotten (release_identity.py).
THEOREM ReleaseHolds == Spec => ReleaseIsSafe
<1> DEFINE Inv ==
                 /\ OnRelease => Proofs1!Release!IInv
                 /\ OnRollback => Proofs2!Rollback!IInv
           Holds ==
                  /\ OnRelease => /\ Release!TypeOK
                                  /\ Release!AttachedIsGranted
                                  /\ Release!NothingLeftBehind
                                  /\ Release!AgreedPlanIsSafe
                  /\ OnRollback => /\ Rollback!TypeOK
                                   /\ Rollback!RestartIsOwed
<1>1. Init => Inv
  BY ReleaseInductive, RollbackInductive
<1>2. Inv /\ [Next]_all => Inv'
  BY ReleaseInductive, RollbackInductive
<1>3. Inv => Holds
  BY ReleaseInductive, RollbackInductive
<1>4. Inv /\ [Next]_all => [OnRelease => Release!Replaces]_all
  BY ReleaseInductive
<1>5. Inv /\ [Next]_all => [OnRelease => Release!DropsLogs]_all
  BY ReleaseInductive
<1>6. Inv /\ [Next]_all => [OnRollback => Rollback!Completes]_all
  BY RollbackInductive
<1> HIDE DEF Inv
<1>7. Spec
       => /\ []Holds
          /\ [][OnRelease => Release!Replaces]_all
          /\ [][OnRelease => Release!DropsLogs]_all
          /\ [][OnRollback => Rollback!Completes]_all
  BY <1>1, <1>2, <1>3, <1>4, <1>5, <1>6, PTL DEF Spec
<1>8. QED BY <1>7 DEF ReleaseIsSafe

-----------------------------------------------------------------------------
\* A receipt of a hosted release is true in the group's behaviours: a failed publish and an
\* update that App Runner rolled back leave nothing that a later receipt would misname
\* (scripts/publish_hosted.py and its preflight).
THEOREM HostedHolds == Spec => []HostedIsWhole
<1> DEFINE Inv ==
                 /\ OnHosted => Proofs1!Hosted!IInv
                 /\ OnCommits => Proofs2!Hosted!IInv
<1>1. Init => Inv
  BY HostedInductive, CommitsInductive
<1>2. Inv /\ [Next]_all => Inv'
  BY HostedInductive, CommitsInductive
<1>3. Inv => HostedIsWhole
  BY HostedInductive, CommitsInductive DEF HostedIsWhole
<1>4. QED BY <1>1, <1>2, <1>3, PTL DEF Spec

-----------------------------------------------------------------------------
\* However runs of one login overlap and die in the group's behaviours, the one that verified last
\* left a password that works, and a run alone repairs what the others left; where runs follow one
\* another no line of .env is lost (provision_service_logins.py).
THEOREM LoginsHold == Spec => LoginsWork
<1> DEFINE Inv ==
                 /\ OnRotation => Proofs3!Rotation!IInv
                 /\ OnLines => Proofs4!Rotation!IInv
           Holds ==
                  /\ OnRotation => /\ Rotation!TypeOK
                                   /\ Rotation!LastVerifiedWorks
                                   /\ Rotation!RerunRepairs
                  /\ OnLines => Lines!TypeOK
<1>1. Init => Inv
  BY RotationInductive, LinesInductive
<1>2. Inv /\ [Next]_all => Inv'
  BY RotationInductive, LinesInductive
<1>3. Inv => Holds
  BY RotationInductive, LinesInductive
<1>4. Inv /\ [Next]_all => [OnLines => Lines!KeepsLines]_all
  BY LinesInductive
<1> HIDE DEF Inv
<1>5. Spec
       => /\ []Holds
          /\ [][OnLines => Lines!KeepsLines]_all
  BY <1>1, <1>2, <1>3, <1>4, PTL DEF Spec
<1>6. QED BY <1>5 DEF LoginsWork

-----------------------------------------------------------------------------
\* A run of the Gateway harness or of the login proof that reports success in the group's
\* behaviours left nothing of its own and took nothing of another, though it or an earlier one
\* was killed anywhere (scripts/gateway_harness, prove_backend_login.py).
THEOREM CleanHolds == Spec => []CleanIsClean
<1> DEFINE Inv ==
                 /\ OnHarness => Proofs2!Harness!IInv
                 /\ OnProof => Proofs4!LoginProof!IInv
<1>1. Init => Inv
  BY HarnessInductive, ProofInductive
<1>2. Inv /\ [Next]_all => Inv'
  BY HarnessInductive, ProofInductive
<1>3. Inv => CleanIsClean
  BY HarnessInductive, ProofInductive DEF CleanIsClean
<1>4. QED BY <1>1, <1>2, <1>3, PTL DEF Spec

-----------------------------------------------------------------------------
\* Two operators who run the schema scripts at once, from checkouts of different ages, apply each
\* migration once and in order, seed whole or not at all, and wipe nothing that is in use
\* (init_aurora_schema.py, apply_migrations.py, seed_data.py).
THEOREM SchemaHolds == Spec => SchemaIsOnce
<1> DEFINE Inv == OnSetup => Proofs3!Setup!IInv
           Holds == OnSetup => /\ Setup!TypeOK
                               /\ Setup!OnceAndInOrder
                               /\ Setup!SeedIsWholeOnce
<1>1. Init => Inv
  BY SetupInductive
<1>2. Inv /\ [Next]_all => Inv'
  BY SetupInductive
<1>3. Inv => Holds
  BY SetupInductive
<1>4. Inv /\ [Next]_all => [OnSetup => Setup!Keeps]_all
  BY SetupInductive
<1> HIDE DEF Inv
<1>5. Spec
       => /\ []Holds
          /\ [][OnSetup => Setup!Keeps]_all
  BY <1>1, <1>2, <1>3, <1>4, PTL DEF Spec
<1>6. QED BY <1>5 DEF SchemaIsOnce
==============================================================================
