-------------------- MODULE MCOperations ------------------------------------
(* What an operator runs: releases and their rollback, login rotation and  *)
(* its proof, the Gateway harness, and the schema.                         *)
(* Each behaviour is of one component, which it picks at its first state;  *)
(* the components share nothing, so the places s1, s2, ... hold the        *)
(* variables of that one.                                                  *)
EXTENDS Naturals, Sequences, FiniteSets, TLC

CONSTANTS none, r1, r2, r3, a, b
VARIABLES part, \* which component this behaviour is of
          \* the variables of that component, in the order in which it declares them
          s1, s2, s3, s4, s5, s6, s7, s8, s9, s10, s11, s12, s13, s14, s15

all == <<part, s1, s2, s3, s4, s5, s6, s7, s8, s9, s10, s11, s12, s13, s14, s15>>

Release == INSTANCE GatewayReplacement WITH
    Goals <- {"iam", "jwt"}, MaxGateways <- 4, MaxFaults <- 1, gate <- s1, learned <- s2,
    moving <- s3, logGroup <- s4, file <- s5, render <- s6, url <- s7, saved <- s8,
    ready <- s9, pin <- s10, cmd <- s11, orphan <- s12, made <- s13, faults <- s14
Rollback == INSTANCE ReleaseRollback WITH
    Snaps <- {"s1"}, MaxFaults <- 1, live <- s1, cache <- s2, result <- s3, run <- s4,
    replaced <- s5, faults <- s6
Hosted == INSTANCE HostedRelease WITH
    Publishes <- {1, 2}, MaxCommit <- 1, TightenAny <- FALSE, Still <- TRUE, pc <- s1,
    mode <- s2, kind <- s3, tighten <- s4, image <- s5, head <- s6, proof <- s7, proven <- s8,
    hops <- s9, roles <- s10, service <- s11, op <- s12, ended <- s13, site <- s14,
    receipt <- s15
Commits == INSTANCE HostedRelease WITH
    Publishes <- {1}, MaxCommit <- 2, TightenAny <- FALSE, Still <- TRUE, pc <- s1, mode <- s2,
    kind <- s3, tighten <- s4, image <- s5, head <- s6, proof <- s7, proven <- s8, hops <- s9,
    roles <- s10, service <- s11, op <- s12, ended <- s13, site <- s14, receipt <- s15
Rotation == INSTANCE LoginRotation WITH
    Runs <- {r1, r2, r3}, NoRun <- none, MaxVersions <- 2, Attempts <- 3,
    Logins <- {"gateway"}, InPlace <- {}, MaxFaults <- 1, Together <- TRUE, pc <- s1,
    login <- s2, found <- s3, attempt <- s4, lines <- s5, verifier <- s6, secret <- s7,
    versions <- s8, env <- s9, last <- s10, alone <- s11, broken <- s12, faults <- s13
Lines == INSTANCE LoginRotation WITH
    Runs <- {r1, r2, r3}, NoRun <- none, MaxVersions <- 2, Attempts <- 2,
    Logins <- {"gateway", "workflow"}, InPlace <- {"workflow"}, MaxFaults <- 1,
    Together <- FALSE, pc <- s1, login <- s2, found <- s3, attempt <- s4, lines <- s5,
    verifier <- s6, secret <- s7, versions <- s8, env <- s9, last <- s10, alone <- s11,
    broken <- s12, faults <- s13
Harness == INSTANCE GatewayHarness WITH
    MaxFaults <- 2, MaxPasted <- 1, cloud <- s1, logs <- s2, joined <- s3, file <- s4,
    pc <- s5, step <- s6, entries <- s7, todo <- s8, owned <- s9, groups <- s10, left <- s11,
    code <- s12, hit <- s13, faults <- s14, pasted <- s15
Proof == INSTANCE BackendProof WITH
    Runs <- {r1, r2, r3}, NoRun <- none, Together <- FALSE, MaxFaults <- 2, pc <- s1,
    exit <- s2, receipt <- s3, backend <- s4, answerer <- s5, failed <- s6, tried <- s7,
    whole <- s8, rows <- s9, purge <- s10, superseded <- s11, faults <- s12
Setup == INSTANCE SchemaSetup WITH
    Operators <- {a, b},
    Scripts <- {"init", "migrate", "one", "dry", "seed", "catalog", "bind", "decoy"},
    Newest <- 2, MaxRuns <- 3, db <- s1, run <- s2, advisory <- s3, keys <- s4, runs <- s5

\* What each component assumes of its constants.
ASSUME Instances == 
    /\ Release!GoalsAssumption
    /\ Release!BoundsAssumption
    /\ Rollback!RollbackAssumption
    /\ Hosted!PublishesAssumption
    /\ Commits!PublishesAssumption
    /\ Rotation!ScriptsKnown
    /\ Rotation!LimitsKnown
    /\ Lines!ScriptsKnown
    /\ Lines!LimitsKnown
    /\ Harness!BoundsAreNatural
    /\ Proof!RunsFollow
    /\ Setup!SetupAssumption

Unused == "unused"
OnRelease == part = "release"
OnRollback == part = "rollback"
OnHosted == part = "hosted"
OnCommits == part = "commits"
OnRotation == part = "rotation"
OnLines == part = "lines"
OnHarness == part = "harness"
OnProof == part = "proof"
OnSetup == part = "setup"

ReleaseInit == /\ OnRelease /\ Release!Init
               /\ s15 = Unused
ReleaseNext == OnRelease /\ Release!Next /\ UNCHANGED <<part, s15>>
RollbackInit == /\ OnRollback /\ Rollback!Init
                /\ s7 = Unused /\ s8 = Unused /\ s9 = Unused /\ s10 = Unused /\ s11 = Unused
                /\ s12 = Unused /\ s13 = Unused /\ s14 = Unused /\ s15 = Unused
RollbackNext == OnRollback /\ Rollback!Next /\ UNCHANGED <<part, s7, s8, s9, s10, s11, s12, s13, s14, s15>>
HostedInit == /\ OnHosted /\ Hosted!Init
HostedNext == OnHosted /\ Hosted!Next /\ UNCHANGED <<part>>
CommitsInit == /\ OnCommits /\ Commits!Init
CommitsNext == OnCommits /\ Commits!Next /\ UNCHANGED <<part>>
RotationInit == /\ OnRotation /\ Rotation!Init
                /\ s14 = Unused /\ s15 = Unused
RotationNext == OnRotation /\ Rotation!Next /\ UNCHANGED <<part, s14, s15>>
LinesInit == /\ OnLines /\ Lines!Init
             /\ s14 = Unused /\ s15 = Unused
LinesNext == OnLines /\ Lines!Next /\ UNCHANGED <<part, s14, s15>>
HarnessInit == /\ OnHarness /\ Harness!Init
HarnessNext == OnHarness /\ Harness!Next /\ UNCHANGED <<part>>
ProofInit == /\ OnProof /\ Proof!Init
             /\ s13 = Unused /\ s14 = Unused /\ s15 = Unused
ProofNext == OnProof /\ Proof!Next /\ UNCHANGED <<part, s13, s14, s15>>
SetupInit == /\ OnSetup /\ Setup!Init
             /\ s6 = Unused /\ s7 = Unused /\ s8 = Unused /\ s9 = Unused /\ s10 = Unused /\ s11 = Unused
             /\ s12 = Unused /\ s13 = Unused /\ s14 = Unused /\ s15 = Unused
SetupNext == /\ OnSetup /\ Setup!Next
             /\ UNCHANGED <<part, s6, s7, s8, s9, s10, s11, s12, s13, s14, s15>>

Init == \/ ReleaseInit
        \/ RollbackInit
        \/ HostedInit
        \/ CommitsInit
        \/ RotationInit
        \/ LinesInit
        \/ HarnessInit
        \/ ProofInit
        \/ SetupInit
Next == \/ ReleaseNext
        \/ RollbackNext
        \/ HostedNext
        \/ CommitsNext
        \/ RotationNext
        \/ LinesNext
        \/ HarnessNext
        \/ ProofNext
        \/ SetupNext
Spec == Init /\ [][Next]_all

-----------------------------------------------------------------------------
\* A release, and its rollback, may lose a command between any two steps: no Gateway works
\* without its grant, none goes unsaved, no stale file plans a deletion, and an owed restart is
\* not forgotten.
ReleaseIsSafe ==
    /\ [](/\ OnRelease => /\ Release!TypeOK
                          /\ Release!AttachedIsGranted  \* an attached interceptor may be invoked
                          /\ Release!NothingLeftBehind  \* no Gateway goes while its role holds a foreign policy
                          /\ Release!AgreedPlanIsSafe  \* an agreed plan deletes no target and no engine
          /\ OnRollback => /\ Rollback!TypeOK
                           /\ Rollback!RestartIsOwed)  \* the run or its file knows a restart that is owed
    /\ [][OnRelease => Release!Replaces]_all  \* a Gateway goes only with a snapshot of that very one
    /\ [][OnRelease => Release!DropsLogs]_all  \* a log group goes only after its function
    /\ [][OnRollback => Rollback!Completes]_all  \* code 0 only when every hop is as saved

\* A receipt of a hosted release is true: what it names is live as a whole, is an image that
\* was proven, and reads its secrets, also after an update that App Runner rolled back.
HostedIsWhole ==
    /\ OnHosted => /\ Hosted!DeployedIsWhole  \* "RUNNING alone is insufficient"
                   /\ Hosted!ServiceKeepsItsSecrets  \* the roles keep what the service before them needs
    /\ OnCommits => Commits!ImageIsProven  \* "The receipt must be this release's"

\* However runs of one login overlap and die, the one that verified last left a password that
\* works, and a rerun repairs what the others left; .env keeps its lines.
LoginsWork ==
    /\ [](/\ OnRotation => /\ Rotation!TypeOK
                           /\ Rotation!LastVerifiedWorks  \* the secret has the accepted password
                           /\ Rotation!RerunRepairs  \* a lone run fails only by a call of its own
          /\ OnLines => Lines!TypeOK)
    /\ [][OnLines => Lines!KeepsLines]_all  \* no line is lost to a killed run

\* A run that reports success, of the Gateway harness or of the login proof, left nothing of
\* its own and took nothing of another, though it or an earlier one was killed anywhere.
CleanIsClean ==
    /\ OnHarness => /\ Harness!TypeOK
                    /\ Harness!OthersAreKept  \* no teardown deletes what another run made
                    /\ Harness!NamedAreTracked  \* what exists is in the ledger
                    /\ Harness!CleanExitIsClean  \* exit 0 or 1 leaves nothing that is listed
                    /\ Harness!OnePassIsEnough  \* one undisturbed teardown is enough
    /\ OnProof => /\ Proof!PassIsWhole  \* a pass had every check, and left no proof thread
                  /\ Proof!OldPassIsGone  \* no older pass stands for a run that began
                  /\ Proof!NoOpenBackendLeft  \* an open backend ends with its run

\* However many operators run the schema scripts at once, from whatever checkout: each
\* migration takes effect once and in order, the seed is whole, and what was written stays.
SchemaIsOnce ==
    /\ [](OnSetup => /\ Setup!TypeOK
                     /\ Setup!OnceAndInOrder  \* the ledger says exactly which ones did
                     /\ Setup!SeedIsWholeOnce)  \* whole, not at all, or the catalog alone
    /\ [][OnSetup => Setup!Keeps]_all  \* nothing in use is wiped

Symmetry == Permutations({r1, r2, r3}) \union Permutations({a, b})
=============================================================================
