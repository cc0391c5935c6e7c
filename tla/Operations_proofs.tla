------------------------- MODULE Operations_proofs -------------------------
(* Why the components an operator runs, and the checkpoints that a worker    *)
(* resumes from, keep their promises, for every value of their constants.    *)
(* The components share nothing but this module: each is an instance over    *)
(* constants and variables of its own names, and its inductive invariant     *)
(* stands in its own module.                                                 *)
EXTENDS Integers, Sequences, FiniteSets, FiniteSetTheorems, SequenceTheorems, TLAPS

-----------------------------------------------------------------------------
(* A hosted release. *)

CONSTANTS Publishes, MaxCommit, TightenAny, Still
VARIABLES pc, mode, kind, tighten, image, head, proof, proven, hops, roles, service, op, ended,
          site, receipt
Hosted == INSTANCE HostedRelease

USE DEF Hosted!PublishesAssumption, Hosted!Modes, Hosted!Hops, Hosted!Secrets, Hosted!Starting,
        Hosted!Granted, Hosted!Live

\* Each action keeps the invariant.
LEMMA HostedStep == ASSUME Hosted!PublishesAssumption, Hosted!IInv, [Hosted!Next]_(Hosted!vars)
  PROVE Hosted!IInv'
<1>1. ASSUME Hosted!Commit PROVE Hosted!IInv'
  <2> USE <1>1 DEF Hosted!Commit, Hosted!Quiet, Hosted!Running
  <2>1. /\ Hosted!TypeOK' /\ Hosted!OneAtATime' /\ Hosted!OperationIsOwned' /\ Hosted!ReceiptFirst'
        /\ Hosted!InOrder' /\ Hosted!TightenedLate' /\ Hosted!ProvenFirst'
        /\ Hosted!DeployedIsWhole'
    BY DEF Hosted!IInv, Hosted!TypeOK, Hosted!OneAtATime, Hosted!OperationIsOwned,
           Hosted!ReceiptFirst, Hosted!InOrder, Hosted!Grants, Hosted!Deployed,
           Hosted!TightenedLate, Hosted!ProvenFirst, Hosted!DeployedIsWhole
  <2> QED BY <2>1 DEF Hosted!IInv
<1>2. ASSUME Hosted!Prove PROVE Hosted!IInv'
  <2> USE <1>2 DEF Hosted!Prove, Hosted!Quiet, Hosted!Running
  <2>1. /\ Hosted!TypeOK' /\ Hosted!OneAtATime' /\ Hosted!OperationIsOwned' /\ Hosted!ReceiptFirst'
        /\ Hosted!InOrder' /\ Hosted!TightenedLate' /\ Hosted!ProvenFirst'
        /\ Hosted!DeployedIsWhole'
    BY DEF Hosted!IInv, Hosted!TypeOK, Hosted!OneAtATime, Hosted!OperationIsOwned,
           Hosted!ReceiptFirst, Hosted!InOrder, Hosted!Grants, Hosted!Deployed,
           Hosted!TightenedLate, Hosted!ProvenFirst, Hosted!DeployedIsWhole
  <2> QED BY <2>1 DEF Hosted!IInv
<1>3. ASSUME Hosted!DeployHop PROVE Hosted!IInv'
  <2> USE <1>3 DEF Hosted!DeployHop, Hosted!Quiet, Hosted!Running
  <2>1. /\ Hosted!TypeOK' /\ Hosted!OneAtATime' /\ Hosted!OperationIsOwned' /\ Hosted!ReceiptFirst'
        /\ Hosted!InOrder' /\ Hosted!TightenedLate' /\ Hosted!ProvenFirst'
        /\ Hosted!DeployedIsWhole'
    BY DEF Hosted!IInv, Hosted!TypeOK, Hosted!OneAtATime, Hosted!OperationIsOwned,
           Hosted!ReceiptFirst, Hosted!InOrder, Hosted!Grants, Hosted!Deployed,
           Hosted!TightenedLate, Hosted!ProvenFirst, Hosted!DeployedIsWhole
  <2> QED BY <2>1 DEF Hosted!IInv
<1>4. ASSUME Hosted!OperationEnds PROVE Hosted!IInv'
  <2> USE <1>4 DEF Hosted!OperationEnds
  <2>1. /\ Hosted!TypeOK' /\ Hosted!OneAtATime' /\ Hosted!OperationIsOwned' /\ Hosted!ReceiptFirst'
        /\ Hosted!ProvenFirst'
    BY DEF Hosted!IInv, Hosted!TypeOK, Hosted!OneAtATime, Hosted!Running, Hosted!OperationIsOwned,
           Hosted!ReceiptFirst, Hosted!ProvenFirst
  <2>2. Hosted!InOrder'
    BY DEF Hosted!IInv, Hosted!InOrder, Hosted!Grants, Hosted!Deployed, Hosted!TypeOK,
           Hosted!OneAtATime, Hosted!Running, Hosted!OperationIsOwned, Hosted!ReceiptFirst
  <2>3. Hosted!TightenedLate'
    BY DEF Hosted!IInv, Hosted!TightenedLate, Hosted!Running, Hosted!TypeOK, Hosted!OneAtATime,
           Hosted!OperationIsOwned, Hosted!InOrder, Hosted!Grants, Hosted!Deployed
  <2>4. Hosted!DeployedIsWhole'
    BY DEF Hosted!IInv, Hosted!DeployedIsWhole, Hosted!Grants, Hosted!TypeOK, Hosted!ReceiptFirst,
           Hosted!InOrder, Hosted!Deployed
  <2> QED BY <2>1, <2>2, <2>3, <2>4 DEF Hosted!IInv
<1>5. ASSUME NEW p \in Publishes, Hosted!Inspect(p) PROVE Hosted!IInv'
  <2> USE <1>5 DEF Hosted!Inspect, Hosted!Quiet, Hosted!Goto, Hosted!Running
  <2>1. /\ Hosted!TypeOK' /\ Hosted!OneAtATime' /\ Hosted!OperationIsOwned' /\ Hosted!ReceiptFirst'
        /\ Hosted!InOrder' /\ Hosted!ProvenFirst'
    BY DEF Hosted!IInv, Hosted!TypeOK, Hosted!OneAtATime, Hosted!OperationIsOwned,
           Hosted!ReceiptFirst, Hosted!InOrder, Hosted!Grants, Hosted!Deployed, Hosted!ProvenFirst
  <2>2. Hosted!TightenedLate'
    BY DEF Hosted!IInv, Hosted!TightenedLate, Hosted!TypeOK, Hosted!OneAtATime,
           Hosted!OperationIsOwned, Hosted!InOrder, Hosted!Grants, Hosted!Deployed
  <2>3. Hosted!DeployedIsWhole'
    BY DEF Hosted!IInv, Hosted!DeployedIsWhole, Hosted!Grants, Hosted!TypeOK, Hosted!ReceiptFirst,
           Hosted!InOrder, Hosted!Deployed
  <2> QED BY <2>1, <2>2, <2>3 DEF Hosted!IInv
<1>6. ASSUME NEW p \in Publishes, Hosted!Check(p) PROVE Hosted!IInv'
  <2> USE <1>6 DEF Hosted!Check, Hosted!Goto, Hosted!Findings, Hosted!GatewayAgrees,
                   Hosted!RuntimesAgree, Hosted!PoliciesAgree, Hosted!InterceptorAgrees,
                   Hosted!IdentityAgrees, Hosted!BudgetAgrees, Hosted!ProofIsThisCommits
  <2>1. Hosted!TypeOK' /\ Hosted!OperationIsOwned' /\ Hosted!DeployedIsWhole'
    BY DEF Hosted!IInv, Hosted!TypeOK, Hosted!OperationIsOwned, Hosted!Running,
           Hosted!DeployedIsWhole, Hosted!Grants
  <2>2. Hosted!OneAtATime'
    BY DEF Hosted!IInv, Hosted!OneAtATime, Hosted!Running, Hosted!TypeOK
  <2>3. Hosted!ReceiptFirst'
    BY DEF Hosted!IInv, Hosted!ReceiptFirst, Hosted!TypeOK
  <2>4. Hosted!InOrder'
    BY DEF Hosted!IInv, Hosted!InOrder, Hosted!Grants, Hosted!Deployed, Hosted!TypeOK
  <2>5. Hosted!TightenedLate'
    BY DEF Hosted!IInv, Hosted!TightenedLate, Hosted!Running, Hosted!TypeOK
  <2>6. Hosted!ProvenFirst'
    BY DEF Hosted!IInv, Hosted!ProvenFirst, Hosted!TypeOK
  <2> QED BY <2>1, <2>2, <2>3, <2>4, <2>5, <2>6 DEF Hosted!IInv
<1>7. ASSUME NEW p \in Publishes, Hosted!StartReceipt(p) PROVE Hosted!IInv'
  <2> USE <1>7 DEF Hosted!StartReceipt, Hosted!Goto
  <2>1. /\ Hosted!TypeOK' /\ Hosted!OneAtATime' /\ Hosted!OperationIsOwned' /\ Hosted!InOrder'
        /\ Hosted!TightenedLate' /\ Hosted!ProvenFirst' /\ Hosted!DeployedIsWhole'
    BY DEF Hosted!IInv, Hosted!TypeOK, Hosted!OneAtATime, Hosted!Running, Hosted!OperationIsOwned,
           Hosted!InOrder, Hosted!Grants, Hosted!Deployed, Hosted!TightenedLate,
           Hosted!ProvenFirst, Hosted!DeployedIsWhole
  <2>2. Hosted!ReceiptFirst'
    BY DEF Hosted!IInv, Hosted!ReceiptFirst, Hosted!TypeOK, Hosted!OneAtATime, Hosted!Running,
           Hosted!OperationIsOwned
  <2> QED BY <2>1, <2>2 DEF Hosted!IInv
<1>8. ASSUME NEW p \in Publishes, Hosted!DeployRoles(p) PROVE Hosted!IInv'
  <2> USE <1>8 DEF Hosted!DeployRoles, Hosted!Goto, Hosted!Grants
  <2>1. /\ Hosted!TypeOK' /\ Hosted!OneAtATime' /\ Hosted!OperationIsOwned' /\ Hosted!ReceiptFirst'
        /\ Hosted!ProvenFirst'
    BY DEF Hosted!IInv, Hosted!TypeOK, Hosted!OneAtATime, Hosted!Running, Hosted!OperationIsOwned,
           Hosted!ReceiptFirst, Hosted!ProvenFirst
  <2>2. Hosted!InOrder'
    BY DEF Hosted!IInv, Hosted!InOrder, Hosted!Deployed, Hosted!TypeOK, Hosted!OneAtATime,
           Hosted!Running, Hosted!OperationIsOwned, Hosted!ReceiptFirst
  <2>3. Hosted!TightenedLate'
    BY DEF Hosted!IInv, Hosted!TightenedLate, Hosted!Running, Hosted!TypeOK, Hosted!OneAtATime,
           Hosted!OperationIsOwned, Hosted!InOrder, Hosted!Deployed
  <2>4. Hosted!DeployedIsWhole'
    BY DEF Hosted!IInv, Hosted!DeployedIsWhole, Hosted!TypeOK, Hosted!ReceiptFirst, Hosted!InOrder,
           Hosted!Deployed
  <2> QED BY <2>1, <2>2, <2>3, <2>4 DEF Hosted!IInv
<1>9. ASSUME NEW p \in Publishes, Hosted!DeployImage(p) PROVE Hosted!IInv'
  <2> USE <1>9 DEF Hosted!DeployImage, Hosted!Goto
  <2>1. /\ Hosted!TypeOK' /\ Hosted!OneAtATime' /\ Hosted!OperationIsOwned' /\ Hosted!ReceiptFirst'
        /\ Hosted!InOrder' /\ Hosted!TightenedLate'
    BY DEF Hosted!IInv, Hosted!TypeOK, Hosted!OneAtATime, Hosted!Running, Hosted!OperationIsOwned,
           Hosted!ReceiptFirst, Hosted!InOrder, Hosted!Grants, Hosted!Deployed, Hosted!TightenedLate
  <2>2. Hosted!ProvenFirst'
    BY DEF Hosted!IInv, Hosted!ProvenFirst, Hosted!TypeOK
  <2>3. Hosted!DeployedIsWhole'
    BY DEF Hosted!IInv, Hosted!DeployedIsWhole, Hosted!Grants, Hosted!TypeOK, Hosted!ReceiptFirst,
           Hosted!InOrder, Hosted!Deployed
  <2> QED BY <2>1, <2>2, <2>3 DEF Hosted!IInv
<1>10. ASSUME NEW p \in Publishes, Hosted!UpdateService(p) PROVE Hosted!IInv'
  <2> USE <1>10 DEF Hosted!UpdateService, Hosted!Goto
  <2>1. /\ Hosted!TypeOK' /\ Hosted!OneAtATime' /\ Hosted!ReceiptFirst' /\ Hosted!InOrder'
        /\ Hosted!ProvenFirst' /\ Hosted!DeployedIsWhole'
    BY DEF Hosted!IInv, Hosted!TypeOK, Hosted!OneAtATime, Hosted!Running, Hosted!ReceiptFirst,
           Hosted!InOrder, Hosted!Grants, Hosted!Deployed, Hosted!ProvenFirst,
           Hosted!DeployedIsWhole
  <2>2. Hosted!OperationIsOwned'
    BY DEF Hosted!IInv, Hosted!OperationIsOwned, Hosted!Running, Hosted!TypeOK, Hosted!OneAtATime,
           Hosted!ReceiptFirst, Hosted!InOrder, Hosted!Grants, Hosted!Deployed,
           Hosted!TightenedLate, Hosted!ProvenFirst, Hosted!DeployedIsWhole
  <2>3. Hosted!TightenedLate'
    BY DEF Hosted!IInv, Hosted!TightenedLate, Hosted!Running, Hosted!TypeOK, Hosted!OneAtATime,
           Hosted!OperationIsOwned, Hosted!InOrder, Hosted!Grants, Hosted!Deployed
  <2> QED BY <2>1, <2>2, <2>3 DEF Hosted!IInv
<1>11. ASSUME NEW p \in Publishes, Hosted!WaitForOperation(p) PROVE Hosted!IInv'
  <2> USE <1>11 DEF Hosted!WaitForOperation, Hosted!Goto, Hosted!Retained
  <2>1. /\ Hosted!TypeOK' /\ Hosted!OneAtATime' /\ Hosted!OperationIsOwned' /\ Hosted!ReceiptFirst'
        /\ Hosted!InOrder' /\ Hosted!TightenedLate' /\ Hosted!ProvenFirst'
        /\ Hosted!DeployedIsWhole'
    BY DEF Hosted!IInv, Hosted!TypeOK, Hosted!OneAtATime, Hosted!Running, Hosted!OperationIsOwned,
           Hosted!ReceiptFirst, Hosted!InOrder, Hosted!Grants, Hosted!Deployed,
           Hosted!TightenedLate, Hosted!ProvenFirst, Hosted!DeployedIsWhole
  <2> QED BY <2>1 DEF Hosted!IInv
<1>12. ASSUME NEW p \in Publishes, Hosted!DeploySite(p) PROVE Hosted!IInv'
  <2> USE <1>12 DEF Hosted!DeploySite, Hosted!Goto
  <2>1. /\ Hosted!TypeOK' /\ Hosted!OneAtATime' /\ Hosted!OperationIsOwned' /\ Hosted!ReceiptFirst'
        /\ Hosted!TightenedLate' /\ Hosted!ProvenFirst'
    BY DEF Hosted!IInv, Hosted!TypeOK, Hosted!OneAtATime, Hosted!Running, Hosted!OperationIsOwned,
           Hosted!ReceiptFirst, Hosted!TightenedLate, Hosted!ProvenFirst
  <2>2. Hosted!InOrder'
    BY DEF Hosted!IInv, Hosted!InOrder, Hosted!Grants, Hosted!Deployed, Hosted!TypeOK,
           Hosted!OneAtATime, Hosted!Running, Hosted!OperationIsOwned, Hosted!ReceiptFirst
  <2>3. Hosted!DeployedIsWhole'
    BY DEF Hosted!IInv, Hosted!DeployedIsWhole, Hosted!Grants, Hosted!TypeOK, Hosted!ReceiptFirst,
           Hosted!InOrder, Hosted!Deployed
  <2> QED BY <2>1, <2>2, <2>3 DEF Hosted!IInv
<1>13. ASSUME NEW p \in Publishes, Hosted!FinishReceipt(p) PROVE Hosted!IInv'
  <2> USE <1>13 DEF Hosted!FinishReceipt, Hosted!Goto
  <2>1. /\ Hosted!TypeOK' /\ Hosted!OneAtATime' /\ Hosted!OperationIsOwned' /\ Hosted!InOrder'
        /\ Hosted!TightenedLate' /\ Hosted!ProvenFirst'
    BY DEF Hosted!IInv, Hosted!TypeOK, Hosted!OneAtATime, Hosted!Running, Hosted!OperationIsOwned,
           Hosted!InOrder, Hosted!Grants, Hosted!Deployed, Hosted!TightenedLate, Hosted!ProvenFirst
  <2>2. Hosted!ReceiptFirst'
    BY DEF Hosted!IInv, Hosted!ReceiptFirst, Hosted!TypeOK, Hosted!OneAtATime, Hosted!Running,
           Hosted!OperationIsOwned
  <2>3. Hosted!DeployedIsWhole'
    BY DEF Hosted!IInv, Hosted!DeployedIsWhole, Hosted!Grants, Hosted!TypeOK, Hosted!ReceiptFirst,
           Hosted!InOrder, Hosted!Deployed
  <2> QED BY <2>1, <2>2, <2>3 DEF Hosted!IInv
<1>14. ASSUME NEW p \in Publishes, Hosted!Fail(p) PROVE Hosted!IInv'
  <2> USE <1>14 DEF Hosted!Fail, Hosted!Running, Hosted!Goto
  <2>1. /\ Hosted!TypeOK' /\ Hosted!OneAtATime' /\ Hosted!OperationIsOwned' /\ Hosted!ReceiptFirst'
        /\ Hosted!InOrder' /\ Hosted!TightenedLate' /\ Hosted!ProvenFirst'
        /\ Hosted!DeployedIsWhole'
    BY DEF Hosted!IInv, Hosted!TypeOK, Hosted!OneAtATime, Hosted!OperationIsOwned,
           Hosted!ReceiptFirst, Hosted!InOrder, Hosted!Grants, Hosted!Deployed,
           Hosted!TightenedLate, Hosted!ProvenFirst, Hosted!DeployedIsWhole
  <2> QED BY <2>1 DEF Hosted!IInv
<1>15. ASSUME UNCHANGED Hosted!vars PROVE Hosted!IInv'
  <2> USE <1>15 DEF Hosted!vars
  <2>1. /\ Hosted!TypeOK' /\ Hosted!OneAtATime' /\ Hosted!OperationIsOwned' /\ Hosted!ReceiptFirst'
        /\ Hosted!InOrder' /\ Hosted!TightenedLate' /\ Hosted!ProvenFirst'
        /\ Hosted!DeployedIsWhole'
    BY DEF Hosted!IInv, Hosted!TypeOK, Hosted!OneAtATime, Hosted!Running, Hosted!OperationIsOwned,
           Hosted!ReceiptFirst, Hosted!InOrder, Hosted!Grants, Hosted!Deployed,
           Hosted!TightenedLate, Hosted!ProvenFirst, Hosted!DeployedIsWhole
  <2> QED BY <2>1 DEF Hosted!IInv
<1> QED BY <1>1, <1>2, <1>3, <1>4, <1>5, <1>6, <1>7, <1>8, <1>9, <1>10, <1>11, <1>12, <1>13, <1>14,
   <1>15 DEF Hosted!Next, Hosted!Publish

\* Nothing is deployed before the first publish but the iam service, which may read everything.
LEMMA HostedInit == ASSUME Hosted!PublishesAssumption, Hosted!Init PROVE Hosted!IInv
<1>1. Hosted!TypeOK
  BY DEF Hosted!Init, Hosted!TypeOK
<1>2. /\ Hosted!OneAtATime /\ Hosted!OperationIsOwned /\ Hosted!ReceiptFirst
      /\ Hosted!InOrder /\ Hosted!DeployedIsWhole
  BY DEF Hosted!Init, Hosted!OneAtATime, Hosted!Running, Hosted!OperationIsOwned,
         Hosted!ReceiptFirst, Hosted!InOrder, Hosted!DeployedIsWhole
<1>3. Hosted!TightenedLate /\ Hosted!ProvenFirst
  BY DEF Hosted!Init, Hosted!TightenedLate, Hosted!ProvenFirst, Hosted!Running
<1>4. QED BY <1>1, <1>2, <1>3 DEF Hosted!IInv

\* A receipt is true; secrets and proofs are kept by operators who follow the docs.
HostedPromise ==
    /\ Hosted!DeployedIsWhole
    /\ ~TightenAny => Hosted!ServiceKeepsItsSecrets
    /\ Still => Hosted!ImageIsProven

\* What the invariant says of a receipt, of the roles and of the image.
LEMMA HostedSays == ASSUME Hosted!PublishesAssumption, Hosted!IInv
  PROVE HostedPromise
<1>1. ASSUME ~TightenAny PROVE Hosted!ServiceKeepsItsSecrets
  <2>1. service.mode \in Hosted!Modes /\ (op # 0 => mode[op] \in Hosted!Modes)
    BY DEF Hosted!IInv, Hosted!TypeOK
  <2>2. \A m \in Hosted!Modes : Hosted!Needs(m) \subseteq Hosted!Secrets
    BY DEF Hosted!Needs
  <2>3. \/ roles = Hosted!Secrets
        \/ roles = {"backend"} /\ service.mode = "jwt" /\ (op # 0 => mode[op] = "jwt")
    BY <1>1 DEF Hosted!IInv, Hosted!TightenedLate
  <2>4. QED BY <2>1, <2>2, <2>3 DEF Hosted!ServiceKeepsItsSecrets, Hosted!Needs
<1>2. ASSUME Still PROVE Hosted!ImageIsProven
  BY <1>2 DEF Hosted!IInv, Hosted!ProvenFirst, Hosted!ImageIsProven
<1>3. QED BY <1>1, <1>2 DEF Hosted!IInv, HostedPromise

\* For any number of publishes and commits, and wherever a publish fails or App Runner rolls back:
\* a receipt that says deployed names a release that is live as a whole; roles that are tightened
\* only under a service in jwt mode never take a secret the service needs; and in a checkout that
\* stays still a jwt service runs an image whose login proof passed (publish.py).
THEOREM HostedKept == ASSUME Hosted!PublishesAssumption
  PROVE Hosted!Spec => []HostedPromise
<1>1. Hosted!Init => Hosted!IInv
  BY HostedInit
<1>2. Hosted!IInv /\ [Hosted!Next]_(Hosted!vars) => Hosted!IInv'
  BY HostedStep
<1>3. Hosted!IInv => HostedPromise
  BY HostedSays
<1>4. QED BY <1>1, <1>2, <1>3, PTL DEF Hosted!Spec

-----------------------------------------------------------------------------
(* The staged release, and the replacement of a Gateway. *)

CONSTANTS Goals, MaxGateways, MaxFaults
VARIABLES gate, learned, moving, logGroup, file, render, url, saved, ready, pin, cmd, orphan, made,
          faults
Release == INSTANCE GatewayReplacement

USE DEF Release!GoalsAssumption, Release!BoundsAssumption

\* While the CLI runs, the command is a deploy to a mode, of a stage.
LEMMA DeployIsTyped == ASSUME Release!TypeOK, cmd.at \in {"plan", "run"}
  PROVE cmd # Release!Idle /\ cmd \in [at: {"plan", "run"}, mode: Release!Modes,
                                stage: Release!Stages]
BY DEF Release!TypeOK, Release!Idle

\* What a stage leaves of the stack: a fresh Gateway has nothing, and the later stages keep
\* the grant and add the engine only with the holds target.
LEMMA BuiltKeeps == ASSUME Release!GoalsAssumption, Release!BoundsAssumption, Release!IInv,
                           cmd.at = "run", Release!Built
  PROVE /\ gate' \in Release!Gates /\ made' \in 1..MaxGateways
        /\ learned' \in BOOLEAN /\ logGroup' \in BOOLEAN /\ orphan' = FALSE
        /\ gate'.interceptor => gate'.granted
        /\ gate'.engine => gate'.holds
        /\ gate'.id # gate.id => gate.id \in saved
<1>1. /\ cmd.stage \in Release!Stages /\ cmd.mode \in Release!Modes
      /\ cmd.stage = "gateway" => ~gate.granted /\ gate.id \in saved
  BY DeployIsTyped DEF Release!IInv, Release!CheckedStillHolds
<1>2. /\ gate \in Release!Gates /\ made \in 1..MaxGateways /\ logGroup \in BOOLEAN /\ orphan = FALSE
      /\ gate.interceptor => gate.granted
  BY DEF Release!IInv, Release!TypeOK, Release!AttachedIsGranted, Release!NothingLeftBehind
<1>3. CASE cmd.stage = "gateway"
  <2>1. /\ gate' = [id |-> made + 1, mode |-> cmd.mode, holds |-> FALSE, engine |-> FALSE,
                    interceptor |-> FALSE, granted |-> FALSE]
        /\ made < MaxGateways /\ made' = made + 1 /\ logGroup' = logGroup /\ learned' = FALSE
        /\ orphan' = (orphan \/ gate.granted)
    BY <1>3 DEF Release!Built
  <2>2. gate' \in Release!Gates /\ made' \in 1..MaxGateways
    BY <1>1, <1>2, <2>1 DEF Release!Gates
  <2>3. QED BY <1>1, <1>2, <1>3, <2>1, <2>2
<1>4. CASE cmd.stage # "gateway"
  <2> DEFINE r == Release!Rendered(cmd.stage)
  <2>1. PICK kept \in BOOLEAN :
          gate' = [gate EXCEPT !.holds = r.holds, !.engine = r.engine, !.interceptor = @ /\ kept]
    BY <1>4 DEF Release!Built
  <2>2. made' = made /\ orphan' = orphan /\ learned' = r.id /\ logGroup' = (logGroup \/ r.holds)
    BY <1>4 DEF Release!Built
  <2>3. /\ r.holds \in BOOLEAN /\ r.engine \in BOOLEAN /\ r.id \in BOOLEAN
        /\ r.engine => r.holds
    BY DEF Release!Rendered
  <2>4. (gate.interceptor /\ kept) \in BOOLEAN
    BY Zenon
  <2> HIDE DEF r
  <2>5. gate' \in Release!Gates
    BY <1>2, <2>1, <2>3, <2>4 DEF Release!Gates
  <2>6. /\ gate'.interceptor => gate'.granted
        /\ gate'.engine => gate'.holds
        /\ gate'.id = gate.id
    BY <1>2, <2>1, <2>3 DEF Release!Gates
  <2>7. learned' \in BOOLEAN /\ logGroup' \in BOOLEAN
    BY <1>2, <2>2, <2>3
  <2>8. QED BY <1>2, <2>2, <2>5, <2>6, <2>7
<1>5. QED BY <1>3, <1>4

\* The plan of a stage, against a stack that is at this stage.
LEMMA StagePlan == ASSUME gate \in Release!Gates, gate.engine => gate.holds
  PROVE /\ Release!LiveStage \in Release!Stages
        /\ Release!LiveStage = "targets" /\ render.stage = "targets"
             => Release!Adds(gate) = {"holds"} /\ Release!Removes(gate) = {}
        /\ Release!LiveStage = "governance" /\ render.stage = "governance"
             => Release!Adds(gate) = {"engine"} /\ Release!Removes(gate) = {}
        /\ Release!LiveStage = "complete" /\ render.stage = "complete"
             => Release!Adds(gate) = {} /\ Release!Removes(gate) = {}
        /\ Release!LiveStage # "gateway"
<1>1. gate.holds \in BOOLEAN /\ gate.engine \in BOOLEAN
  BY DEF Release!Gates
<1>2. /\ Release!LiveStage \in Release!Stages \ {"gateway"}
      /\ Release!LiveStage = "targets" <=> ~gate.holds
      /\ Release!LiveStage = "governance" <=> gate.holds /\ ~gate.engine
      /\ Release!LiveStage = "complete" <=> gate.holds /\ gate.engine
  BY <1>1 DEF Release!LiveStage, Release!StageFor, Release!Stages
<1> DEFINE r == Release!Rendered(render.stage)
<1>3. /\ r["holds"] = (render.stage # "gateway")
      /\ r["engine"] = (render.stage \in {"governance", "complete"})
  BY DEF Release!Rendered
<1>4. /\ gate["holds"] = gate.holds /\ gate["engine"] = gate.engine
  OBVIOUS
<1> HIDE DEF r
<1>5. Release!Adds(gate) = {x \in {"holds", "engine"} : r[x] /\ ~gate[x]}
  BY DEF Release!Adds, r
<1>6. Release!Removes(gate) = {x \in {"holds", "engine"} : gate[x] /\ ~r[x]}
  BY DEF Release!Removes, r
<1>7. ASSUME Release!LiveStage = "targets", render.stage = "targets"
      PROVE Release!Adds(gate) = {"holds"} /\ Release!Removes(gate) = {}
  BY <1>1, <1>2, <1>3, <1>4, <1>5, <1>6, <1>7
<1>8. ASSUME Release!LiveStage = "governance", render.stage = "governance"
      PROVE Release!Adds(gate) = {"engine"} /\ Release!Removes(gate) = {}
  BY <1>1, <1>2, <1>3, <1>4, <1>5, <1>6, <1>8
<1>9. ASSUME Release!LiveStage = "complete", render.stage = "complete"
      PROVE Release!Adds(gate) = {} /\ Release!Removes(gate) = {}
  BY <1>1, <1>2, <1>3, <1>4, <1>5, <1>6, <1>9
<1>10. QED BY <1>2, <1>7, <1>8, <1>9

\* Each action keeps the invariant.
LEMMA ReleaseStep == ASSUME Release!GoalsAssumption, Release!BoundsAssumption, Release!IInv,
                            [Release!Next]_(Release!vars)
  PROVE Release!IInv'
<1>1. ASSUME Release!Plan PROVE Release!IInv'
  <2> USE <1>1 DEF Release!Plan, Release!PlanSafe, Release!Idle, Release!Stack, Release!Desk,
                   Release!Live, Release!Adds, Release!Removes, Release!Rendered
  <2>1. /\ Release!TypeOK' /\ Release!AttachedIsGranted' /\ Release!NothingLeftBehind'
        /\ Release!AgreedPlanIsSafe' /\ Release!EngineComesLast' /\ Release!CheckedStillHolds'
        /\ Release!RevokesLast'
    BY DEF Release!IInv, Release!TypeOK, Release!Gates, Release!Files, Release!Modes,
           Release!Stages, Release!Actions, Release!AttachedIsGranted, Release!NothingLeftBehind,
           Release!AgreedPlanIsSafe, Release!EngineComesLast, Release!CheckedStillHolds,
           Release!RevokesLast
  <2> QED BY <2>1 DEF Release!IInv
<1>2. ASSUME Release!DeployDone PROVE Release!IInv'
  <2> USE <1>2 DEF Release!DeployDone, Release!Collides, Release!Listed, Release!Idle
  <2>1. Release!AgreedPlanIsSafe' /\ Release!CheckedStillHolds' /\ Release!RevokesLast'
    BY DEF Release!IInv, Release!AgreedPlanIsSafe, Release!PlanSafe, Release!Live, Release!Adds,
           Release!Removes, Release!Rendered, Release!CheckedStillHolds, Release!RevokesLast
  <2>2. Release!TypeOK'
    <3>1. /\ gate' \in Release!Gates /\ made' \in 1..MaxGateways
          /\ learned' \in BOOLEAN /\ logGroup' \in BOOLEAN /\ orphan' \in BOOLEAN
      BY BuiltKeeps
    <3>2. file' \in Release!Files
      BY <3>1 DEF Release!IInv, Release!TypeOK, Release!Files, Release!Gates, Release!Listed
    <3>3. QED BY <3>1, <3>2 DEF Release!IInv, Release!TypeOK
  <2>3. Release!AttachedIsGranted'
    BY BuiltKeeps DEF Release!IInv, Release!AttachedIsGranted, Release!CheckedStillHolds
  <2>4. Release!NothingLeftBehind'
    BY BuiltKeeps DEF Release!IInv, Release!NothingLeftBehind
  <2>5. Release!EngineComesLast'
    BY BuiltKeeps DEF Release!IInv, Release!EngineComesLast
  <2> QED BY <2>1, <2>2, <2>3, <2>4, <2>5 DEF Release!IInv
<1>3. ASSUME Release!Grant PROVE Release!IInv'
  <2> USE <1>3 DEF Release!Grant, Release!Unchanged, Release!At, Release!Idle, Release!Desk
  <2>1. Release!AttachedIsGranted' /\ Release!NothingLeftBehind' /\ Release!EngineComesLast'
    BY DEF Release!IInv, Release!AttachedIsGranted, Release!NothingLeftBehind,
           Release!EngineComesLast
  <2>2. Release!TypeOK'
    <3>1. gate' \in Release!Gates /\ made' \in 1..MaxGateways
      BY DEF Release!IInv, Release!TypeOK, Release!Gates, Release!Modes
    <3>2. \/ cmd' = Release!Idle
          \/ cmd' \in [at: {"plan", "run"}, mode: Release!Modes, stage: Release!Stages]
          \/ cmd' \in [at: {"located", "attach", "reading", "revoking"}, act: Release!Actions,
                                        before: Release!Gates]
      BY DEF Release!IInv, Release!TypeOK, Release!Gates, Release!Modes, Release!Stages,
             Release!Actions, Release!Idle
    <3>3. logGroup' \in BOOLEAN /\ orphan' \in BOOLEAN /\ learned' \in BOOLEAN
      BY Zenon DEF Release!IInv, Release!TypeOK
    <3>4. ready' \in BOOLEAN /\ pin' \in BOOLEAN
      BY Zenon DEF Release!IInv, Release!TypeOK
    <3>5. faults' \in 0..MaxFaults
      BY DEF Release!IInv, Release!TypeOK
    <3>6. /\ moving' \in {"none", "attach", "detach"}
          /\ file' \in Release!Files /\ render' \in [mode: Release!Modes, stage: Release!Stages]
          /\ url' \in 1..MaxGateways /\ saved' \subseteq 1..MaxGateways
      BY <3>1 DEF Release!IInv, Release!TypeOK, Release!Gates, Release!Files, Release!Modes,
                  Release!Stages
    <3>7. QED BY <3>1, <3>2, <3>3, <3>4, <3>5, <3>6 DEF Release!TypeOK
  <2>3. Release!AgreedPlanIsSafe'
    BY DEF Release!IInv, Release!AgreedPlanIsSafe, Release!PlanSafe, Release!Live, Release!Adds,
           Release!Removes, Release!Rendered, Release!TypeOK, Release!Gates, Release!Files,
           Release!Modes, Release!Stages, Release!Actions
  <2>4. Release!CheckedStillHolds'
    BY DEF Release!IInv, Release!CheckedStillHolds, Release!TypeOK, Release!Gates, Release!Files,
           Release!Modes, Release!Stages, Release!Actions
  <2>5. Release!RevokesLast'
    BY DEF Release!IInv, Release!RevokesLast, Release!TypeOK, Release!Gates, Release!Files,
           Release!Modes, Release!Stages, Release!Actions
  <2> QED BY <2>1, <2>2, <2>3, <2>4, <2>5 DEF Release!IInv
<1>4. ASSUME Release!Attach PROVE Release!IInv'
  <2> USE <1>4 DEF Release!Attach, Release!Idle, Release!At, Release!Stack, Release!Desk
  <2>1. /\ Release!TypeOK' /\ Release!AttachedIsGranted' /\ Release!NothingLeftBehind'
        /\ Release!EngineComesLast'
    BY DEF Release!IInv, Release!TypeOK, Release!Gates, Release!Files, Release!Modes,
           Release!Stages, Release!Actions, Release!AttachedIsGranted, Release!NothingLeftBehind,
           Release!EngineComesLast
  <2>2. Release!AgreedPlanIsSafe'
    BY DEF Release!IInv, Release!AgreedPlanIsSafe, Release!PlanSafe, Release!Live, Release!Adds,
           Release!Removes, Release!Rendered, Release!TypeOK, Release!Gates, Release!Files,
           Release!Modes, Release!Stages, Release!Actions
  <2>3. Release!CheckedStillHolds'
    BY DEF Release!IInv, Release!CheckedStillHolds, Release!TypeOK, Release!Gates, Release!Files,
           Release!Modes, Release!Stages, Release!Actions
  <2>4. Release!RevokesLast'
    BY DEF Release!IInv, Release!RevokesLast, Release!TypeOK, Release!Gates, Release!Files,
           Release!Modes, Release!Stages, Release!Actions, Release!AttachedIsGranted,
           Release!NothingLeftBehind, Release!AgreedPlanIsSafe, Release!PlanSafe, Release!Live,
           Release!Adds, Release!Removes, Release!Rendered, Release!EngineComesLast,
           Release!CheckedStillHolds
  <2> QED BY <2>1, <2>2, <2>3, <2>4 DEF Release!IInv
<1>5. ASSUME Release!Detach PROVE Release!IInv'
  <2> USE <1>5 DEF Release!Detach, Release!Unchanged, Release!Idle, Release!At, Release!Stack,
                   Release!Desk
  <2>1. /\ Release!TypeOK' /\ Release!AttachedIsGranted' /\ Release!NothingLeftBehind'
        /\ Release!EngineComesLast'
    BY DEF Release!IInv, Release!TypeOK, Release!Gates, Release!Files, Release!Modes,
           Release!Stages, Release!Actions, Release!AttachedIsGranted, Release!NothingLeftBehind,
           Release!EngineComesLast
  <2>2. Release!AgreedPlanIsSafe'
    BY DEF Release!IInv, Release!AgreedPlanIsSafe, Release!PlanSafe, Release!Live, Release!Adds,
           Release!Removes, Release!Rendered, Release!TypeOK, Release!Gates, Release!Files,
           Release!Modes, Release!Stages, Release!Actions
  <2>3. Release!CheckedStillHolds'
    BY DEF Release!IInv, Release!CheckedStillHolds, Release!TypeOK, Release!Gates, Release!Files,
           Release!Modes, Release!Stages, Release!Actions
  <2>4. Release!RevokesLast'
    <3>1. \/ cmd' = Release!Idle
          \/ cmd' = [cmd EXCEPT !.at = "revoking"] /\ moving' = moving /\ ~gate.interceptor
          \/ cmd' = [cmd EXCEPT !.at = "reading"] /\ moving' = "detach"
      <4>1. CASE ~Release!Unchanged
        BY <4>1
      <4>2. CASE Release!Unchanged /\ ~cmd.before.interceptor
        BY <4>2
      <4>3. CASE Release!Unchanged /\ cmd.before.interceptor
        BY <4>3
      <4>4. QED BY <4>1, <4>2, <4>3
    <3>2. moving = "none" /\ gate' = gate
      BY DEF Release!IInv, Release!RevokesLast
    <3>3. CASE cmd' = Release!Idle
      BY <3>3 DEF Release!RevokesLast, Release!Idle
    <3>4. CASE cmd' = [cmd EXCEPT !.at = "revoking"] /\ moving' = moving /\ ~gate.interceptor
      BY <3>2, <3>4 DEF Release!IInv, Release!TypeOK, Release!RevokesLast, Release!Idle
    <3>5. CASE cmd' = [cmd EXCEPT !.at = "reading"] /\ moving' = "detach"
      BY <3>2, <3>5 DEF Release!IInv, Release!TypeOK, Release!RevokesLast, Release!Idle
    <3>6. QED BY <3>1, <3>3, <3>4, <3>5
  <2> QED BY <2>1, <2>2, <2>3, <2>4 DEF Release!IInv
<1>6. ASSUME Release!ReadBack PROVE Release!IInv'
  <2> USE <1>6 DEF Release!ReadBack, Release!Matches, Release!At, Release!Idle, Release!Stack,
                   Release!Desk
  <2>1. /\ Release!TypeOK' /\ Release!AttachedIsGranted' /\ Release!NothingLeftBehind'
        /\ Release!EngineComesLast'
    BY DEF Release!IInv, Release!TypeOK, Release!Gates, Release!Files, Release!Modes,
           Release!Stages, Release!Actions, Release!AttachedIsGranted, Release!NothingLeftBehind,
           Release!EngineComesLast
  <2>2. Release!AgreedPlanIsSafe'
    BY DEF Release!IInv, Release!AgreedPlanIsSafe, Release!PlanSafe, Release!Live, Release!Adds,
           Release!Removes, Release!Rendered, Release!TypeOK, Release!Gates, Release!Files,
           Release!Modes, Release!Stages, Release!Actions
  <2>3. Release!CheckedStillHolds'
    BY DEF Release!IInv, Release!CheckedStillHolds, Release!TypeOK, Release!Gates, Release!Files,
           Release!Modes, Release!Stages, Release!Actions
  <2>4. Release!RevokesLast'
    BY DEF Release!IInv, Release!RevokesLast, Release!TypeOK, Release!Gates, Release!Files,
           Release!Modes, Release!Stages, Release!Actions
  <2> QED BY <2>1, <2>2, <2>3, <2>4 DEF Release!IInv
<1>7. ASSUME Release!Revoke PROVE Release!IInv'
  <2> USE <1>7 DEF Release!Revoke, Release!Idle, Release!Desk
  <2>1. /\ Release!NothingLeftBehind' /\ Release!AgreedPlanIsSafe' /\ Release!EngineComesLast'
        /\ Release!CheckedStillHolds' /\ Release!RevokesLast'
    BY DEF Release!IInv, Release!NothingLeftBehind, Release!AgreedPlanIsSafe, Release!PlanSafe,
           Release!Live, Release!Adds, Release!Removes, Release!Rendered, Release!EngineComesLast,
           Release!CheckedStillHolds, Release!RevokesLast
  <2>2. Release!TypeOK'
    <3>1. gate' \in Release!Gates /\ made' \in 1..MaxGateways
      BY DEF Release!IInv, Release!TypeOK, Release!Gates, Release!Modes
    <3>2. \/ cmd' = Release!Idle
          \/ cmd' \in [at: {"plan", "run"}, mode: Release!Modes, stage: Release!Stages]
          \/ cmd' \in [at: {"located", "attach", "reading", "revoking"}, act: Release!Actions,
                                        before: Release!Gates]
      BY DEF Release!IInv, Release!TypeOK, Release!Gates, Release!Modes, Release!Stages,
             Release!Actions, Release!Idle
    <3>3. logGroup' \in BOOLEAN /\ orphan' \in BOOLEAN /\ learned' \in BOOLEAN
      BY Zenon DEF Release!IInv, Release!TypeOK
    <3>4. ready' \in BOOLEAN /\ pin' \in BOOLEAN
      BY Zenon DEF Release!IInv, Release!TypeOK
    <3>5. faults' \in 0..MaxFaults
      BY DEF Release!IInv, Release!TypeOK
    <3>6. /\ moving' \in {"none", "attach", "detach"}
          /\ file' \in Release!Files /\ render' \in [mode: Release!Modes, stage: Release!Stages]
          /\ url' \in 1..MaxGateways /\ saved' \subseteq 1..MaxGateways
      BY <3>1 DEF Release!IInv, Release!TypeOK, Release!Gates, Release!Files, Release!Modes,
                  Release!Stages
    <3>7. QED BY <3>1, <3>2, <3>3, <3>4, <3>5, <3>6 DEF Release!TypeOK
  <2>3. Release!AttachedIsGranted'
    BY DEF Release!IInv, Release!AttachedIsGranted, Release!TypeOK, Release!Gates, Release!Files,
           Release!Modes, Release!Stages, Release!Actions, Release!RevokesLast,
           Release!CheckedStillHolds
  <2> QED BY <2>1, <2>2, <2>3 DEF Release!IInv
<1>8. ASSUME Release!Land PROVE Release!IInv'
  <2> USE <1>8 DEF Release!Land, Release!Desk
  <2>1. Release!NothingLeftBehind' /\ Release!EngineComesLast' /\ Release!CheckedStillHolds'
    BY DEF Release!IInv, Release!NothingLeftBehind, Release!EngineComesLast,
           Release!CheckedStillHolds
  <2>2. Release!TypeOK'
    BY DEF Release!IInv, Release!TypeOK, Release!Gates, Release!Files, Release!Modes,
           Release!Stages, Release!Idle, Release!Actions, Release!AttachedIsGranted,
           Release!NothingLeftBehind, Release!AgreedPlanIsSafe, Release!PlanSafe, Release!Live,
           Release!Adds, Release!Removes, Release!Rendered, Release!EngineComesLast,
           Release!CheckedStillHolds, Release!RevokesLast
  <2>3. Release!AttachedIsGranted'
    BY DEF Release!IInv, Release!AttachedIsGranted, Release!TypeOK, Release!Gates, Release!Files,
           Release!Modes, Release!Stages, Release!Idle, Release!Actions
  <2>4. Release!AgreedPlanIsSafe'
    BY DEF Release!IInv, Release!AgreedPlanIsSafe, Release!PlanSafe, Release!Live, Release!Adds,
           Release!Removes, Release!Rendered, Release!TypeOK, Release!Gates, Release!Files,
           Release!Modes, Release!Stages, Release!Idle, Release!Actions
  <2>5. Release!RevokesLast'
    BY DEF Release!IInv, Release!RevokesLast, Release!TypeOK, Release!Gates, Release!Files,
           Release!Modes, Release!Stages, Release!Idle, Release!Actions
  <2> QED BY <2>1, <2>2, <2>3, <2>4, <2>5 DEF Release!IInv
<1>9. ASSUME Release!DeployUnrecorded PROVE Release!IInv'
  <2> USE <1>9 DEF Release!DeployUnrecorded, Release!Collides, Release!Idle, Release!Fault,
                   Release!Desk
  <2>1. Release!AgreedPlanIsSafe' /\ Release!CheckedStillHolds' /\ Release!RevokesLast'
    BY DEF Release!IInv, Release!AgreedPlanIsSafe, Release!PlanSafe, Release!Live, Release!Adds,
           Release!Removes, Release!Rendered, Release!CheckedStillHolds, Release!RevokesLast
  <2>2. Release!TypeOK'
    <3>1. /\ gate' \in Release!Gates /\ made' \in 1..MaxGateways
          /\ learned' \in BOOLEAN /\ logGroup' \in BOOLEAN /\ orphan' \in BOOLEAN
      BY BuiltKeeps
    <3>2. file' \in Release!Files
      BY <3>1 DEF Release!IInv, Release!TypeOK, Release!Files, Release!Gates, Release!Listed
    <3>3. QED BY <3>1, <3>2 DEF Release!IInv, Release!TypeOK
  <2>3. Release!AttachedIsGranted'
    BY BuiltKeeps DEF Release!IInv, Release!AttachedIsGranted, Release!CheckedStillHolds
  <2>4. Release!NothingLeftBehind'
    BY BuiltKeeps DEF Release!IInv, Release!NothingLeftBehind
  <2>5. Release!EngineComesLast'
    BY BuiltKeeps DEF Release!IInv, Release!EngineComesLast
  <2> QED BY <2>1, <2>2, <2>3, <2>4, <2>5 DEF Release!IInv
<1>10. ASSUME Release!DeployRolledBack PROVE Release!IInv'
  <2> USE <1>10 DEF Release!DeployRolledBack, Release!Idle, Release!Fault, Release!Desk
  <2>1. /\ Release!TypeOK' /\ Release!AttachedIsGranted' /\ Release!NothingLeftBehind'
        /\ Release!AgreedPlanIsSafe' /\ Release!EngineComesLast' /\ Release!CheckedStillHolds'
        /\ Release!RevokesLast'
    BY DEF Release!IInv, Release!TypeOK, Release!Gates, Release!Files, Release!Modes,
           Release!Stages, Release!Actions, Release!AttachedIsGranted, Release!NothingLeftBehind,
           Release!AgreedPlanIsSafe, Release!PlanSafe, Release!Live, Release!Adds, Release!Removes,
           Release!Rendered, Release!EngineComesLast, Release!CheckedStillHolds, Release!RevokesLast
  <2> QED BY <2>1 DEF Release!IInv
<1>11. ASSUME Release!ReadBackGivesUp PROVE Release!IInv'
  <2> USE <1>11 DEF Release!ReadBackGivesUp, Release!Matches, Release!Idle, Release!Fault,
                    Release!Stack, Release!Desk
  <2>1. /\ Release!TypeOK' /\ Release!AttachedIsGranted' /\ Release!NothingLeftBehind'
        /\ Release!AgreedPlanIsSafe' /\ Release!EngineComesLast' /\ Release!CheckedStillHolds'
        /\ Release!RevokesLast'
    BY DEF Release!IInv, Release!TypeOK, Release!Gates, Release!Files, Release!Modes,
           Release!Stages, Release!Actions, Release!AttachedIsGranted, Release!NothingLeftBehind,
           Release!AgreedPlanIsSafe, Release!PlanSafe, Release!Live, Release!Adds, Release!Removes,
           Release!Rendered, Release!EngineComesLast, Release!CheckedStillHolds, Release!RevokesLast
  <2> QED BY <2>1 DEF Release!IInv
<1>12. ASSUME Release!Die PROVE Release!IInv'
  <2> USE <1>12 DEF Release!Die, Release!Idle, Release!Fault, Release!Stack, Release!Desk
  <2>1. /\ Release!TypeOK' /\ Release!AttachedIsGranted' /\ Release!NothingLeftBehind'
        /\ Release!AgreedPlanIsSafe' /\ Release!EngineComesLast' /\ Release!CheckedStillHolds'
        /\ Release!RevokesLast'
    BY DEF Release!IInv, Release!TypeOK, Release!Gates, Release!Files, Release!Modes,
           Release!Stages, Release!Actions, Release!AttachedIsGranted, Release!NothingLeftBehind,
           Release!AgreedPlanIsSafe, Release!PlanSafe, Release!Live, Release!Adds, Release!Removes,
           Release!Rendered, Release!EngineComesLast, Release!CheckedStillHolds, Release!RevokesLast
  <2> QED BY <2>1 DEF Release!IInv
<1>13. ASSUME Release!InterceptorDelete PROVE Release!IInv'
  <2> USE <1>13 DEF Release!InterceptorDelete, Release!Begins, Release!Fault, Release!Stack,
                    Release!Idle
  <2>1. /\ Release!AttachedIsGranted' /\ Release!NothingLeftBehind' /\ Release!AgreedPlanIsSafe'
        /\ Release!EngineComesLast' /\ Release!CheckedStillHolds' /\ Release!RevokesLast'
    BY DEF Release!IInv, Release!AttachedIsGranted, Release!NothingLeftBehind,
           Release!AgreedPlanIsSafe, Release!PlanSafe, Release!Live, Release!Adds, Release!Removes,
           Release!Rendered, Release!EngineComesLast, Release!CheckedStillHolds, Release!RevokesLast
  <2>2. Release!TypeOK'
    <3>1. gate' \in Release!Gates /\ made' \in 1..MaxGateways
      BY DEF Release!IInv, Release!TypeOK, Release!Gates, Release!Modes
    <3>2. \/ cmd' = Release!Idle
          \/ cmd' \in [at: {"plan", "run"}, mode: Release!Modes, stage: Release!Stages]
          \/ cmd' \in [at: {"located", "attach", "reading", "revoking"}, act: Release!Actions,
                                        before: Release!Gates]
      BY DEF Release!IInv, Release!TypeOK, Release!Gates, Release!Modes, Release!Stages,
             Release!Actions, Release!Idle
    <3>3. logGroup' \in BOOLEAN /\ orphan' \in BOOLEAN /\ learned' \in BOOLEAN
      BY Zenon DEF Release!IInv, Release!TypeOK
    <3>4. ready' \in BOOLEAN /\ pin' \in BOOLEAN
      BY Zenon DEF Release!IInv, Release!TypeOK
    <3>5. faults' \in 0..MaxFaults
      BY DEF Release!IInv, Release!TypeOK
    <3>6. /\ moving' \in {"none", "attach", "detach"}
          /\ file' \in Release!Files /\ render' \in [mode: Release!Modes, stage: Release!Stages]
          /\ url' \in 1..MaxGateways /\ saved' \subseteq 1..MaxGateways
      BY <3>1 DEF Release!IInv, Release!TypeOK, Release!Gates, Release!Files, Release!Modes,
                  Release!Stages
    <3>7. QED BY <3>1, <3>2, <3>3, <3>4, <3>5, <3>6 DEF Release!TypeOK
  <2> QED BY <2>1, <2>2 DEF Release!IInv
<1>14. ASSUME Release!Edit PROVE Release!IInv'
  <2> USE <1>14 DEF Release!Edit, Release!Fault, Release!Stack
  <2>1. /\ Release!AttachedIsGranted' /\ Release!NothingLeftBehind' /\ Release!AgreedPlanIsSafe'
        /\ Release!EngineComesLast' /\ Release!CheckedStillHolds' /\ Release!RevokesLast'
    BY DEF Release!IInv, Release!AttachedIsGranted, Release!NothingLeftBehind,
           Release!AgreedPlanIsSafe, Release!PlanSafe, Release!Live, Release!Adds, Release!Removes,
           Release!Rendered, Release!EngineComesLast, Release!CheckedStillHolds, Release!RevokesLast
  <2>2. Release!TypeOK'
    <3>1. gate' \in Release!Gates /\ made' \in 1..MaxGateways
      BY DEF Release!IInv, Release!TypeOK, Release!Gates, Release!Modes
    <3>2. \/ cmd' = Release!Idle
          \/ cmd' \in [at: {"plan", "run"}, mode: Release!Modes, stage: Release!Stages]
          \/ cmd' \in [at: {"located", "attach", "reading", "revoking"}, act: Release!Actions,
                                        before: Release!Gates]
      BY DEF Release!IInv, Release!TypeOK, Release!Gates, Release!Modes, Release!Stages,
             Release!Actions, Release!Idle
    <3>3. logGroup' \in BOOLEAN /\ orphan' \in BOOLEAN /\ learned' \in BOOLEAN
      BY Zenon DEF Release!IInv, Release!TypeOK
    <3>4. ready' \in BOOLEAN /\ pin' \in BOOLEAN
      BY Zenon DEF Release!IInv, Release!TypeOK
    <3>5. faults' \in 0..MaxFaults
      BY DEF Release!IInv, Release!TypeOK
    <3>6. /\ moving' \in {"none", "attach", "detach"}
          /\ file' \in Release!Files /\ render' \in [mode: Release!Modes, stage: Release!Stages]
          /\ url' \in 1..MaxGateways /\ saved' \subseteq 1..MaxGateways
      BY <3>1 DEF Release!IInv, Release!TypeOK, Release!Gates, Release!Files, Release!Modes,
                  Release!Stages
    <3>7. QED BY <3>1, <3>2, <3>3, <3>4, <3>5, <3>6 DEF Release!TypeOK
  <2> QED BY <2>1, <2>2 DEF Release!IInv
<1>15. ASSUME Release!LoseFile PROVE Release!IInv'
  <2> USE <1>15 DEF Release!LoseFile, Release!Begins, Release!Fault, Release!NoFile, Release!Stack,
                    Release!Idle
  <2>1. /\ Release!TypeOK' /\ Release!AttachedIsGranted' /\ Release!NothingLeftBehind'
        /\ Release!AgreedPlanIsSafe' /\ Release!EngineComesLast' /\ Release!CheckedStillHolds'
        /\ Release!RevokesLast'
    BY DEF Release!IInv, Release!TypeOK, Release!Gates, Release!Files, Release!Modes,
           Release!Stages, Release!Actions, Release!AttachedIsGranted, Release!NothingLeftBehind,
           Release!AgreedPlanIsSafe, Release!PlanSafe, Release!Live, Release!Adds, Release!Removes,
           Release!Rendered, Release!EngineComesLast, Release!CheckedStillHolds, Release!RevokesLast
  <2> QED BY <2>1 DEF Release!IInv
<1>16. ASSUME Release!Reset PROVE Release!IInv'
  <2> USE <1>16 DEF Release!Reset, Release!Fault, Release!Desk
  <2>1. /\ Release!AttachedIsGranted' /\ Release!NothingLeftBehind' /\ Release!EngineComesLast'
        /\ Release!CheckedStillHolds' /\ Release!RevokesLast'
    BY DEF Release!IInv, Release!AttachedIsGranted, Release!NothingLeftBehind,
           Release!EngineComesLast, Release!CheckedStillHolds, Release!RevokesLast
  <2>2. Release!TypeOK'
    <3>1. gate' \in Release!Gates /\ made' \in 1..MaxGateways
      BY DEF Release!IInv, Release!TypeOK, Release!Gates, Release!Modes
    <3>2. \/ cmd' = Release!Idle
          \/ cmd' \in [at: {"plan", "run"}, mode: Release!Modes, stage: Release!Stages]
          \/ cmd' \in [at: {"located", "attach", "reading", "revoking"}, act: Release!Actions,
                                        before: Release!Gates]
      BY DEF Release!IInv, Release!TypeOK, Release!Gates, Release!Modes, Release!Stages,
             Release!Actions, Release!Idle
    <3>3. logGroup' \in BOOLEAN /\ orphan' \in BOOLEAN /\ learned' \in BOOLEAN
      BY Zenon DEF Release!IInv, Release!TypeOK
    <3>4. ready' \in BOOLEAN /\ pin' \in BOOLEAN
      BY Zenon DEF Release!IInv, Release!TypeOK
    <3>5. faults' \in 0..MaxFaults
      BY DEF Release!IInv, Release!TypeOK
    <3>6. /\ moving' \in {"none", "attach", "detach"}
          /\ file' \in Release!Files /\ render' \in [mode: Release!Modes, stage: Release!Stages]
          /\ url' \in 1..MaxGateways /\ saved' \subseteq 1..MaxGateways
      BY <3>1 DEF Release!IInv, Release!TypeOK, Release!Gates, Release!Files, Release!Modes,
                  Release!Stages
    <3>7. QED BY <3>1, <3>2, <3>3, <3>4, <3>5, <3>6 DEF Release!TypeOK
  <2>3. Release!AgreedPlanIsSafe'
    BY DEF Release!IInv, Release!AgreedPlanIsSafe, Release!PlanSafe, Release!Live, Release!Adds,
           Release!Removes, Release!Rendered, Release!TypeOK, Release!Gates, Release!Files,
           Release!Modes, Release!Stages, Release!Idle, Release!Actions
  <2> QED BY <2>1, <2>2, <2>3 DEF Release!IInv
<1>17. ASSUME NEW m \in Goals, Release!Render(m) PROVE Release!IInv'
  <2> USE <1>17 DEF Release!Render, Release!Begins, Release!FileStage, Release!Stack, Release!Idle,
                    Release!StageFor
  <2>1. /\ Release!TypeOK' /\ Release!AttachedIsGranted' /\ Release!NothingLeftBehind'
        /\ Release!AgreedPlanIsSafe' /\ Release!EngineComesLast' /\ Release!CheckedStillHolds'
        /\ Release!RevokesLast'
    BY DEF Release!IInv, Release!TypeOK, Release!Gates, Release!Files, Release!Modes,
           Release!Stages, Release!Actions, Release!AttachedIsGranted, Release!NothingLeftBehind,
           Release!AgreedPlanIsSafe, Release!PlanSafe, Release!Live, Release!Adds, Release!Removes,
           Release!Rendered, Release!EngineComesLast, Release!CheckedStillHolds, Release!RevokesLast
  <2> QED BY <2>1 DEF Release!IInv
<1>18. ASSUME NEW m \in Goals, Release!Deploy(m) PROVE Release!IInv'
  <2> USE <1>18 DEF Release!Deploy, Release!Begins, Release!StageAgrees, Release!FirstStageReady,
                    Release!LogsGate, Release!Stack, Release!Desk, Release!Idle, Release!FileStage,
                    Release!Live, Release!LiveStage, Release!Residue, Release!SnapshotUsable,
                    Release!StageFor
  <2>1. /\ Release!TypeOK' /\ Release!AttachedIsGranted' /\ Release!NothingLeftBehind'
        /\ Release!EngineComesLast' /\ Release!CheckedStillHolds' /\ Release!RevokesLast'
    BY DEF Release!IInv, Release!TypeOK, Release!Gates, Release!Files, Release!Modes,
           Release!Stages, Release!Actions, Release!AttachedIsGranted, Release!NothingLeftBehind,
           Release!EngineComesLast, Release!CheckedStillHolds, Release!RevokesLast
  <2>2. Release!AgreedPlanIsSafe'
    <3>1. /\ cmd'.mode = m /\ cmd'.stage = render.stage /\ render.stage \in Release!Stages
          /\ render' = render /\ gate' = gate /\ gate \in Release!Gates
          /\ gate.engine => gate.holds
      BY DEF Release!IInv, Release!TypeOK, Release!EngineComesLast
    <3>2. render.stage = "gateway" <=> ~Release!Live(m)
      OBVIOUS
    <3>3. Release!Live(m) => render.stage = Release!LiveStage
      BY <3>2
    <3>4. /\ Release!Adds(gate)' = Release!Adds(gate)
          /\ Release!Removes(gate)' = Release!Removes(gate)
          /\ Release!Live(cmd.mode)' = Release!Live(m)
      BY <3>1 DEF Release!Adds, Release!Removes, Release!Live
    <3>5. Release!PlanSafe'
      BY <3>1, <3>2, <3>3, <3>4, StagePlan DEF Release!PlanSafe, Release!Stages
    <3>6. QED BY <3>5 DEF Release!AgreedPlanIsSafe
  <2> QED BY <2>1, <2>2 DEF Release!IInv
<1>19. ASSUME NEW m \in Release!Modes, NEW act \in Release!Actions, Release!Gateway(m, act)
       PROVE Release!IInv'
  <2> USE <1>19 DEF Release!Gateway, Release!Begins, Release!Live, Release!Stack, Release!Desk,
                    Release!Idle
  <2>1. /\ Release!TypeOK' /\ Release!AttachedIsGranted' /\ Release!NothingLeftBehind'
        /\ Release!AgreedPlanIsSafe' /\ Release!EngineComesLast' /\ Release!CheckedStillHolds'
        /\ Release!RevokesLast'
    BY DEF Release!IInv, Release!TypeOK, Release!Gates, Release!Files, Release!Modes,
           Release!Stages, Release!Actions, Release!AttachedIsGranted, Release!NothingLeftBehind,
           Release!AgreedPlanIsSafe, Release!PlanSafe, Release!Adds, Release!Removes,
           Release!Rendered, Release!EngineComesLast, Release!CheckedStillHolds, Release!RevokesLast
  <2> QED BY <2>1 DEF Release!IInv
<1>20. ASSUME Release!HoldsLogs PROVE Release!IInv'
  <2> USE <1>20 DEF Release!HoldsLogs, Release!Begins, Release!HoldsFunction, Release!Desk,
                    Release!Idle
  <2>1. /\ Release!AttachedIsGranted' /\ Release!NothingLeftBehind' /\ Release!AgreedPlanIsSafe'
        /\ Release!EngineComesLast' /\ Release!CheckedStillHolds' /\ Release!RevokesLast'
    BY DEF Release!IInv, Release!AttachedIsGranted, Release!NothingLeftBehind,
           Release!AgreedPlanIsSafe, Release!PlanSafe, Release!Live, Release!Adds, Release!Removes,
           Release!Rendered, Release!EngineComesLast, Release!CheckedStillHolds, Release!RevokesLast
  <2>2. Release!TypeOK'
    <3>1. gate' \in Release!Gates /\ made' \in 1..MaxGateways
      BY DEF Release!IInv, Release!TypeOK, Release!Gates, Release!Modes
    <3>2. \/ cmd' = Release!Idle
          \/ cmd' \in [at: {"plan", "run"}, mode: Release!Modes, stage: Release!Stages]
          \/ cmd' \in [at: {"located", "attach", "reading", "revoking"}, act: Release!Actions,
                                        before: Release!Gates]
      BY DEF Release!IInv, Release!TypeOK, Release!Gates, Release!Modes, Release!Stages,
             Release!Actions, Release!Idle
    <3>3. logGroup' \in BOOLEAN /\ orphan' \in BOOLEAN /\ learned' \in BOOLEAN
      BY Zenon DEF Release!IInv, Release!TypeOK
    <3>4. ready' \in BOOLEAN /\ pin' \in BOOLEAN
      BY Zenon DEF Release!IInv, Release!TypeOK
    <3>5. faults' \in 0..MaxFaults
      BY DEF Release!IInv, Release!TypeOK
    <3>6. /\ moving' \in {"none", "attach", "detach"}
          /\ file' \in Release!Files /\ render' \in [mode: Release!Modes, stage: Release!Stages]
          /\ url' \in 1..MaxGateways /\ saved' \subseteq 1..MaxGateways
      BY <3>1 DEF Release!IInv, Release!TypeOK, Release!Gates, Release!Files, Release!Modes,
                  Release!Stages
    <3>7. QED BY <3>1, <3>2, <3>3, <3>4, <3>5, <3>6 DEF Release!TypeOK
  <2> QED BY <2>1, <2>2 DEF Release!IInv
<1>21. ASSUME Release!Snapshot PROVE Release!IInv'
  <2> USE <1>21 DEF Release!Snapshot, Release!Begins, Release!Stack, Release!Idle
  <2>1. /\ Release!AttachedIsGranted' /\ Release!NothingLeftBehind' /\ Release!AgreedPlanIsSafe'
        /\ Release!EngineComesLast' /\ Release!CheckedStillHolds' /\ Release!RevokesLast'
    BY DEF Release!IInv, Release!AttachedIsGranted, Release!NothingLeftBehind,
           Release!AgreedPlanIsSafe, Release!PlanSafe, Release!Live, Release!Adds, Release!Removes,
           Release!Rendered, Release!EngineComesLast, Release!CheckedStillHolds, Release!RevokesLast
  <2>2. Release!TypeOK'
    BY DEF Release!IInv, Release!TypeOK, Release!Gates, Release!Files, Release!Modes,
           Release!Stages, Release!Actions, Release!AttachedIsGranted, Release!NothingLeftBehind,
           Release!AgreedPlanIsSafe, Release!PlanSafe, Release!Live, Release!Adds, Release!Removes,
           Release!Rendered, Release!EngineComesLast, Release!CheckedStillHolds, Release!RevokesLast
  <2> QED BY <2>1, <2>2 DEF Release!IInv
<1>22. ASSUME Release!SyncUrl PROVE Release!IInv'
  <2> USE <1>22 DEF Release!SyncUrl, Release!Begins, Release!Stack, Release!Idle
  <2>1. /\ Release!TypeOK' /\ Release!AttachedIsGranted' /\ Release!NothingLeftBehind'
        /\ Release!AgreedPlanIsSafe' /\ Release!EngineComesLast' /\ Release!CheckedStillHolds'
        /\ Release!RevokesLast'
    BY DEF Release!IInv, Release!TypeOK, Release!Gates, Release!Files, Release!Modes,
           Release!Stages, Release!Actions, Release!AttachedIsGranted, Release!NothingLeftBehind,
           Release!AgreedPlanIsSafe, Release!PlanSafe, Release!Live, Release!Adds, Release!Removes,
           Release!Rendered, Release!EngineComesLast, Release!CheckedStillHolds, Release!RevokesLast
  <2> QED BY <2>1 DEF Release!IInv
<1>23. ASSUME Release!Interceptor PROVE Release!IInv'
  <2> USE <1>23 DEF Release!Interceptor, Release!Begins, Release!Stack, Release!Idle
  <2>1. /\ Release!TypeOK' /\ Release!AttachedIsGranted' /\ Release!NothingLeftBehind'
        /\ Release!AgreedPlanIsSafe' /\ Release!EngineComesLast' /\ Release!CheckedStillHolds'
        /\ Release!RevokesLast'
    BY DEF Release!IInv, Release!TypeOK, Release!Gates, Release!Files, Release!Modes,
           Release!Stages, Release!Actions, Release!AttachedIsGranted, Release!NothingLeftBehind,
           Release!AgreedPlanIsSafe, Release!PlanSafe, Release!Live, Release!Adds, Release!Removes,
           Release!Rendered, Release!EngineComesLast, Release!CheckedStillHolds, Release!RevokesLast
  <2> QED BY <2>1 DEF Release!IInv
<1>24. ASSUME Release!Prepare PROVE Release!IInv'
  <2> USE <1>24 DEF Release!Prepare, Release!Begins, Release!Stack, Release!Idle
  <2>1. /\ Release!TypeOK' /\ Release!AttachedIsGranted' /\ Release!NothingLeftBehind'
        /\ Release!AgreedPlanIsSafe' /\ Release!EngineComesLast' /\ Release!CheckedStillHolds'
        /\ Release!RevokesLast'
    BY DEF Release!IInv, Release!TypeOK, Release!Gates, Release!Files, Release!Modes,
           Release!Stages, Release!Actions, Release!AttachedIsGranted, Release!NothingLeftBehind,
           Release!AgreedPlanIsSafe, Release!PlanSafe, Release!Live, Release!Adds, Release!Removes,
           Release!Rendered, Release!EngineComesLast, Release!CheckedStillHolds, Release!RevokesLast
  <2> QED BY <2>1 DEF Release!IInv
<1>25. ASSUME Release!RepairFile PROVE Release!IInv'
  <2> USE <1>25 DEF Release!RepairFile, Release!Begins, Release!Listed, Release!Stack, Release!Idle
  <2>1. /\ Release!TypeOK' /\ Release!AttachedIsGranted' /\ Release!NothingLeftBehind'
        /\ Release!AgreedPlanIsSafe' /\ Release!EngineComesLast' /\ Release!CheckedStillHolds'
        /\ Release!RevokesLast'
    BY DEF Release!IInv, Release!TypeOK, Release!Gates, Release!Files, Release!Modes,
           Release!Stages, Release!Actions, Release!AttachedIsGranted, Release!NothingLeftBehind,
           Release!AgreedPlanIsSafe, Release!PlanSafe, Release!Live, Release!Adds, Release!Removes,
           Release!Rendered, Release!EngineComesLast, Release!CheckedStillHolds, Release!RevokesLast
  <2> QED BY <2>1 DEF Release!IInv
<1>26. ASSUME UNCHANGED Release!vars PROVE Release!IInv'
  <2> USE <1>26 DEF Release!vars
  <2>1. /\ Release!TypeOK' /\ Release!AttachedIsGranted' /\ Release!NothingLeftBehind'
        /\ Release!AgreedPlanIsSafe' /\ Release!EngineComesLast' /\ Release!CheckedStillHolds'
        /\ Release!RevokesLast'
    BY DEF Release!IInv, Release!TypeOK, Release!Gates, Release!Files, Release!Modes,
           Release!Stages, Release!Idle, Release!Actions, Release!AttachedIsGranted,
           Release!NothingLeftBehind, Release!AgreedPlanIsSafe, Release!PlanSafe, Release!Live,
           Release!Adds, Release!Removes, Release!Rendered, Release!EngineComesLast,
           Release!CheckedStillHolds, Release!RevokesLast
  <2> QED BY <2>1 DEF Release!IInv
<1> QED BY <1>1, <1>2, <1>3, <1>4, <1>5, <1>6, <1>7, <1>8, <1>9, <1>10, <1>11, <1>12, <1>13, <1>14,
   <1>15, <1>16, <1>17, <1>18, <1>19, <1>20, <1>21, <1>22, <1>23, <1>24, <1>25,
   <1>26 DEF Release!Next, Release!Running, Release!Faulty

\* The finished iam release: nothing runs, nothing moves, and its interceptor is off.
LEMMA ReleaseInit == ASSUME Release!GoalsAssumption, Release!BoundsAssumption, Release!Init
  PROVE Release!IInv
<1>1. Release!TypeOK
  <2>1. PICK left \in BOOLEAN :
          gate = [id |-> 1, mode |-> "iam", holds |-> TRUE, engine |-> TRUE,
                  interceptor |-> FALSE, granted |-> left]
    BY DEF Release!Init
  <2>2. gate \in Release!Gates /\ 1 \in 1..MaxGateways
    BY <2>1 DEF Release!Gates, Release!Modes
  <2>3. file \in Release!Files
    BY <2>1 DEF Release!Init, Release!Files, Release!Listed, Release!Modes
  <2>4. render \in [mode: Release!Modes, stage: Release!Stages]
    BY DEF Release!Init, Release!Modes, Release!Stages
  <2>5. /\ saved \subseteq 1..MaxGateways /\ faults \in 0..MaxFaults
        /\ url \in 1..MaxGateways /\ made \in 1..MaxGateways
    BY <2>2 DEF Release!Init
  <2>6. QED BY <2>2, <2>3, <2>4, <2>5 DEF Release!Init, Release!TypeOK
<1>2. /\ Release!AttachedIsGranted /\ Release!NothingLeftBehind /\ Release!AgreedPlanIsSafe
      /\ Release!EngineComesLast /\ Release!CheckedStillHolds /\ Release!RevokesLast
  BY DEF Release!Init, Release!Idle, Release!AttachedIsGranted, Release!NothingLeftBehind,
         Release!AgreedPlanIsSafe, Release!EngineComesLast,
         Release!CheckedStillHolds, Release!RevokesLast
<1>3. QED BY <1>1, <1>2 DEF Release!IInv

\* What is true of the stack whatever command died.
ReleasePromise ==
    /\ Release!TypeOK
    /\ Release!AttachedIsGranted
    /\ Release!NothingLeftBehind
    /\ Release!AgreedPlanIsSafe

\* The invariant has the promise for a part.
LEMMA ReleaseSays == ASSUME Release!IInv PROVE ReleasePromise
  BY DEF Release!IInv, ReleasePromise

\* A Gateway goes only in the first stage of a deploy that checked its snapshot.
LEMMA StepReplaces == ASSUME Release!GoalsAssumption, Release!BoundsAssumption, Release!IInv,
                             [Release!Next]_(Release!vars)
  PROVE Release!Replaces
<1>1. CASE Release!DeployDone \/ Release!DeployUnrecorded
  BY <1>1, BuiltKeeps DEF Release!DeployDone, Release!DeployUnrecorded, Release!Replaces
<1>2. CASE Release!Grant \/ Release!Land \/ Release!Revoke \/ Release!Reset
  <2>1. gate \in Release!Gates
    BY DEF Release!IInv, Release!TypeOK
  <2>2. gate'.id = gate.id
    BY <1>2, <2>1 DEF Release!Gates, Release!Grant, Release!Land, Release!Revoke, Release!Reset
  <2>3. QED BY <2>2 DEF Release!Replaces
<1>3. CASE gate' = gate
  BY <1>3 DEF Release!Replaces
<1>4. CASE \/ Release!Plan \/ Release!Attach \/ Release!Detach \/ Release!ReadBack
  BY <1>3, <1>4 DEF Release!Plan, Release!Attach, Release!Detach, Release!ReadBack, Release!Stack
<1>5. CASE \/ Release!DeployRolledBack \/ Release!ReadBackGivesUp \/ Release!Die
           \/ Release!InterceptorDelete \/ Release!Edit \/ Release!LoseFile
  BY <1>3, <1>5 DEF Release!DeployRolledBack, Release!ReadBackGivesUp, Release!Die,
                    Release!InterceptorDelete, Release!Edit, Release!LoseFile, Release!Stack
<1>6. CASE \/ \E m \in Goals : Release!Render(m) \/ Release!Deploy(m)
           \/ \E m \in Release!Modes, act \in Release!Actions : Release!Gateway(m, act)
  BY <1>3, <1>6 DEF Release!Render, Release!Deploy, Release!Gateway, Release!Stack
<1>7. CASE \/ Release!HoldsLogs \/ Release!Snapshot \/ Release!SyncUrl \/ Release!Interceptor
           \/ Release!Prepare \/ Release!RepairFile
  BY <1>3, <1>7 DEF Release!HoldsLogs, Release!Snapshot, Release!SyncUrl, Release!Interceptor,
                    Release!Prepare, Release!RepairFile, Release!Stack
<1>8. CASE UNCHANGED Release!vars
  BY <1>3, <1>8 DEF Release!vars
<1>9. QED BY <1>1, <1>2, <1>4, <1>5, <1>6, <1>7, <1>8 DEF Release!Next, Release!Running,
   Release!Faulty

\* The log group goes only by holds-logs, which looks for the function first; a second stage that
\* runs was checked to meet none.
LEMMA StepDropsLogs == ASSUME Release!GoalsAssumption, Release!BoundsAssumption, Release!IInv,
                              Release!IInv', [Release!Next]_(Release!vars)
  PROVE Release!DropsLogs
<1>1. (cmd'.at = "run" /\ cmd'.stage = "targets") => ~logGroup'
  BY DEF Release!IInv, Release!CheckedStillHolds
<1>2. ASSUME logGroup /\ ~logGroup' PROVE ~Release!HoldsFunction
  <2>1. CASE Release!DeployDone \/ Release!DeployUnrecorded
    BY <1>2, <2>1 DEF Release!DeployDone, Release!DeployUnrecorded, Release!Built
  <2>2. CASE Release!DeployRolledBack
    BY <1>2, <2>2 DEF Release!DeployRolledBack
  <2>3. CASE Release!HoldsLogs
    BY <2>3 DEF Release!HoldsLogs
  <2>4. logGroup' # logGroup
    BY <1>2
  <2>5. CASE \/ Release!Plan \/ Release!Grant \/ Release!Attach \/ Release!Detach
             \/ Release!ReadBack \/ Release!Revoke \/ Release!Land
    BY <2>4, <2>5 DEF Release!Plan, Release!Grant, Release!Attach, Release!Detach,
                      Release!ReadBack, Release!Revoke, Release!Land, Release!Stack
  <2>6. CASE \/ Release!ReadBackGivesUp \/ Release!Die \/ Release!InterceptorDelete \/ Release!Edit
             \/ Release!LoseFile \/ Release!Reset
    BY <2>4, <2>6 DEF Release!ReadBackGivesUp, Release!Die, Release!InterceptorDelete,
                      Release!Edit, Release!LoseFile, Release!Reset, Release!Stack
  <2>7. CASE \/ \E m \in Goals : Release!Render(m) \/ Release!Deploy(m)
             \/ \E m \in Release!Modes, act \in Release!Actions : Release!Gateway(m, act)
    BY <2>4, <2>7 DEF Release!Render, Release!Deploy, Release!Gateway, Release!Stack
  <2>8. CASE \/ Release!Snapshot \/ Release!SyncUrl \/ Release!Interceptor \/ Release!Prepare
             \/ Release!RepairFile
    BY <2>4, <2>8 DEF Release!Snapshot, Release!SyncUrl, Release!Interceptor, Release!Prepare,
                      Release!RepairFile, Release!Stack
  <2>9. CASE UNCHANGED Release!vars
    BY <2>4, <2>9 DEF Release!vars
  <2>10. QED BY <2>1, <2>2, <2>3, <2>5, <2>6, <2>7, <2>8, <2>9 DEF Release!Next, Release!Running,
     Release!Faulty
<1>3. QED BY <1>1, <1>2 DEF Release!DropsLogs

\* For any number of Gateways and of faults, wherever a command dies, a deploy rolls back or the CLI
\* loses its state file: no Gateway shows or awaits an interceptor it may not invoke, none goes
\* while its role holds a foreign policy or without a snapshot of that very Gateway, no agreed plan
\* deletes the holds target or the engine, and a log group goes only after its function
\* (release_identity.py deploy, gateway and holds-logs).
THEOREM ReleaseKept == ASSUME Release!GoalsAssumption, Release!BoundsAssumption
  PROVE Release!Spec =>
          /\ []ReleasePromise
          /\ [][Release!Replaces]_(Release!vars)
          /\ [][Release!DropsLogs]_(Release!vars)
<1>1. Release!Init => Release!IInv
  BY ReleaseInit
<1>2. Release!IInv /\ [Release!Next]_(Release!vars) => Release!IInv'
  BY ReleaseStep
<1>3. Release!IInv => ReleasePromise
  BY ReleaseSays
<1>4. Release!IInv /\ [Release!Next]_(Release!vars) => [Release!Replaces]_(Release!vars)
  BY StepReplaces
<1>5. Release!IInv /\ Release!IInv' /\ [Release!Next]_(Release!vars)
        => [Release!DropsLogs]_(Release!vars)
  BY StepDropsLogs
<1>6. QED BY <1>1, <1>2, <1>3, <1>4, <1>5, PTL DEF Release!Spec

-----------------------------------------------------------------------------
(* The rollback. *)

CONSTANT Snaps
VARIABLES live, cache, result, run, replaced
Rollback == INSTANCE ReleaseRollback

USE DEF Rollback!Rollbacks

\* The hops are nine, and each has one place in the order.
LEMMA StepsAre ==
  /\ Len(Rollback!Steps) = 9 /\ Rollback!Hops = {Rollback!Steps[i] : i \in 1..9}
  /\ "ssm" \in Rollback!Hops /\ "holds" \in Rollback!Hops
  /\ \A i \in 1..9 : Rollback!Steps[i] \in Rollback!Hops
  /\ \A i, j \in 1..9 : Rollback!Steps[i] = Rollback!Steps[j] => i = j
<1>1. Len(Rollback!Steps) = 9 /\ Rollback!Steps[7] = "ssm" /\ Rollback!Steps[8] = "holds"
  BY DEF Rollback!Steps
<1>2. Rollback!Hops = {Rollback!Steps[i] : i \in 1..9}
  BY <1>1 DEF Rollback!Hops
<1>3. /\ "ssm" \in Rollback!Hops /\ "holds" \in Rollback!Hops
      /\ \A i \in 1..9 : Rollback!Steps[i] \in Rollback!Hops
  BY <1>1, <1>2
<1>4. ASSUME NEW i \in 1..9, NEW j \in 1..9, Rollback!Steps[i] = Rollback!Steps[j] PROVE i = j
  <2>1. \A k \in 1..9 : k \in {1, 2, 3, 4, 5, 6, 7, 8, 9}
    OBVIOUS
  <2>2. QED BY <1>4, <2>1 DEF Rollback!Steps
<1>5. QED BY <1>1, <1>2, <1>3, <1>4

\* The holds Lambda's parameter is put back before the Lambda.
LEMMA SsmFirst ==
  /\ \A i \in 1..9 : Rollback!Steps[i] = "holds" <=> i = 8
  /\ \A i \in 1..9 : Rollback!Steps[i] = "ssm" <=> i = 7
<1>1. Rollback!Steps[7] = "ssm" /\ Rollback!Steps[8] = "holds"
  BY DEF Rollback!Steps
<1>2. QED BY <1>1, StepsAre

\* A hop ends with one status more; the next one starts with its check.
LEMMA EndsIs ==
  ASSUME Rollback!TypeOK, run # Rollback!NoRun, Len(run.done) < Len(Rollback!Steps),
         NEW status \in Rollback!Statuses, NEW owed \in BOOLEAN, Rollback!Ends(status, owed)
  PROVE /\ run' \in Rollback!Rollbacks
        /\ run' # Rollback!NoRun /\ run'.phase = "check" /\ run'.owed = owed
        /\ Len(run.done) \in Nat /\ Len(run'.done) = Len(run.done) + 1
        /\ \A i \in 1..Len(run.done) : run'.done[i] = run.done[i]
        /\ run'.done[Len(run.done) + 1] = status
<1>1. /\ run \in Rollback!Rollbacks
      /\ run.done \in Seq(Rollback!Statuses)
  BY DEF Rollback!TypeOK
<1>2. /\ Append(run.done, status) \in Seq(Rollback!Statuses)
      /\ Len(Append(run.done, status)) = Len(run.done) + 1
      /\ \A i \in 1..Len(run.done) : Append(run.done, status)[i] = run.done[i]
      /\ Append(run.done, status)[Len(run.done) + 1] = status
      /\ Len(run.done) \in Nat
  BY <1>1
<1>3. /\ run' = [run EXCEPT !.done = Append(run.done, status), !.phase = "check", !.owed = owed]
  BY DEF Rollback!Ends
<1>4. /\ run' \in Rollback!Rollbacks
      /\ run'.phase = "check" /\ run'.owed = owed /\ run'.done = Append(run.done, status)
  BY <1>1, <1>2, <1>3
<1>5. run' # Rollback!NoRun
  BY <1>4 DEF Rollback!NoRun
<1>6. QED BY <1>2, <1>4, <1>5

\* What a hop has to be sure of when it ends.
LEMMA EndKeeps ==
  ASSUME Rollback!RollbackAssumption, Rollback!IInv,
         run # Rollback!NoRun, Len(run.done) < Len(Rollback!Steps),
         NEW status \in Rollback!Statuses, NEW owed \in BOOLEAN, Rollback!Ends(status, owed),
         live' \in [Rollback!Hops -> Rollback!Values],
         \A h \in Rollback!Hops : h # Rollback!Step => live'[h] = live[h],
         UNCHANGED <<cache, result, replaced>>, faults' \in 0..MaxFaults,
         status \in {"unchanged", "restored"} =>
           /\ live'[Rollback!Step] = "saved"
           /\ (Rollback!Step = "holds" /\ live'["ssm"] = "saved" => cache = "saved"),
         status = "skipped" => \E j \in 1..Len(run.done) : run.done[j] = "failed",
         live'["ssm"] = "saved" /\ cache # "saved" => owed /\ result.owed
  PROVE Rollback!IInv'
<1>1. /\ run' \in Rollback!Rollbacks
      /\ run' # Rollback!NoRun /\ run'.phase = "check" /\ run'.owed = owed
      /\ Len(run.done) \in Nat /\ Len(run'.done) = Len(run.done) + 1
      /\ \A i \in 1..Len(run.done) : run'.done[i] = run.done[i]
      /\ run'.done[Len(run.done) + 1] = status
  BY EndsIs DEF Rollback!IInv
<1>2. Rollback!TypeOK'
  BY <1>1, StepsAre DEF Rollback!IInv, Rollback!TypeOK
<1>3. Rollback!DebtIsKnown' /\ Rollback!DebtComesFirst' /\ Rollback!SentIsSaved'
  BY <1>1 DEF Rollback!DebtIsKnown, Rollback!DebtComesFirst, Rollback!SentIsSaved, Rollback!In
<1>4. Rollback!DoneIsSaved'
  <2>1. SUFFICES ASSUME NEW i \in 1..Len(run'.done), run'.done[i] \in {"unchanged", "restored"}
                 PROVE /\ live'[Rollback!Steps[i]] = "saved"
                       /\ Rollback!Steps[i] = "holds" /\ live'["ssm"] = "saved" => cache' = "saved"
    BY DEF Rollback!DoneIsSaved
  <2>2. CASE i = Len(run.done) + 1
    BY <1>1, <2>1, <2>2 DEF Rollback!Step
  <2>3. CASE i \in 1..Len(run.done)
    <3>1. /\ live[Rollback!Steps[i]] = "saved"
          /\ Rollback!Steps[i] = "holds" /\ live["ssm"] = "saved" => cache = "saved"
      BY <1>1, <2>1, <2>3 DEF Rollback!IInv, Rollback!DoneIsSaved
    <3>2. Rollback!Steps[i] \in Rollback!Hops /\ Rollback!Steps[i] # Rollback!Step
      BY <1>1, <2>3, StepsAre DEF Rollback!Step
    <3>3. ASSUME Rollback!Steps[i] = "holds", live'["ssm"] = "saved" PROVE live["ssm"] = "saved"
      BY <1>1, <2>3, <3>3, StepsAre, SsmFirst DEF Rollback!Step
    <3>4. QED BY <3>1, <3>2, <3>3
  <2>4. QED BY <1>1, <2>1, <2>2, <2>3
<1>5. Rollback!SkipsAfterFailure'
  <2>1. SUFFICES ASSUME NEW i \in 1..Len(run'.done), run'.done[i] = "skipped"
                 PROVE \E j \in 1..Len(run'.done) : run'.done[j] = "failed"
    BY DEF Rollback!SkipsAfterFailure
  <2>2. PICK j \in 1..Len(run.done) : run.done[j] = "failed"
    <3>1. CASE i = Len(run.done) + 1
      BY <1>1, <2>1, <3>1
    <3>2. CASE i \in 1..Len(run.done)
      BY <1>1, <2>1, <3>2 DEF Rollback!IInv, Rollback!SkipsAfterFailure
    <3>3. QED BY <1>1, <2>1, <3>1, <3>2
  <2>3. j \in 1..Len(run'.done) /\ run'.done[j] = "failed"
    BY <1>1, <2>2
  <2>4. QED BY <2>3
<1>6. QED BY <1>2, <1>3, <1>4, <1>5 DEF Rollback!IInv

\* A hop that is under way has its place in the order.
LEMMA Under == ASSUME Rollback!TypeOK, NEW hop, Rollback!In(hop)
  PROVE /\ run # Rollback!NoRun /\ Len(run.done) < Len(Rollback!Steps) /\ run.phase = hop
        /\ run \in Rollback!Rollbacks
        /\ run.done \in Seq(Rollback!Statuses) /\ Len(run.done) \in Nat
        /\ Rollback!Step \in Rollback!Hops
<1>1. /\ run # Rollback!NoRun /\ Len(run.done) < Len(Rollback!Steps) /\ run.phase = hop
      /\ run \in Rollback!Rollbacks
  BY DEF Rollback!TypeOK, Rollback!In
<1>2. run.done \in Seq(Rollback!Statuses) /\ Len(run.done) \in Nat
  BY <1>1
<1>3. Rollback!Step \in Rollback!Hops
  BY <1>1, <1>2, StepsAre DEF Rollback!Step
<1>4. QED BY <1>1, <1>2, <1>3

\* Each action keeps the invariant.
LEMMA RollbackStep ==
  ASSUME Rollback!RollbackAssumption, Rollback!OneSnapshot, Rollback!IInv,
         [Rollback!Next]_(Rollback!vars)
  PROVE Rollback!IInv'
<1> USE DEF Rollback!RollbackAssumption
<1>1. ASSUME Rollback!Skip PROVE Rollback!IInv'
  <2>1. /\ Rollback!In("check") /\ Rollback!Ends("skipped", run.owed)
        /\ UNCHANGED <<live, cache, result, replaced, faults>>
    BY <1>1 DEF Rollback!Skip
  <2>2. \E j \in 1..Len(run.done) : run.done[j] = "failed"
    BY <1>1 DEF Rollback!Skip, Rollback!Failed
  <2>3. QED BY <2>1, <2>2, Under, EndKeeps DEF Rollback!IInv, Rollback!TypeOK,
               Rollback!DebtIsKnown, Rollback!Statuses
<1>2. ASSUME Rollback!Compare PROVE Rollback!IInv'
  <2>1. Rollback!In("check") /\ UNCHANGED <<live, cache, result, replaced, faults>>
    BY <1>2 DEF Rollback!Compare, Rollback!Compares
  <2>2. CASE ~Rollback!Differs
    <3>1. /\ Rollback!Ends("unchanged", run.owed) /\ live[Rollback!Step] = "saved"
          /\ (Rollback!Step = "holds" => ~run.owed)
      BY <1>2, <2>2 DEF Rollback!Compare, Rollback!Differs
    <3>2. Rollback!Step = "holds" /\ live["ssm"] = "saved" => cache = "saved"
      BY <2>1, <3>1, Under DEF Rollback!IInv, Rollback!DebtIsKnown
    <3>3. QED BY <2>1, <3>1, <3>2, Under, EndKeeps DEF Rollback!IInv, Rollback!TypeOK,
                 Rollback!DebtIsKnown, Rollback!Statuses
  <2>3. CASE Rollback!Differs /\ Rollback!ByHand(Rollback!Step)
    <3>1. Rollback!Ends("manual", run.owed)
      BY <1>2, <2>3 DEF Rollback!Compare
    <3>2. QED BY <2>1, <3>1, Under, EndKeeps DEF Rollback!IInv, Rollback!TypeOK,
                 Rollback!DebtIsKnown, Rollback!Statuses
  <2>4. CASE Rollback!Differs /\ ~Rollback!ByHand(Rollback!Step)
    <3>1. run' = [run EXCEPT !.phase = "write", !.owed = @ \/ Rollback!Step = "ssm"]
      BY <1>2, <2>4 DEF Rollback!Compare
    <3>2. /\ run \in Rollback!Rollbacks
          /\ run # Rollback!NoRun /\ Len(run.done) < Len(Rollback!Steps)
      BY <2>1, Under DEF Rollback!IInv
    <3>3. (run.owed \/ Rollback!Step = "ssm") \in BOOLEAN
      BY Zenon
    <3>4. /\ run' \in Rollback!Rollbacks
          /\ run'.done = run.done /\ run'.phase = "write"
          /\ run'.owed = (run.owed \/ Rollback!Step = "ssm")
      BY <3>1, <3>2, <3>3
    <3>5. run' # Rollback!NoRun /\ Rollback!Step' = Rollback!Step
      BY <3>4 DEF Rollback!NoRun, Rollback!Step
    <3>6. Rollback!TypeOK'
      BY <2>1, <3>2, <3>4 DEF Rollback!IInv, Rollback!TypeOK
    <3>7. Rollback!DebtIsKnown' /\ Rollback!DebtComesFirst' /\ Rollback!SentIsSaved'
      BY <2>1, <3>2, <3>4, <3>5 DEF Rollback!IInv, Rollback!DebtIsKnown, Rollback!DebtComesFirst,
         Rollback!SentIsSaved, Rollback!In
    <3>8. Rollback!DoneIsSaved' /\ Rollback!SkipsAfterFailure'
      BY <2>1, <3>2, <3>4, <3>5 DEF Rollback!IInv, Rollback!DoneIsSaved, Rollback!SkipsAfterFailure
    <3>9. QED BY <3>6, <3>7, <3>8 DEF Rollback!IInv
  <2>5. QED BY <2>2, <2>3, <2>4
<1>3. ASSUME Rollback!WriteAhead PROVE Rollback!IInv'
  <2>1. /\ Rollback!In("write") /\ run' = [run EXCEPT !.phase = "send"]
        /\ UNCHANGED <<live, cache, replaced, faults>>
        /\ IF Rollback!Step = "ssm" THEN Rollback!Journal ELSE UNCHANGED result
    BY <1>3 DEF Rollback!WriteAhead
  <2>2. /\ run \in Rollback!Rollbacks
        /\ run # Rollback!NoRun /\ Len(run.done) < Len(Rollback!Steps) /\ run.phase = "write"
    BY <2>1, Under DEF Rollback!IInv
  <2>3. /\ run' \in Rollback!Rollbacks
        /\ run'.done = run.done /\ run'.phase = "send" /\ run'.owed = run.owed
    BY <2>1, <2>2
  <2>4. run' # Rollback!NoRun /\ Rollback!Step' = Rollback!Step
    BY <2>3 DEF Rollback!NoRun, Rollback!Step
  <2>5. /\ Rollback!Step = "ssm" => run.owed /\ result'.owed
        /\ result.owed => result'.owed \/ Rollback!Step = "ssm"
    BY <2>1, <2>2 DEF Rollback!IInv, Rollback!DebtComesFirst, Rollback!Journal
  <2>6. Rollback!TypeOK'
    BY <2>1, <2>2, <2>3 DEF Rollback!IInv, Rollback!TypeOK, Rollback!Journal
  <2>7. Rollback!DebtIsKnown' /\ Rollback!DebtComesFirst' /\ Rollback!SentIsSaved'
    BY <2>1, <2>2, <2>3, <2>4, <2>5 DEF Rollback!IInv, Rollback!DebtIsKnown,
       Rollback!DebtComesFirst, Rollback!SentIsSaved, Rollback!In
  <2>8. Rollback!DoneIsSaved' /\ Rollback!SkipsAfterFailure'
    BY <2>1, <2>2, <2>3, <2>4 DEF Rollback!IInv, Rollback!DoneIsSaved, Rollback!SkipsAfterFailure
  <2>9. QED BY <2>6, <2>7, <2>8 DEF Rollback!IInv
<1>4. ASSUME Rollback!Send PROVE Rollback!IInv'
  <2>1. /\ Rollback!In("send") /\ run' = [run EXCEPT !.phase = "read"]
        /\ live' = [live EXCEPT ![Rollback!Step] = "saved"]
        /\ cache' = IF Rollback!Step = "holds" THEN live["ssm"] ELSE cache
        /\ UNCHANGED <<result, replaced, faults>>
    BY <1>4 DEF Rollback!Send, Rollback!Sends
  <2>2. /\ run \in Rollback!Rollbacks
        /\ run # Rollback!NoRun /\ Len(run.done) < Len(Rollback!Steps) /\ run.phase = "send"
        /\ Rollback!Step \in Rollback!Hops
        /\ Len(run.done) \in Nat
    BY <2>1, Under DEF Rollback!IInv
  <2>3. /\ run' \in Rollback!Rollbacks
        /\ run'.done = run.done /\ run'.phase = "read" /\ run'.owed = run.owed
    BY <2>1, <2>2
  <2>4. run' # Rollback!NoRun /\ Rollback!Step' = Rollback!Step
    BY <2>3 DEF Rollback!NoRun, Rollback!Step
  <2>5. /\ live \in [Rollback!Hops -> Rollback!Values]
        /\ live' \in [Rollback!Hops -> Rollback!Values] /\ live'[Rollback!Step] = "saved"
        /\ \A h \in Rollback!Hops : h # Rollback!Step => live'[h] = live[h]
        /\ \A h \in Rollback!Hops : live[h] = "saved" => live'[h] = "saved"
        /\ cache' \in Rollback!Values
    BY <2>1, <2>2, StepsAre DEF Rollback!IInv, Rollback!TypeOK, Rollback!Values
  <2>6. Rollback!Step = "ssm" => run.owed /\ result.owed
    BY <2>2 DEF Rollback!IInv, Rollback!DebtComesFirst
  <2>7. Rollback!TypeOK'
    BY <2>1, <2>2, <2>3, <2>5 DEF Rollback!IInv, Rollback!TypeOK
  <2>8. Rollback!DebtIsKnown' /\ Rollback!DebtComesFirst' /\ Rollback!SentIsSaved'
    BY <2>1, <2>2, <2>3, <2>4, <2>5, <2>6, StepsAre DEF Rollback!IInv, Rollback!DebtIsKnown,
       Rollback!DebtComesFirst, Rollback!SentIsSaved, Rollback!In
  <2>9. Rollback!DoneIsSaved'
    <3>1. SUFFICES ASSUME NEW i \in 1..Len(run.done), run.done[i] \in {"unchanged", "restored"}
                   PROVE /\ live'[Rollback!Steps[i]] = "saved"
                         /\ Rollback!Steps[i] = "holds" /\ live'["ssm"] = "saved"
                              => cache' = "saved"
      BY <2>3 DEF Rollback!DoneIsSaved
    <3>2. /\ live[Rollback!Steps[i]] = "saved" /\ Rollback!Steps[i] \in Rollback!Hops
          /\ Rollback!Steps[i] # Rollback!Step
          /\ Rollback!Steps[i] = "holds" /\ live["ssm"] = "saved" => cache = "saved"
      BY <2>2, <3>1, StepsAre DEF Rollback!IInv, Rollback!DoneIsSaved, Rollback!Step
    <3>3. Rollback!Steps[i] = "holds" => Rollback!Step # "ssm"
      BY <2>2, <3>1, StepsAre, SsmFirst DEF Rollback!Step
    <3>4. QED BY <2>1, <2>5, <3>2, <3>3, StepsAre
  <2>10. Rollback!SkipsAfterFailure'
    BY <2>2, <2>3 DEF Rollback!IInv, Rollback!SkipsAfterFailure
  <2>11. QED BY <2>7, <2>8, <2>9, <2>10 DEF Rollback!IInv
<1>5. ASSUME Rollback!ReadBack PROVE Rollback!IInv'
  <2>1. /\ Rollback!In("read") /\ Rollback!Ends("restored", run.owed /\ Rollback!Step # "holds")
        /\ UNCHANGED <<live, cache, result, replaced, faults>>
    BY <1>5 DEF Rollback!ReadBack
  <2>2. live[Rollback!Step] = "saved" /\ (Rollback!Step = "holds" => cache = live["ssm"])
    BY <2>1 DEF Rollback!IInv, Rollback!SentIsSaved
  <2>3. (run.owed /\ Rollback!Step # "holds") \in BOOLEAN
    BY Zenon
  <2>4. live["ssm"] = "saved" /\ cache # "saved"
          => (run.owed /\ Rollback!Step # "holds") /\ result.owed
    BY <2>1, <2>2, Under DEF Rollback!IInv, Rollback!DebtIsKnown
  <2>5. QED BY <2>1, <2>2, <2>3, <2>4, Under, EndKeeps DEF Rollback!IInv, Rollback!TypeOK,
               Rollback!Statuses
<1>6. ASSUME Rollback!Finish PROVE Rollback!IInv'
  BY <1>6 DEF Rollback!Finish, Rollback!IInv, Rollback!TypeOK, Rollback!DebtIsKnown,
     Rollback!DebtComesFirst, Rollback!SentIsSaved, Rollback!DoneIsSaved,
     Rollback!SkipsAfterFailure, Rollback!In, Rollback!Code, Rollback!NoRun
<1>7. ASSUME Rollback!CompareFails PROVE Rollback!IInv'
  <2>1. /\ Rollback!In("check") /\ Rollback!Ends("failed", run.owed)
        /\ UNCHANGED <<live, cache, result, replaced>> /\ faults' \in 0..MaxFaults
    BY <1>7 DEF Rollback!CompareFails, Rollback!Compares, Rollback!Fault, Rollback!IInv,
       Rollback!TypeOK
  <2>2. QED BY <2>1, Under, EndKeeps DEF Rollback!IInv, Rollback!TypeOK, Rollback!DebtIsKnown,
               Rollback!Statuses
<1>8. ASSUME Rollback!SendFails PROVE Rollback!IInv'
  <2>1. /\ Rollback!In("send") /\ Rollback!Ends("failed", run.owed)
        /\ UNCHANGED <<live, cache, result, replaced>> /\ faults' \in 0..MaxFaults
    BY <1>8 DEF Rollback!SendFails, Rollback!Fault, Rollback!IInv, Rollback!TypeOK
  <2>2. QED BY <2>1, Under, EndKeeps DEF Rollback!IInv, Rollback!TypeOK, Rollback!DebtIsKnown,
               Rollback!Statuses
<1>9. ASSUME Rollback!ReadBackFails PROVE Rollback!IInv'
  <2>1. PICK lost \in BOOLEAN :
          /\ live' = IF lost THEN [live EXCEPT ![Rollback!Step] = "released"] ELSE live
          /\ Rollback!Ends("failed", run.owed /\ (lost \/ Rollback!Step # "holds"))
    BY <1>9 DEF Rollback!ReadBackFails
  <2>2. /\ Rollback!In("read") /\ UNCHANGED <<cache, result, replaced>> /\ faults' \in 0..MaxFaults
    BY <1>9 DEF Rollback!ReadBackFails, Rollback!Fault, Rollback!IInv, Rollback!TypeOK
  <2>3. /\ Rollback!Step \in Rollback!Hops /\ run # Rollback!NoRun
        /\ Len(run.done) < Len(Rollback!Steps)
    BY <2>2, Under DEF Rollback!IInv
  <2>4. (run.owed /\ (lost \/ Rollback!Step # "holds")) \in BOOLEAN
    BY Zenon
  <2>5. live' \in [Rollback!Hops -> Rollback!Values] /\ \A h \in Rollback!Hops : h # Rollback!Step
          => live'[h] = live[h]
    BY <2>1, <2>3 DEF Rollback!IInv, Rollback!TypeOK, Rollback!Values
  <2>6. live'["ssm"] = "saved" => live["ssm"] = "saved"
    BY <2>1, <2>3, <2>5, StepsAre DEF Rollback!IInv, Rollback!TypeOK
  <2>7. live'["ssm"] = "saved" /\ cache # "saved"
          => (run.owed /\ (lost \/ Rollback!Step # "holds")) /\ result.owed
    BY <2>2, <2>3, <2>6 DEF Rollback!IInv, Rollback!DebtIsKnown, Rollback!SentIsSaved
  <2>8. QED BY <2>1, <2>2, <2>3, <2>4, <2>5, <2>7, EndKeeps DEF Rollback!Statuses
<1>10. ASSUME Rollback!Die PROVE Rollback!IInv'
  BY <1>10 DEF Rollback!Die, Rollback!Fault, Rollback!IInv, Rollback!TypeOK, Rollback!DebtIsKnown,
     Rollback!DebtComesFirst, Rollback!SentIsSaved, Rollback!DoneIsSaved,
     Rollback!SkipsAfterFailure, Rollback!In
<1>11. ASSUME Rollback!Unreadable PROVE Rollback!IInv'
  BY <1>11 DEF Rollback!Unreadable, Rollback!Broken, Rollback!Fault, Rollback!IInv,
     Rollback!TypeOK, Rollback!DebtIsKnown, Rollback!DebtComesFirst, Rollback!SentIsSaved,
     Rollback!DoneIsSaved, Rollback!SkipsAfterFailure, Rollback!In
<1>12. ASSUME Rollback!ColdStart PROVE Rollback!IInv'
  <2>1. /\ cache' = live["ssm"] /\ UNCHANGED <<live, result, run, replaced, faults>>
        /\ Rollback!Step' = Rollback!Step
    BY <1>12 DEF Rollback!ColdStart, Rollback!Step
  <2>2. Rollback!TypeOK'
    BY <2>1, StepsAre DEF Rollback!IInv, Rollback!TypeOK
  <2>3. /\ Rollback!DebtIsKnown' /\ Rollback!DebtComesFirst' /\ Rollback!SentIsSaved'
        /\ Rollback!DoneIsSaved' /\ Rollback!SkipsAfterFailure'
    BY <2>1 DEF Rollback!IInv, Rollback!DebtIsKnown, Rollback!DebtComesFirst, Rollback!SentIsSaved,
       Rollback!DoneIsSaved, Rollback!SkipsAfterFailure, Rollback!In
  <2>4. QED BY <2>2, <2>3 DEF Rollback!IInv
<1>13. ASSUME NEW s \in Snaps, Rollback!Start(s) PROVE Rollback!IInv'
  <2>1. /\ run = Rollback!NoRun /\ UNCHANGED <<live, cache, result, replaced, faults>>
        /\ run' = [snap |-> s, done |-> <<>>, phase |-> "check",
                   owed |-> Rollback!PreviousPending(s)]
    BY <1>13 DEF Rollback!Start
  <2>2. Rollback!PreviousPending(s) \in BOOLEAN
    BY Zenon DEF Rollback!PreviousPending
  <2>3. /\ run' \in Rollback!Rollbacks
        /\ Len(run'.done) = 0 /\ run'.phase = "check" /\ run'.owed = Rollback!PreviousPending(s)
    BY <2>1, <2>2
  <2>4. result.owed => Rollback!PreviousPending(s)
    BY DEF Rollback!PreviousPending, Rollback!OneSnapshot, Rollback!IInv, Rollback!TypeOK,
       Rollback!NoResult, Rollback!Broken
  <2>5. Rollback!TypeOK'
    BY <2>1, <2>3, StepsAre DEF Rollback!IInv, Rollback!TypeOK
  <2>6. /\ Rollback!DebtIsKnown' /\ Rollback!DebtComesFirst' /\ Rollback!SentIsSaved'
        /\ Rollback!DoneIsSaved' /\ Rollback!SkipsAfterFailure'
    BY <2>1, <2>3, <2>4 DEF Rollback!IInv, Rollback!DebtIsKnown, Rollback!DebtComesFirst,
       Rollback!SentIsSaved, Rollback!DoneIsSaved, Rollback!SkipsAfterFailure, Rollback!In
  <2>7. QED BY <2>5, <2>6 DEF Rollback!IInv
<1>14. ASSUME NEW s \in Rollback!Hops, Rollback!Remedy(s) PROVE Rollback!IInv'
  <2>1. /\ run = Rollback!NoRun /\ live' = [live EXCEPT ![s] = "saved"] /\ s # "ssm"
        /\ UNCHANGED <<cache, result, run, replaced, faults>>
    BY <1>14 DEF Rollback!Remedy, Rollback!ByHand
  <2>2. live' \in [Rollback!Hops -> Rollback!Values] /\ live'["ssm"] = live["ssm"]
    BY <2>1, StepsAre DEF Rollback!IInv, Rollback!TypeOK, Rollback!Values
  <2>3. QED BY <2>1, <2>2 DEF Rollback!IInv, Rollback!TypeOK, Rollback!DebtIsKnown,
               Rollback!DebtComesFirst, Rollback!SentIsSaved, Rollback!DoneIsSaved,
               Rollback!SkipsAfterFailure, Rollback!In
<1>15. ASSUME UNCHANGED Rollback!vars PROVE Rollback!IInv'
  BY <1>15 DEF Rollback!vars, Rollback!IInv, Rollback!TypeOK, Rollback!DebtIsKnown,
     Rollback!DebtComesFirst, Rollback!SentIsSaved, Rollback!DoneIsSaved,
     Rollback!SkipsAfterFailure, Rollback!In, Rollback!Step
<1> QED BY <1>1, <1>2, <1>3, <1>4, <1>5, <1>6, <1>7, <1>8, <1>9, <1>10, <1>11, <1>12, <1>13,
           <1>14, <1>15 DEF Rollback!Next, Rollback!Working, Rollback!Faulty

\* Nothing is owed before the first run: the Lambda runs on the parameter as it is.
LEMMA RollbackInit == ASSUME Rollback!RollbackAssumption, Rollback!Init PROVE Rollback!IInv
<1>1. Rollback!TypeOK
  BY StepsAre DEF Rollback!RollbackAssumption, Rollback!Init, Rollback!TypeOK
<1>2. /\ Rollback!DebtIsKnown /\ Rollback!DebtComesFirst /\ Rollback!SentIsSaved
      /\ Rollback!DoneIsSaved /\ Rollback!SkipsAfterFailure
  BY DEF Rollback!Init, Rollback!DebtIsKnown, Rollback!DebtComesFirst, Rollback!SentIsSaved,
     Rollback!DoneIsSaved, Rollback!SkipsAfterFailure, Rollback!In
<1>3. QED BY <1>1, <1>2 DEF Rollback!IInv

\* What is true of an owed restart between the runs.
RollbackPromise == Rollback!TypeOK /\ Rollback!RestartIsOwed

\* A debt that is in the file is known to the next run.
LEMMA RollbackSays == ASSUME Rollback!IInv PROVE RollbackPromise
  BY DEF Rollback!IInv, Rollback!DebtIsKnown, Rollback!RestartIsOwed, RollbackPromise

\* Code 0 is written only by Finish, of a run without a failed, skipped or manual hop.
LEMMA StepCompletes ==
  ASSUME Rollback!RollbackAssumption, Rollback!IInv, [Rollback!Next]_(Rollback!vars)
  PROVE Rollback!Completes
<1>1. SUFFICES ASSUME result' # result, result'.code = "zero"
               PROVE (\A s \in Rollback!Hops : live[s] = "saved") /\ cache = "saved"
  BY DEF Rollback!Completes
<1>2. Rollback!Finish
  <2>1. ~Rollback!WriteAhead /\ ~Rollback!Unreadable
    BY <1>1 DEF Rollback!WriteAhead, Rollback!Journal, Rollback!Unreadable, Rollback!Broken
  <2>2. ~Rollback!Skip /\ ~Rollback!Compare /\ ~Rollback!Send /\ ~Rollback!ReadBack
    BY <1>1 DEF Rollback!Skip, Rollback!Compare, Rollback!Send, Rollback!ReadBack
  <2>3. /\ ~Rollback!CompareFails /\ ~Rollback!SendFails /\ ~Rollback!ReadBackFails /\ ~Rollback!Die
        /\ ~Rollback!ColdStart
    BY <1>1 DEF Rollback!CompareFails, Rollback!SendFails, Rollback!ReadBackFails, Rollback!Die,
       Rollback!ColdStart
  <2>4. ~(\E s \in Snaps : Rollback!Start(s)) /\ ~(\E s \in Rollback!Hops : Rollback!Remedy(s))
    BY <1>1 DEF Rollback!Start, Rollback!Remedy
  <2>5. ~UNCHANGED Rollback!vars
    BY <1>1 DEF Rollback!vars
  <2>6. QED BY <2>1, <2>2, <2>3, <2>4, <2>5 DEF Rollback!Next, Rollback!Working, Rollback!Faulty
<1>3. /\ run # Rollback!NoRun /\ Len(run.done) = 9 /\ Rollback!Code = "zero"
      /\ run.done \in Seq(Rollback!Statuses)
  BY <1>1, <1>2, StepsAre DEF Rollback!Finish, Rollback!IInv, Rollback!TypeOK
<1>4. \A i \in 1..9 : run.done[i] \notin {"failed", "manual"}
  BY <1>3 DEF Rollback!Code
<1>5. \A i \in 1..9 : run.done[i] \in {"unchanged", "restored"}
  <2>1. \A i \in 1..9 : run.done[i] \in Rollback!Statuses
    BY <1>3, ElementOfSeq
  <2>2. \A i \in 1..9 : run.done[i] # "skipped"
    BY <1>3, <1>4 DEF Rollback!IInv, Rollback!SkipsAfterFailure
  <2> QED BY <1>4, <2>1, <2>2 DEF Rollback!Statuses
<1>6. \A i \in 1..9 : /\ live[Rollback!Steps[i]] = "saved"
                      /\ Rollback!Steps[i] = "holds" /\ live["ssm"] = "saved" => cache = "saved"
  BY <1>3, <1>5 DEF Rollback!IInv, Rollback!DoneIsSaved
<1>7. \A s \in Rollback!Hops : live[s] = "saved"
  BY <1>6, StepsAre
<1>8. QED BY <1>6, <1>7, StepsAre, SsmFirst

\* Wherever a rollback from one snapshot dies, fails or is run again: a holds Lambda that still runs
\* on a parameter that was replaced is known to the run or to its result file, and code 0 is given
\* only when every hop is as saved and the Lambda has read its parameter (rollback.py).
THEOREM RollbackKept == ASSUME Rollback!RollbackAssumption, Rollback!OneSnapshot
  PROVE Rollback!Spec =>
          /\ []RollbackPromise
          /\ [][Rollback!Completes]_(Rollback!vars)
<1>1. Rollback!Init => Rollback!IInv
  BY RollbackInit
<1>2. Rollback!IInv /\ [Rollback!Next]_(Rollback!vars) => Rollback!IInv'
  BY RollbackStep
<1>3. Rollback!IInv => RollbackPromise
  BY RollbackSays
<1>4. Rollback!IInv /\ [Rollback!Next]_(Rollback!vars) => [Rollback!Completes]_(Rollback!vars)
  BY StepCompletes
<1>5. QED BY <1>1, <1>2, <1>3, <1>4, PTL DEF Rollback!Spec

-----------------------------------------------------------------------------
(* The rotation of a login. *)

CONSTANTS Runs, Logins, InPlace, NoRun, MaxVersions, Attempts, Together
VARIABLES login, found, attempt, lines, verifier, secret, versions, env, last, alone, broken
Rotation == INSTANCE LoginRotation

USE DEF Rotation!Ended, Rotation!InProgress, Rotation!Goto

\* The newest and the oldest of consecutive versions.
LEMMA EndsOfVersions == ASSUME NEW o \in Nat, NEW n \in Nat, o <= n
  PROVE Rotation!Newest(o..n) = n /\ Rotation!Oldest(o..n) = o
<1>1. Rotation!Newest(o..n) \in o..n /\ \A w \in o..n : w <= Rotation!Newest(o..n)
  <2>1. \E v \in o..n : \A w \in o..n : w <= v
    OBVIOUS
  <2> QED BY <2>1 DEF Rotation!Newest
<1>2. Rotation!Oldest(o..n) \in o..n /\ \A w \in o..n : Rotation!Oldest(o..n) <= w
  <2>1. \E v \in o..n : \A w \in o..n : v <= w
    OBVIOUS
  <2> QED BY <2>1 DEF Rotation!Oldest
<1>3. QED BY <1>1, <1>2

\* The number of versions a policy has is the size of their set.
LEMMA VersionsCount == ASSUME NEW V PROVE Rotation!Cardinality(V) = Cardinality(V)
  BY DEF Rotation!Cardinality, Cardinality

\* A policy at its limit loses its oldest version and no other.
LEMMA TrimKeepsOrder ==
  ASSUME Rotation!LimitsKnown, NEW o \in Nat, NEW n \in Nat, n - o < MaxVersions,
         Cardinality(o..n) >= MaxVersions
  PROVE (o..n) \ {Rotation!Oldest((o..n) \ {Rotation!Newest(o..n)})} = (o+1)..n
<1>1. o < n /\ n - o = MaxVersions - 1
  <2>1. Cardinality(o..n) = IF o > n THEN 0 ELSE n - o + 1
    BY FS_Interval
  <2> QED BY <2>1 DEF Rotation!LimitsKnown
<1>2. (o..n) \ {Rotation!Newest(o..n)} = o..(n-1)
  BY <1>1, EndsOfVersions
<1>3. n - 1 \in Nat /\ o <= n - 1
  BY <1>1
<1>4. Rotation!Oldest(o..(n-1)) = o
  BY <1>3, EndsOfVersions
<1>5. (o..n) \ {o} = (o+1)..n
  OBVIOUS
<1>6. QED BY <1>2, <1>4, <1>5

\* One more version, where there is room.
LEMMA NextVersion == ASSUME Rotation!LimitsKnown, NEW V, NEW o \in Nat, NEW n \in Nat, V = o..n,
                            Cardinality(V) < MaxVersions
  PROVE \E p, q \in Nat : /\ V \cup {IF V = {} THEN 1 ELSE Rotation!Newest(V) + 1} = p..q
                          /\ q - p < MaxVersions
<1>1. CASE V = {}
  <2>1. V \cup {IF V = {} THEN 1 ELSE Rotation!Newest(V) + 1} = 1..1
    BY <1>1
  <2>2. 1 \in Nat /\ 1 - 1 < MaxVersions
    BY DEF Rotation!LimitsKnown
  <2> QED BY <2>1, <2>2
<1>2. CASE V # {}
  <2>1. o <= n
    BY <1>2
  <2>2. V \cup {IF V = {} THEN 1 ELSE Rotation!Newest(V) + 1} = o..(n+1)
    BY <1>2, <2>1, EndsOfVersions
  <2>3. Cardinality(V) = n - o + 1
    BY <2>1, FS_Interval
  <2>4. n + 1 \in Nat /\ (n + 1) - o < MaxVersions
    BY <2>1, <2>3 DEF Rotation!LimitsKnown
  <2> QED BY <2>2, <2>4
<1>3. QED BY <1>1, <1>2

LEMMA RotationInit ==
  ASSUME Rotation!ScriptsKnown, Rotation!LimitsKnown, Rotation!Init
  PROVE Rotation!IInv
<1>1. Rotation!TypeOK /\ Rotation!Known
  <2>1. \A m \in {0, MaxVersions} : 1..m \in SUBSET Nat
    BY DEF Rotation!LimitsKnown
  <2>2. versions \in [Logins -> SUBSET Nat]
    BY <2>1 DEF Rotation!Init
  <2> QED BY <2>2 DEF Rotation!Init, Rotation!TypeOK, Rotation!Known, Rotation!LimitsKnown
<1>2. Rotation!VersionsFit
  <2>1. PICK m \in {0, MaxVersions} : versions = [l \in Logins |-> 1..m]
    BY DEF Rotation!Init
  <2>2. m \in Nat /\ m - 1 < MaxVersions
    BY <2>1 DEF Rotation!LimitsKnown
  <2> QED BY <2>1, <2>2 DEF Rotation!VersionsFit
<1>3. /\ Rotation!AttemptsLeft /\ Rotation!LastIsItsOwn /\ Rotation!LastVerifiedWorks
      /\ Rotation!AloneIsAlone /\ Rotation!OneInProgress
      /\ Rotation!AloneFindsAll /\ Rotation!LinesAreRead
  BY DEF Rotation!Init, Rotation!AttemptsLeft, Rotation!LimitsKnown, Rotation!LastIsItsOwn,
     Rotation!LastVerifiedWorks, Rotation!AloneIsAlone, Rotation!OneInProgress,
     Rotation!AloneFindsAll, Rotation!FindsAll, Rotation!LinesAreRead
<1>4. QED BY <1>1, <1>2, <1>3 DEF Rotation!IInv

LEMMA FindKeeps ==
  ASSUME Rotation!ScriptsKnown, Rotation!LimitsKnown, Rotation!IInv, NEW r \in Runs,
         Rotation!Find(r)
  PROVE Rotation!IInv'
<1> USE DEF Rotation!Find
<1>1. Rotation!TypeOK' /\ Rotation!Known'
  BY DEF Rotation!IInv, Rotation!TypeOK, Rotation!Known, Rotation!LimitsKnown
<1>2. Rotation!VersionsFit'
  BY DEF Rotation!IInv, Rotation!TypeOK, Rotation!Known, Rotation!VersionsFit
<1>3. Rotation!AttemptsLeft'
  BY DEF Rotation!IInv, Rotation!TypeOK, Rotation!AttemptsLeft, Rotation!LimitsKnown
<1>4. Rotation!LastIsItsOwn'
  BY DEF Rotation!IInv, Rotation!TypeOK, Rotation!LastIsItsOwn, Rotation!ScriptsKnown
<1>5. Rotation!LastVerifiedWorks'
  BY DEF Rotation!IInv, Rotation!TypeOK, Rotation!LastIsItsOwn, Rotation!LastVerifiedWorks,
     Rotation!Connects, Rotation!ScriptsKnown
<1>6. Rotation!AloneIsAlone' /\ Rotation!OneInProgress'
  BY DEF Rotation!IInv, Rotation!TypeOK, Rotation!Known, Rotation!AloneIsAlone,
     Rotation!OneInProgress, Rotation!LimitsKnown
<1>7. Rotation!AloneFindsAll'
  BY DEF Rotation!IInv, Rotation!TypeOK, Rotation!Known, Rotation!AloneIsAlone,
     Rotation!AloneFindsAll, Rotation!FindsAll, Rotation!AttemptsLeft, Rotation!Connects,
     Rotation!ScriptsKnown, Rotation!LimitsKnown
<1>8. Rotation!LinesAreRead'
  BY DEF Rotation!IInv, Rotation!TypeOK, Rotation!Known, Rotation!OneInProgress,
     Rotation!LinesAreRead, Rotation!LimitsKnown
<1>9. QED BY <1>1, <1>2, <1>3, <1>4, <1>5, <1>6, <1>7, <1>8 DEF Rotation!IInv

LEMMA SetLoginKeeps ==
  ASSUME Rotation!ScriptsKnown, Rotation!LimitsKnown, Rotation!IInv, NEW r \in Runs,
         Rotation!SetLogin(r)
  PROVE Rotation!IInv'
<1> USE DEF Rotation!SetLogin
<1>1. Rotation!TypeOK' /\ Rotation!Known'
  BY DEF Rotation!IInv, Rotation!TypeOK, Rotation!Known, Rotation!LimitsKnown
<1>2. Rotation!VersionsFit'
  BY DEF Rotation!IInv, Rotation!TypeOK, Rotation!Known, Rotation!VersionsFit
<1>3. Rotation!AttemptsLeft'
  BY DEF Rotation!IInv, Rotation!TypeOK, Rotation!AttemptsLeft, Rotation!LimitsKnown
<1>4. Rotation!LastIsItsOwn'
  BY DEF Rotation!IInv, Rotation!TypeOK, Rotation!LastIsItsOwn, Rotation!ScriptsKnown
<1>5. Rotation!LastVerifiedWorks'
  BY DEF Rotation!IInv, Rotation!TypeOK, Rotation!LastIsItsOwn, Rotation!LastVerifiedWorks,
     Rotation!Connects, Rotation!ScriptsKnown
<1>6. Rotation!AloneIsAlone' /\ Rotation!OneInProgress'
  BY DEF Rotation!IInv, Rotation!TypeOK, Rotation!Known, Rotation!AloneIsAlone,
     Rotation!OneInProgress, Rotation!LimitsKnown
<1>7. Rotation!AloneFindsAll'
  BY DEF Rotation!IInv, Rotation!TypeOK, Rotation!Known, Rotation!AloneIsAlone,
     Rotation!AloneFindsAll, Rotation!FindsAll, Rotation!AttemptsLeft, Rotation!Connects,
     Rotation!ScriptsKnown, Rotation!LimitsKnown
<1>8. Rotation!LinesAreRead'
  BY DEF Rotation!IInv, Rotation!TypeOK, Rotation!Known, Rotation!OneInProgress,
     Rotation!LinesAreRead, Rotation!LimitsKnown
<1>9. QED BY <1>1, <1>2, <1>3, <1>4, <1>5, <1>6, <1>7, <1>8 DEF Rotation!IInv

LEMMA StoreSecretKeeps ==
  ASSUME Rotation!ScriptsKnown, Rotation!LimitsKnown, Rotation!IInv, NEW r \in Runs,
         Rotation!StoreSecret(r)
  PROVE Rotation!IInv'
<1> USE DEF Rotation!StoreSecret
<1>1. Rotation!TypeOK' /\ Rotation!Known'
  <2>1. CASE found[r].secret \/ secret[login[r]] = NoRun
    <3>1. secret' \in [Logins -> Runs \cup {NoRun}] /\ last' \in [Logins -> Runs \cup {NoRun}]
      BY <2>1 DEF Rotation!IInv, Rotation!TypeOK
    <3>2. pc' \in [Runs -> {"idle", "found", "set", "stored", "trimmed", "granted",
                           "verified", "read", "opened", "done", "failed"}]
      BY <2>1 DEF Rotation!IInv, Rotation!TypeOK
    <3> QED BY <2>1, <3>1, <3>2 DEF Rotation!IInv, Rotation!TypeOK, Rotation!Known
  <2>2. CASE ~(found[r].secret \/ secret[login[r]] = NoRun)
    BY <2>2 DEF Rotation!IInv, Rotation!TypeOK, Rotation!Known
  <2> QED BY <2>1, <2>2
<1>2. Rotation!VersionsFit'
  BY DEF Rotation!IInv, Rotation!TypeOK, Rotation!Known, Rotation!VersionsFit
<1>3. Rotation!AttemptsLeft'
  BY DEF Rotation!IInv, Rotation!TypeOK, Rotation!AttemptsLeft, Rotation!LimitsKnown
<1>4. Rotation!LastIsItsOwn'
  BY DEF Rotation!IInv, Rotation!TypeOK, Rotation!LastIsItsOwn, Rotation!ScriptsKnown
<1>5. Rotation!LastVerifiedWorks'
  BY DEF Rotation!IInv, Rotation!TypeOK, Rotation!LastIsItsOwn, Rotation!LastVerifiedWorks,
     Rotation!Connects, Rotation!ScriptsKnown
<1>6. Rotation!AloneIsAlone' /\ Rotation!OneInProgress'
  BY DEF Rotation!IInv, Rotation!TypeOK, Rotation!Known, Rotation!AloneIsAlone,
     Rotation!OneInProgress, Rotation!LimitsKnown
<1>7. Rotation!AloneFindsAll'
  <2>1. CASE alone[r]
    <3>1. found[r].secret \/ secret[login[r]] = NoRun
      BY <2>1 DEF Rotation!IInv, Rotation!AloneFindsAll, Rotation!FindsAll
    <3>2. \A o \in Runs : alone'[o] /\ o # r => ~Rotation!InProgress(o)
      BY <2>1 DEF Rotation!IInv, Rotation!TypeOK, Rotation!AloneIsAlone
    <3>3. \A o \in Runs : alone[o] /\ o # r => Rotation!FindsAll(o)'
      BY <3>1, <3>2 DEF Rotation!IInv, Rotation!TypeOK, Rotation!AloneFindsAll, Rotation!FindsAll
    <3>4. Rotation!FindsAll(r)'
      BY <2>1, <3>1 DEF Rotation!IInv, Rotation!TypeOK, Rotation!Known, Rotation!AloneFindsAll,
         Rotation!FindsAll
    <3> QED BY <3>3, <3>4 DEF Rotation!AloneFindsAll
  <2>2. CASE ~alone[r]
    <3>1. \A o \in Runs : alone'[o] => ~Rotation!InProgress(o) /\ o # r
      BY <2>2 DEF Rotation!IInv, Rotation!TypeOK, Rotation!AloneIsAlone
    <3> QED BY <3>1 DEF Rotation!IInv, Rotation!TypeOK, Rotation!AloneFindsAll, Rotation!FindsAll
  <2> QED BY <2>1, <2>2
<1>8. Rotation!LinesAreRead'
  BY DEF Rotation!IInv, Rotation!TypeOK, Rotation!Known, Rotation!OneInProgress,
     Rotation!LinesAreRead, Rotation!LimitsKnown
<1>9. QED BY <1>1, <1>2, <1>3, <1>4, <1>5, <1>6, <1>7, <1>8 DEF Rotation!IInv

LEMMA TrimPolicyKeeps ==
  ASSUME Rotation!ScriptsKnown, Rotation!LimitsKnown, Rotation!IInv, NEW r \in Runs,
         Rotation!TrimPolicy(r)
  PROVE Rotation!IInv'
<1> USE DEF Rotation!TrimPolicy, Rotation!Full
<1>1. Rotation!TypeOK' /\ Rotation!Known'
  BY DEF Rotation!IInv, Rotation!TypeOK, Rotation!Known, Rotation!LimitsKnown
<1>2. Rotation!VersionsFit'
  <2>1. /\ login[r] \in Logins /\ versions \in [Logins -> SUBSET Nat]
    BY DEF Rotation!IInv, Rotation!TypeOK, Rotation!Known
  <2>2. CASE ~(found[r].policy /\ Rotation!Full(versions[login[r]]))
    BY <2>2 DEF Rotation!IInv, Rotation!VersionsFit
  <2>3. CASE found[r].policy /\ Rotation!Full(versions[login[r]])
    <3>1. PICK o, n \in Nat : versions[login[r]] = o..n /\ n - o < MaxVersions
      BY <2>1 DEF Rotation!IInv, Rotation!VersionsFit
    <3>2. versions' = [versions EXCEPT ![login[r]] = (o+1)..n]
      BY <2>3, <3>1, TrimKeepsOrder, VersionsCount
    <3>3. o + 1 \in Nat /\ n - (o + 1) < MaxVersions
      BY <3>1 DEF Rotation!LimitsKnown
    <3>4. \A l \in Logins : versions'[l] = IF l = login[r] THEN (o+1)..n ELSE versions[l]
      BY <2>1, <3>2
    <3> QED BY <3>3, <3>4 DEF Rotation!IInv, Rotation!VersionsFit
  <2> QED BY <2>2, <2>3
<1>3. Rotation!AttemptsLeft'
  BY DEF Rotation!IInv, Rotation!TypeOK, Rotation!AttemptsLeft, Rotation!LimitsKnown
<1>4. Rotation!LastIsItsOwn'
  BY DEF Rotation!IInv, Rotation!TypeOK, Rotation!LastIsItsOwn, Rotation!ScriptsKnown
<1>5. Rotation!LastVerifiedWorks'
  BY DEF Rotation!IInv, Rotation!TypeOK, Rotation!LastIsItsOwn, Rotation!LastVerifiedWorks,
     Rotation!Connects, Rotation!ScriptsKnown
<1>6. Rotation!AloneIsAlone' /\ Rotation!OneInProgress'
  BY DEF Rotation!IInv, Rotation!TypeOK, Rotation!Known, Rotation!AloneIsAlone,
     Rotation!OneInProgress, Rotation!LimitsKnown
<1>7. Rotation!AloneFindsAll'
  <2>1. /\ login[r] \in Logins /\ versions \in [Logins -> SUBSET Nat]
    BY DEF Rotation!IInv, Rotation!TypeOK, Rotation!Known
  <2>2. \A o \in Runs : alone[o] /\ o # r => Rotation!FindsAll(o)'
    <3>1. \A o \in Runs : alone[o] /\ o # r => ~Rotation!InProgress(o)
      BY DEF Rotation!IInv, Rotation!TypeOK, Rotation!AloneIsAlone
    <3> QED BY <3>1 DEF Rotation!IInv, Rotation!TypeOK, Rotation!AloneFindsAll, Rotation!FindsAll
  <2>3. ASSUME alone[r] PROVE Rotation!FindsAll(r)'
    <3>1. PICK o, n \in Nat : versions[login[r]] = o..n /\ n - o < MaxVersions
      BY <2>1 DEF Rotation!IInv, Rotation!VersionsFit
    <3>2. found[r].policy <=> versions[login[r]] # {}
      BY <2>3 DEF Rotation!IInv, Rotation!AloneFindsAll, Rotation!FindsAll
    <3>3. Cardinality(o..n) = IF o > n THEN 0 ELSE n - o + 1
      BY FS_Interval
    <3>4. /\ versions'[login[r]] # {} <=> versions[login[r]] # {}
          /\ Cardinality(versions'[login[r]]) < MaxVersions
      <4>1. CASE found[r].policy /\ Rotation!Full(versions[login[r]])
        <5>1. versions'[login[r]] = (o+1)..n
          BY <2>1, <3>1, <4>1, TrimKeepsOrder, VersionsCount
        <5>2. n - o + 1 >= MaxVersions /\ o + 1 <= n
          BY <3>1, <3>3, <4>1, VersionsCount DEF Rotation!LimitsKnown
        <5>3. Cardinality((o+1)..n) = IF o + 1 > n THEN 0 ELSE n - (o + 1) + 1
          BY FS_Interval
        <5>4. versions[login[r]] # {} /\ versions'[login[r]] # {}
          <6>1. n \in o..n /\ n \in (o+1)..n
            BY <5>2
          <6> QED BY <3>1, <5>1, <6>1
        <5>5. Cardinality((o+1)..n) < MaxVersions
          BY <3>1, <5>2, <5>3 DEF Rotation!LimitsKnown
        <5> QED BY <5>1, <5>4, <5>5
      <4>2. CASE ~found[r].policy
        BY <3>2, <4>2, FS_EmptySet DEF Rotation!LimitsKnown
      <4>3. CASE found[r].policy /\ ~Rotation!Full(versions[login[r]])
        <5>1. versions' = versions /\ ~(Cardinality(o..n) >= MaxVersions)
          BY <3>1, <4>3, VersionsCount
        <5>2. Cardinality(o..n) < MaxVersions
          BY <3>3, <5>1 DEF Rotation!LimitsKnown
        <5> QED BY <3>1, <5>1, <5>2
      <4> QED BY <4>1, <4>2, <4>3
    <3> QED BY <2>3, <3>4, VersionsCount DEF Rotation!IInv, Rotation!TypeOK, Rotation!AloneFindsAll,
               Rotation!FindsAll
  <2> QED BY <2>2, <2>3 DEF Rotation!AloneFindsAll
<1>8. Rotation!LinesAreRead'
  BY DEF Rotation!IInv, Rotation!TypeOK, Rotation!Known, Rotation!OneInProgress,
     Rotation!LinesAreRead, Rotation!LimitsKnown
<1>9. QED BY <1>1, <1>2, <1>3, <1>4, <1>5, <1>6, <1>7, <1>8 DEF Rotation!IInv

LEMMA WritePolicyKeeps ==
  ASSUME Rotation!ScriptsKnown, Rotation!LimitsKnown, Rotation!IInv, NEW r \in Runs,
         Rotation!WritePolicy(r)
  PROVE Rotation!IInv'
<1> USE DEF Rotation!WritePolicy
<1>1. Rotation!TypeOK' /\ Rotation!Known'
  <2>1. /\ login[r] \in Logins /\ versions \in [Logins -> SUBSET Nat]
    BY DEF Rotation!IInv, Rotation!TypeOK, Rotation!Known
  <2>2. PICK o, n \in Nat : versions[login[r]] = o..n /\ n - o < MaxVersions
    BY <2>1 DEF Rotation!IInv, Rotation!VersionsFit
  <2>3. versions[login[r]] # {} => Rotation!Newest(versions[login[r]]) \in Nat
    <3>1. versions[login[r]] # {} => o <= n
      BY <2>2
    <3> QED BY <2>2, <3>1, EndsOfVersions
  <2>4. versions' \in [Logins -> SUBSET Nat]
    BY <2>1, <2>3
  <2> QED BY <2>4 DEF Rotation!IInv, Rotation!TypeOK, Rotation!Known
<1>2. Rotation!VersionsFit'
  <2>1. /\ login[r] \in Logins /\ versions \in [Logins -> SUBSET Nat]
    BY DEF Rotation!IInv, Rotation!TypeOK, Rotation!Known
  <2>2. PICK o, n \in Nat : versions[login[r]] = o..n /\ n - o < MaxVersions
    BY <2>1 DEF Rotation!IInv, Rotation!VersionsFit
  <2>3. CASE versions' = versions
    BY <2>3 DEF Rotation!IInv, Rotation!VersionsFit
  <2>4. CASE versions' # versions
    <3> DEFINE V == versions[login[r]]
               W == V \cup {IF V = {} THEN 1 ELSE Rotation!Newest(V) + 1}
    <3>1. Cardinality(V) < MaxVersions
      <4>1. IF found[r].policy THEN Cardinality(V) < MaxVersions ELSE V = {}
        BY <2>4, VersionsCount
      <4>2. Cardinality({}) < MaxVersions
        BY FS_EmptySet DEF Rotation!LimitsKnown
      <4> QED BY <4>1, <4>2
    <3>2. PICK p, q \in Nat : W = p..q /\ q - p < MaxVersions
      BY <2>2, <3>1, NextVersion
    <3>3. \A l \in Logins : versions'[l] = IF l = login[r] THEN W ELSE versions[l]
      BY <2>1, <2>4
    <3> QED BY <3>2, <3>3 DEF Rotation!IInv, Rotation!VersionsFit
  <2> QED BY <2>3, <2>4
<1>3. Rotation!AttemptsLeft'
  BY DEF Rotation!IInv, Rotation!TypeOK, Rotation!AttemptsLeft, Rotation!LimitsKnown
<1>4. Rotation!LastIsItsOwn'
  BY DEF Rotation!IInv, Rotation!TypeOK, Rotation!LastIsItsOwn, Rotation!ScriptsKnown
<1>5. Rotation!LastVerifiedWorks'
  BY DEF Rotation!IInv, Rotation!TypeOK, Rotation!LastIsItsOwn, Rotation!LastVerifiedWorks,
     Rotation!Connects, Rotation!ScriptsKnown
<1>6. Rotation!AloneIsAlone' /\ Rotation!OneInProgress'
  BY DEF Rotation!IInv, Rotation!TypeOK, Rotation!Known, Rotation!AloneIsAlone,
     Rotation!OneInProgress, Rotation!LimitsKnown
<1>7. Rotation!AloneFindsAll'
  <2>1. \A o \in Runs : alone[o] /\ o # r => Rotation!FindsAll(o)'
    <3>1. \A o \in Runs : alone[o] /\ o # r => ~Rotation!InProgress(o)
      BY DEF Rotation!IInv, Rotation!TypeOK, Rotation!AloneIsAlone
    <3> QED BY <3>1 DEF Rotation!IInv, Rotation!TypeOK, Rotation!AloneFindsAll, Rotation!FindsAll
  <2>2. ASSUME alone[r] PROVE Rotation!FindsAll(r)'
    BY <2>2 DEF Rotation!IInv, Rotation!TypeOK, Rotation!AloneFindsAll, Rotation!FindsAll
  <2> QED BY <2>1, <2>2 DEF Rotation!AloneFindsAll
<1>8. Rotation!LinesAreRead'
  BY DEF Rotation!IInv, Rotation!TypeOK, Rotation!Known, Rotation!OneInProgress,
     Rotation!LinesAreRead, Rotation!LimitsKnown
<1>9. QED BY <1>1, <1>2, <1>3, <1>4, <1>5, <1>6, <1>7, <1>8 DEF Rotation!IInv

LEMMA VerifyKeeps ==
  ASSUME Rotation!ScriptsKnown, Rotation!LimitsKnown, Rotation!IInv, NEW r \in Runs,
         Rotation!Verify(r)
  PROVE Rotation!IInv'
<1> USE DEF Rotation!Verify, Rotation!Verifies, Rotation!Connects
<1>1. Rotation!TypeOK' /\ Rotation!Known'
  BY DEF Rotation!IInv, Rotation!TypeOK, Rotation!Known, Rotation!LimitsKnown
<1>2. Rotation!VersionsFit'
  BY DEF Rotation!IInv, Rotation!TypeOK, Rotation!Known, Rotation!VersionsFit
<1>3. Rotation!AttemptsLeft'
  BY DEF Rotation!IInv, Rotation!TypeOK, Rotation!AttemptsLeft, Rotation!LimitsKnown
<1>4. Rotation!LastIsItsOwn'
  BY DEF Rotation!IInv, Rotation!TypeOK, Rotation!LastIsItsOwn, Rotation!ScriptsKnown
<1>5. Rotation!LastVerifiedWorks'
  BY DEF Rotation!IInv, Rotation!TypeOK, Rotation!LastIsItsOwn, Rotation!LastVerifiedWorks,
     Rotation!Connects, Rotation!ScriptsKnown
<1>6. Rotation!AloneIsAlone' /\ Rotation!OneInProgress'
  BY DEF Rotation!IInv, Rotation!TypeOK, Rotation!Known, Rotation!AloneIsAlone,
     Rotation!OneInProgress, Rotation!LimitsKnown
<1>7. Rotation!AloneFindsAll'
  BY DEF Rotation!IInv, Rotation!TypeOK, Rotation!Known, Rotation!AloneIsAlone,
     Rotation!AloneFindsAll, Rotation!FindsAll, Rotation!AttemptsLeft, Rotation!Connects,
     Rotation!ScriptsKnown, Rotation!LimitsKnown
<1>8. Rotation!LinesAreRead'
  BY DEF Rotation!IInv, Rotation!TypeOK, Rotation!Known, Rotation!OneInProgress,
     Rotation!LinesAreRead, Rotation!LimitsKnown
<1>9. QED BY <1>1, <1>2, <1>3, <1>4, <1>5, <1>6, <1>7, <1>8 DEF Rotation!IInv

LEMMA CannotConnectKeeps ==
  ASSUME Rotation!ScriptsKnown, Rotation!LimitsKnown, Rotation!IInv, NEW r \in Runs,
         Rotation!CannotConnect(r)
  PROVE Rotation!IInv'
<1> USE DEF Rotation!CannotConnect, Rotation!Connects
<1>1. Rotation!TypeOK' /\ Rotation!Known'
  <2>1. attempt[r] \in Nat /\ attempt[r] < Attempts
    BY DEF Rotation!IInv, Rotation!TypeOK, Rotation!AttemptsLeft, Rotation!LimitsKnown
  <2>2. attempt' \in [Runs -> 0..Attempts]
    BY <2>1 DEF Rotation!IInv, Rotation!TypeOK, Rotation!LimitsKnown
  <2> QED BY <2>2 DEF Rotation!IInv, Rotation!TypeOK, Rotation!Known
<1>2. Rotation!VersionsFit'
  BY DEF Rotation!IInv, Rotation!TypeOK, Rotation!Known, Rotation!VersionsFit
<1>3. Rotation!AttemptsLeft'
  BY DEF Rotation!IInv, Rotation!TypeOK, Rotation!AttemptsLeft, Rotation!LimitsKnown
<1>4. Rotation!LastIsItsOwn'
  BY DEF Rotation!IInv, Rotation!TypeOK, Rotation!LastIsItsOwn, Rotation!ScriptsKnown
<1>5. Rotation!LastVerifiedWorks'
  BY DEF Rotation!IInv, Rotation!TypeOK, Rotation!LastIsItsOwn, Rotation!LastVerifiedWorks,
     Rotation!Connects, Rotation!ScriptsKnown
<1>6. Rotation!AloneIsAlone' /\ Rotation!OneInProgress'
  BY DEF Rotation!IInv, Rotation!TypeOK, Rotation!Known, Rotation!AloneIsAlone,
     Rotation!OneInProgress, Rotation!LimitsKnown
<1>7. Rotation!AloneFindsAll'
  BY DEF Rotation!IInv, Rotation!TypeOK, Rotation!Known, Rotation!AloneIsAlone,
     Rotation!AloneFindsAll, Rotation!FindsAll, Rotation!AttemptsLeft, Rotation!Connects,
     Rotation!ScriptsKnown, Rotation!LimitsKnown
<1>8. Rotation!LinesAreRead'
  BY DEF Rotation!IInv, Rotation!TypeOK, Rotation!Known, Rotation!OneInProgress,
     Rotation!LinesAreRead, Rotation!LimitsKnown
<1>9. QED BY <1>1, <1>2, <1>3, <1>4, <1>5, <1>6, <1>7, <1>8 DEF Rotation!IInv

LEMMA ReadEnvKeeps ==
  ASSUME Rotation!ScriptsKnown, Rotation!LimitsKnown, Rotation!IInv, NEW r \in Runs,
         Rotation!ReadEnv(r)
  PROVE Rotation!IInv'
<1> USE DEF Rotation!ReadEnv
<1>1. Rotation!TypeOK' /\ Rotation!Known'
  BY DEF Rotation!IInv, Rotation!TypeOK, Rotation!Known, Rotation!LimitsKnown
<1>2. Rotation!VersionsFit'
  BY DEF Rotation!IInv, Rotation!TypeOK, Rotation!Known, Rotation!VersionsFit
<1>3. Rotation!AttemptsLeft'
  BY DEF Rotation!IInv, Rotation!TypeOK, Rotation!AttemptsLeft, Rotation!LimitsKnown
<1>4. Rotation!LastIsItsOwn'
  BY DEF Rotation!IInv, Rotation!TypeOK, Rotation!LastIsItsOwn, Rotation!ScriptsKnown
<1>5. Rotation!LastVerifiedWorks'
  BY DEF Rotation!IInv, Rotation!TypeOK, Rotation!LastIsItsOwn, Rotation!LastVerifiedWorks,
     Rotation!Connects, Rotation!ScriptsKnown
<1>6. Rotation!AloneIsAlone' /\ Rotation!OneInProgress'
  BY DEF Rotation!IInv, Rotation!TypeOK, Rotation!Known, Rotation!AloneIsAlone,
     Rotation!OneInProgress, Rotation!LimitsKnown
<1>7. Rotation!AloneFindsAll'
  BY DEF Rotation!IInv, Rotation!TypeOK, Rotation!Known, Rotation!AloneIsAlone,
     Rotation!AloneFindsAll, Rotation!FindsAll, Rotation!AttemptsLeft, Rotation!Connects,
     Rotation!ScriptsKnown, Rotation!LimitsKnown
<1>8. Rotation!LinesAreRead'
  BY DEF Rotation!IInv, Rotation!TypeOK, Rotation!Known, Rotation!OneInProgress,
     Rotation!LinesAreRead, Rotation!LimitsKnown
<1>9. QED BY <1>1, <1>2, <1>3, <1>4, <1>5, <1>6, <1>7, <1>8 DEF Rotation!IInv

LEMMA OpenEnvKeeps ==
  ASSUME Rotation!ScriptsKnown, Rotation!LimitsKnown, Rotation!IInv, NEW r \in Runs,
         Rotation!OpenEnv(r)
  PROVE Rotation!IInv'
<1> USE DEF Rotation!OpenEnv, Rotation!OpensInPlace
<1>1. Rotation!TypeOK' /\ Rotation!Known'
  BY DEF Rotation!IInv, Rotation!TypeOK, Rotation!Known, Rotation!LimitsKnown
<1>2. Rotation!VersionsFit'
  BY DEF Rotation!IInv, Rotation!TypeOK, Rotation!Known, Rotation!VersionsFit
<1>3. Rotation!AttemptsLeft'
  BY DEF Rotation!IInv, Rotation!TypeOK, Rotation!AttemptsLeft, Rotation!LimitsKnown
<1>4. Rotation!LastIsItsOwn'
  BY DEF Rotation!IInv, Rotation!TypeOK, Rotation!LastIsItsOwn, Rotation!ScriptsKnown
<1>5. Rotation!LastVerifiedWorks'
  BY DEF Rotation!IInv, Rotation!TypeOK, Rotation!LastIsItsOwn, Rotation!LastVerifiedWorks,
     Rotation!Connects, Rotation!ScriptsKnown
<1>6. Rotation!AloneIsAlone' /\ Rotation!OneInProgress'
  BY DEF Rotation!IInv, Rotation!TypeOK, Rotation!Known, Rotation!AloneIsAlone,
     Rotation!OneInProgress, Rotation!LimitsKnown
<1>7. Rotation!AloneFindsAll'
  BY DEF Rotation!IInv, Rotation!TypeOK, Rotation!Known, Rotation!AloneIsAlone,
     Rotation!AloneFindsAll, Rotation!FindsAll, Rotation!AttemptsLeft, Rotation!Connects,
     Rotation!ScriptsKnown, Rotation!LimitsKnown
<1>8. Rotation!LinesAreRead'
  BY DEF Rotation!IInv, Rotation!TypeOK, Rotation!Known, Rotation!OneInProgress,
     Rotation!LinesAreRead, Rotation!LimitsKnown
<1>9. QED BY <1>1, <1>2, <1>3, <1>4, <1>5, <1>6, <1>7, <1>8 DEF Rotation!IInv

LEMMA WriteEnvKeeps ==
  ASSUME Rotation!ScriptsKnown, Rotation!LimitsKnown, Rotation!IInv, NEW r \in Runs,
         Rotation!WriteEnv(r)
  PROVE Rotation!IInv'
<1> USE DEF Rotation!WriteEnv
<1>1. Rotation!TypeOK' /\ Rotation!Known'
  BY DEF Rotation!IInv, Rotation!TypeOK, Rotation!Known, Rotation!LimitsKnown
<1>2. Rotation!VersionsFit'
  BY DEF Rotation!IInv, Rotation!TypeOK, Rotation!Known, Rotation!VersionsFit
<1>3. Rotation!AttemptsLeft'
  BY DEF Rotation!IInv, Rotation!TypeOK, Rotation!AttemptsLeft, Rotation!LimitsKnown
<1>4. Rotation!LastIsItsOwn'
  BY DEF Rotation!IInv, Rotation!TypeOK, Rotation!LastIsItsOwn, Rotation!ScriptsKnown
<1>5. Rotation!LastVerifiedWorks'
  BY DEF Rotation!IInv, Rotation!TypeOK, Rotation!LastIsItsOwn, Rotation!LastVerifiedWorks,
     Rotation!Connects, Rotation!ScriptsKnown
<1>6. Rotation!AloneIsAlone' /\ Rotation!OneInProgress'
  BY DEF Rotation!IInv, Rotation!TypeOK, Rotation!Known, Rotation!AloneIsAlone,
     Rotation!OneInProgress, Rotation!LimitsKnown
<1>7. Rotation!AloneFindsAll'
  BY DEF Rotation!IInv, Rotation!TypeOK, Rotation!Known, Rotation!AloneIsAlone,
     Rotation!AloneFindsAll, Rotation!FindsAll, Rotation!AttemptsLeft, Rotation!Connects,
     Rotation!ScriptsKnown, Rotation!LimitsKnown
<1>8. Rotation!LinesAreRead'
  BY DEF Rotation!IInv, Rotation!TypeOK, Rotation!Known, Rotation!OneInProgress,
     Rotation!LinesAreRead, Rotation!LimitsKnown
<1>9. QED BY <1>1, <1>2, <1>3, <1>4, <1>5, <1>6, <1>7, <1>8 DEF Rotation!IInv

LEMMA BreakKeeps ==
  ASSUME Rotation!ScriptsKnown, Rotation!LimitsKnown, Rotation!IInv, NEW r \in Runs,
         Rotation!Break(r)
  PROVE Rotation!IInv'
<1> USE DEF Rotation!Break
<1>1. Rotation!TypeOK' /\ Rotation!Known'
  BY DEF Rotation!IInv, Rotation!TypeOK, Rotation!Known, Rotation!LimitsKnown
<1>2. Rotation!VersionsFit'
  BY DEF Rotation!IInv, Rotation!TypeOK, Rotation!Known, Rotation!VersionsFit
<1>3. Rotation!AttemptsLeft'
  BY DEF Rotation!IInv, Rotation!TypeOK, Rotation!AttemptsLeft, Rotation!LimitsKnown
<1>4. Rotation!LastIsItsOwn'
  BY DEF Rotation!IInv, Rotation!TypeOK, Rotation!LastIsItsOwn, Rotation!ScriptsKnown
<1>5. Rotation!LastVerifiedWorks'
  BY DEF Rotation!IInv, Rotation!TypeOK, Rotation!LastIsItsOwn, Rotation!LastVerifiedWorks,
     Rotation!Connects, Rotation!ScriptsKnown
<1>6. Rotation!AloneIsAlone' /\ Rotation!OneInProgress'
  BY DEF Rotation!IInv, Rotation!TypeOK, Rotation!Known, Rotation!AloneIsAlone,
     Rotation!OneInProgress, Rotation!LimitsKnown
<1>7. Rotation!AloneFindsAll'
  BY DEF Rotation!IInv, Rotation!TypeOK, Rotation!Known, Rotation!AloneIsAlone,
     Rotation!AloneFindsAll, Rotation!FindsAll, Rotation!AttemptsLeft, Rotation!Connects,
     Rotation!ScriptsKnown, Rotation!LimitsKnown
<1>8. Rotation!LinesAreRead'
  BY DEF Rotation!IInv, Rotation!TypeOK, Rotation!Known, Rotation!OneInProgress,
     Rotation!LinesAreRead, Rotation!LimitsKnown
<1>9. QED BY <1>1, <1>2, <1>3, <1>4, <1>5, <1>6, <1>7, <1>8 DEF Rotation!IInv

LEMMA RotationStep ==
  ASSUME Rotation!ScriptsKnown, Rotation!LimitsKnown, Rotation!IInv, [Rotation!Next]_(Rotation!vars)
  PROVE Rotation!IInv'
<1>1. CASE UNCHANGED Rotation!vars
  BY <1>1 DEF Rotation!vars, Rotation!IInv, Rotation!TypeOK, Rotation!Known, Rotation!VersionsFit,
     Rotation!AttemptsLeft, Rotation!LastIsItsOwn, Rotation!LastVerifiedWorks, Rotation!Connects,
     Rotation!AloneIsAlone, Rotation!OneInProgress, Rotation!AloneFindsAll, Rotation!FindsAll,
     Rotation!LinesAreRead
<1>2. CASE Rotation!Next
  BY <1>2, FindKeeps, SetLoginKeeps, StoreSecretKeeps, TrimPolicyKeeps, WritePolicyKeeps,
     VerifyKeeps, CannotConnectKeeps, ReadEnvKeeps, OpenEnvKeeps, WriteEnvKeeps, BreakKeeps DEF
     Rotation!Next, Rotation!Provision
<1>3. QED BY <1>1, <1>2

RotationPromise == Rotation!TypeOK /\ Rotation!LastVerifiedWorks /\ Rotation!RerunRepairs

LEMMA RotationSays == ASSUME Rotation!IInv PROVE RotationPromise
BY DEF Rotation!IInv, RotationPromise, Rotation!RerunRepairs, Rotation!AloneFindsAll,
   Rotation!FindsAll

\* Only a write changes .env: of the lines that the one run in progress read, or in place.
LEMMA StepKeepsLines ==
  ASSUME ~Together, Rotation!IInv, [Rotation!Next]_(Rotation!vars)
  PROVE Rotation!KeepsLines
<1>1. CASE UNCHANGED env
  BY <1>1 DEF Rotation!KeepsLines
<1>2. ASSUME NEW r \in Runs, Rotation!OpenEnv(r) \/ Rotation!WriteEnv(r) PROVE Rotation!KeepsLines
  <2>1. CASE login[r] \in InPlace
    BY <1>2, <2>1 DEF Rotation!OpenEnv, Rotation!WriteEnv, Rotation!OpensInPlace,
       Rotation!KeepsLines
  <2>2. CASE login[r] \notin InPlace
    <3>1. lines[r] = env /\ env' = lines[r] \cup {login[r]}
      BY <1>2, <2>2 DEF Rotation!OpenEnv, Rotation!WriteEnv, Rotation!OpensInPlace, Rotation!IInv,
         Rotation!LinesAreRead
    <3> QED BY <3>1 DEF Rotation!KeepsLines
  <2> QED BY <2>1, <2>2
<1>3. UNCHANGED env \/ \E r \in Runs : Rotation!OpenEnv(r) \/ Rotation!WriteEnv(r)
  BY DEF Rotation!Next, Rotation!vars, Rotation!Provision, Rotation!Find, Rotation!SetLogin,
     Rotation!StoreSecret, Rotation!TrimPolicy, Rotation!WritePolicy, Rotation!Verify,
     Rotation!CannotConnect, Rotation!ReadEnv, Rotation!Break
<1>4. QED BY <1>1, <1>2, <1>3

\* However runs of a login overlap and break off, the one that verified last left a password that
\* works, and a run that overlaps no other fails only by a call of its own; where runs follow one
\* another, no line of .env is lost but by a script that writes it in place
\* (provision_service_logins.py, provision_workflow_login.py).
THEOREM RotationKept ==
  ASSUME Rotation!ScriptsKnown, Rotation!LimitsKnown
  PROVE Rotation!Spec => /\ []RotationPromise
                         /\ [][~Together => Rotation!KeepsLines]_(Rotation!vars)
<1>1. Rotation!Init => Rotation!IInv
  BY RotationInit
<1>2. Rotation!IInv /\ [Rotation!Next]_(Rotation!vars) => Rotation!IInv'
  BY RotationStep
<1>3. Rotation!IInv => RotationPromise
  BY RotationSays
<1>4. Rotation!IInv /\ [Rotation!Next]_(Rotation!vars)
        => [~Together => Rotation!KeepsLines]_(Rotation!vars)
  BY StepKeepsLines
<1>5. QED BY <1>1, <1>2, <1>3, <1>4, PTL DEF Rotation!Spec

-----------------------------------------------------------------------------
(* The schema scripts. *)

CONSTANTS Operators, Scripts, Newest, MaxRuns
VARIABLES db, advisory, keys, runs
Setup == INSTANCE SchemaSetup

USE DEF Setup!None, Setup!Migrations, Setup!Packages, Setup!Travelers, Setup!Bookings,
        Setup!Sections

\* The pending migrations are those that come after the applied ones, in order.
LEMMA PendingAreNext ==
  ASSUME NEW n \in Nat, db.ledger = 1..n, NEW m \in Nat
  PROVE Setup!PendingPaths(m) = [i \in 1..(IF m > n THEN m - n ELSE 0) |-> n + i]
<1> DEFINE pending == 1..m \ db.ledger
           at(i) == CHOOSE k \in pending : Cardinality({j \in pending : j < k}) = i - 1
<1>2. pending = (n+1)..m
  OBVIOUS
<1>3. Cardinality(pending) = IF m > n THEN m - n ELSE 0
  <2>1. Cardinality((n+1)..m) = IF n + 1 > m THEN 0 ELSE m - (n + 1) + 1
    <3>1. n + 1 \in Int /\ m \in Int
      OBVIOUS
    <3> QED BY <3>1, FS_Interval, Zenon
  <2>2. Cardinality(pending) = Cardinality((n+1)..m)
    BY <1>2
  <2> HIDE DEF pending
  <2> QED BY <2>1, <2>2
<1>4. ASSUME NEW k \in pending PROVE Cardinality({j \in pending : j < k}) = k - n - 1
  <2>1. {j \in pending : j < k} = (n+1)..(k-1)
    BY <1>2
  <2>2. k \in Nat /\ k > n
    BY <1>2
  <2>3. Cardinality((n+1)..(k-1)) = k - n - 1
    <3>1. Cardinality((n+1)..(k-1)) = IF n + 1 > k - 1 THEN 0 ELSE (k - 1) - (n + 1) + 1
      BY <2>2, FS_Interval
    <3> QED BY <2>2, <3>1
  <2> QED BY <2>1, <2>3
<1>5. ASSUME NEW i \in 1..Cardinality(pending) PROVE at(i) = n + i
  <2>1. n + i \in pending
    BY <1>2, <1>3
  <2>2. Cardinality({j \in pending : j < n + i}) = i - 1
    <3>1. Cardinality({j \in pending : j < n + i}) = (n + i) - n - 1
      BY <2>1, <1>4
    <3> QED BY <3>1, <1>3
  <2>3. at(i) \in pending /\ Cardinality({j \in pending : j < at(i)}) = i - 1
    BY <2>1, <2>2
  <2>4. at(i) - n - 1 = i - 1
    BY <2>3, <1>4
  <2> HIDE DEF at
  <2> QED BY <2>3, <2>4, <1>2, <1>3
<1>6. Setup!PendingPaths(m) = [i \in 1..Cardinality(pending) |-> at(i)]
  BY DEF Setup!PendingPaths, Setup!Cardinality, Cardinality
<1> HIDE DEF at, pending
<1>7. QED BY <1>3, <1>5, <1>6

\* The migration that comes next extends the order.
LEMMA OrderGrows ==
  ASSUME NEW n \in Nat, NEW s, s = [i \in 1..n |-> i]
  PROVE /\ Append(s, n+1) = [i \in 1..(n+1) |-> i]
        /\ Len(Append(s, n+1)) = n + 1
        /\ (1..n) \cup {n+1} = 1..(n+1)
<1>1. s \in Seq(Nat) /\ Len(s) = n
  OBVIOUS
<1>2. Append(s, n+1) \in Seq(Nat) /\ Len(Append(s, n+1)) = n + 1
  BY <1>1
<1>3. \A i \in 1..(n+1) : Append(s, n+1)[i] = i
  BY <1>1
<1>4. Append(s, n+1) = [i \in 1..(n+1) |-> Append(s, n+1)[i]]
  BY <1>1
<1>5. QED BY <1>2, <1>3, <1>4

\* What is still to do after the first of consecutive migrations is consecutive too.
LEMMA RestIsConsecutive ==
  ASSUME NEW S, S \subseteq Nat, NEW s \in Seq(S), s # <<>>, Len(s) # 1,
         \A i \in 1..Len(s) : s[i] = s[1] + i - 1
  PROVE /\ Tail(s) \in Seq(S) /\ Tail(s) # <<>>
        /\ Tail(s)[1] = s[1] + 1
        /\ \A i \in 1..Len(Tail(s)) : Tail(s)[i] = Tail(s)[1] + i - 1
<1>1. Len(s) \in Nat \ {0}
  BY EmptySeq
<1>2. Tail(s) \in Seq(S) /\ Len(Tail(s)) = Len(s) - 1
  BY HeadTailProperties
<1>3. \A i \in 1..Len(s) : s[i] \in Nat
  BY ElementOfSeq
<1>4. ASSUME NEW i \in 1..Len(Tail(s)) PROVE Tail(s)[i] = s[1] + i
  <2>1. i + 1 \in 1..Len(s) /\ i \in Nat
    BY <1>1, <1>2
  <2>2. s[i+1] = s[1] + (i + 1) - 1
    BY <2>1
  <2>3. Tail(s)[i] = s[i+1]
    BY HeadTailProperties
  <2>4. s[1] \in Nat
    BY <1>1, <1>3
  <2> QED BY <2>1, <2>2, <2>3, <2>4
<1>5. s[1] \in Nat /\ 1 \in 1..Len(Tail(s))
  BY <1>1, <1>2, <1>3
<1>6. Tail(s)[1] = s[1] + 1
  BY <1>4, <1>5
<1>7. \A i \in 1..Len(Tail(s)) : Tail(s)[i] = Tail(s)[1] + i - 1
  BY <1>4, <1>5, <1>6
<1>8. Tail(s) # <<>>
  <2>1. Len(<<>>) = 0
    BY EmptySeq
  <2>2. Len(Tail(s)) # 0
    BY <1>1, <1>2
  <2> QED BY <2>1, <2>2
<1>9. QED BY <1>2, <1>6, <1>7, <1>8

LEMMA NumbersOnly ==
  ASSUME Setup!SetupAssumption, NEW q \in Seq(Setup!Migrations)
  PROVE q \in Seq(Nat)
<1>1. Setup!Migrations \subseteq Nat
  BY DEF Setup!SetupAssumption
<1>2. QED BY <1>1, SeqMonotonic

LEMMA DbIsTyped ==
  ASSUME NEW S, NEW e \in S
  PROVE [base |-> FALSE, ledgerTable |-> FALSE, ledger |-> {}, effects |-> e, view |-> "none",
         seeded |-> {}, lines |-> 0, people |-> {}] \in
        [base : BOOLEAN, ledgerTable : BOOLEAN, ledger : SUBSET Setup!Migrations, effects : S,
         view : {"none", "short", "full"}, seeded : SUBSET Setup!Sections, lines : Nat,
         people : SUBSET {"placeholder", "decoy"}]
OBVIOUS

LEMMA SetupInit == ASSUME Setup!SetupAssumption, Setup!Init PROVE Setup!IInv
<1>1. Setup!TypeOK
  <2>1. db \in [base : BOOLEAN, ledgerTable : BOOLEAN, ledger : SUBSET Setup!Migrations,
                effects : Seq(Setup!Migrations), view : {"none", "short", "full"},
                seeded : SUBSET Setup!Sections, lines : Nat, people : SUBSET {"placeholder",
                "decoy"}]
    <3>1. <<>> \in Seq(Setup!Migrations)
      BY EmptySeq
    <3> QED BY <3>1, DbIsTyped DEF Setup!Init
  <2>2. run \in [Operators -> [script : Setup!AllScripts, at : Setup!Places, todo : Seq(Nat)]]
    <3>1. <<>> \in Seq(Nat) /\ "init" \in Setup!AllScripts /\ "idle" \in Setup!Places
      BY EmptySeq DEF Setup!AllScripts, Setup!Places, Setup!Ended
    <3> QED BY <3>1 DEF Setup!Init
  <2>3. /\ advisory \in [{"init", "seed"} -> Operators \cup {Setup!None}]
        /\ keys \in [Setup!Migrations -> Operators \cup {Setup!None}] /\ runs \in 0 .. MaxRuns
    BY DEF Setup!Init, Setup!SetupAssumption
  <2> QED BY <2>1, <2>2, <2>3 DEF Setup!TypeOK
<1>2. Setup!LedgerIsInOrder
  <2>1. db.effects = <<>> /\ db.ledger = {}
    BY DEF Setup!Init
  <2>2. Setup!Applied = 0
    BY <2>1 DEF Setup!Applied
  <2>3. <<>> = [i \in 1..0 |-> i]
    OBVIOUS
  <2> QED BY <2>1, <2>2, <2>3 DEF Setup!LedgerIsInOrder
<1>3. Setup!EmptyBeforeInit /\ Setup!SeedIsWholeOnce
  BY DEF Setup!Init, Setup!EmptyBeforeInit, Setup!SeedIsWholeOnce
<1>4. \A o \in Operators : Setup!InitFits(o) /\ Setup!MigrationFits(o) /\ Setup!SeedFits(o)
  BY DEF Setup!Init, Setup!InitFits, Setup!MigrationFits, Setup!SeedFits
<1>5. QED BY <1>1, <1>2, <1>3, <1>4 DEF Setup!IInv

RunFits(o) == Setup!InitFits(o) /\ Setup!MigrationFits(o) /\ Setup!SeedFits(o)
TrackedPlaces == {"look again", "ddl", "statements", "mark", "commit", "empty?", "write"}

\* A run that waits for nothing, or is over, has nothing to fit.
LEMMA IdleFits == ASSUME NEW o \in Operators, run'[o].at \notin TrackedPlaces PROVE RunFits(o)'
BY DEF RunFits, TrackedPlaces, Setup!InitFits, Setup!MigrationFits, Setup!SeedFits

\* The locks and rows of the other operators stay, and theirs alone.
OthersKeep(o) ==
  /\ \A p \in Operators : p # o => run'[p] = run[p]
  /\ \A p \in Operators, l \in {"init", "seed"} : p # o /\ advisory[l] = p => advisory'[l] = p
  /\ \A p \in Operators, k \in Setup!Migrations : p # o /\ keys[k] = p => keys'[k] = p

LEMMA ReleaseFrees ==
  ASSUME Setup!SetupAssumption, Setup!TypeOK, NEW o \in Operators, Setup!Release(o)
  PROVE /\ advisory' \in [{"init", "seed"} -> Operators \cup {Setup!None}]
        /\ keys' \in [Setup!Migrations -> Operators \cup {Setup!None}]
        /\ \A p \in Operators, l \in {"init", "seed"} : p # o /\ advisory[l] = p => advisory'[l] = p
        /\ \A p \in Operators, k \in Setup!Migrations : p # o /\ keys[k] = p => keys'[k] = p
BY DEF Setup!Release, Setup!TypeOK, Setup!SetupAssumption

LEMMA MoveIsTyped ==
  ASSUME Setup!TypeOK, NEW o \in Operators, NEW at \in Setup!Places, Setup!Move(o, at)
  PROVE /\ run' \in [Operators -> [script : Setup!AllScripts, at : Setup!Places, todo : Seq(Nat)]]
        /\ run'[o].at = at /\ run'[o].script = run[o].script /\ run'[o].todo = run[o].todo
        /\ \A p \in Operators : p # o => run'[p] = run[p]
BY DEF Setup!TypeOK, Setup!Move

LEMMA GoesOnWith ==
  ASSUME NEW R, run \in [Operators -> R], NEW o \in Operators, NEW at, NEW q, NEW all,
         \/ all = [run EXCEPT ![o].at = at, ![o].todo = q]
         \/ all = [run EXCEPT ![o].todo = q, ![o].at = at]
  PROVE /\ all = [run EXCEPT ![o] = all[o]]
        /\ \/ all[o] = [run[o] EXCEPT !.at = at, !.todo = q]
           \/ all[o] = [run[o] EXCEPT !.todo = q, !.at = at]
<1>1. CASE all = [run EXCEPT ![o].at = at, ![o].todo = q]
  BY <1>1
<1>2. CASE all = [run EXCEPT ![o].todo = q, ![o].at = at]
  BY <1>2
<1>3. QED BY <1>1, <1>2

LEMMA GoesOn ==
  ASSUME Setup!TypeOK, NEW o \in Operators, NEW at \in Setup!Places, NEW q \in Seq(Nat),
         \/ run' = [run EXCEPT ![o].at = at, ![o].todo = q]
         \/ run' = [run EXCEPT ![o].todo = q, ![o].at = at]
  PROVE /\ run' \in [Operators -> [script : Setup!AllScripts, at : Setup!Places, todo : Seq(Nat)]]
        /\ run'[o].at = at /\ run'[o].script = run[o].script /\ run'[o].todo = q
        /\ \A p \in Operators : p # o => run'[p] = run[p]
<1> DEFINE R == [script : Setup!AllScripts, at : Setup!Places, todo : Seq(Nat)]
<1>1. run \in [Operators -> R]
  BY DEF Setup!TypeOK
<1>2. /\ run' = [run EXCEPT ![o] = run'[o]]
      /\ \/ run'[o] = [run[o] EXCEPT !.at = at, !.todo = q]
         \/ run'[o] = [run[o] EXCEPT !.todo = q, !.at = at]
  <2> HIDE DEF R
  <2>1. ASSUME NEW all, \/ all = [run EXCEPT ![o].at = at, ![o].todo = q]
                        \/ all = [run EXCEPT ![o].todo = q, ![o].at = at]
        PROVE /\ all = [run EXCEPT ![o] = all[o]]
              /\ \/ all[o] = [run[o] EXCEPT !.at = at, !.todo = q]
                 \/ all[o] = [run[o] EXCEPT !.todo = q, !.at = at]
    BY <1>1, <2>1, GoesOnWith
  <2> QED BY <2>1
<1>3. run'[o] \in R /\ run'[o].at = at /\ run'[o].script = run[o].script /\ run'[o].todo = q
  <2>1. run[o] \in R
    BY <1>1
  <2> QED BY <1>2, <2>1
<1>4. QED BY <1>1, <1>2, <1>3

\* What a commit changes is what its own locks or keys let it change.
CommitsUnder(o) ==
  /\ db.base => db'.base
  /\ db'.base = db.base \/ advisory["init"] = o
  /\ \/ Setup!Applied' = Setup!Applied
     \/ /\ Setup!Applied + 1 \in Setup!Migrations /\ Setup!Applied' = Setup!Applied + 1
        /\ keys[Setup!Applied + 1] = o
  /\ (db'.seeded = db.seeded /\ db'.lines = db.lines) \/ advisory["seed"] = o

LEMMA OthersFit ==
  ASSUME Setup!SetupAssumption, Setup!IInv, NEW o \in Operators, OthersKeep(o), CommitsUnder(o),
         NEW p \in Operators, p # o
  PROVE RunFits(p)'
<1>1. run'[p] = run[p] /\ Setup!InitFits(p) /\ Setup!MigrationFits(p) /\ Setup!SeedFits(p)
  BY DEF OthersKeep, Setup!IInv
<1>2. Setup!InitFits(p)'
  BY <1>1 DEF OthersKeep, CommitsUnder, Setup!InitFits
<1>3. Setup!SeedFits(p)'
  BY <1>1 DEF OthersKeep, CommitsUnder, Setup!SeedFits
<1>4. Setup!MigrationFits(p)'
  <2>1. SUFFICES ASSUME run[p].at \in {"statements", "mark", "commit"} PROVE Setup!MigrationFits(p)'
    BY <1>1 DEF Setup!MigrationFits
  <2> DEFINE todo == run[p].todo
  <2>2. /\ todo \in Seq(Setup!Migrations) /\ todo # <<>>
        /\ \A i \in 1..Len(todo) : todo[i] = todo[1] + i - 1
        /\ IF run[p].script = "dry" THEN run[p].at = "statements" ELSE todo[1] <= Setup!Applied + 1
        /\ run[p].at = "commit" => keys[todo[1]] = p /\ todo[1] > Setup!Applied
    BY <1>1, <2>1 DEF Setup!MigrationFits
  <2>3. todo[1] \in Setup!Migrations /\ todo[1] \in Nat /\ Setup!Applied \in Nat
    <3>1. Len(todo) \in Nat \ {0}
      BY <2>2, EmptySeq
    <3>2. todo[1] \in Setup!Migrations
      <4>1. 1 \in 1..Len(todo)
        BY <3>1
      <4> QED BY <2>2, <4>1, ElementOfSeq
    <3> QED BY <3>2 DEF Setup!IInv, Setup!TypeOK, Setup!Applied, Setup!SetupAssumption
  <2>4. run[p].script # "dry" => todo[1] <= Setup!Applied' + 1
    BY <2>2, <2>3 DEF CommitsUnder
  <2>5. run[p].at = "commit" => keys'[todo[1]] = p /\ todo[1] > Setup!Applied'
    <3>1. SUFFICES ASSUME run[p].at = "commit" PROVE keys'[todo[1]] = p /\ todo[1] > Setup!Applied'
      OBVIOUS
    <3>2. keys[todo[1]] = p /\ keys'[todo[1]] = p /\ todo[1] = Setup!Applied + 1
      BY <2>2, <2>3, <3>1 DEF OthersKeep
    <3> QED BY <2>3, <3>2 DEF CommitsUnder
  <2> QED BY <1>1, <2>2, <2>4, <2>5 DEF Setup!MigrationFits
<1>5. QED BY <1>2, <1>3, <1>4 DEF RunFits

\* What a step of o keeps when it leaves the database alone.
LEMMA QuietKeeps ==
  ASSUME Setup!SetupAssumption, Setup!IInv, NEW o \in Operators, OthersKeep(o), UNCHANGED db,
         Setup!TypeOK', RunFits(o)'
  PROVE Setup!IInv'
<1>1. CommitsUnder(o)
  BY DEF CommitsUnder, Setup!Applied
<1>2. \A p \in Operators : RunFits(p)'
  BY <1>1, OthersFit
<1>3. Setup!LedgerIsInOrder' /\ Setup!EmptyBeforeInit' /\ Setup!SeedIsWholeOnce'
  BY DEF Setup!IInv, Setup!LedgerIsInOrder, Setup!Applied, Setup!EmptyBeforeInit,
     Setup!SeedIsWholeOnce
<1>4. QED BY <1>2, <1>3 DEF Setup!IInv, RunFits

LEMMA SetupEndKeeps ==
  ASSUME Setup!SetupAssumption, Setup!IInv, NEW o \in Operators, NEW at \in Setup!Ended,
         Setup!End(o, at)
  PROVE Setup!IInv'
<1>0. at \in Setup!Places /\ at \notin TrackedPlaces
  BY DEF Setup!Ended, Setup!Places, TrackedPlaces
<1>1. Setup!TypeOK' /\ OthersKeep(o)
  BY <1>0, ReleaseFrees, MoveIsTyped DEF Setup!IInv, Setup!TypeOK, Setup!End, OthersKeep
<1>2. RunFits(o)'
  <2>1. run'[o].at \notin TrackedPlaces
    BY <1>0, MoveIsTyped DEF Setup!IInv, Setup!End
  <2> QED BY <2>1, IdleFits
<1>3. QED BY <1>1, <1>2, QuietKeeps DEF Setup!End

LEMMA CommitKeeps ==
  ASSUME Setup!SetupAssumption, Setup!IInv, NEW o \in Operators, OthersKeep(o), CommitsUnder(o),
         Setup!TypeOK', RunFits(o)', Setup!LedgerIsInOrder', Setup!EmptyBeforeInit',
         Setup!SeedIsWholeOnce'
  PROVE Setup!IInv'
<1>1. \A p \in Operators : RunFits(p)'
  BY OthersFit
<1>2. QED BY <1>1 DEF Setup!IInv, RunFits

\* A step that only moves on.
LEMMA MoveKeeps ==
  ASSUME Setup!SetupAssumption, Setup!IInv, NEW o \in Operators, NEW at \in Setup!Places,
         at \notin TrackedPlaces, Setup!StepTo(o, at)
  PROVE Setup!IInv'
<1>1. Setup!TypeOK' /\ OthersKeep(o)
  BY MoveIsTyped DEF Setup!IInv, Setup!TypeOK, Setup!StepTo, OthersKeep
<1>2. RunFits(o)'
  BY MoveIsTyped, IdleFits DEF Setup!IInv, Setup!StepTo
<1>3. QED BY <1>1, <1>2, QuietKeeps DEF Setup!StepTo

LEMMA FirstStepIsPlace == ASSUME NEW s \in Setup!AllScripts
  PROVE Setup!FirstStep[s] \in Setup!Places /\ Setup!FirstStep[s] \notin TrackedPlaces
<1>1. \/ Setup!FirstStep[s] = "look" \/ Setup!FirstStep[s] = "ensure" \/ Setup!FirstStep[s] = "list"
      \/ Setup!FirstStep[s] = "begin" \/ Setup!FirstStep[s] = "drop"
      \/ Setup!FirstStep[s] = "insert"
  <2>1. CASE s \in {"init", "migrate", "one", "dry"}
    BY <2>1 DEF Setup!FirstStep
  <2>2. CASE s \in {"seed", "catalog", "bind", "decoy"}
    BY <2>2 DEF Setup!FirstStep
  <2> QED BY <2>1, <2>2 DEF Setup!AllScripts
<1>2. QED BY <1>1 DEF Setup!Places, Setup!Steps, TrackedPlaces

LEMMA StartKeeps ==
  ASSUME Setup!SetupAssumption, Setup!IInv, NEW o \in Operators, NEW s \in Scripts,
         Setup!Start(o, s)
  PROVE Setup!IInv'
<1>1. /\ s \in Setup!AllScripts /\ Setup!FirstStep[s] \in Setup!Places
      /\ Setup!FirstStep[s] \notin TrackedPlaces /\ <<>> \in Seq(Nat)
  BY FirstStepIsPlace, EmptySeq DEF Setup!SetupAssumption
<1>2. run' \in [Operators -> [script : Setup!AllScripts, at : Setup!Places, todo : Seq(Nat)]]
  BY <1>1 DEF Setup!IInv, Setup!TypeOK, Setup!Start
<1>3. runs' \in 0..MaxRuns
  BY DEF Setup!IInv, Setup!TypeOK, Setup!Start, Setup!SetupAssumption
<1>4. Setup!TypeOK' /\ OthersKeep(o)
  BY <1>2, <1>3 DEF Setup!IInv, Setup!TypeOK, Setup!Start, OthersKeep
<1>5. run'[o].at = Setup!FirstStep[s]
  BY DEF Setup!IInv, Setup!TypeOK, Setup!Start
<1>6. RunFits(o)'
  BY <1>1, <1>5, IdleFits
<1>7. QED BY <1>4, <1>6, QuietKeeps DEF Setup!Start

LEMMA DeathsKeep ==
  ASSUME Setup!SetupAssumption, Setup!IInv, NEW o \in Operators,
         Setup!Fail(o) \/ Setup!Die(o) \/ Setup!Expire(o)
  PROVE Setup!IInv'
<1>1. CASE Setup!Fail(o) \/ Setup!Expire(o)
  <2>1. Setup!End(o, "failed") /\ "failed" \in Setup!Ended
    BY <1>1 DEF Setup!Fail, Setup!Expire, Setup!Ended
  <2> QED BY <2>1, SetupEndKeeps
<1>2. CASE Setup!Die(o)
  <2>1. Setup!StepTo(o, "dead") /\ "dead" \in Setup!Places /\ "dead" \notin TrackedPlaces
    BY <1>2 DEF Setup!Die, Setup!StepTo, Setup!Places, TrackedPlaces
  <2> QED BY <2>1, MoveKeeps
<1>3. QED BY <1>1, <1>2

LEMMA InitStepsKeep ==
  ASSUME Setup!SetupAssumption, Setup!IInv, NEW o \in Operators,
         Setup!InitLook(o) \/ Setup!InitLock(o) \/ Setup!InitLookAgain(o)
  PROVE Setup!IInv'
<1>1. CASE Setup!InitLook(o)
  <2>1. PICK at \in {"refused", "lock"} : Setup!StepTo(o, at)
    BY <1>1 DEF Setup!InitLook
  <2>2. at \in Setup!Places /\ at \notin TrackedPlaces
    BY DEF Setup!Places, Setup!Ended, Setup!Steps, TrackedPlaces
  <2> QED BY <2>1, <2>2, MoveKeeps
<1>2. CASE Setup!InitLock(o) /\ advisory["init"] = Setup!None
  <2>1. "look again" \in Setup!Places
    BY DEF Setup!Places, Setup!Steps
  <2>2. /\ advisory' = [advisory EXCEPT !["init"] = o] /\ Setup!Move(o, "look again")
        /\ UNCHANGED <<db, keys, runs>>
    BY <1>2 DEF Setup!InitLock
  <2>3. Setup!TypeOK'
    BY <2>1, <2>2, MoveIsTyped DEF Setup!IInv, Setup!TypeOK
  <2>4. OthersKeep(o)
    <3>1. \A p \in Operators, l \in {"init", "seed"} : advisory[l] = p => advisory'[l] = p
      BY <1>2, <2>2 DEF Setup!IInv, Setup!TypeOK, Setup!SetupAssumption
    <3> QED BY <2>1, <2>2, <3>1, MoveIsTyped DEF Setup!IInv, OthersKeep
  <2>5. run'[o].at = "look again" /\ advisory'["init"] = o
    BY <2>1, <2>2, MoveIsTyped DEF Setup!IInv, Setup!TypeOK
  <2>6. RunFits(o)'
    BY <2>5 DEF RunFits, Setup!InitFits, Setup!MigrationFits, Setup!SeedFits
  <2> QED BY <2>2, <2>3, <2>4, <2>6, QuietKeeps
<1>3. CASE Setup!InitLock(o) /\ advisory["init"] # Setup!None
  <2>1. Setup!End(o, "locked") /\ "locked" \in Setup!Ended
    BY <1>3 DEF Setup!InitLock, Setup!Ended
  <2> QED BY <2>1, SetupEndKeeps
<1>4. CASE Setup!InitLookAgain(o) /\ Setup!HasTables
  <2>1. Setup!End(o, "refused") /\ "refused" \in Setup!Ended
    BY <1>4 DEF Setup!InitLookAgain, Setup!Ended
  <2> QED BY <2>1, SetupEndKeeps
<1>5. CASE Setup!InitLookAgain(o) /\ ~Setup!HasTables
  <2>1. Setup!StepTo(o, "ddl") /\ "ddl" \in Setup!Places /\ ~db.base /\ run[o].at = "look again"
    BY <1>5 DEF Setup!InitLookAgain, Setup!Places, Setup!Steps, Setup!HasTables
  <2>2. Setup!TypeOK' /\ OthersKeep(o)
    BY <2>1, MoveIsTyped DEF Setup!IInv, Setup!TypeOK, Setup!StepTo, OthersKeep
  <2>3. run'[o].at = "ddl" /\ advisory'["init"] = o /\ ~db'.base
    BY <2>1, MoveIsTyped DEF Setup!IInv, Setup!StepTo, Setup!InitFits
  <2>4. RunFits(o)'
    BY <2>3 DEF RunFits, Setup!InitFits, Setup!MigrationFits, Setup!SeedFits
  <2> QED BY <2>1, <2>2, <2>4, QuietKeeps DEF Setup!StepTo
<1>6. QED BY <1>1, <1>2, <1>3, <1>4, <1>5

\* The database after a statement: what a step sets is of its type.
LEMMA DbStaysTyped ==
  ASSUME NEW S, NEW d,
         d \in [base : BOOLEAN, ledgerTable : BOOLEAN, ledger : SUBSET Setup!Migrations,
         effects : S, view : {"none", "short", "full"}, seeded : SUBSET Setup!Sections,
         lines : Nat, people : SUBSET {"placeholder", "decoy"}],
         NEW l \in SUBSET Setup!Migrations, NEW e \in S, NEW v \in {"none", "short", "full"},
         NEW s \in SUBSET Setup!Sections, NEW n \in Nat, NEW w \in SUBSET {"placeholder", "decoy"},
         NEW x,
         \/ x = [d EXCEPT !.base = TRUE, !.view = v, !.seeded = {}, !.lines = 0, !.people = {}]
         \/ x = [d EXCEPT !.ledgerTable = TRUE]
         \/ x = [d EXCEPT !.ledger = l, !.effects = e, !.view = v]
         \/ x = [d EXCEPT !.seeded = s, !.lines = n, !.people = w]
         \/ x = [d EXCEPT !.view = v]
         \/ x = [d EXCEPT !.people = w]
  PROVE x \in [base : BOOLEAN, ledgerTable : BOOLEAN, ledger : SUBSET Setup!Migrations,
               effects : S, view : {"none", "short", "full"}, seeded : SUBSET Setup!Sections,
               lines : Nat, people : SUBSET {"placeholder", "decoy"}]
<1>1. CASE x = [d EXCEPT !.base = TRUE, !.view = v, !.seeded = {}, !.lines = 0, !.people = {}]
  BY <1>1
<1>2. CASE x = [d EXCEPT !.ledgerTable = TRUE]
  BY <1>2
<1>3. CASE x = [d EXCEPT !.ledger = l, !.effects = e, !.view = v]
  BY <1>3
<1>4. CASE x = [d EXCEPT !.seeded = s, !.lines = n, !.people = w]
  BY <1>4
<1>5. CASE x = [d EXCEPT !.view = v]
  BY <1>5
<1>6. CASE x = [d EXCEPT !.people = w]
  BY <1>6
<1>7. QED BY <1>1, <1>2, <1>3, <1>4, <1>5, <1>6

LEMMA InitCommitKeeps ==
  ASSUME Setup!SetupAssumption, Setup!IInv, NEW o \in Operators, Setup!InitCommit(o)
  PROVE Setup!IInv'
<1>1. /\ run[o].at = "ddl" /\ Setup!Release(o)
      /\ db' = [db EXCEPT !.base = TRUE, !.view = "full", !.seeded = {}, !.lines = 0, !.people = {}]
      /\ UNCHANGED runs
  BY DEF Setup!InitCommit
<1>2. PICK at \in {"done", "failed"} : Setup!Move(o, at)
  BY DEF Setup!InitCommit
<1>3. at \in Setup!Places /\ at \notin TrackedPlaces
  BY DEF Setup!Places, Setup!Ended, TrackedPlaces
<1>4. ~db.base /\ advisory["init"] = o /\ db.seeded = {} /\ db.lines = 0
  BY <1>1 DEF Setup!IInv, Setup!InitFits, Setup!EmptyBeforeInit
<1>5. Setup!TypeOK'
  <2>1. /\ {} \in SUBSET Setup!Migrations /\ {} \in SUBSET Setup!Sections /\ 0 \in Nat
        /\ {} \in SUBSET {"placeholder", "decoy"} /\ db.effects \in Seq(Setup!Migrations)
    BY DEF Setup!IInv, Setup!TypeOK
  <2>2. db' \in [base : BOOLEAN, ledgerTable : BOOLEAN, ledger : SUBSET Setup!Migrations,
                 effects : Seq(Setup!Migrations), view : {"none", "short", "full"},
                 seeded : SUBSET Setup!Sections, lines : Nat, people : SUBSET {"placeholder",
                 "decoy"}]
    BY <1>1, <2>1, DbStaysTyped DEF Setup!IInv, Setup!TypeOK
  <2> QED BY <1>1, <1>2, <1>3, <2>2, MoveIsTyped, ReleaseFrees DEF Setup!IInv, Setup!TypeOK
<1>6. /\ db'.base /\ db'.seeded = {} /\ db'.lines = 0 /\ db'.effects = db.effects
      /\ db'.ledger = db.ledger
  BY <1>1 DEF Setup!IInv, Setup!TypeOK
<1>7. OthersKeep(o)
  BY <1>1, <1>2, <1>3, MoveIsTyped, ReleaseFrees DEF Setup!IInv, OthersKeep
<1>8. CommitsUnder(o)
  BY <1>4, <1>6 DEF CommitsUnder, Setup!Applied
<1>9. RunFits(o)'
  BY <1>2, <1>3, MoveIsTyped, IdleFits DEF Setup!IInv
<1>10. Setup!LedgerIsInOrder' /\ Setup!EmptyBeforeInit' /\ Setup!SeedIsWholeOnce'
  BY <1>6 DEF Setup!IInv, Setup!LedgerIsInOrder, Setup!Applied, Setup!EmptyBeforeInit,
     Setup!SeedIsWholeOnce
<1>11. QED BY <1>5, <1>7, <1>8, <1>9, <1>10, CommitKeeps

\* What a checkout still has to apply: the next migrations, or the one that comes next.
LEMMA ListIsNext ==
  ASSUME Setup!SetupAssumption, Setup!IInv, NEW m \in Setup!Migrations, NEW q,
         \/ q = Setup!PendingPaths(m)
         \/ q = SubSeq(Setup!PendingPaths(m), 1, Setup!Min({1, Len(Setup!PendingPaths(m))}))
  PROVE /\ q \in Seq(Setup!Migrations)
        /\ Setup!PendingPaths(m) # <<>> => q # <<>> /\ q[1] = Setup!Applied + 1
        /\ \A i \in 1..Len(q) : q[i] = q[1] + i - 1
<1> DEFINE n == Setup!Applied
           k == IF m > n THEN m - n ELSE 0
           s == [i \in 1..k |-> n + i]
<1>1. m \in Nat /\ n \in Nat /\ db.ledger = 1..n /\ Newest \in Nat /\ m <= Newest
  BY DEF Setup!IInv, Setup!TypeOK, Setup!Applied, Setup!LedgerIsInOrder, Setup!SetupAssumption
<1>2. Setup!PendingPaths(m) = s
  BY <1>1, PendingAreNext
<1>3. k \in Nat /\ s \in Seq(Setup!Migrations) /\ Len(s) = k
  BY <1>1
<1>4. (s # <<>> => k > 0) /\ (k > 0 => s[1] = n + 1)
  <2>1. k = 0 => s = <<>>
    BY <1>3, EmptySeq
  <2> QED BY <1>1, <1>3, <2>1
<1>5. \A i \in 1..Len(s) : s[i] = s[1] + i - 1
  BY <1>1, <1>3
<1> HIDE DEF n, k, s
<1>9. CASE q = s
  BY <1>2, <1>3, <1>4, <1>5, <1>9 DEF n
<1>6. CASE q # s
  <2>1. q = SubSeq(s, 1, Setup!Min({1, k}))
    BY <1>2, <1>3, <1>6
  <2>2. CASE k = 0
    <3>1. Setup!Min({1, 0}) = 0
      BY DEF Setup!Min
    <3>2. q = <<>>
      BY <2>1, <2>2, <3>1
    <3> QED BY <1>2, <1>4, <2>2, <3>2, EmptySeq
  <2>3. CASE k > 0
    <3>1. Setup!Min({1, k}) = 1
      <4>1. Setup!Min({1, k}) \in {1, k} /\ Setup!Min({1, k}) <= 1 /\ Setup!Min({1, k}) <= k
        <5>1. \E x \in {1, k} : \A y \in {1, k} : x <= y
          BY <1>3, <2>3
        <5> QED BY <5>1 DEF Setup!Min
      <4> QED BY <1>3, <2>3, <4>1
    <3>2. q \in Seq(Setup!Migrations) /\ Len(q) = 1 /\ q[1] = s[1]
      <4>1. q = SubSeq(s, 1, 1)
        BY <2>1, <3>1
      <4>2. \A i \in 1..1 : s[i] \in Setup!Migrations
        <5>1. 1 \in 1..Len(s)
          BY <1>3, <2>3
        <5>2. s[1] \in Setup!Migrations
          BY <1>3, <5>1, ElementOfSeq
        <5> QED BY <5>2
      <4> QED BY <1>3, <4>1, <4>2, SubSeqProperties
    <3>3. q # <<>>
      <4>1. Len(<<>>) = 0
        BY EmptySeq
      <4>2. Len(q) # Len(<<>>)
        BY <3>2, <4>1
      <4> QED BY <4>2, Zenon
    <3>4. q[1] = n + 1
      BY <1>4, <2>3, <3>2
    <3> QED BY <1>1, <3>2, <3>3, <3>4 DEF n
  <2> QED BY <1>3, <2>2, <2>3
<1>7. QED BY <1>2, <1>6, <1>9

LEMMA ListKeeps ==
  ASSUME Setup!SetupAssumption, Setup!IInv, NEW o \in Operators, Setup!List(o)
  PROVE Setup!IInv'
<1>9. PICK m \in Setup!Migrations :
        run' = [run EXCEPT ![o].at = IF Setup!PendingPaths(m) = <<>> THEN "done" ELSE "statements",
                           ![o].todo = IF run[o].script = "one"
                                       THEN SubSeq(Setup!PendingPaths(m), 1,
                                                   Setup!Min({1, Len(Setup!PendingPaths(m))}))
                                       ELSE Setup!PendingPaths(m)]
  BY DEF Setup!List
<1> DEFINE at == IF Setup!PendingPaths(m) = <<>> THEN "done" ELSE "statements"
           q == IF run[o].script = "one"
                THEN SubSeq(Setup!PendingPaths(m), 1, Setup!Min({1, Len(Setup!PendingPaths(m))}))
                ELSE Setup!PendingPaths(m)
<1>1. /\ run' = [run EXCEPT ![o].at = at, ![o].todo = q]
      /\ at = IF Setup!PendingPaths(m) = <<>> THEN "done" ELSE "statements"
      /\ \/ q = Setup!PendingPaths(m)
         \/ q = SubSeq(Setup!PendingPaths(m), 1, Setup!Min({1, Len(Setup!PendingPaths(m))}))
  BY <1>9
<1> HIDE DEF at, q
<1>2. /\ q \in Seq(Setup!Migrations)
      /\ Setup!PendingPaths(m) # <<>> => q # <<>> /\ q[1] = Setup!Applied + 1
      /\ \A i \in 1..Len(q) : q[i] = q[1] + i - 1
  BY <1>1, ListIsNext
<1>3. at \in Setup!Places /\ q \in Seq(Nat)
  <2>1. q \in Seq(Nat)
    BY <1>2, NumbersOnly
  <2> QED BY <1>1, <2>1 DEF Setup!Places, Setup!Ended, Setup!Steps
<1>4. run' \in [Operators -> [script : Setup!AllScripts, at : Setup!Places, todo : Seq(Nat)]]
  BY <1>1, <1>3, GoesOn DEF Setup!IInv
<1>5. /\ run'[o].at = at /\ run'[o].todo = q /\ run'[o].script = run[o].script
      /\ \A p \in Operators : p # o => run'[p] = run[p]
  BY <1>1, <1>3, GoesOn DEF Setup!IInv
<1>6. Setup!TypeOK' /\ OthersKeep(o) /\ UNCHANGED <<db, keys, advisory>>
  BY <1>4, <1>5 DEF Setup!IInv, Setup!TypeOK, OthersKeep, Setup!List
<1>7. RunFits(o)'
  <2>1. CASE at = "done"
    BY <1>5, <2>1, IdleFits DEF TrackedPlaces
  <2>2. CASE at = "statements"
    <3>1. q # <<>> /\ q[1] = Setup!Applied + 1
      BY <1>1, <1>2, <2>2
    <3>2. Setup!MigrationFits(o)'
      <4>1. Setup!Applied' = Setup!Applied /\ Setup!Applied \in Nat
        BY <1>6 DEF Setup!Applied, Setup!IInv, Setup!TypeOK
      <4> QED BY <1>2, <1>5, <2>2, <3>1, <4>1 DEF Setup!MigrationFits
    <3>3. Setup!InitFits(o)' /\ Setup!SeedFits(o)'
      BY <1>5, <2>2 DEF Setup!InitFits, Setup!SeedFits
    <3> QED BY <3>2, <3>3 DEF RunFits
  <2> QED BY <1>1, <2>1, <2>2
<1>8. QED BY <1>6, <1>7, QuietKeeps

\* What follows a migration, of a run that has consecutive ones to do.
LEMMA OnwardFits ==
  ASSUME Setup!SetupAssumption, Setup!IInv, NEW o \in Operators, Setup!Onward(o),
         run[o].at \in {"statements", "mark", "commit"},
         run[o].script # "dry" => run[o].todo[1] <= Setup!Applied',
         Setup!Applied' \in Nat
  PROVE /\ run' \in [Operators -> [script : Setup!AllScripts, at : Setup!Places, todo : Seq(Nat)]]
        /\ \A p \in Operators : p # o => run'[p] = run[p]
        /\ RunFits(o)'
<1> DEFINE s == run[o].todo
<1>1. /\ s \in Seq(Setup!Migrations) /\ s # <<>>
      /\ \A i \in 1..Len(s) : s[i] = s[1] + i - 1
  BY DEF Setup!IInv, Setup!MigrationFits
<1> DEFINE at == IF Len(s) = 1 THEN "done" ELSE "statements"
<1>2. /\ at = IF Len(s) = 1 THEN "done" ELSE "statements"
      /\ run' = [run EXCEPT ![o].todo = Tail(s), ![o].at = at]
  BY DEF Setup!Onward
<1> HIDE DEF at
<1>3. at \in Setup!Places /\ Tail(s) \in Seq(Nat)
  <2>1. Tail(s) \in Seq(Setup!Migrations)
    BY <1>1, HeadTailProperties
  <2>2. Tail(s) \in Seq(Nat)
    BY <2>1, NumbersOnly
  <2> QED BY <1>2, <2>2 DEF Setup!Places, Setup!Ended, Setup!Steps
<1>4. run' \in [Operators -> [script : Setup!AllScripts, at : Setup!Places, todo : Seq(Nat)]]
  BY <1>2, <1>3, GoesOn DEF Setup!IInv
<1>5. /\ run'[o].at = at /\ run'[o].todo = Tail(s) /\ run'[o].script = run[o].script
      /\ \A p \in Operators : p # o => run'[p] = run[p]
  BY <1>2, <1>3, GoesOn DEF Setup!IInv
<1>6. RunFits(o)'
  <2>1. CASE at = "done"
    BY <1>5, <2>1, IdleFits DEF TrackedPlaces
  <2>2. CASE at = "statements"
    <3>1. /\ Tail(s) \in Seq(Setup!Migrations) /\ Tail(s) # <<>> /\ Tail(s)[1] = s[1] + 1
          /\ \A i \in 1..Len(Tail(s)) : Tail(s)[i] = Tail(s)[1] + i - 1
      <4>1. Len(s) # 1
        BY <1>2, <2>2
      <4>2. Setup!Migrations \subseteq Nat
        BY DEF Setup!SetupAssumption
      <4> QED BY <1>1, <4>1, <4>2, RestIsConsecutive
    <3>2. s[1] \in Nat
      <4>1. 1 \in 1..Len(s)
        BY <1>1, EmptySeq
      <4>2. s[1] \in Setup!Migrations
        BY <1>1, <4>1, ElementOfSeq
      <4> QED BY <4>2 DEF Setup!SetupAssumption
    <3>3. run[o].script # "dry" => Tail(s)[1] <= Setup!Applied' + 1
      BY <3>1, <3>2
    <3>4. Setup!MigrationFits(o)'
      BY <1>5, <2>2, <3>1, <3>3 DEF Setup!MigrationFits
    <3>5. Setup!InitFits(o)' /\ Setup!SeedFits(o)'
      BY <1>5, <2>2 DEF Setup!InitFits, Setup!SeedFits
    <3> QED BY <3>4, <3>5 DEF RunFits
  <2> QED BY <1>2, <2>1, <2>2
<1>7. QED BY <1>4, <1>5, <1>6

LEMMA EnsureTableKeeps ==
  ASSUME Setup!SetupAssumption, Setup!IInv, NEW o \in Operators, Setup!EnsureTable(o)
  PROVE Setup!IInv'
<1>1. /\ db' = [db EXCEPT !.ledgerTable = TRUE] /\ Setup!Move(o, "list")
      /\ UNCHANGED <<advisory, keys, runs>>
  BY DEF Setup!EnsureTable
<1>2. "list" \in Setup!Places /\ "list" \notin TrackedPlaces
  BY DEF Setup!Places, Setup!Steps, TrackedPlaces
<1>3. db' \in [base : BOOLEAN, ledgerTable : BOOLEAN, ledger : SUBSET Setup!Migrations,
               effects : Seq(Setup!Migrations), view : {"none", "short", "full"},
               seeded : SUBSET Setup!Sections, lines : Nat, people : SUBSET {"placeholder",
               "decoy"}]
  BY <1>1 DEF Setup!IInv, Setup!TypeOK
<1>4. Setup!TypeOK' /\ OthersKeep(o)
  BY <1>1, <1>2, <1>3, MoveIsTyped DEF Setup!IInv, Setup!TypeOK, OthersKeep
<1>5. /\ db'.base = db.base /\ db'.seeded = db.seeded /\ db'.lines = db.lines
      /\ db'.people = db.people /\ db'.effects = db.effects /\ db'.ledger = db.ledger
  BY <1>1 DEF Setup!IInv, Setup!TypeOK
<1>6. CommitsUnder(o) /\ Setup!LedgerIsInOrder' /\ Setup!EmptyBeforeInit' /\ Setup!SeedIsWholeOnce'
  BY <1>5 DEF Setup!IInv, CommitsUnder, Setup!LedgerIsInOrder, Setup!Applied,
     Setup!EmptyBeforeInit, Setup!SeedIsWholeOnce
<1>7. RunFits(o)'
  BY <1>1, <1>2, MoveIsTyped, IdleFits DEF Setup!IInv
<1>8. QED BY <1>4, <1>6, <1>7, CommitKeeps

LEMMA StatementsKeeps ==
  ASSUME Setup!SetupAssumption, Setup!IInv, NEW o \in Operators, Setup!Statements(o)
  PROVE Setup!IInv'
<1>1. CASE ~db.base
  <2>1. Setup!End(o, "failed") /\ "failed" \in Setup!Ended
    BY <1>1 DEF Setup!Statements, Setup!Ended
  <2> QED BY <2>1, SetupEndKeeps
<1>2. CASE db.base /\ run[o].script = "dry"
  <2>1. Setup!Onward(o) /\ UNCHANGED <<db, advisory, keys, runs>> /\ run[o].at = "statements"
    BY <1>2 DEF Setup!Statements
  <2>2. Setup!Applied' \in Nat
    BY <2>1 DEF Setup!IInv, Setup!TypeOK, Setup!Applied
  <2>3. /\ run' \in [Operators -> [script : Setup!AllScripts, at : Setup!Places, todo : Seq(Nat)]]
        /\ \A p \in Operators : p # o => run'[p] = run[p]
        /\ RunFits(o)'
    BY <1>2, <2>1, <2>2, OnwardFits
  <2>4. Setup!TypeOK' /\ OthersKeep(o)
    BY <2>1, <2>3 DEF Setup!IInv, Setup!TypeOK, OthersKeep
  <2> QED BY <2>1, <2>3, <2>4, QuietKeeps
<1>3. CASE db.base /\ run[o].script # "dry"
  <2>1. Setup!StepTo(o, "mark") /\ "mark" \in Setup!Places /\ run[o].at = "statements"
    BY <1>3 DEF Setup!Statements, Setup!StepTo, Setup!Places, Setup!Steps
  <2>2. Setup!TypeOK' /\ OthersKeep(o)
    BY <2>1, MoveIsTyped DEF Setup!IInv, Setup!TypeOK, Setup!StepTo, OthersKeep
  <2>3. /\ run'[o].at = "mark" /\ run'[o].todo = run[o].todo /\ run'[o].script = run[o].script
        /\ Setup!Applied' = Setup!Applied
    BY <2>1, MoveIsTyped DEF Setup!IInv, Setup!StepTo, Setup!Applied
  <2>4. RunFits(o)'
    <3>1. Setup!MigrationFits(o)'
      BY <1>3, <2>1, <2>3 DEF Setup!IInv, Setup!MigrationFits
    <3>2. Setup!InitFits(o)' /\ Setup!SeedFits(o)'
      BY <2>3 DEF Setup!InitFits, Setup!SeedFits
    <3> QED BY <3>1, <3>2 DEF RunFits
  <2> QED BY <2>1, <2>2, <2>4, QuietKeeps DEF Setup!StepTo
<1>4. QED BY <1>1, <1>2, <1>3

\* The first migration a run still has to do.
LEMMA NextToDo ==
  ASSUME Setup!SetupAssumption, Setup!IInv, NEW o \in Operators,
         run[o].at \in {"statements", "mark", "commit"}
  PROVE /\ Head(run[o].todo) = run[o].todo[1] /\ run[o].todo[1] \in Setup!Migrations
        /\ run[o].todo[1] \in Nat /\ Setup!Applied \in Nat
<1>1. run[o].todo \in Seq(Setup!Migrations) /\ run[o].todo # <<>>
  BY DEF Setup!IInv, Setup!MigrationFits
<1>2. 1 \in 1..Len(run[o].todo)
  BY <1>1, EmptySeq
<1>3. run[o].todo[1] \in Setup!Migrations
  BY <1>1, <1>2, ElementOfSeq
<1>4. QED BY <1>3 DEF Setup!IInv, Setup!TypeOK, Setup!Applied, Setup!SetupAssumption

LEMMA MarkKeeps ==
  ASSUME Setup!SetupAssumption, Setup!IInv, NEW o \in Operators, Setup!Mark(o)
  PROVE Setup!IInv'
<1> DEFINE k == run[o].todo[1]
<1>1. /\ run[o].at = "mark" /\ k = Head(run[o].todo) /\ k \in Setup!Migrations /\ k \in Nat
      /\ Setup!Applied \in Nat
      /\ keys[k] = Setup!None /\ db.ledger = 1..Setup!Applied
  BY NextToDo DEF Setup!Mark, Setup!IInv, Setup!LedgerIsInOrder
<1>2. CASE ~db.ledgerTable \/ k \in db.ledger
  <2>1. Setup!End(o, "failed") /\ "failed" \in Setup!Ended
    BY <1>1, <1>2 DEF Setup!Mark, Setup!Ended
  <2> QED BY <2>1, SetupEndKeeps
<1>3. CASE ~(~db.ledgerTable \/ k \in db.ledger)
  <2>1. /\ keys' = [keys EXCEPT ![k] = o] /\ Setup!Move(o, "commit")
        /\ UNCHANGED <<db, advisory, runs>>
    BY <1>1, <1>3 DEF Setup!Mark
  <2>2. "commit" \in Setup!Places
    BY DEF Setup!Places, Setup!Steps
  <2>3. keys' \in [Setup!Migrations -> Operators \cup {Setup!None}]
    BY <2>1 DEF Setup!IInv, Setup!TypeOK
  <2>4. Setup!TypeOK'
    BY <2>1, <2>2, <2>3, MoveIsTyped DEF Setup!IInv, Setup!TypeOK
  <2>5. OthersKeep(o)
    <3>1. \A p \in Operators, j \in Setup!Migrations : keys[j] = p => keys'[j] = p
      BY <1>1, <2>1 DEF Setup!IInv, Setup!TypeOK, Setup!SetupAssumption
    <3> QED BY <2>1, <2>2, <3>1, MoveIsTyped DEF Setup!IInv, OthersKeep
  <2>6. /\ run'[o].at = "commit" /\ run'[o].todo = run[o].todo /\ run'[o].script = run[o].script
        /\ Setup!Applied' = Setup!Applied /\ keys'[k] = o /\ k > Setup!Applied
    <3>1. keys'[k] = o
      BY <1>1, <2>1 DEF Setup!IInv, Setup!TypeOK
    <3>2. k \notin 1..Setup!Applied /\ k > 0
      BY <1>1, <1>3
    <3>3. k > Setup!Applied
      BY <1>1, <3>2
    <3> QED BY <2>1, <2>2, <3>1, <3>3, MoveIsTyped DEF Setup!IInv, Setup!Applied
  <2>7. RunFits(o)'
    <3>1. Setup!MigrationFits(o)'
      BY <1>1, <2>6 DEF Setup!IInv, Setup!MigrationFits
    <3>2. Setup!InitFits(o)' /\ Setup!SeedFits(o)'
      BY <2>6 DEF Setup!InitFits, Setup!SeedFits
    <3> QED BY <3>1, <3>2 DEF RunFits
  <2> QED BY <2>1, <2>4, <2>5, <2>7, QuietKeeps
<1>4. QED BY <1>2, <1>3

LEMMA MigrationCommitKeeps ==
  ASSUME Setup!SetupAssumption, Setup!IInv, NEW o \in Operators, Setup!MigrationCommit(o)
  PROVE Setup!IInv'
<1> DEFINE k == run[o].todo[1]
<1>1. /\ run[o].at = "commit" /\ k = Head(run[o].todo) /\ k \in Setup!Migrations
      /\ Setup!Applied \in Nat
      /\ keys[k] = o /\ k = Setup!Applied + 1
  BY NextToDo DEF Setup!MigrationCommit, Setup!IInv, Setup!MigrationFits
<1>2. /\ db.effects = [i \in 1..Setup!Applied |-> i] /\ db.ledger = 1..Setup!Applied
      /\ db.effects \in Seq(Setup!Migrations)
  BY DEF Setup!IInv, Setup!LedgerIsInOrder, Setup!TypeOK
<1>3. /\ Append(db.effects, k) = [i \in 1..(Setup!Applied+1) |-> i]
      /\ Len(Append(db.effects, k)) = Setup!Applied + 1
      /\ db.ledger \cup {k} = 1..(Setup!Applied+1)
  BY <1>1, <1>2, OrderGrows
<1>4. Append(db.effects, k) \in Seq(Setup!Migrations)
  BY <1>1, <1>2, AppendProperties
<1>5. /\ db' = [db EXCEPT !.ledger = db.ledger \cup {k}, !.effects = Append(db.effects, k),
                         !.view = Setup!ViewAfter(k)]
      /\ Setup!Release(o) /\ UNCHANGED runs /\ (Setup!Onward(o) \/ Setup!Move(o, "failed"))
  BY <1>1 DEF Setup!MigrationCommit
<1>6. db' \in [base : BOOLEAN, ledgerTable : BOOLEAN, ledger : SUBSET Setup!Migrations,
               effects : Seq(Setup!Migrations), view : {"none", "short", "full"},
               seeded : SUBSET Setup!Sections, lines : Nat, people : SUBSET {"placeholder",
               "decoy"}]
  <2>1. db.ledger \cup {k} \in SUBSET Setup!Migrations
    BY <1>1 DEF Setup!IInv, Setup!TypeOK
  <2>2. Setup!ViewAfter(k) \in {"none", "short", "full"}
    BY DEF Setup!ViewAfter, Setup!IInv, Setup!TypeOK
  <2>3. /\ db \in [base : BOOLEAN, ledgerTable : BOOLEAN, ledger : SUBSET Setup!Migrations,
                   effects : Seq(Setup!Migrations), view : {"none", "short", "full"},
                   seeded : SUBSET Setup!Sections,
                   lines : Nat, people : SUBSET {"placeholder", "decoy"}]
    BY DEF Setup!IInv, Setup!TypeOK
  <2>4. {} \in SUBSET Setup!Sections /\ 0 \in Nat /\ {} \in SUBSET {"placeholder", "decoy"}
    OBVIOUS
  <2> HIDE DEF k, Setup!Migrations, Setup!Sections
  <2> QED BY <1>4, <1>5, <2>1, <2>2, <2>3, <2>4, DbStaysTyped
<1>7. /\ db'.base = db.base /\ db'.seeded = db.seeded /\ db'.lines = db.lines
      /\ db'.people = db.people /\ db'.effects = Append(db.effects, k)
      /\ db'.ledger = db.ledger \cup {k} /\ Setup!Applied' = Setup!Applied + 1
  BY <1>3, <1>5 DEF Setup!IInv, Setup!TypeOK, Setup!Applied
<1>8. /\ run' \in [Operators -> [script : Setup!AllScripts, at : Setup!Places, todo : Seq(Nat)]]
      /\ \A p \in Operators : p # o => run'[p] = run[p]
      /\ RunFits(o)'
  <2>1. CASE Setup!Onward(o)
    <3>1. Setup!Applied' \in Nat /\ k <= Setup!Applied'
      BY <1>1, <1>7
    <3> QED BY <1>1, <2>1, <3>1, OnwardFits
  <2>2. CASE Setup!Move(o, "failed")
    <3>1. "failed" \in Setup!Places /\ "failed" \notin TrackedPlaces
      BY DEF Setup!Places, Setup!Ended, TrackedPlaces
    <3> QED BY <2>2, <3>1, MoveIsTyped, IdleFits DEF Setup!IInv
  <2> QED BY <1>5, <2>1, <2>2
<1>9. Setup!TypeOK' /\ OthersKeep(o)
  <2>1. /\ advisory' \in [{"init", "seed"} -> Operators \cup {Setup!None}]
        /\ keys' \in [Setup!Migrations -> Operators \cup {Setup!None}]
        /\ \A p \in Operators, l \in {"init", "seed"} : p # o /\ advisory[l] = p => advisory'[l] = p
        /\ \A p \in Operators, j \in Setup!Migrations : p # o /\ keys[j] = p => keys'[j] = p
    BY <1>5, ReleaseFrees DEF Setup!IInv
  <2>2. Setup!TypeOK'
    BY <1>5, <1>6, <1>8, <2>1 DEF Setup!IInv, Setup!TypeOK
  <2>3. OthersKeep(o)
    BY <1>8, <2>1 DEF OthersKeep
  <2> QED BY <2>2, <2>3
<1>10. CommitsUnder(o)
  BY <1>1, <1>7 DEF CommitsUnder
<1>11. Setup!LedgerIsInOrder'
  BY <1>2, <1>3, <1>7 DEF Setup!LedgerIsInOrder
<1>12. Setup!EmptyBeforeInit' /\ Setup!SeedIsWholeOnce'
  BY <1>7 DEF Setup!IInv, Setup!EmptyBeforeInit, Setup!SeedIsWholeOnce
<1>13. QED BY <1>8, <1>9, <1>10, <1>11, <1>12, CommitKeeps

\* A step of a seed that moves its run on and leaves the database and the locks.
LEMMA SeedMoves ==
  ASSUME Setup!SetupAssumption, Setup!IInv, NEW o \in Operators, NEW at \in {"empty?", "write"},
         NEW q \in Seq(Nat), run' = [run EXCEPT ![o].at = at, ![o].todo = q],
         UNCHANGED <<db, keys, runs>>,
         \/ UNCHANGED advisory
         \/ advisory["seed"] = Setup!None /\ advisory' = [advisory EXCEPT !["seed"] = o],
         advisory'["seed"] = o, at = "write" /\ (q = <<>> \/ run[o].script = "seed") => db.base,
         at = "write" /\ run[o].script = "seed" => db.seeded = {} /\ db.lines = 0
  PROVE Setup!IInv'
<1>1. at \in Setup!Places
  BY DEF Setup!Places, Setup!Steps
<1>2. /\ run' \in [Operators -> [script : Setup!AllScripts, at : Setup!Places, todo : Seq(Nat)]]
      /\ run'[o].at = at /\ run'[o].script = run[o].script /\ run'[o].todo = q
      /\ \A p \in Operators : p # o => run'[p] = run[p]
  <2>1. Setup!TypeOK /\ run' = [run EXCEPT ![o].at = at, ![o].todo = q]
    BY DEF Setup!IInv
  <2> QED BY <1>1, <2>1, GoesOn
<1>3. advisory' \in [{"init", "seed"} -> Operators \cup {Setup!None}]
  BY DEF Setup!IInv, Setup!TypeOK
<1>4. Setup!TypeOK'
  BY <1>2, <1>3 DEF Setup!IInv, Setup!TypeOK
<1>5. OthersKeep(o)
  <2>1. \A p \in Operators, l \in {"init", "seed"} : advisory[l] = p => advisory'[l] = p
    BY DEF Setup!IInv, Setup!TypeOK, Setup!SetupAssumption
  <2> QED BY <1>2, <2>1 DEF OthersKeep
<1>6. RunFits(o)'
  BY <1>2 DEF RunFits, Setup!InitFits, Setup!MigrationFits, Setup!SeedFits
<1>7. QED BY <1>4, <1>5, <1>6, QuietKeeps

LEMMA SeedStepsKeep ==
  ASSUME Setup!SetupAssumption, Setup!IInv, NEW o \in Operators,
         Setup!SeedLock(o) \/ Setup!RequireEmpty(o) \/ Setup!WriteSection(o)
  PROVE Setup!IInv'
<1>0. /\ <<Setup!Packages>> \in Seq(Nat)
      /\ <<Setup!Packages, Setup!Travelers, Setup!Bookings>> \in Seq(Nat)
      /\ <<Setup!Packages>> # <<>>
  OBVIOUS
<1>1. CASE Setup!SeedLock(o) /\ advisory["seed"] # Setup!None
  <2>1. Setup!End(o, "locked") /\ "locked" \in Setup!Ended
    BY <1>1 DEF Setup!SeedLock, Setup!Ended
  <2> QED BY <2>1, SetupEndKeeps
<1>2. CASE Setup!SeedLock(o) /\ advisory["seed"] = Setup!None
  <2>1. PICK at \in {"empty?", "write"} :
           /\ run' = [run EXCEPT ![o].at = at, ![o].todo = <<Setup!Packages>>]
           /\ at = IF run[o].script = "seed" THEN "empty?" ELSE "write"
    BY <1>2 DEF Setup!SeedLock
  <2>2. /\ advisory' = [advisory EXCEPT !["seed"] = o] /\ UNCHANGED <<db, keys, runs>>
        /\ advisory'["seed"] = o
    BY <1>2 DEF Setup!SeedLock, Setup!IInv, Setup!TypeOK
  <2> QED BY <1>0, <1>2, <2>1, <2>2, SeedMoves
<1>3. CASE Setup!RequireEmpty(o) /\ ~db.base
  <2>1. Setup!End(o, "failed") /\ "failed" \in Setup!Ended
    BY <1>3 DEF Setup!RequireEmpty, Setup!Ended
  <2> QED BY <2>1, SetupEndKeeps
<1>4. CASE Setup!RequireEmpty(o) /\ db.base /\ Setup!HasData
  <2>1. Setup!End(o, "refused") /\ "refused" \in Setup!Ended
    BY <1>4 DEF Setup!RequireEmpty, Setup!Ended
  <2> QED BY <2>1, SetupEndKeeps
<1>5. CASE Setup!RequireEmpty(o) /\ db.base /\ ~Setup!HasData
  <2>1. /\ run' = [run EXCEPT ![o].at = "write",
                           ![o].todo = <<Setup!Packages, Setup!Travelers, Setup!Bookings>>]
        /\ UNCHANGED <<db, advisory, keys, runs>> /\ run[o].at = "empty?" /\ db.seeded = {}
    BY <1>5 DEF Setup!RequireEmpty, Setup!HasData
  <2>2. advisory'["seed"] = o /\ db.lines = 0
    BY <2>1 DEF Setup!IInv, Setup!SeedFits, Setup!SeedIsWholeOnce
  <2> QED BY <1>0, <1>5, <2>1, <2>2, SeedMoves
<1>6. CASE Setup!WriteSection(o) /\ ~db.base
  <2>1. Setup!End(o, "failed") /\ "failed" \in Setup!Ended
    BY <1>6 DEF Setup!WriteSection, Setup!Ended
  <2> QED BY <2>1, SetupEndKeeps
<1>7. CASE Setup!WriteSection(o) /\ db.base
  <2> DEFINE s == run[o].todo
  <2>1. /\ run' = [run EXCEPT ![o].todo = Tail(s)] /\ UNCHANGED <<db, advisory, keys, runs>>
        /\ run[o].at = "write" /\ s # <<>> /\ s \in Seq(Nat)
    BY <1>7 DEF Setup!WriteSection, Setup!IInv, Setup!TypeOK
  <2>2. Tail(s) \in Seq(Nat)
    BY <2>1, HeadTailProperties
  <2>3. advisory'["seed"] = o /\ (run[o].script = "seed" => db.seeded = {} /\ db.lines = 0)
    BY <2>1 DEF Setup!IInv, Setup!SeedFits
  <2> HIDE DEF s
  <2>4. /\ run' \in [Operators -> [script : Setup!AllScripts, at : Setup!Places, todo : Seq(Nat)]]
        /\ run'[o].at = "write" /\ run'[o].script = run[o].script /\ run'[o].todo = Tail(s)
        /\ \A p \in Operators : p # o => run'[p] = run[p]
    BY <2>1, <2>2 DEF Setup!IInv, Setup!TypeOK
  <2>5. Setup!TypeOK' /\ OthersKeep(o)
    BY <2>1, <2>4 DEF Setup!IInv, Setup!TypeOK, OthersKeep
  <2>6. RunFits(o)'
    BY <1>7, <2>1, <2>3, <2>4 DEF RunFits, Setup!InitFits, Setup!MigrationFits, Setup!SeedFits
  <2> QED BY <2>1, <2>5, <2>6, QuietKeeps
<1>8. QED BY <1>1, <1>2, <1>3, <1>4, <1>5, <1>6, <1>7

LEMMA SeedCommitKeeps ==
  ASSUME Setup!SetupAssumption, Setup!IInv, NEW o \in Operators, Setup!SeedCommit(o)
  PROVE Setup!IInv'
<1> DEFINE whole == run[o].script = "seed"
           seeds == IF whole THEN Setup!Sections ELSE {Setup!Packages}
           more == IF whole THEN 1 ELSE 0
           others == IF whole THEN {} ELSE db.people
<1>1. /\ run[o].at = "write" /\ run[o].todo = <<>> /\ Setup!Release(o) /\ UNCHANGED runs
      /\ db' = [db EXCEPT !.seeded = db.seeded \cup seeds, !.lines = db.lines + more,
                         !.people = others]
  BY DEF Setup!SeedCommit
<1>2. PICK at \in {"done", "failed"} : Setup!Move(o, at)
  BY DEF Setup!SeedCommit
<1>3. at \in Setup!Places /\ at \notin TrackedPlaces
  BY DEF Setup!Places, Setup!Ended, TrackedPlaces
<1>4. /\ advisory["seed"] = o /\ db.base
      /\ whole => db.seeded = {} /\ db.lines = 0
  BY <1>1 DEF Setup!IInv, Setup!SeedFits
<1>5. /\ seeds \in SUBSET Setup!Sections /\ more \in Nat
      /\ others \in SUBSET {"placeholder", "decoy"}
      /\ db.seeded \in SUBSET Setup!Sections /\ db.lines \in Nat
      /\ db.people \in SUBSET {"placeholder", "decoy"}
      /\ db.ledger \in SUBSET Setup!Migrations /\ db.effects \in Seq(Setup!Migrations)
  BY DEF Setup!IInv, Setup!TypeOK
<1>6. /\ db'.base = db.base /\ db'.effects = db.effects /\ db'.ledger = db.ledger
      /\ db'.seeded = db.seeded \cup seeds /\ db'.lines = db.lines + more
  BY <1>1 DEF Setup!IInv, Setup!TypeOK
<1>7. db' \in [base : BOOLEAN, ledgerTable : BOOLEAN, ledger : SUBSET Setup!Migrations,
               effects : Seq(Setup!Migrations), view : {"none", "short", "full"},
               seeded : SUBSET Setup!Sections, lines : Nat, people : SUBSET {"placeholder",
               "decoy"}]
  <2>1. db.seeded \cup seeds \in SUBSET Setup!Sections /\ db.lines + more \in Nat
    BY <1>5
  <2>2. /\ db \in [base : BOOLEAN, ledgerTable : BOOLEAN, ledger : SUBSET Setup!Migrations,
                   effects : Seq(Setup!Migrations), view : {"none", "short", "full"},
                   seeded : SUBSET Setup!Sections,
                   lines : Nat, people : SUBSET {"placeholder", "decoy"}]
    BY DEF Setup!IInv, Setup!TypeOK
  <2>3. "none" \in {"none", "short", "full"}
    OBVIOUS
  <2> HIDE DEF seeds, more, others, Setup!Migrations, Setup!Sections
  <2> QED BY <1>1, <1>5, <2>1, <2>2, <2>3, DbStaysTyped
<1>8. Setup!TypeOK' /\ OthersKeep(o)
  <2>1. /\ advisory' \in [{"init", "seed"} -> Operators \cup {Setup!None}]
        /\ keys' \in [Setup!Migrations -> Operators \cup {Setup!None}]
        /\ \A p \in Operators, l \in {"init", "seed"} : p # o /\ advisory[l] = p => advisory'[l] = p
        /\ \A p \in Operators, j \in Setup!Migrations : p # o /\ keys[j] = p => keys'[j] = p
    BY <1>1, ReleaseFrees DEF Setup!IInv
  <2>2. /\ run' \in [Operators -> [script : Setup!AllScripts, at : Setup!Places, todo : Seq(Nat)]]
        /\ \A p \in Operators : p # o => run'[p] = run[p]
    BY <1>2, <1>3, MoveIsTyped DEF Setup!IInv
  <2>3. Setup!TypeOK'
    BY <1>1, <1>7, <2>1, <2>2 DEF Setup!IInv, Setup!TypeOK
  <2>4. OthersKeep(o)
    BY <2>1, <2>2 DEF OthersKeep
  <2> QED BY <2>3, <2>4
<1>9. CommitsUnder(o)
  BY <1>4, <1>6 DEF CommitsUnder, Setup!Applied
<1>10. RunFits(o)'
  BY <1>2, <1>3, MoveIsTyped, IdleFits DEF Setup!IInv
<1>11. Setup!LedgerIsInOrder' /\ Setup!EmptyBeforeInit'
  BY <1>4, <1>6 DEF Setup!IInv, Setup!LedgerIsInOrder, Setup!Applied, Setup!EmptyBeforeInit
<1>12. Setup!SeedIsWholeOnce'
  <2>1. CASE whole
    BY <1>4, <1>6, <2>1 DEF Setup!SeedIsWholeOnce
  <2>2. CASE ~whole
    <3>1. db'.lines = db.lines /\ db'.seeded = db.seeded \cup {1}
      BY <1>5, <1>6, <2>2
    <3>2. db.seeded \in {{}, {1}, 1..3} /\ db.lines = IF 3 \in db.seeded THEN 1 ELSE 0
      BY DEF Setup!IInv, Setup!SeedIsWholeOnce
    <3> QED BY <3>1, <3>2 DEF Setup!SeedIsWholeOnce
  <2> QED BY <2>1, <2>2
<1>13. QED BY <1>8, <1>9, <1>10, <1>11, <1>12, CommitKeeps

\* A statement that commits at once and touches neither the ledger nor what was seeded.
LEMMA WriteKeeps ==
  ASSUME Setup!SetupAssumption, Setup!IInv, NEW o \in Operators,
         NEW v \in {"none", "short", "full"}, NEW w \in SUBSET {"placeholder", "decoy"},
         db' = [db EXCEPT !.view = v] \/ (db.base /\ db' = [db EXCEPT !.people = w]),
         UNCHANGED <<advisory, keys, runs>>,
         UNCHANGED run \/ \E at \in Setup!Places \ TrackedPlaces : Setup!Move(o, at)
  PROVE Setup!IInv'
<1>1. /\ db' \in [base : BOOLEAN, ledgerTable : BOOLEAN, ledger : SUBSET Setup!Migrations,
                  effects : Seq(Setup!Migrations), view : {"none", "short", "full"},
                  seeded : SUBSET Setup!Sections, lines : Nat, people : SUBSET {"placeholder",
                  "decoy"}]
  <2>1. /\ db \in [base : BOOLEAN, ledgerTable : BOOLEAN, ledger : SUBSET Setup!Migrations,
                   effects : Seq(Setup!Migrations), view : {"none", "short", "full"},
                   seeded : SUBSET Setup!Sections,
                   lines : Nat, people : SUBSET {"placeholder", "decoy"}]
    BY DEF Setup!IInv, Setup!TypeOK
  <2>2. /\ {} \in SUBSET Setup!Sections /\ {} \in SUBSET Setup!Migrations /\ 0 \in Nat
        /\ db.effects \in Seq(Setup!Migrations)
    BY DEF Setup!IInv, Setup!TypeOK
  <2>3. CASE db' = [db EXCEPT !.view = v]
    BY <2>1, <2>3
  <2>4. CASE db' = [db EXCEPT !.people = w]
    BY <2>1, <2>4
  <2> QED BY <2>3, <2>4
<1>2. /\ db'.base = db.base /\ db'.effects = db.effects /\ db'.ledger = db.ledger
      /\ db'.seeded = db.seeded /\ db'.lines = db.lines
      /\ db'.people = db.people \/ db.base
  BY DEF Setup!IInv, Setup!TypeOK
<1>3. /\ run' \in [Operators -> [script : Setup!AllScripts, at : Setup!Places, todo : Seq(Nat)]]
      /\ \A p \in Operators : p # o => run'[p] = run[p]
  BY MoveIsTyped DEF Setup!IInv, Setup!TypeOK
<1>4. Setup!TypeOK' /\ OthersKeep(o)
  BY <1>1, <1>3 DEF Setup!IInv, Setup!TypeOK, OthersKeep
<1>5. CommitsUnder(o)
  BY <1>2 DEF CommitsUnder, Setup!Applied
<1>6. RunFits(o)'
  <2>1. CASE UNCHANGED run
    <3>1. /\ Setup!InitFits(o) /\ Setup!MigrationFits(o) /\ Setup!SeedFits(o)
          /\ Setup!Applied' = Setup!Applied
      BY <1>2 DEF Setup!IInv, Setup!Applied
    <3>2. run'[o] = run[o] /\ UNCHANGED <<advisory, keys>>
      BY <2>1
    <3>3. Setup!InitFits(o)' /\ Setup!SeedFits(o)'
      BY <1>2, <3>1, <3>2 DEF Setup!InitFits, Setup!SeedFits
    <3>4. Setup!MigrationFits(o)'
      BY <3>1, <3>2 DEF Setup!MigrationFits
    <3> QED BY <3>3, <3>4 DEF RunFits
  <2>2. ASSUME NEW at \in Setup!Places \ TrackedPlaces, Setup!Move(o, at) PROVE RunFits(o)'
    BY <2>2, MoveIsTyped, IdleFits DEF Setup!IInv
  <2> QED BY <2>1, <2>2
<1>7. Setup!LedgerIsInOrder' /\ Setup!EmptyBeforeInit' /\ Setup!SeedIsWholeOnce'
  BY <1>2 DEF Setup!IInv, Setup!LedgerIsInOrder, Setup!Applied, Setup!EmptyBeforeInit,
     Setup!SeedIsWholeOnce
<1>8. QED BY <1>4, <1>5, <1>6, <1>7, CommitKeeps

LEMMA BindsKeep ==
  ASSUME Setup!SetupAssumption, Setup!IInv, NEW o \in Operators,
         Setup!BindDrop(o) \/ Setup!BindCreate(o)
  PROVE Setup!IInv'
<1>1. CASE (Setup!BindDrop(o) /\ ~db.base) \/ (Setup!BindCreate(o) /\ db.view # "none")
  <2>1. Setup!End(o, "failed") /\ "failed" \in Setup!Ended
    BY <1>1 DEF Setup!BindDrop, Setup!BindCreate, Setup!Ended
  <2> QED BY <2>1, SetupEndKeeps
<1>2. CASE Setup!BindDrop(o) /\ db.base
  <2>1. /\ db' = [db EXCEPT !.view = "none"] /\ Setup!Move(o, "create")
        /\ UNCHANGED <<advisory, keys, runs>>
        /\ "create" \in Setup!Places \ TrackedPlaces
    BY <1>2 DEF Setup!BindDrop, Setup!Places, Setup!Steps, TrackedPlaces
  <2>2. "none" \in {"none", "short", "full"} /\ {} \in SUBSET {"placeholder", "decoy"}
    OBVIOUS
  <2> QED BY <1>2, <2>1, <2>2, WriteKeeps
<1>3. CASE Setup!BindCreate(o) /\ db.view = "none"
  <2>1. PICK at \in {"done", "failed"} : Setup!Move(o, at)
    BY <1>3 DEF Setup!BindCreate
  <2>2. /\ db' = [db EXCEPT !.view = "short"] /\ UNCHANGED <<advisory, keys, runs>>
        /\ at \in Setup!Places \ TrackedPlaces
    BY <1>3 DEF Setup!BindCreate, Setup!Places, Setup!Ended, TrackedPlaces
  <2>3. "short" \in {"none", "short", "full"} /\ {} \in SUBSET {"placeholder", "decoy"}
    OBVIOUS
  <2> QED BY <1>3, <2>1, <2>2, <2>3, WriteKeeps
<1>4. QED BY <1>1, <1>2, <1>3

LEMMA PeopleKeep ==
  ASSUME Setup!SetupAssumption, Setup!IInv, NEW o \in Operators,
         Setup!InsertDecoy(o) \/ Setup!EnsureTravelerExists
  PROVE Setup!IInv'
<1> DEFINE v == "none"
<1>0. v \in {"none", "short", "full"} /\ db.people \in SUBSET {"placeholder", "decoy"}
  BY DEF Setup!IInv, Setup!TypeOK
<1>1. CASE Setup!InsertDecoy(o) /\ ~db.base
  <2>1. Setup!End(o, "failed") /\ "failed" \in Setup!Ended
    BY <1>1 DEF Setup!InsertDecoy, Setup!Ended
  <2> QED BY <2>1, SetupEndKeeps
<1>2. CASE Setup!InsertDecoy(o) /\ db.base
  <2> DEFINE w == IF Setup!Travelers \in db.seeded THEN db.people ELSE db.people \cup {"decoy"}
  <2>1. /\ db' = [db EXCEPT !.people = w] /\ Setup!Move(o, "done")
        /\ UNCHANGED <<advisory, keys, runs>>
        /\ "done" \in Setup!Places \ TrackedPlaces
    BY <1>2 DEF Setup!InsertDecoy, Setup!Places, Setup!Ended, TrackedPlaces
  <2>2. w \in SUBSET {"placeholder", "decoy"}
    BY <1>0
  <2> HIDE DEF w, v
  <2> QED BY <1>0, <1>2, <2>1, <2>2, WriteKeeps
<1>3. CASE Setup!EnsureTravelerExists
  <2> DEFINE w == db.people \cup {"placeholder"}
  <2>1. db' = [db EXCEPT !.people = w] /\ UNCHANGED <<run, advisory, keys, runs>> /\ db.base
    BY <1>3 DEF Setup!EnsureTravelerExists
  <2>2. w \in SUBSET {"placeholder", "decoy"}
    BY <1>0
  <2> HIDE DEF w, v
  <2> QED BY <1>0, <2>1, <2>2, WriteKeeps
<1>4. QED BY <1>1, <1>2, <1>3

LEMMA SetupStep ==
  ASSUME Setup!SetupAssumption, Setup!IInv, [Setup!Next]_(Setup!vars)
  PROVE Setup!IInv'
<1>1. CASE UNCHANGED Setup!vars
  <2>1. /\ UNCHANGED <<db, run, advisory, keys, runs>> /\ Setup!Applied' = Setup!Applied
    BY <1>1 DEF Setup!vars, Setup!Applied
  <2>2. Setup!TypeOK' /\ Setup!LedgerIsInOrder' /\ Setup!EmptyBeforeInit' /\ Setup!SeedIsWholeOnce'
    BY <2>1 DEF Setup!IInv, Setup!TypeOK, Setup!LedgerIsInOrder, Setup!EmptyBeforeInit,
       Setup!SeedIsWholeOnce
  <2>3. ASSUME NEW o \in Operators
         PROVE  Setup!InitFits(o)' /\ Setup!MigrationFits(o)' /\ Setup!SeedFits(o)'
    BY <2>1 DEF Setup!IInv, Setup!InitFits, Setup!MigrationFits, Setup!SeedFits
  <2> QED BY <2>2, <2>3 DEF Setup!IInv
<1>2. ASSUME NEW o \in Operators, NEW script \in Scripts, Setup!Start(o, script) PROVE Setup!IInv'
  BY <1>2, StartKeeps
<1>3. ASSUME NEW o \in Operators,
             Setup!InitStep(o) \/ Setup!MigrateStep(o) \/ Setup!SeedStep(o) \/ Setup!OtherStep(o)
             \/ Setup!Fail(o) \/ Setup!Die(o) \/ Setup!Expire(o)
      PROVE Setup!IInv'
  BY <1>3, InitStepsKeep, InitCommitKeeps, EnsureTableKeeps, ListKeeps, StatementsKeeps, MarkKeeps,
     MigrationCommitKeeps, SeedStepsKeep, SeedCommitKeeps, BindsKeep, PeopleKeep, DeathsKeep DEF
     Setup!InitStep, Setup!MigrateStep, Setup!SeedStep, Setup!OtherStep
<1>4. CASE Setup!EnsureTravelerExists
  <2>1. CASE Operators = {}
    <3>1. /\ db' = [db EXCEPT !.people = db.people \cup {"placeholder"}]
          /\ UNCHANGED <<run, advisory, keys, runs>>
          /\ db.base
      BY <1>4 DEF Setup!EnsureTravelerExists
    <3> QED BY <2>1, <3>1 DEF Setup!IInv, Setup!TypeOK, Setup!LedgerIsInOrder, Setup!Applied,
               Setup!EmptyBeforeInit, Setup!SeedIsWholeOnce
  <2>2. CASE Operators # {}
    <3>1. PICK o \in Operators : TRUE
      BY <2>2
    <3> QED BY <1>4, <3>1, PeopleKeep
  <2> QED BY <2>1, <2>2
<1>5. QED BY <1>1, <1>2, <1>3, <1>4 DEF Setup!Next

SetupPromise == Setup!TypeOK /\ Setup!OnceAndInOrder /\ Setup!SeedIsWholeOnce

LEMMA SetupSays == ASSUME Setup!SetupAssumption, Setup!IInv PROVE SetupPromise
<1>1. Setup!OnceAndInOrder
  <2>1. /\ db.effects = [i \in 1..Setup!Applied |-> i]
        /\ db.ledger = 1..Setup!Applied /\ Setup!Applied \in Nat
    BY DEF Setup!IInv, Setup!LedgerIsInOrder, Setup!TypeOK, Setup!Applied
  <2>2. Setup!Range(db.effects) = 1..Setup!Applied
    BY <2>1 DEF Setup!Range
  <2> QED BY <2>1, <2>2 DEF Setup!OnceAndInOrder, Setup!Applied
<1>2. QED BY <1>1 DEF Setup!IInv, SetupPromise

\* Tables are created where there were none, so nothing is lost in them; a seed adds.
LEMMA StepKeepsData ==
  ASSUME Setup!SetupAssumption, Setup!IInv, [Setup!Next]_(Setup!vars)
  PROVE Setup!Keeps
<1>1. CASE UNCHANGED db
  BY <1>1 DEF Setup!IInv, Setup!TypeOK, Setup!Keeps
<1>2. ASSUME NEW o \in Operators, Setup!InitCommit(o) PROVE Setup!Keeps
  <2>1. db.seeded = {} /\ db.lines = 0 /\ db.people = {}
    BY <1>2 DEF Setup!InitCommit, Setup!IInv, Setup!InitFits, Setup!EmptyBeforeInit
  <2>2. db'.seeded = {} /\ db'.lines = 0 /\ db'.people = {}
    BY <1>2 DEF Setup!InitCommit, Setup!IInv, Setup!TypeOK
  <2> QED BY <2>1, <2>2 DEF Setup!Keeps
<1>3. ASSUME NEW o \in Operators, Setup!SeedCommit(o) PROVE Setup!Keeps
  <2>1. db.lines \in Nat
    BY DEF Setup!IInv, Setup!TypeOK
  <2>2. CASE run[o].script = "seed"
    <3>1. db'.seeded = db.seeded \cup Setup!Sections /\ db'.lines = db.lines + 1
      BY <1>3, <2>2 DEF Setup!SeedCommit, Setup!IInv, Setup!TypeOK
    <3> QED BY <2>1, <3>1 DEF Setup!Keeps
  <2>3. CASE run[o].script # "seed"
    <3>1. /\ db'.seeded = db.seeded \cup {Setup!Packages} /\ db'.lines = db.lines + 0
          /\ db'.people = db.people
      BY <1>3, <2>3 DEF Setup!SeedCommit, Setup!IInv, Setup!TypeOK
    <3> QED BY <2>1, <3>1 DEF Setup!Keeps
  <2> QED BY <2>2, <2>3
<1>4. ASSUME NEW o \in Operators,
             Setup!EnsureTable(o) \/ Setup!MigrationCommit(o)
             \/ Setup!BindDrop(o) \/ Setup!BindCreate(o) \/ Setup!InsertDecoy(o)
      PROVE Setup!Keeps
  <2>1. db.lines \in Nat
    BY DEF Setup!IInv, Setup!TypeOK
  <2>2. db'.seeded = db.seeded /\ db'.lines = db.lines /\ db.people \subseteq db'.people
    <3>1. CASE Setup!EnsureTable(o) \/ Setup!MigrationCommit(o)
      BY <3>1 DEF Setup!EnsureTable, Setup!MigrationCommit, Setup!IInv, Setup!TypeOK
    <3>2. CASE Setup!BindDrop(o) \/ Setup!BindCreate(o)
      BY <3>2 DEF Setup!BindDrop, Setup!BindCreate, Setup!End, Setup!IInv, Setup!TypeOK
    <3>3. CASE Setup!InsertDecoy(o)
      BY <3>3 DEF Setup!InsertDecoy, Setup!End, Setup!IInv, Setup!TypeOK
    <3> QED BY <1>4, <3>1, <3>2, <3>3
  <2> QED BY <2>1, <2>2 DEF Setup!Keeps
<1>5. CASE Setup!EnsureTravelerExists
  BY <1>5 DEF Setup!EnsureTravelerExists, Setup!IInv, Setup!TypeOK, Setup!Keeps
<1>6. \/ UNCHANGED db \/ Setup!EnsureTravelerExists
      \/ \E o \in Operators : Setup!InitCommit(o) \/ Setup!SeedCommit(o)
                              \/ Setup!EnsureTable(o) \/ Setup!MigrationCommit(o)
                              \/ Setup!BindDrop(o) \/ Setup!BindCreate(o) \/ Setup!InsertDecoy(o)
  BY DEF Setup!Next, Setup!vars, Setup!Start, Setup!InitStep, Setup!MigrateStep, Setup!SeedStep,
     Setup!OtherStep, Setup!Fail, Setup!Die, Setup!Expire, Setup!End, Setup!StepTo, Setup!InitLook,
     Setup!InitLock, Setup!InitLookAgain, Setup!List, Setup!Statements, Setup!Mark, Setup!SeedLock,
     Setup!RequireEmpty, Setup!WriteSection
<1>7. QED BY <1>1, <1>2, <1>3, <1>4, <1>5, <1>6

\* However many operators run the schema scripts at once, each migration takes effect once and in
\* order, the seed is there whole, not at all or as the catalog alone, and nothing that was seeded
\* or written is wiped (init_aurora_schema.py, apply_migrations.py, seed_data.py).
THEOREM SetupKept ==
  ASSUME Setup!SetupAssumption
  PROVE Setup!Spec => []SetupPromise /\ [][Setup!Keeps]_(Setup!vars)
<1>1. Setup!Init => Setup!IInv
  BY SetupInit
<1>2. Setup!IInv /\ [Setup!Next]_(Setup!vars) => Setup!IInv'
  BY SetupStep
<1>3. Setup!IInv => SetupPromise
  BY SetupSays
<1>4. Setup!IInv /\ [Setup!Next]_(Setup!vars) => [Setup!Keeps]_(Setup!vars)
  BY StepKeepsData
<1>5. QED BY <1>1, <1>2, <1>3, <1>4, PTL DEF Setup!Spec

-----------------------------------------------------------------------------
(* The checkpoints of the workflow example. *)

CONSTANTS Workers, Overlap, MaxStarts, MaxVersion
VARIABLES checkpoints, blobs, writes, base, value, id, size, parts, tx, row, seg, starts
Saver == INSTANCE CheckpointSaver

SaverPromise == Saver!TypeOK /\ Saver!WritesAreWhole /\ Saver!BatchIsWhole
                /\ Saver!CancelledHoldsNoLock /\ (~Overlap => Saver!VisibleIsWhole)

SaverTyped == Saver!TypeOK /\ Saver!Known
AtBatch(w) == Saver!ResumeFits(w) /\ Saver!TaskFits(w) /\ Saver!RestFits(w)
WritesStored == Saver!WritesAreWhole /\ Saver!OutputIsWhole
SaverPlaces == {"idle", "read", "resume", "task", "blob", "row", "dead"}

\* A value is two segments, in order.
LEMMA WholeIs == ASSUME NEW v
  PROVE /\ Saver!Whole(v)[1] = <<v, 1>> /\ Saver!Whole(v)[2] = <<v, 2>> /\ Len(Saver!Whole(v)) = 2
        /\ Append(<<Saver!Whole(v)[1]>>, Saver!Whole(v)[2]) = Saver!Whole(v)
        /\ Saver!Whole(v)[1][1] = v
  BY DEF Saver!Whole, Saver!Segments

LEMMA WholeIsPieces == ASSUME NEW v \in Saver!Values PROVE Saver!Whole(v) \in Seq(Saver!Pieces)
                                   /\ Saver!Whole(v)[1] \in Saver!Pieces
                                   /\ Saver!Whole(v)[2] \in Saver!Pieces
  BY DEF Saver!Whole, Saver!Segments, Saver!Pieces

LEMMA BatchesAre ==
  /\ DOMAIN Saver!Batches = {"resume", "task"}
  /\ Len(Saver!Batches["resume"]) = 1 /\ Saver!Batches["resume"][1] = "answer"
  /\ Len(Saver!Batches["task"]) = 2 /\ Saver!Batches["task"][1] = "first"
  /\ Saver!Batches["task"][2] = "second"
  /\ Saver!ToSet(Saver!Batches.task) = {"first", "second"}
<1>1. Saver!ToSet(<<"first", "second">>) = {"first", "second"}
  BY DEF Saver!ToSet
<1> QED BY <1>1 DEF Saver!Batches

LEMMA PutHas == ASSUME NEW f, NEW k, NEW v
  PROVE /\ DOMAIN Saver!Put(f, k, v) = DOMAIN f \union {k} /\ Saver!Put(f, k, v)[k] = v
        /\ \A x \in DOMAIN f : x # k => Saver!Put(f, k, v)[x] = f[x]
  BY DEF Saver!Put

\* What the invariant says to a reader of the tables.
LEMMA SaverSays == ASSUME Saver!IInv PROVE SaverPromise
<1>1. Saver!BatchIsWhole
  <2> SUFFICES ASSUME NEW c \in checkpoints,
                      {<<c.id, r>> :
                         r \in Saver!ToSet(Saver!Batches.task)} \intersect DOMAIN writes # {}
               PROVE \E v \in Saver!Values :
                  \A k \in {<<c.id, r>> : r \in Saver!ToSet(Saver!Batches.task)} :
                        k \in DOMAIN writes /\ writes[k][1][1] = v
    BY DEF Saver!BatchIsWhole
  <2>1. {<<c.id, r>> : r \in Saver!ToSet(Saver!Batches.task)} =
           {<<c.id, "first">>, <<c.id, "second">>}
    BY BatchesAre
  <2>2. c.id \in Nat
    BY DEF Saver!IInv, Saver!TypeOK
  <2>3. PICK v \in Saver!Values : /\ <<c.id, "first">> \in DOMAIN writes
                                  /\ <<c.id, "second">> \in DOMAIN writes
                                  /\ writes[<<c.id, "first">>] = Saver!Whole(v)
                                  /\ writes[<<c.id, "second">>] = Saver!Whole(v)
    BY <2>1, <2>2 DEF Saver!IInv, Saver!OutputIsWhole
  <2>4. \A k \in {<<c.id, "first">>, <<c.id, "second">>} :
           k \in DOMAIN writes /\ writes[k][1][1] = v
    BY <2>3, WholeIs
  <2> QED BY <2>1, <2>4, Zenon
<1>2. Saver!CancelledHoldsNoLock
  <2>1. \A w \in Workers : Saver!RestFits(w)
    BY DEF Saver!IInv
  <2> QED BY <2>1 DEF Saver!RestFits, Saver!CancelledHoldsNoLock
<1>3. QED BY <1>1, <1>2 DEF Saver!IInv, Saver!AloneFits, SaverPromise

-----------------------------------------------------------------------------
\* The others' place in their batches is not disturbed.
LEMMA OtherFits ==
  ASSUME NEW x \in Workers, AtBatch(x), DOMAIN writes \subseteq DOMAIN writes',
         pc'[x] = pc[x], row'[x] = row[x], seg'[x] = seg[x], tx'[x] = tx[x],
         base'[x] = base[x], value'[x] = value[x]
  PROVE AtBatch(x)'
<1>1. Saver!ResumeFits(x)'
  BY DEF AtBatch, Saver!ResumeFits, Saver!Holds, Saver!Has, Saver!Began, Saver!Answer, Saver!Mine
<1>2. Saver!TaskFits(x)'
  BY DEF AtBatch, Saver!TaskFits, Saver!Holds, Saver!Has, Saver!Began, Saver!Output, Saver!Mine
<1>3. Saver!RestFits(x)'
  BY DEF AtBatch, Saver!RestFits, Saver!Mine
<1> QED BY <1>1, <1>2, <1>3 DEF AtBatch

LEMMA StoredStays == ASSUME WritesStored, UNCHANGED writes PROVE WritesStored'
  BY DEF WritesStored, Saver!WritesAreWhole, Saver!OutputIsWhole, Saver!Values

LEMMA LocksStay ==
  ASSUME Saver!LocksAreApart, UNCHANGED writes, NEW w \in Workers, tx' = [tx EXCEPT ![w] = <<>>],
         DOMAIN tx = Workers
  PROVE Saver!LocksAreApart'
<1>1. DOMAIN <<>> = {}
  OBVIOUS
<1>2. tx'[w] = <<>> /\ \A x \in Workers \ {w} : tx'[x] = tx[x]
  OBVIOUS
<1>3. \A x \in Workers : DOMAIN tx'[x] \subseteq DOMAIN tx[x]
  BY <1>1, <1>2
<1>4. QED BY <1>3 DEF Saver!LocksAreApart

\* What a step that leaves ids and rows alone does to them.
LEMMA IdsStay ==
  ASSUME Saver!IdsAreNew, UNCHANGED <<checkpoints, id>>,
         \A w \in Workers : pc'[w] \in {"blob", "row"} => pc[w] \in {"blob", "row"}
  PROVE Saver!IdsAreNew'
<1>1. Saver!Ids' = Saver!Ids
  BY DEF Saver!Ids
<1> QED BY <1>1 DEF Saver!IdsAreNew

LEMMA BlobsStay ==
  ASSUME Saver!BlobsAreThere, UNCHANGED <<checkpoints, blobs, base>>,
         \A w \in Workers : /\ pc'[w] = "read" => pc[w] = "read"
                            /\ pc'[w] = "row" => pc[w] = "row"
                            /\ pc'[w] = "blob" /\ seg'[w] = 2 => pc[w] = "blob" /\ seg[w] = 2
  PROVE Saver!BlobsAreThere'
  BY DEF Saver!BlobsAreThere

\* One worker at a time, and it goes on or stops, and writes no blob or row.
LEMMA AloneStays ==
  ASSUME Saver!AloneFits, UNCHANGED <<checkpoints, blobs, base, id, size, parts>>,
         \A w \in Workers : /\ Saver!AtWork(w)' => Saver!AtWork(w)
                            /\ pc'[w] \in {"blob", "row"} => pc[w] = pc'[w]
                            /\ pc'[w] = "resume" => pc[w] = "resume"
                            /\ pc'[w] = "read" => pc[w] = "read"
                            /\ pc'[w] = "blob" => seg'[w] = seg[w]
  PROVE Saver!AloneFits'
<1>1. Saver!OneAtWork'
  BY DEF Saver!AloneFits, Saver!OneAtWork
<1>2. Saver!VersionsFollow'
  BY DEF Saver!AloneFits, Saver!VersionsFollow
<1>3. Saver!VisibleIsWhole'
  BY DEF Saver!AloneFits, Saver!VisibleIsWhole, Saver!Values
<1>4. ASSUME NEW w \in Workers
      PROVE (Saver!OfTheNewest(w) /\ Saver!Newer(w) /\ Saver!ReadsAsWritten(w)
         /\ Saver!PutsWhole(w))'
  <2>1. Saver!OfTheNewest(w)' /\ Saver!Newer(w)'
    BY DEF Saver!AloneFits, Saver!OfTheNewest, Saver!Newer
  <2>2. Saver!ReadsAsWritten(w)'
    BY DEF Saver!AloneFits, Saver!ReadsAsWritten
  <2>3. Saver!PutsWhole(w)'
    BY DEF Saver!AloneFits, Saver!PutsWhole, Saver!Mine
  <2> QED BY <2>1, <2>2, <2>3
<1> QED BY <1>1, <1>2, <1>3, <1>4 DEF Saver!AloneFits

LEMMA TypesStay ==
  ASSUME SaverTyped, UNCHANGED <<checkpoints, blobs, base, id, size, parts, starts>>,
         pc' \in [Workers -> SaverPlaces],
         row' \in [Workers -> 1..3], seg' \in [Workers -> 1..Saver!Segments + 1],
         DOMAIN value' = Workers, DOMAIN tx' = Workers,
         \A w \in Workers : Saver!AtWork(w)' => Saver!AtWork(w)
  PROVE SaverTyped'
<1>1. Saver!TypeOK'
  BY DEF SaverTyped, Saver!TypeOK, Saver!Known, SaverPlaces
<1>2. Saver!Known'
  BY DEF SaverTyped, Saver!Known, SaverPlaces
<1> QED BY <1>1, <1>2 DEF SaverTyped

LEMMA SaverGives ==
  ASSUME SaverTyped', Saver!IdsAreNew', WritesStored', Saver!LocksAreApart', Saver!BlobsAreThere',
         \A w \in Workers : AtBatch(w)', (~Overlap) => Saver!AloneFits'
  PROVE Saver!IInv'
  BY DEF Saver!IInv, SaverTyped, WritesStored, AtBatch

LEMMA SaverHas ==
  ASSUME Saver!IInv
  PROVE /\ SaverTyped /\ Saver!IdsAreNew /\ WritesStored /\ Saver!LocksAreApart
        /\ Saver!BlobsAreThere
        /\ \A w \in Workers : AtBatch(w)
        /\ (~Overlap) => Saver!AloneFits
  BY DEF Saver!IInv, SaverTyped, WritesStored, AtBatch

-----------------------------------------------------------------------------
LEMMA SaverInit == ASSUME Saver!ConstantsAreUsable, Saver!Init PROVE Saver!IInv
<1>0. DOMAIN <<>> = {} /\ Len(<<>>) = 0 /\ <<>> \in Seq(Saver!Pieces)
  BY EmptySeq
<1>1. /\ Saver!NoCheckpoint.id = 0 /\ Saver!NoCheckpoint.version = 0
      /\ Saver!NoCheckpoint.parent = 0
      /\ Saver!NoCheckpoint \in [id : Nat, version : 0..MaxVersion, parent : Nat]
  BY DEF Saver!NoCheckpoint, Saver!ConstantsAreUsable
<1>2. Saver!TypeOK
  BY <1>0, <1>1 DEF Saver!Init, Saver!TypeOK, Saver!ConstantsAreUsable, Saver!Segments
<1>3. Saver!Known
  BY <1>0, <1>1 DEF Saver!Init, Saver!Known, Saver!AtWork, Saver!Segments
<1>4. Saver!IdsAreNew
  <2>1. Saver!Ids = {0}
    BY <1>1 DEF Saver!Init, Saver!Ids
  <2> QED BY <1>1, <2>1 DEF Saver!Init, Saver!IdsAreNew
<1>5. WritesStored
  BY <1>0 DEF Saver!Init, WritesStored, Saver!WritesAreWhole, Saver!OutputIsWhole
<1>6. Saver!LocksAreApart /\ Saver!BlobsAreThere
  BY <1>0 DEF Saver!Init, Saver!LocksAreApart, Saver!BlobsAreThere
<1>7. \A w \in Workers : AtBatch(w)
  BY DEF Saver!Init, AtBatch, Saver!ResumeFits, Saver!TaskFits, Saver!RestFits
<1>8. Saver!AloneFits
  BY <1>1 DEF Saver!Init, Saver!AloneFits, Saver!OneAtWork, Saver!VersionsFollow,
     Saver!VisibleIsWhole, Saver!AtWork, Saver!OfTheNewest, Saver!Newer, Saver!ReadsAsWritten,
     Saver!PutsWhole
<1> QED BY <1>2, <1>3, <1>4, <1>5, <1>6, <1>7, <1>8 DEF Saver!IInv, SaverTyped, WritesStored,
           AtBatch

LEMMA SaverIdles == ASSUME Saver!IInv, UNCHANGED Saver!vars PROVE Saver!IInv'
<1>1. SaverTyped' /\ Saver!IdsAreNew' /\ WritesStored' /\ Saver!LocksAreApart'
      /\ Saver!BlobsAreThere'
  <2>1. SaverTyped'
    BY SaverHas, TypesStay DEF Saver!vars, Saver!reading, Saver!batch, SaverTyped, Saver!Known,
       SaverPlaces, Saver!AtWork
  <2>2. Saver!IdsAreNew'
    BY SaverHas, IdsStay DEF Saver!vars
  <2>3. WritesStored'
    BY SaverHas, StoredStays DEF Saver!vars
  <2>4. Saver!LocksAreApart' /\ Saver!BlobsAreThere'
    BY SaverHas DEF Saver!vars, Saver!batch, Saver!LocksAreApart, Saver!BlobsAreThere
  <2> QED BY <2>1, <2>2, <2>3, <2>4
<1>2. \A w \in Workers : AtBatch(w)'
  BY SaverHas, OtherFits DEF Saver!vars, Saver!batch
<1>3. (~Overlap) => Saver!AloneFits'
  BY SaverHas, AloneStays DEF Saver!vars, Saver!reading, Saver!batch, Saver!AtWork
<1> QED BY <1>1, <1>2, <1>3, SaverGives

\* The newest checkpoint is one, and no other is as new.
LEMMA LatestIs == ASSUME SaverTyped, Saver!IdsAreNew
  PROVE Saver!Latest \in checkpoints /\ \A d \in checkpoints : d.id <= Saver!Latest.id
  BY DEF Saver!Latest, Saver!IdsAreNew

LEMMA NewIdIs == ASSUME SaverTyped, Saver!IdsAreNew, NEW w \in Workers
  PROVE Saver!NewId(w) \in Nat \ {0} /\ \A n \in Saver!Ids : n < Saver!NewId(w)
<1> DEFINE top == CHOOSE m \in Saver!Ids : \A n \in Saver!Ids : n <= m
<1>1. top \in Saver!Ids /\ \A n \in Saver!Ids : n <= top
  BY DEF Saver!IdsAreNew
<1>2. Saver!Ids \subseteq Nat
  BY DEF Saver!Ids, SaverTyped, Saver!TypeOK, Saver!Known
<1>3. Saver!NewId(w) = 1 + top
  BY DEF Saver!NewId
<1> HIDE DEF top
<1> QED BY <1>1, <1>2, <1>3

LEMMA LoadKeeps ==
  ASSUME Saver!ConstantsAreUsable, Saver!IInv, NEW w \in Workers, Saver!Load(w)
  PROVE Saver!IInv'
<1>00. MaxStarts \in Nat
  BY DEF Saver!ConstantsAreUsable
<1>0. /\ SaverTyped /\ Saver!IdsAreNew /\ WritesStored /\ Saver!LocksAreApart /\ Saver!BlobsAreThere
      /\ \A x \in Workers : AtBatch(x)
      /\ (~Overlap) => Saver!AloneFits
  BY SaverHas
<1>1. Saver!Latest \in checkpoints /\ \A d \in checkpoints : d.id <= Saver!Latest.id
  BY <1>0, LatestIs
<1>2. /\ pc[w] = "idle" /\ starts < MaxStarts /\ starts' = starts + 1
      /\ Saver!Latest.version < MaxVersion
      /\ Overlap \/ \A x \in Workers : pc[x] \in {"idle", "dead"}
      /\ base' = [base EXCEPT ![w] = Saver!Latest] /\ parts' = [parts EXCEPT ![w] = <<>>]
      /\ UNCHANGED <<checkpoints, blobs, writes, value, id, tx, row, seg>>
  BY DEF Saver!Load, Saver!batch
<1>3. \/ Saver!Latest = Saver!NoCheckpoint /\ pc' = [pc EXCEPT ![w] = "resume"] /\ size' = size
      \/ /\ Saver!Latest # Saver!NoCheckpoint /\ pc' = [pc EXCEPT ![w] = "read"]
         /\ size' = [size EXCEPT ![w] = Len(blobs[Saver!Latest.version])]
  BY DEF Saver!Load, Saver!To
<1>4. Saver!Latest # Saver!NoCheckpoint =>
         Saver!Latest.version \in DOMAIN blobs /\ Len(blobs[Saver!Latest.version]) \in Nat
  BY <1>0, <1>1, LenProperties DEF Saver!BlobsAreThere, SaverTyped, Saver!Known
<1>5. /\ pc' \in [Workers -> SaverPlaces] /\ base' \in [Workers -> checkpoints]
      /\ size' \in [Workers -> Nat]
      /\ parts' \in [Workers -> Seq(Saver!Pieces)] /\ parts'[w] = <<>> /\ Len(parts'[w]) = 0
  <2>1. pc' \in [Workers -> SaverPlaces]
    BY <1>0, <1>3 DEF SaverTyped, Saver!Known, SaverPlaces
  <2>2. base' \in [Workers -> checkpoints]
    BY <1>0, <1>1, <1>2 DEF SaverTyped, Saver!Known
  <2>3. size' \in [Workers -> Nat]
    BY <1>0, <1>3, <1>4 DEF SaverTyped, Saver!Known
  <2>4. parts' \in [Workers -> Seq(Saver!Pieces)] /\ parts'[w] = <<>> /\ Len(parts'[w]) = 0
    BY <1>0, <1>2, EmptySeq DEF SaverTyped, Saver!Known
  <2> QED BY <2>1, <2>2, <2>3, <2>4
<1>6. \A x \in Workers \ {w} : pc'[x] = pc[x] /\ base'[x] = base[x] /\ size'[x] = size[x]
                              /\ parts'[x] = parts[x]
  <2>1. \A x \in Workers \ {w} : pc'[x] = pc[x] /\ size'[x] = size[x]
    BY <1>0, <1>3 DEF SaverTyped, Saver!Known
  <2>2. \A x \in Workers \ {w} : base'[x] = base[x] /\ parts'[x] = parts[x]
    BY <1>0, <1>2 DEF SaverTyped, Saver!Known
  <2> QED BY <2>1, <2>2
<1>7. base'[w] = Saver!Latest /\ pc'[w] \in {"resume", "read"}
  BY <1>0, <1>2, <1>3 DEF SaverTyped, Saver!Known
<1>8. SaverTyped'
  <2>1. Saver!TypeOK'
    <3>1. /\ \A x \in Workers : /\ pc'[x] \in SaverPlaces /\ base'[x] \in checkpoints'
                                /\ seg'[x] \in 1..Saver!Segments + 1 /\ row'[x] \in 1..3
          /\ starts' \in 0..MaxStarts /\ DOMAIN blobs' \subseteq 1..MaxVersion
          /\ \A c \in checkpoints' : c.id \in Nat /\ c.version \in 0..MaxVersion
          /\ \A c, d \in checkpoints' : c.id = d.id => c = d
      <4>1. \A x \in Workers : /\ pc'[x] \in SaverPlaces /\ base'[x] \in checkpoints'
                                /\ seg'[x] \in 1..Saver!Segments + 1 /\ row'[x] \in 1..3
        BY <1>0, <1>2, <1>5 DEF SaverTyped, Saver!TypeOK
      <4>2. starts' \in 0..MaxStarts
        BY <1>0, <1>2, <1>00 DEF SaverTyped, Saver!TypeOK
      <4> QED BY <1>0, <1>2, <4>1, <4>2 DEF SaverTyped, Saver!TypeOK
    <3>2. \A x \in Workers : Len(parts'[x]) <= size'[x]
      <4>1. size'[w] \in Nat /\ Len(parts'[w]) = 0
        BY <1>5
      <4>2. \A x \in Workers \ {w} : Len(parts'[x]) <= size'[x]
        BY <1>0, <1>6 DEF SaverTyped, Saver!TypeOK
      <4> QED BY <4>1, <4>2
    <3> QED BY <3>1, <3>2 DEF Saver!TypeOK, SaverPlaces
  <2>2. Saver!Known'
    <3>1. \A x \in Workers : Saver!AtWork(x)' => base'[x].version < MaxVersion
      BY <1>0, <1>2, <1>6, <1>7 DEF SaverTyped, Saver!Known, Saver!AtWork
    <3> QED BY <1>0, <1>2, <1>5, <3>1 DEF SaverTyped, Saver!Known, SaverPlaces
  <2> QED BY <2>1, <2>2 DEF SaverTyped
<1>9. Saver!IdsAreNew'
  BY <1>0, <1>2, <1>6, <1>7, IdsStay
<1>10. WritesStored' /\ Saver!LocksAreApart'
  BY <1>0, <1>2, StoredStays DEF Saver!LocksAreApart
<1>11. Saver!BlobsAreThere'
  <2>1. pc'[w] = "read" => Saver!Latest # Saver!NoCheckpoint
    BY <1>0, <1>3 DEF SaverTyped, Saver!Known
  <2> QED BY <1>0, <1>2, <1>6, <1>7, <2>1 DEF Saver!BlobsAreThere
<1>12. \A x \in Workers : AtBatch(x)'
  <2>1. AtBatch(w)'
    <3>1. tx[w] = <<>> /\ row[w] = 1 /\ seg[w] = 1
      BY <1>0, <1>2 DEF AtBatch, Saver!RestFits
    <3>2. DOMAIN <<>> = {}
      OBVIOUS
    <3> QED BY <1>2, <1>7, <3>1, <3>2 DEF AtBatch, Saver!ResumeFits, Saver!TaskFits,
               Saver!RestFits, Saver!Holds
  <2>2. ASSUME NEW x \in Workers \ {w} PROVE AtBatch(x)'
    BY <1>0, <1>2, <1>6, OtherFits
  <2> QED BY <2>1, <2>2
<1>13. ASSUME ~Overlap PROVE Saver!AloneFits'
  <2>0. Saver!AloneFits /\ \A x \in Workers : pc[x] \in {"idle", "dead"}
    BY <1>0, <1>2, <1>13
  <2>1. \A x \in Workers : Saver!AtWork(x)' => x = w
    BY <1>6, <2>0 DEF Saver!AtWork
  <2>2. Saver!OneAtWork' /\ Saver!VersionsFollow'
    BY <1>2, <2>0, <2>1 DEF Saver!AloneFits, Saver!OneAtWork, Saver!VersionsFollow
  <2>3. Saver!VisibleIsWhole'
    <3>1. pc'[w] = "resume" => base'[w] = Saver!NoCheckpoint
      BY <1>0, <1>3, <1>7 DEF SaverTyped, Saver!Known
    <3>2. \A x \in Workers : pc'[x] = "resume" => x = w
      BY <2>1 DEF Saver!AtWork
    <3> QED BY <1>2, <2>0, <3>1, <3>2 DEF Saver!AloneFits, Saver!VisibleIsWhole, Saver!Values
  <2>4. Saver!OfTheNewest(w)'
    BY <1>0, <1>1, <1>2, <1>7, <2>0 DEF Saver!AloneFits, Saver!OfTheNewest, Saver!VersionsFollow,
       SaverTyped, Saver!TypeOK
  <2>5. Saver!ReadsAsWritten(w)'
    <3>1. ASSUME pc'[w] = "read" PROVE size'[w] = Saver!Segments
      <4>1. Saver!Latest # Saver!NoCheckpoint /\ size'[w] = Len(blobs[Saver!Latest.version])
        BY <1>0, <1>3, <3>1 DEF SaverTyped, Saver!Known
      <4>2. PICK v \in Saver!Values : blobs[Saver!Latest.version] = Saver!Whole(v)
        BY <1>1, <2>0, <4>1 DEF Saver!AloneFits, Saver!VisibleIsWhole
      <4> QED BY <4>1, <4>2, WholeIs DEF Saver!Segments
    <3> QED BY <1>5, <3>1 DEF Saver!ReadsAsWritten
  <2>6. \A x \in Workers : (Saver!OfTheNewest(x) /\ Saver!Newer(x) /\ Saver!ReadsAsWritten(x)
        /\ Saver!PutsWhole(x))'
    <3>1. \A x \in Workers \ {w} : pc'[x] \in {"idle", "dead"}
      BY <1>6, <2>0
    <3>2. Saver!Newer(w)' /\ Saver!PutsWhole(w)'
      BY <1>7 DEF Saver!Newer, Saver!PutsWhole
    <3>3. \A x \in Workers \ {w} : (Saver!OfTheNewest(x) /\ Saver!Newer(x)
          /\ Saver!ReadsAsWritten(x) /\ Saver!PutsWhole(x))'
      BY <3>1 DEF Saver!OfTheNewest, Saver!Newer, Saver!ReadsAsWritten, Saver!PutsWhole,
         Saver!AtWork
    <3> QED BY <2>4, <2>5, <3>2, <3>3
  <2> QED BY <2>2, <2>3, <2>6 DEF Saver!AloneFits
<1> QED BY <1>8, <1>9, <1>10, <1>11, <1>12, <1>13, SaverGives

LEMMA SaverReadKeeps == ASSUME Saver!IInv, NEW w \in Workers, Saver!Read(w) PROVE Saver!IInv'
<1>0. /\ SaverTyped /\ Saver!IdsAreNew /\ WritesStored /\ Saver!LocksAreApart /\ Saver!BlobsAreThere
      /\ \A x \in Workers : AtBatch(x)
      /\ (~Overlap) => Saver!AloneFits
  BY SaverHas
<1> DEFINE stored == blobs[base[w].version]
<1>1. /\ pc[w] = "read"
      /\ UNCHANGED <<checkpoints, blobs, writes, base, value, id, size, tx, row, seg, starts>>
  BY DEF Saver!Read, Saver!batch
<1>2. \/ Len(parts[w]) = size[w] /\ pc' = [pc EXCEPT ![w] = "resume"] /\ parts' = parts
      \/ /\ Len(parts[w]) # size[w] /\ Len(parts[w]) + 1 > Len(stored)
         /\ pc' = [pc EXCEPT ![w] = "idle"] /\ parts' = parts
      \/ /\ Len(parts[w]) # size[w] /\ ~(Len(parts[w]) + 1 > Len(stored)) /\ pc' = pc
         /\ parts' = [parts EXCEPT ![w] = Append(parts[w], stored[Len(parts[w]) + 1])]
  BY DEF Saver!Read, Saver!To
<1>3. /\ stored \in Seq(Saver!Pieces) /\ Len(stored) \in Nat /\ parts[w] \in Seq(Saver!Pieces)
      /\ Len(parts[w]) \in Nat /\ size[w] \in Nat /\ Len(parts[w]) <= size[w]
  <2>1. base[w] \in checkpoints /\ base[w] # Saver!NoCheckpoint
    BY <1>0, <1>1 DEF SaverTyped, Saver!Known, Saver!BlobsAreThere
  <2>2. base[w].version \in DOMAIN blobs
    BY <1>0, <2>1 DEF Saver!BlobsAreThere
  <2>3. stored \in Seq(Saver!Pieces)
    BY <1>0, <2>2 DEF SaverTyped, Saver!Known
  <2> QED BY <1>0, <2>3, LenProperties DEF SaverTyped, Saver!TypeOK, Saver!Known
<1>4. \A x \in Workers \ {w} : pc'[x] = pc[x] /\ parts'[x] = parts[x]
  <2>1. \A x \in Workers \ {w} : pc'[x] = pc[x]
    BY <1>0, <1>2 DEF SaverTyped, Saver!Known
  <2>2. \A x \in Workers \ {w} : parts'[x] = parts[x]
    BY <1>0, <1>2 DEF SaverTyped, Saver!Known
  <2> QED BY <2>1, <2>2
<1>5. \/ Len(parts[w]) = size[w] /\ pc'[w] = "resume" /\ parts'[w] = parts[w]
      \/ pc'[w] = "idle" /\ parts'[w] = parts[w]
      \/ /\ Len(parts[w]) < size[w] /\ Len(parts[w]) + 1 \in 1..Len(stored) /\ pc'[w] = "read"
         /\ parts'[w] = Append(parts[w], stored[Len(parts[w]) + 1])
  <2>1. CASE Len(parts[w]) = size[w] /\ pc' = [pc EXCEPT ![w] = "resume"] /\ parts' = parts
    BY <1>0, <2>1 DEF SaverTyped, Saver!Known
  <2>2. CASE pc' = [pc EXCEPT ![w] = "idle"] /\ parts' = parts
    BY <1>0, <2>2 DEF SaverTyped, Saver!Known
  <2>3. CASE /\ Len(parts[w]) # size[w] /\ ~(Len(parts[w]) + 1 > Len(stored)) /\ pc' = pc
             /\ parts' = [parts EXCEPT ![w] = Append(parts[w], stored[Len(parts[w]) + 1])]
    <3>1. pc'[w] = "read" /\ parts'[w] = Append(parts[w], stored[Len(parts[w]) + 1])
      BY <1>0, <1>1, <2>3 DEF SaverTyped, Saver!Known
    <3> HIDE DEF stored
    <3>2. Len(parts[w]) < size[w] /\ Len(parts[w]) + 1 \in 1..Len(stored)
      BY <1>3, <2>3
    <3> QED BY <3>1, <3>2
  <2> QED BY <1>2, <2>1, <2>2, <2>3
<1> HIDE DEF stored
<1>6. /\ parts'[w] \in Seq(Saver!Pieces) /\ Len(parts'[w]) <= size[w]
      /\ pc'[w] = "read" => /\ Len(parts'[w]) = Len(parts[w]) + 1
                            /\ \A i \in 1..Len(parts[w]) : parts'[w][i] = parts[w][i]
                            /\ parts'[w][Len(parts[w]) + 1] = stored[Len(parts[w]) + 1]
  <2>1. CASE parts'[w] = parts[w] /\ pc'[w] # "read"
    BY <1>3, <2>1
  <2>2. CASE /\ Len(parts[w]) < size[w] /\ Len(parts[w]) + 1 \in 1..Len(stored)
             /\ parts'[w] = Append(parts[w], stored[Len(parts[w]) + 1])
    <3>1. stored[Len(parts[w]) + 1] \in Saver!Pieces
      BY <1>3, <2>2, ElementOfSeq
    <3> QED BY <1>3, <2>2, <3>1, AppendProperties
  <2> QED BY <1>5, <2>1, <2>2
<1>7. SaverTyped'
  <2>1. pc' \in [Workers -> SaverPlaces] /\ parts' \in [Workers -> Seq(Saver!Pieces)]
    <3>1. pc' \in [Workers -> SaverPlaces]
      BY <1>0, <1>2 DEF SaverTyped, Saver!Known, SaverPlaces
    <3>2. DOMAIN parts' = Workers /\ \A x \in Workers : parts'[x] \in Seq(Saver!Pieces)
      BY <1>0, <1>2, <1>4, <1>6 DEF SaverTyped, Saver!Known
    <3>3. parts' = [x \in Workers |-> parts'[x]]
      BY <1>0, <1>2, <3>2 DEF SaverTyped, Saver!Known
    <3> QED BY <3>1, <3>2, <3>3
  <2>2. \A x \in Workers : Len(parts'[x]) <= size'[x]
    BY <1>0, <1>1, <1>4, <1>6 DEF SaverTyped, Saver!TypeOK
  <2>3. Saver!TypeOK'
    BY <1>0, <1>1, <2>1, <2>2 DEF SaverTyped, Saver!TypeOK, SaverPlaces
  <2>4. \A x \in Workers : Saver!AtWork(x)' => Saver!AtWork(x)
    BY <1>1, <1>4 DEF Saver!AtWork
  <2>5. Saver!Known'
    BY <1>0, <1>1, <2>1, <2>4 DEF SaverTyped, Saver!Known, SaverPlaces
  <2> QED BY <2>3, <2>5 DEF SaverTyped
<1>8. Saver!IdsAreNew'
  BY <1>0, <1>1, <1>4, <1>5, IdsStay
<1>9. WritesStored' /\ Saver!LocksAreApart' /\ Saver!BlobsAreThere'
  <2>1. WritesStored' /\ Saver!LocksAreApart'
    BY <1>0, <1>1, StoredStays DEF Saver!LocksAreApart
  <2>2. Saver!BlobsAreThere'
    BY <1>0, <1>1, <1>4, <1>5 DEF Saver!BlobsAreThere
  <2> QED BY <2>1, <2>2
<1>10. \A x \in Workers : AtBatch(x)'
  <2>1. AtBatch(w)'
    <3>1. tx[w] = <<>> /\ row[w] = 1 /\ seg[w] = 1
      BY <1>0, <1>1 DEF AtBatch, Saver!RestFits
    <3>2. DOMAIN <<>> = {}
      OBVIOUS
    <3> QED BY <1>1, <1>5, <3>1, <3>2 DEF AtBatch, Saver!ResumeFits, Saver!TaskFits,
               Saver!RestFits, Saver!Holds
  <2>2. ASSUME NEW x \in Workers \ {w} PROVE AtBatch(x)'
    BY <1>0, <1>1, <1>4, OtherFits
  <2> QED BY <2>1, <2>2
<1>11. ASSUME ~Overlap PROVE Saver!AloneFits'
  <2>0. Saver!AloneFits /\ Saver!AtWork(w)
    BY <1>0, <1>1, <1>11 DEF Saver!AtWork
  <2>1. \A x \in Workers : Saver!AtWork(x)' => x = w
    BY <1>4, <2>0 DEF Saver!AtWork, Saver!AloneFits, Saver!OneAtWork
  <2>2. Saver!OneAtWork' /\ Saver!VersionsFollow'
    BY <1>1, <2>0, <2>1 DEF Saver!AloneFits, Saver!OneAtWork, Saver!VersionsFollow
  <2>3. size[w] = Saver!Segments /\ \A i \in 1..Len(parts[w]) : parts[w][i] = stored[i]
    BY <1>1, <2>0 DEF Saver!AloneFits, Saver!ReadsAsWritten, stored
  <2>4. Saver!VisibleIsWhole'
    <3>1. ASSUME pc'[w] = "resume" PROVE \E v \in Saver!Values : parts'[w] = Saver!Whole(v)
      <4>1. PICK v \in Saver!Values : stored = Saver!Whole(v)
        <5>1. base[w] \in checkpoints /\ base[w] # Saver!NoCheckpoint
          BY <1>0, <1>1 DEF SaverTyped, Saver!Known, Saver!BlobsAreThere
        <5> QED BY <2>0, <5>1 DEF Saver!AloneFits, Saver!VisibleIsWhole, stored
      <4>2. Len(parts[w]) = 2 /\ parts'[w] = parts[w] /\ Len(Saver!Whole(v)) = 2
        BY <1>5, <2>3, <3>1, WholeIs DEF Saver!Segments
      <4>3. \A i \in 1..2 : parts[w][i] = Saver!Whole(v)[i]
        BY <2>3, <4>1, <4>2
      <4>4. parts[w] = Saver!Whole(v)
        BY <1>3, <4>2, <4>3, SeqEqual, WholeIsPieces
      <4> QED BY <4>2, <4>4
    <3>2. \A x \in Workers : pc'[x] = "resume" => x = w
      BY <2>1 DEF Saver!AtWork
    <3> QED BY <1>1, <2>0, <3>1, <3>2 DEF Saver!AloneFits, Saver!VisibleIsWhole, Saver!Values
  <2>5. \A x \in Workers \ {w} : (Saver!OfTheNewest(x) /\ Saver!Newer(x)
        /\ Saver!ReadsAsWritten(x) /\ Saver!PutsWhole(x))'
    BY <2>1 DEF Saver!OfTheNewest, Saver!Newer, Saver!ReadsAsWritten, Saver!PutsWhole, Saver!AtWork
  <2>6. Saver!OfTheNewest(w)' /\ Saver!Newer(w)' /\ Saver!PutsWhole(w)'
    BY <1>1, <1>5, <2>0 DEF Saver!OfTheNewest, Saver!Newer, Saver!PutsWhole, Saver!AtWork,
       Saver!AloneFits
  <2>7. Saver!ReadsAsWritten(w)'
    <3>1. ASSUME pc'[w] = "read", NEW i \in 1..Len(parts'[w]) PROVE parts'[w][i] = stored[i]
      BY <1>3, <1>6, <2>3, <3>1
    <3> QED BY <1>1, <2>3, <3>1 DEF Saver!ReadsAsWritten, stored
  <2> QED BY <2>2, <2>4, <2>5, <2>6, <2>7 DEF Saver!AloneFits
<1> QED BY <1>7, <1>8, <1>9, <1>10, <1>11, SaverGives

-----------------------------------------------------------------------------
\* A statement of a batch.
LEMMA BatchGoesOn ==
  ASSUME Saver!IInv, NEW w \in Workers, pc[w] \in {"resume", "task"},
         UNCHANGED <<checkpoints, blobs, writes, pc, base, value, id, Saver!reading, starts>>,
         row' \in [Workers -> 1..3], seg' \in [Workers -> 1..Saver!Segments + 1],
         DOMAIN tx' = Workers,
         \A x \in Workers \ {w} : row'[x] = row[x] /\ seg'[x] = seg[x] /\ tx'[x] = tx[x],
         Saver!LocksAreApart', AtBatch(w)'
  PROVE Saver!IInv'
<1>0. /\ SaverTyped /\ Saver!IdsAreNew /\ WritesStored /\ Saver!LocksAreApart /\ Saver!BlobsAreThere
      /\ \A x \in Workers : AtBatch(x)
      /\ (~Overlap) => Saver!AloneFits
  BY SaverHas
<1>1. UNCHANGED <<checkpoints, blobs, writes, pc, base, value, id, size, parts, starts>>
  BY DEF Saver!reading
<1>2. SaverTyped'
  BY <1>0, <1>1, TypesStay DEF SaverTyped, Saver!Known, SaverPlaces, Saver!AtWork
<1>3. Saver!IdsAreNew' /\ WritesStored' /\ Saver!BlobsAreThere'
  BY <1>0, <1>1, IdsStay, StoredStays, BlobsStay
<1>4. \A x \in Workers : AtBatch(x)'
  <2>1. ASSUME NEW x \in Workers \ {w} PROVE AtBatch(x)'
    BY <1>0, <1>1, OtherFits
  <2> QED BY <2>1
<1>5. ASSUME ~Overlap PROVE Saver!AloneFits'
  BY <1>0, <1>1, <1>5, AloneStays DEF Saver!AtWork
<1> QED BY <1>2, <1>3, <1>4, <1>5, SaverGives

\* Where a worker in a batch is, and what its transaction holds.
LEMMA BatchIs ==
  ASSUME Saver!ConstantsAreUsable, Saver!IInv, NEW w \in Workers, pc[w] \in {"resume", "task"}
  PROVE /\ row[w] \in 1..3 /\ seg[w] \in 1..3 /\ base[w].id \in Nat
        /\ Saver!Mine(w) \in Saver!Values
        /\ DOMAIN row = Workers /\ DOMAIN seg = Workers /\ DOMAIN tx = Workers
        /\ row \in [Workers -> 1..3] /\ seg \in [Workers -> 1..Saver!Segments + 1]
<1>1. SaverTyped
  BY SaverHas
<1>2. base[w] \in checkpoints /\ base[w].version < MaxVersion
  BY <1>1 DEF SaverTyped, Saver!Known, Saver!AtWork
<1>3. base[w].id \in Nat /\ base[w].version + 1 \in 1..MaxVersion
  BY <1>1, <1>2 DEF SaverTyped, Saver!TypeOK, Saver!ConstantsAreUsable
<1> QED BY <1>1, <1>3 DEF SaverTyped, Saver!Known, Saver!Segments, Saver!Mine, Saver!Values

LEMMA InsertKeeps ==
  ASSUME Saver!ConstantsAreUsable, Saver!IInv, NEW w \in Workers, Saver!Insert(w)
  PROVE Saver!IInv'
<1> DEFINE key == Saver!Key(w)  first == Saver!Output(w, "first")
           second == Saver!Output(w, "second")
<1>0. /\ SaverTyped /\ WritesStored /\ Saver!LocksAreApart /\ AtBatch(w)
  BY SaverHas
<1>1. /\ pc[w] \in {"resume", "task"} /\ row[w] <= Len(Saver!Batches[pc[w]]) /\ seg[w] = 1
      /\ ~Saver!Locked(w)
      /\ UNCHANGED <<checkpoints, blobs, writes, pc, base, value, id, Saver!reading, starts>>
  BY BatchesAre DEF Saver!Insert, Saver!InBatch
<1>2. \/ /\ key \in DOMAIN writes /\ pc[w] = "task" /\ row' = [row EXCEPT ![w] = @ + 1]
         /\ seg' = [seg EXCEPT ![w] = 1] /\ tx' = tx
      \/ /\ key \notin DOMAIN writes \/ pc[w] = "resume"
         /\ tx' = [tx EXCEPT ![w] = Saver!Put(@, key, <<Saver!Whole(Saver!Mine(w))[1]>>)]
         /\ seg' = [seg EXCEPT ![w] = 2] /\ row' = row
  BY <1>1 DEF Saver!Insert, Saver!NextRow, Saver!Reserved
<1>3. /\ row[w] \in 1..3 /\ seg[w] \in 1..3 /\ base[w].id \in Nat /\ Saver!Mine(w) \in Saver!Values
      /\ DOMAIN row = Workers /\ DOMAIN seg = Workers /\ DOMAIN tx = Workers
      /\ row \in [Workers -> 1..3] /\ seg \in [Workers -> 1..Saver!Segments + 1]
  BY <1>1, BatchIs
<1>4. /\ pc[w] = "resume" => row[w] = 1 /\ key = Saver!Answer(w) /\ Saver!Holds(w, {})
      /\ pc[w] = "task" => \/ /\ row[w] = 1 /\ key = first /\ Saver!Holds(w, {})
                           \/ /\ row[w] = 2 /\ key = second
                              /\ \/ Saver!Holds(w, {first}) /\ Saver!Has(w, first)
                                 \/ Saver!Holds(w, {}) /\ {first, second} \subseteq DOMAIN writes
  <2>1. ASSUME pc[w] = "resume" PROVE row[w] = 1 /\ key = Saver!Answer(w) /\ Saver!Holds(w, {})
    <3>1. row[w] = 1
      BY <1>1, <1>3, <2>1, BatchesAre
    <3>2. key = Saver!Answer(w)
      BY <2>1, <3>1, BatchesAre DEF Saver!Key, Saver!Answer
    <3> QED BY <1>0, <1>1, <2>1, <3>1, <3>2 DEF AtBatch, Saver!ResumeFits
  <2>2. ASSUME pc[w] = "task"
        PROVE \/ /\ row[w] = 1 /\ key = first /\ Saver!Holds(w, {})
              \/ /\ row[w] = 2 /\ key = second
                 /\ \/ Saver!Holds(w, {first}) /\ Saver!Has(w, first)
                    \/ Saver!Holds(w, {}) /\ {first, second} \subseteq DOMAIN writes
    <3>1. row[w] \in {1, 2}
      BY <1>1, <1>3, <2>2, BatchesAre
    <3>2. (row[w] = 1 => key = first) /\ (row[w] = 2 => key = second)
      BY <2>2, BatchesAre DEF Saver!Key, Saver!Output
    <3> HIDE DEF key, first, second
    <3>3. row[w] = 1 => Saver!Holds(w, {})
      BY <1>0, <1>1, <2>2 DEF AtBatch, Saver!TaskFits
    <3>4. row[w] = 2 => \/ Saver!Holds(w, {first}) /\ Saver!Has(w, first)
                        \/ Saver!Holds(w, {}) /\ {first, second} \subseteq DOMAIN writes
      BY <1>0, <1>1, <2>2 DEF AtBatch, Saver!TaskFits, first, second
    <3> QED BY <3>1, <3>2, <3>3, <3>4
  <2> QED BY <2>1, <2>2
<1>5. first \in DOMAIN writes <=> second \in DOMAIN writes
  BY <1>0, <1>3 DEF WritesStored, Saver!OutputIsWhole, Saver!Output
<1>6. first # second /\ key[2] \in {"answer", "first", "second"}
      /\ (pc[w] = "resume" => key[2] = "answer")
  <2>1. first[2] = "first" /\ second[2] = "second" /\ Saver!Answer(w)[2] = "answer"
    BY DEF Saver!Answer, Saver!Output
  <2> HIDE DEF first, second, key
  <2>2. "first" # "second"
    OBVIOUS
  <2> QED BY <1>1, <1>4, <2>1, <2>2
<1>7. \A x \in Workers \ {w} : key \notin DOMAIN tx[x]
  BY <1>1 DEF Saver!Locked
<1> HIDE DEF key, first, second
<1>8. row' \in [Workers -> 1..3] /\ seg' \in [Workers -> 1..Saver!Segments + 1]
      /\ DOMAIN tx' = Workers
  <2>1. row[w] + 1 \in 1..3
    BY <1>1, <1>3, <1>4
  <2>2. row' \in [Workers -> 1..3]
    BY <1>2, <1>3, <2>1
  <2>3. seg' \in [Workers -> 1..Saver!Segments + 1]
    BY <1>2, <1>3 DEF Saver!Segments
  <2>4. DOMAIN tx' = Workers
    BY <1>2, <1>3
  <2> QED BY <2>2, <2>3, <2>4
<1>9. \A x \in Workers \ {w} : row'[x] = row[x] /\ seg'[x] = seg[x] /\ tx'[x] = tx[x]
  <2>1. CASE /\ row' = [row EXCEPT ![w] = @ + 1] /\ seg' = [seg EXCEPT ![w] = 1] /\ tx' = tx
    BY <1>3, <2>1
  <2>2. CASE /\ tx' = [tx EXCEPT ![w] = Saver!Put(@, key, <<Saver!Whole(Saver!Mine(w))[1]>>)]
             /\ seg' = [seg EXCEPT ![w] = 2] /\ row' = row
    BY <1>3, <2>2
  <2> QED BY <1>2, <2>1, <2>2
<1>10. Saver!LocksAreApart' /\ AtBatch(w)'
  <2>0. /\ pc'[w] = pc[w] /\ Saver!Mine(w)' = Saver!Mine(w) /\ writes' = writes
        /\ Saver!Output(w, "first")' = first /\ Saver!Output(w, "second")' = second
        /\ Saver!Answer(w)' = Saver!Answer(w)
    BY <1>1 DEF Saver!Mine, Saver!Output, Saver!Answer, first, second
  <2>1. CASE /\ key \in DOMAIN writes /\ pc[w] = "task" /\ row' = [row EXCEPT ![w] = @ + 1]
             /\ seg' = [seg EXCEPT ![w] = 1] /\ tx' = tx
    <3>1. Saver!LocksAreApart'
      BY <1>0, <1>1, <2>1 DEF Saver!LocksAreApart
    <3>2. row'[w] = row[w] + 1 /\ seg'[w] = 1 /\ tx'[w] = tx[w]
      BY <1>3, <2>1
    <3>3. {first, second} \subseteq DOMAIN writes
      BY <1>4, <1>5, <2>1
    <3>4. Saver!Holds(w, {})
      <4>1. Saver!Holds(w, {first}) => first \notin DOMAIN writes
        BY <1>0 DEF Saver!Holds, Saver!LocksAreApart, first, Saver!Output
      <4> QED BY <1>4, <2>1, <3>3, <4>1
    <3>5. Saver!TaskFits(w)'
      <4>1. row'[w] > 1 /\ seg'[w] = 1 /\ Saver!Holds(w, {})'
        BY <1>3, <3>2, <3>4 DEF Saver!Holds
      <4> QED BY <2>0, <3>3, <4>1 DEF Saver!TaskFits
    <3>6. Saver!ResumeFits(w)' /\ Saver!RestFits(w)'
      BY <1>1, <2>0, <2>1 DEF Saver!ResumeFits, Saver!RestFits
    <3> QED BY <3>1, <3>5, <3>6 DEF AtBatch
  <2>2. CASE /\ key \notin DOMAIN writes \/ pc[w] = "resume"
             /\ tx' = [tx EXCEPT ![w] = Saver!Put(@, key, <<Saver!Whole(Saver!Mine(w))[1]>>)]
             /\ seg' = [seg EXCEPT ![w] = 2] /\ row' = row
    <3>1. tx'[w] = Saver!Put(tx[w], key, <<Saver!Whole(Saver!Mine(w))[1]>>) /\ seg'[w] = 2
          /\ row'[w] = row[w]
      BY <1>3, <2>2
    <3>2. /\ DOMAIN tx'[w] = DOMAIN tx[w] \union {key}
          /\ tx'[w][key] = <<Saver!Whole(Saver!Mine(w))[1]>>
          /\ \A k \in DOMAIN tx[w] : k # key => tx'[w][k] = tx[w][k]
      <4>1. /\ DOMAIN Saver!Put(tx[w], key, <<Saver!Whole(Saver!Mine(w))[1]>>) =
                  DOMAIN tx[w] \union {key}
            /\ Saver!Put(tx[w], key, <<Saver!Whole(Saver!Mine(w))[1]>>)[key] =
                  <<Saver!Whole(Saver!Mine(w))[1]>>
            /\ \A k \in DOMAIN tx[w] : k # key =>
                  Saver!Put(tx[w], key, <<Saver!Whole(Saver!Mine(w))[1]>>)[k] = tx[w][k]
        BY DEF Saver!Put
      <4> QED BY <3>1, <4>1
    <3>3. Saver!LocksAreApart'
      <4>1. \A x, y \in Workers : x # y => DOMAIN tx'[x] \intersect DOMAIN tx'[y] = {}
        BY <1>0, <1>7, <1>9, <3>2 DEF Saver!LocksAreApart
      <4>2. \A k \in DOMAIN tx'[w] : k[2] # "answer" => k \notin DOMAIN writes'
        BY <1>0, <1>6, <2>0, <2>2, <3>2 DEF Saver!LocksAreApart
      <4>3. \A x \in Workers \ {w} : \A k \in DOMAIN tx'[x] : k[2] # "answer" =>
               k \notin DOMAIN writes'
        BY <1>0, <1>9, <2>0 DEF Saver!LocksAreApart
      <4> QED BY <4>1, <4>2, <4>3 DEF Saver!LocksAreApart
    <3>4. CASE pc[w] = "resume"
      <4>1. row'[w] = 1 /\ seg'[w] > 1 /\ Saver!Holds(w, {Saver!Answer(w)})'
            /\ Saver!Began(w, Saver!Answer(w))'
        BY <1>4, <2>0, <3>1, <3>2, <3>4 DEF Saver!Holds, Saver!Began
      <4> QED BY <1>1, <2>0, <3>3, <3>4, <4>1 DEF AtBatch, Saver!ResumeFits, Saver!TaskFits,
                 Saver!RestFits
    <3>5. CASE pc[w] = "task" /\ row[w] = 1
      <4>1. /\ row'[w] = 1 /\ seg'[w] = 2 /\ DOMAIN tx'[w] = {first}
            /\ tx'[w][first] = <<Saver!Whole(Saver!Mine(w))[1]>>
        BY <1>4, <3>1, <3>2, <3>5 DEF Saver!Holds
      <4>2. Saver!TaskFits(w)'
        BY <2>0, <4>1 DEF Saver!TaskFits, Saver!Holds, Saver!Began
      <4> QED BY <1>1, <2>0, <3>3, <3>5, <4>2 DEF AtBatch, Saver!ResumeFits, Saver!RestFits
    <3>6. CASE pc[w] = "task" /\ row[w] = 2
      <4>1. Saver!Holds(w, {first}) /\ Saver!Has(w, first) /\ key = second
        BY <1>4, <2>2, <3>6
      <4>2. /\ row'[w] = 2 /\ seg'[w] = 2 /\ DOMAIN tx'[w] = {first, second}
            /\ tx'[w][first] = Saver!Whole(Saver!Mine(w))
            /\ tx'[w][second] = <<Saver!Whole(Saver!Mine(w))[1]>>
        BY <1>6, <3>1, <3>2, <3>6, <4>1 DEF Saver!Holds, Saver!Has
      <4>3. Saver!TaskFits(w)'
        BY <2>0, <4>2 DEF Saver!TaskFits, Saver!Holds, Saver!Has, Saver!Began
      <4> QED BY <1>1, <2>0, <3>3, <3>6, <4>3 DEF AtBatch, Saver!ResumeFits, Saver!RestFits
    <3> QED BY <1>1, <1>4, <3>4, <3>5, <3>6
  <2> QED BY <1>2, <2>1, <2>2
<1> QED BY <1>1, <1>8, <1>9, <1>10, BatchGoesOn

LEMMA AppendRestKeeps ==
  ASSUME Saver!ConstantsAreUsable, Saver!IInv, NEW w \in Workers, Saver!AppendRest(w)
  PROVE Saver!IInv'
<1> DEFINE key == Saver!Key(w)  first == Saver!Output(w, "first")
           second == Saver!Output(w, "second")
           answer == Saver!Answer(w)
<1>0. /\ SaverTyped /\ WritesStored /\ Saver!LocksAreApart /\ AtBatch(w)
  BY SaverHas
<1>1. /\ pc[w] \in {"resume", "task"} /\ row[w] <= Len(Saver!Batches[pc[w]]) /\ seg[w] > 1
      /\ UNCHANGED <<checkpoints, blobs, writes, pc, base, value, id, Saver!reading, starts>>
  BY BatchesAre DEF Saver!AppendRest, Saver!InBatch
<1>2. /\ row[w] \in 1..3 /\ seg[w] \in 1..3 /\ base[w].id \in Nat /\ Saver!Mine(w) \in Saver!Values
      /\ DOMAIN row = Workers /\ DOMAIN seg = Workers /\ DOMAIN tx = Workers
      /\ row \in [Workers -> 1..3] /\ seg \in [Workers -> 1..Saver!Segments + 1]
  BY <1>1, BatchIs
<1>3. \/ /\ seg[w] = 3 /\ row' = [row EXCEPT ![w] = @ + 1]
         /\ seg' = [seg EXCEPT ![w] = 1] /\ tx' = tx
      \/ /\ seg[w] = 2 /\ seg' = [seg EXCEPT ![w] = @ + 1] /\ row' = row
         /\ tx' = [tx EXCEPT ![w] = Saver!Put(@, key,
               Append(@[key], Saver!Whole(Saver!Mine(w))[seg[w]]))]
  BY <1>1, <1>2 DEF Saver!AppendRest, Saver!NextRow, Saver!Segments
<1>4. /\ pc[w] = "resume" =>
            row[w] = 1 /\ key = answer /\ Saver!Holds(w, {answer}) /\ Saver!Began(w, answer)
      /\ pc[w] = "task" =>
            \/ row[w] = 1 /\ key = first /\ Saver!Holds(w, {first}) /\ Saver!Began(w, first)
            \/ /\ row[w] = 2 /\ key = second /\ Saver!Holds(w, {first, second})
               /\ Saver!Has(w, first) /\ Saver!Began(w, second)
  <2>1. ASSUME pc[w] = "resume"
        PROVE row[w] = 1 /\ key = answer /\ Saver!Holds(w, {answer}) /\ Saver!Began(w, answer)
    <3>1. row[w] = 1
      BY <1>1, <1>2, <2>1, BatchesAre
    <3>2. key = answer
      BY <2>1, <3>1, BatchesAre DEF Saver!Key, Saver!Answer
    <3> QED BY <1>0, <1>1, <2>1, <3>1, <3>2 DEF AtBatch, Saver!ResumeFits
  <2>2. ASSUME pc[w] = "task"
        PROVE \/ row[w] = 1 /\ key = first /\ Saver!Holds(w, {first}) /\ Saver!Began(w, first)
              \/ /\ row[w] = 2 /\ key = second /\ Saver!Holds(w, {first, second})
                 /\ Saver!Has(w, first) /\ Saver!Began(w, second)
    <3>1. row[w] \in {1, 2}
      BY <1>1, <1>2, <2>2, BatchesAre
    <3>2. (row[w] = 1 => key = first) /\ (row[w] = 2 => key = second)
      BY <2>2, BatchesAre DEF Saver!Key, Saver!Output
    <3> HIDE DEF key
    <3>3. row[w] = 1 => Saver!Holds(w, {first}) /\ Saver!Began(w, first)
      BY <1>0, <1>1, <2>2 DEF AtBatch, Saver!TaskFits
    <3>4. row[w] = 2 => Saver!Holds(w, {first, second}) /\ Saver!Has(w, first)
          /\ Saver!Began(w, second)
      BY <1>0, <1>1, <2>2 DEF AtBatch, Saver!TaskFits
    <3> HIDE DEF first, second
    <3> QED BY <3>1, <3>2, <3>3, <3>4
  <2> QED BY <2>1, <2>2
<1>5. first # second
  <2>1. first[2] = "first" /\ second[2] = "second"
    BY DEF Saver!Output
  <2> HIDE DEF first, second
  <2> QED BY <2>1
<1>6. /\ pc'[w] = pc[w] /\ Saver!Mine(w)' = Saver!Mine(w) /\ writes' = writes
      /\ Saver!Output(w, "first")' = first /\ Saver!Output(w, "second")' = second
      /\ Saver!Answer(w)' = answer
  BY <1>1 DEF Saver!Mine, Saver!Output, Saver!Answer
<1> HIDE DEF key, first, second, answer
<1>7. row' \in [Workers -> 1..3] /\ seg' \in [Workers -> 1..Saver!Segments + 1]
      /\ DOMAIN tx' = Workers
  <2>1. row[w] + 1 \in 1..3
    BY <1>1, <1>2, <1>4
  <2>2. row' \in [Workers -> 1..3]
    BY <1>2, <1>3, <2>1
  <2>3. seg' \in [Workers -> 1..Saver!Segments + 1]
    BY <1>2, <1>3 DEF Saver!Segments
  <2>4. DOMAIN tx' = Workers
    BY <1>2, <1>3
  <2> QED BY <2>2, <2>3, <2>4
<1>8. CASE /\ seg[w] = 3 /\ row' = [row EXCEPT ![w] = @ + 1]
           /\ seg' = [seg EXCEPT ![w] = 1] /\ tx' = tx
  <2>1. Saver!LocksAreApart'
    BY <1>0, <1>1, <1>8 DEF Saver!LocksAreApart
  <2>2. row'[w] = row[w] + 1 /\ seg'[w] = 1 /\ tx'[w] = tx[w]
    BY <1>2, <1>8
  <2>3. /\ pc[w] = "resume" => row'[w] = 2 /\ DOMAIN tx'[w] = {answer}
               /\ tx'[w][answer] = Saver!Whole(Saver!Mine(w))
        /\ pc[w] = "task" =>
              \/ row'[w] = 2 /\ DOMAIN tx'[w] = {first}
                    /\ tx'[w][first] = Saver!Whole(Saver!Mine(w))
              \/ /\ row'[w] = 3 /\ DOMAIN tx'[w] = {first, second}
                 /\ tx'[w][first] = Saver!Whole(Saver!Mine(w))
                 /\ tx'[w][second] = Saver!Whole(Saver!Mine(w))
    BY <1>4, <1>8, <2>2 DEF Saver!Holds, Saver!Has, Saver!Began
  <2>4. Saver!ResumeFits(w)'
    BY <1>6, <2>2, <2>3 DEF Saver!ResumeFits, Saver!Holds, Saver!Has
  <2>5. Saver!TaskFits(w)'
    BY <1>6, <2>2, <2>3 DEF Saver!TaskFits, Saver!Holds, Saver!Has
  <2>6. Saver!RestFits(w)'
    BY <1>1, <1>6 DEF Saver!RestFits
  <2>7. \A x \in Workers \ {w} : row'[x] = row[x] /\ seg'[x] = seg[x] /\ tx'[x] = tx[x]
    BY <1>2, <1>8
  <2> QED BY <1>1, <1>7, <2>1, <2>4, <2>5, <2>6, <2>7, BatchGoesOn DEF AtBatch
<1>9. CASE /\ seg[w] = 2 /\ seg' = [seg EXCEPT ![w] = @ + 1] /\ row' = row
           /\ tx' = [tx EXCEPT ![w] = Saver!Put(@, key,
                 Append(@[key], Saver!Whole(Saver!Mine(w))[seg[w]]))]
  <2>1. /\ tx'[w] = Saver!Put(tx[w], key, Append(tx[w][key], Saver!Whole(Saver!Mine(w))[2]))
        /\ row'[w] = row[w] /\ seg'[w] = 3
    BY <1>2, <1>9
  <2>2. key \in DOMAIN tx[w] /\ tx[w][key] = <<Saver!Whole(Saver!Mine(w))[1]>>
    BY <1>1, <1>4, <1>9 DEF Saver!Holds, Saver!Began
  <2>3. /\ DOMAIN tx'[w] = DOMAIN tx[w] /\ tx'[w][key] = Saver!Whole(Saver!Mine(w))
        /\ \A k \in DOMAIN tx[w] : k # key => tx'[w][k] = tx[w][k]
    <3>1. tx'[w] = Saver!Put(tx[w], key, Saver!Whole(Saver!Mine(w)))
      BY <2>1, <2>2, WholeIs
    <3>2. /\ DOMAIN Saver!Put(tx[w], key, Saver!Whole(Saver!Mine(w))) = DOMAIN tx[w] \union {key}
          /\ Saver!Put(tx[w], key, Saver!Whole(Saver!Mine(w)))[key] = Saver!Whole(Saver!Mine(w))
          /\ \A k \in DOMAIN tx[w] : k # key =>
                Saver!Put(tx[w], key, Saver!Whole(Saver!Mine(w)))[k] = tx[w][k]
      BY DEF Saver!Put
    <3> QED BY <2>2, <3>1, <3>2
  <2>4. \A x \in Workers \ {w} : row'[x] = row[x] /\ seg'[x] = seg[x] /\ tx'[x] = tx[x]
    BY <1>2, <1>9
  <2>5. Saver!LocksAreApart'
    <3>1. \A x \in Workers : DOMAIN tx'[x] = DOMAIN tx[x]
      BY <2>3, <2>4
    <3> QED BY <1>0, <1>6, <3>1 DEF Saver!LocksAreApart
  <2>6. /\ pc[w] = "resume" => row'[w] = 1 /\ DOMAIN tx'[w] = {answer}
               /\ tx'[w][answer] = Saver!Whole(Saver!Mine(w))
        /\ pc[w] = "task" =>
              \/ row'[w] = 1 /\ DOMAIN tx'[w] = {first}
                    /\ tx'[w][first] = Saver!Whole(Saver!Mine(w))
              \/ /\ row'[w] = 2 /\ DOMAIN tx'[w] = {first, second}
                 /\ tx'[w][first] = Saver!Whole(Saver!Mine(w))
                 /\ tx'[w][second] = Saver!Whole(Saver!Mine(w))
    BY <1>4, <1>5, <2>1, <2>3 DEF Saver!Holds, Saver!Has
  <2>7. Saver!ResumeFits(w)'
    BY <1>6, <2>1, <2>6 DEF Saver!ResumeFits, Saver!Holds, Saver!Has, Saver!Began
  <2>8. Saver!TaskFits(w)'
    BY <1>6, <2>1, <2>6 DEF Saver!TaskFits, Saver!Holds, Saver!Has, Saver!Began
  <2>9. Saver!RestFits(w)'
    BY <1>1, <1>6 DEF Saver!RestFits
  <2> QED BY <1>1, <1>7, <2>4, <2>5, <2>7, <2>8, <2>9, BatchGoesOn DEF AtBatch
<1> QED BY <1>3, <1>8, <1>9

-----------------------------------------------------------------------------
\* A worker that stops, at once or when the server ends its transaction.
LEMMA StopKeeps ==
  ASSUME Saver!IInv, NEW w \in Workers, NEW where \in {"idle", "dead"},
         pc' = [pc EXCEPT ![w] = where],
         UNCHANGED <<checkpoints, blobs, writes, base, value, id, Saver!reading, starts>>,
         \/ where = "dead" /\ UNCHANGED Saver!batch
         \/ /\ where = "idle" /\ tx' = [tx EXCEPT ![w] = <<>>] /\ row' = [row EXCEPT ![w] = 1]
            /\ seg' = [seg EXCEPT ![w] = 1]
  PROVE Saver!IInv'
<1>0. /\ SaverTyped /\ Saver!IdsAreNew /\ WritesStored /\ Saver!LocksAreApart /\ Saver!BlobsAreThere
      /\ \A x \in Workers : AtBatch(x)
      /\ (~Overlap) => Saver!AloneFits
  BY SaverHas
<1>1. UNCHANGED <<checkpoints, blobs, writes, base, value, id, size, parts, starts>>
  BY DEF Saver!reading
<1>2. pc'[w] = where /\ pc' \in [Workers -> SaverPlaces] /\ \A x \in Workers \ {w} : pc'[x] = pc[x]
  BY <1>0 DEF SaverTyped, Saver!Known, SaverPlaces
<1>3. /\ row' \in [Workers -> 1..3] /\ seg' \in [Workers -> 1..Saver!Segments + 1]
      /\ DOMAIN tx' = Workers
      /\ \A x \in Workers \ {w} : row'[x] = row[x] /\ seg'[x] = seg[x] /\ tx'[x] = tx[x]
      /\ where = "idle" => row'[w] = 1 /\ seg'[w] = 1 /\ tx'[w] = <<>>
  <2>1. CASE where = "dead" /\ UNCHANGED Saver!batch
    BY <1>0, <2>1 DEF Saver!batch, SaverTyped, Saver!Known
  <2>2. CASE /\ where = "idle" /\ tx' = [tx EXCEPT ![w] = <<>>] /\ row' = [row EXCEPT ![w] = 1]
             /\ seg' = [seg EXCEPT ![w] = 1]
    <3>1. /\ row \in [Workers -> 1..3] /\ seg \in [Workers -> 1..Saver!Segments + 1]
          /\ DOMAIN tx = Workers
      BY <1>0 DEF SaverTyped, Saver!Known
    <3>2. 1 \in 1..3 /\ 1 \in 1..Saver!Segments + 1
      BY DEF Saver!Segments
    <3>3. row' \in [Workers -> 1..3] /\ seg' \in [Workers -> 1..Saver!Segments + 1]
      BY <2>2, <3>1, <3>2
    <3> QED BY <2>2, <3>1, <3>3
  <2> QED BY <2>1, <2>2
<1>4. \A x \in Workers : /\ Saver!AtWork(x)' => Saver!AtWork(x) /\ x # w
                         /\ pc'[x] \in {"blob", "row", "resume", "task", "read"} =>
                               pc'[x] = pc[x] /\ x # w
  BY <1>2 DEF Saver!AtWork
<1>5. SaverTyped'
  BY <1>0, <1>1, <1>2, <1>3, <1>4, TypesStay DEF SaverTyped, Saver!Known
<1>6. Saver!IdsAreNew' /\ WritesStored' /\ Saver!BlobsAreThere'
  <2>1. Saver!IdsAreNew' /\ WritesStored'
    BY <1>0, <1>1, <1>4, IdsStay, StoredStays
  <2>2. Saver!BlobsAreThere'
    BY <1>0, <1>1, <1>3, <1>4, BlobsStay
  <2> QED BY <2>1, <2>2
<1>7. Saver!LocksAreApart'
  <2>1. CASE UNCHANGED Saver!batch
    BY <1>0, <1>1, <2>1 DEF Saver!batch, Saver!LocksAreApart
  <2>2. CASE tx' = [tx EXCEPT ![w] = <<>>]
    BY <1>0, <1>1, <2>2, LocksStay DEF SaverTyped, Saver!Known
  <2> QED BY <2>1, <2>2
<1>8. \A x \in Workers : AtBatch(x)'
  <2>1. AtBatch(w)'
    BY <1>2, <1>3 DEF AtBatch, Saver!ResumeFits, Saver!TaskFits, Saver!RestFits
  <2>2. ASSUME NEW x \in Workers \ {w} PROVE AtBatch(x)'
    BY <1>0, <1>1, <1>2, <1>3, OtherFits
  <2> QED BY <2>1, <2>2
<1>9. ASSUME ~Overlap PROVE Saver!AloneFits'
  BY <1>0, <1>1, <1>3, <1>4, <1>9, AloneStays
<1> QED BY <1>5, <1>6, <1>7, <1>8, <1>9, SaverGives

\* A commit saves a batch in full, and replaces no output that was saved.
LEMMA CommitFits ==
  ASSUME Saver!ConstantsAreUsable, Saver!IInv, NEW w \in Workers, Saver!Commit(w)
  PROVE Saver!IInv' /\ Saver!KeepsOutput
<1> DEFINE first == Saver!Output(w, "first")  second == Saver!Output(w, "second")
           answer == Saver!Answer(w)
           mine == Saver!Mine(w)
<1>0. /\ SaverTyped /\ Saver!IdsAreNew /\ WritesStored /\ Saver!LocksAreApart /\ Saver!BlobsAreThere
      /\ \A x \in Workers : AtBatch(x)
      /\ (~Overlap) => Saver!AloneFits
  BY SaverHas
<1>1. /\ pc[w] \in {"resume", "task"} /\ row[w] > Len(Saver!Batches[pc[w]])
      /\ writes' = Saver!Saved(w) /\ tx' = [tx EXCEPT ![w] = <<>>] /\ row' = [row EXCEPT ![w] = 1]
      /\ UNCHANGED <<checkpoints, blobs, base, size, parts, starts, seg>>
  BY BatchesAre DEF Saver!Commit, Saver!reading
<1>2. \/ pc[w] = "resume" /\ pc' = [pc EXCEPT ![w] = "task"] /\ value' = value /\ id' = id
      \/ /\ pc[w] = "task" /\ pc' = [pc EXCEPT ![w] = "blob"]
         /\ value' = [value EXCEPT ![w] = mine] /\ id' = [id EXCEPT ![w] = Saver!NewId(w)]
  BY <1>1 DEF Saver!Commit, Saver!To
<1>3. /\ row[w] \in 1..3 /\ seg[w] \in 1..3 /\ base[w].id \in Nat /\ mine \in Saver!Values
      /\ row \in [Workers -> 1..3] /\ seg \in [Workers -> 1..Saver!Segments + 1]
  BY <1>1, BatchIs
<1>4. /\ seg[w] = 1
      /\ pc[w] = "resume" => DOMAIN tx[w] = {answer} /\ tx[w][answer] = Saver!Whole(mine)
      /\ pc[w] = "task" => \/ /\ DOMAIN tx[w] = {first, second}
                              /\ tx[w][first] = Saver!Whole(mine)
                              /\ tx[w][second] = Saver!Whole(mine)
                           \/ DOMAIN tx[w] = {}
  <2>1. CASE pc[w] = "resume"
    <3>1. row[w] > 1
      BY <1>1, <2>1, BatchesAre
    <3> QED BY <1>0, <2>1, <3>1 DEF AtBatch, Saver!ResumeFits, Saver!Holds, Saver!Has
  <2>2. CASE pc[w] = "task"
    <3>1. row[w] > 2
      BY <1>1, <2>2, BatchesAre
    <3> QED BY <1>0, <2>2, <3>1 DEF AtBatch, Saver!TaskFits, Saver!Holds, Saver!Has
  <2> QED BY <1>1, <2>1, <2>2
<1>5. /\ DOMAIN writes' = DOMAIN writes \union DOMAIN tx[w]
      /\ \A k \in DOMAIN tx[w] : writes'[k] = tx[w][k]
      /\ \A k \in DOMAIN writes : k \notin DOMAIN tx[w] => writes'[k] = writes[k]
  BY <1>1 DEF Saver!Saved
<1>6. first # second /\ answer[2] = "answer" /\ first[2] = "first" /\ second[2] = "second"
  <2>1. answer[2] = "answer" /\ first[2] = "first" /\ second[2] = "second"
    BY DEF Saver!Answer, Saver!Output
  <2> HIDE DEF first, second, answer
  <2> QED BY <2>1
<1>7. \A k \in DOMAIN tx[w] : writes'[k] = Saver!Whole(mine)
  <2> HIDE DEF first, second, answer, mine
  <2> QED BY <1>1, <1>4, <1>5
<1>8. \A x \in Workers \ {w} : /\ pc'[x] = pc[x] /\ value'[x] = value[x] /\ id'[x] = id[x]
                              /\ tx'[x] = tx[x] /\ row'[x] = row[x]
  <2>1. \A x \in Workers \ {w} : tx'[x] = tx[x] /\ row'[x] = row[x]
    BY <1>0, <1>1 DEF SaverTyped, Saver!Known
  <2>2. CASE pc' = [pc EXCEPT ![w] = "task"] /\ value' = value /\ id' = id
    BY <1>0, <2>1, <2>2 DEF SaverTyped, Saver!Known
  <2>3. CASE /\ pc' = [pc EXCEPT ![w] = "blob"]
             /\ value' = [value EXCEPT ![w] = mine] /\ id' = [id EXCEPT ![w] = Saver!NewId(w)]
    BY <1>0, <2>1, <2>3 DEF SaverTyped, Saver!Known
  <2> QED BY <1>2, <2>2, <2>3
<1>9. /\ tx'[w] = <<>> /\ row'[w] = 1
      /\ \/ pc[w] = "resume" /\ pc'[w] = "task" /\ id' = id /\ value' = value
         \/ pc[w] = "task" /\ pc'[w] = "blob" /\ value'[w] = mine /\ id'[w] = Saver!NewId(w)
  <2>1. tx'[w] = <<>> /\ row'[w] = 1
    BY <1>0, <1>1 DEF SaverTyped, Saver!Known
  <2>2. CASE pc[w] = "resume" /\ pc' = [pc EXCEPT ![w] = "task"] /\ value' = value /\ id' = id
    BY <1>0, <2>1, <2>2 DEF SaverTyped, Saver!Known
  <2>3. CASE /\ pc[w] = "task" /\ pc' = [pc EXCEPT ![w] = "blob"]
             /\ value' = [value EXCEPT ![w] = mine] /\ id' = [id EXCEPT ![w] = Saver!NewId(w)]
    BY <1>0, <2>1, <2>3 DEF SaverTyped, Saver!Known
  <2> QED BY <1>2, <2>2, <2>3
<1>10. Saver!NewId(w) \in Nat \ {0} /\ \A n \in Saver!Ids : n < Saver!NewId(w)
  BY <1>0, NewIdIs
<1>11. SaverTyped'
  <2>1. pc' \in [Workers -> SaverPlaces] /\ id' \in [Workers -> Nat] /\ DOMAIN value' = Workers
    <3>1. pc' \in [Workers -> SaverPlaces]
      BY <1>0, <1>2 DEF SaverTyped, Saver!Known, SaverPlaces
    <3>2. id' \in [Workers -> Nat]
      BY <1>0, <1>2, <1>10 DEF SaverTyped, Saver!Known
    <3>3. DOMAIN value' = Workers
      BY <1>0, <1>2 DEF SaverTyped, Saver!Known
    <3> QED BY <3>1, <3>2, <3>3
  <2>2. row' \in [Workers -> 1..3] /\ DOMAIN tx' = Workers
    BY <1>0, <1>1, <1>3 DEF SaverTyped, Saver!Known
  <2>3. \A x \in Workers : Saver!AtWork(x)' => Saver!AtWork(x)
    BY <1>1, <1>8 DEF Saver!AtWork
  <2>4. Saver!TypeOK'
    BY <1>0, <1>1, <2>1, <2>2 DEF SaverTyped, Saver!TypeOK, Saver!Known, SaverPlaces
  <2>5. Saver!Known'
    BY <1>0, <1>1, <2>1, <2>2, <2>3 DEF SaverTyped, Saver!Known, SaverPlaces
  <2> QED BY <2>4, <2>5 DEF SaverTyped
<1>12. Saver!IdsAreNew'
  <2>1. CASE pc[w] = "resume" /\ pc'[w] = "task" /\ id' = id
    BY <1>0, <1>1, <1>8, <2>1, IdsStay
  <2>2. CASE pc[w] = "task" /\ pc'[w] = "blob" /\ id'[w] = Saver!NewId(w)
    <3>1. Saver!Ids' \subseteq Saver!Ids \union {Saver!NewId(w)} /\ Saver!NewId(w) \in Saver!Ids'
      BY <1>1, <1>8, <2>2 DEF Saver!Ids
    <3>2. \E m \in Saver!Ids' : \A n \in Saver!Ids' : n <= m
      <4>1. \A n \in Saver!Ids : n \in Nat
        BY <1>0 DEF Saver!Ids, SaverTyped, Saver!TypeOK, Saver!Known
      <4> QED BY <1>10, <3>1, <4>1
    <3>3. \A c \in checkpoints : c.id < Saver!NewId(w)
      BY <1>10 DEF Saver!Ids
    <3>4. \A x \in Workers : id[x] < Saver!NewId(w)
      BY <1>10 DEF Saver!Ids
    <3>5. \A x \in Workers : pc'[x] \in {"blob", "row"} =>
             /\ id'[x] # 0 /\ \A c \in checkpoints' : c.id # id'[x]
             /\ \A y \in Workers \ {x} : pc'[y] \in {"blob", "row"} => id'[y] # id'[x]
      <4>1. \A c \in checkpoints : c.id \in Nat
        BY <1>0 DEF SaverTyped, Saver!TypeOK
      <4>2. \A x \in Workers : id[x] \in Nat
        BY <1>0 DEF SaverTyped, Saver!Known
      <4>3. id'[w] # 0 /\ \A c \in checkpoints' : c.id # id'[w]
        BY <1>1, <1>10, <2>2, <3>3, <4>1
      <4>4. \A x \in Workers \ {w} : id'[x] # id'[w]
        BY <1>8, <1>10, <2>2, <3>4, <4>2
      <4>5. \A x \in Workers \ {w} : pc'[x] \in {"blob", "row"} =>
               /\ id'[x] # 0 /\ \A c \in checkpoints' : c.id # id'[x]
               /\ \A y \in Workers \ {x, w} : pc'[y] \in {"blob", "row"} => id'[y] # id'[x]
        BY <1>0, <1>1, <1>8 DEF Saver!IdsAreNew
      <4> QED BY <4>3, <4>4, <4>5
    <3> QED BY <1>0, <1>1, <3>2, <3>5 DEF Saver!IdsAreNew
  <2> QED BY <1>9, <2>1, <2>2
<1>13. WritesStored'
  <2>1. Saver!WritesAreWhole'
    <3>1. \A k \in DOMAIN writes' : \E v \in Saver!Values : writes'[k] = Saver!Whole(v)
      BY <1>0, <1>3, <1>5, <1>7 DEF WritesStored, Saver!WritesAreWhole
    <3> QED BY <3>1 DEF Saver!WritesAreWhole, Saver!Values
  <2>2. Saver!OutputIsWhole'
    <3> SUFFICES ASSUME NEW n \in Nat
                 PROVE \/ <<n, "first">> \notin DOMAIN writes'
                             /\ <<n, "second">> \notin DOMAIN writes'
                       \/ /\ <<n, "first">> \in DOMAIN writes' /\ <<n, "second">> \in DOMAIN writes'
                          /\ \E v \in Saver!Values : /\ writes'[<<n, "first">>] = Saver!Whole(v)
                                              /\ writes'[<<n, "second">>] = Saver!Whole(v)
      BY DEF Saver!OutputIsWhole, Saver!Values
    <3> DEFINE a == <<n, "first">>  b == <<n, "second">>
    <3>1. a[2] = "first" /\ b[2] = "second" /\ a[1] = n /\ b[1] = n
      OBVIOUS
    <3>2. \/ a \notin DOMAIN writes /\ b \notin DOMAIN writes
          \/ /\ a \in DOMAIN writes /\ b \in DOMAIN writes
             /\ \E v \in Saver!Values : writes[a] = Saver!Whole(v) /\ writes[b] = Saver!Whole(v)
      BY <1>0 DEF WritesStored, Saver!OutputIsWhole
    <3>3. CASE DOMAIN tx[w] \subseteq {answer}
      <4> HIDE DEF a, b, answer, first, second
      <4>1. a # answer /\ b # answer
        BY <1>6, <3>1
      <4> QED BY <1>5, <3>2, <3>3, <4>1 DEF a, b
    <3>4. CASE DOMAIN tx[w] = {first, second}
      <4>1. a = first <=> b = second
        BY DEF Saver!Output
      <4> HIDE DEF a, b, answer, first, second, mine
      <4>2. a # second /\ b # first
        BY <1>6, <3>1
      <4>3. CASE a = first
        <5>1. a \in DOMAIN writes' /\ b \in DOMAIN writes' /\ writes'[a] = Saver!Whole(mine)
              /\ writes'[b] = Saver!Whole(mine)
          BY <1>5, <1>7, <3>4, <4>1, <4>3
        <5> QED BY <1>3, <5>1 DEF a, b
      <4>4. CASE a # first
        BY <1>5, <3>2, <3>4, <4>1, <4>2, <4>4 DEF a, b
      <4> QED BY <4>3, <4>4
    <3> HIDE DEF a, b, answer, first, second, mine
    <3>5. DOMAIN tx[w] \subseteq {answer} \/ DOMAIN tx[w] = {first, second}
      BY <1>1, <1>4
    <3> QED BY <3>3, <3>4, <3>5 DEF a, b
  <2> QED BY <2>1, <2>2 DEF WritesStored
<1>14. Saver!LocksAreApart'
  <2>1. DOMAIN <<>> = {}
    OBVIOUS
  <2>2. DOMAIN tx'[w] = {} /\ \A x \in Workers \ {w} : DOMAIN tx'[x] = DOMAIN tx[x]
    BY <1>8, <1>9, <2>1
  <2>3. \A x \in Workers \ {w} : \A k \in DOMAIN tx[x] : k[2] # "answer" => k \notin DOMAIN writes'
    BY <1>0, <1>5 DEF Saver!LocksAreApart
  <2>4. \A x, y \in Workers : x # y => DOMAIN tx'[x] \intersect DOMAIN tx'[y] = {}
    BY <1>0, <2>2 DEF Saver!LocksAreApart
  <2> QED BY <2>2, <2>3, <2>4 DEF Saver!LocksAreApart
<1>15. Saver!BlobsAreThere'
  <2>1. pc'[w] \in {"task", "blob"} /\ seg'[w] = 1
    BY <1>1, <1>4, <1>9
  <2> QED BY <1>0, <1>1, <1>8, <2>1, BlobsStay
<1>16. \A x \in Workers : AtBatch(x)'
  <2>1. AtBatch(w)'
    <3>1. DOMAIN <<>> = {}
      OBVIOUS
    <3>2. seg'[w] = 1 /\ mine = Saver!Mine(w)'
      BY <1>1, <1>4 DEF Saver!Mine
    <3>3. Saver!ResumeFits(w)' /\ Saver!RestFits(w)'
      BY <1>9, <3>2 DEF Saver!ResumeFits, Saver!RestFits
    <3>4. Saver!TaskFits(w)'
      BY <1>9, <3>1, <3>2 DEF Saver!TaskFits, Saver!Holds
    <3> QED BY <3>3, <3>4 DEF AtBatch
  <2>2. ASSUME NEW x \in Workers \ {w} PROVE AtBatch(x)'
    <3>1. DOMAIN writes \subseteq DOMAIN writes' /\ seg'[x] = seg[x] /\ base'[x] = base[x]
      BY <1>1, <1>5
    <3> QED BY <1>0, <1>8, <3>1, OtherFits
  <2> QED BY <2>1, <2>2
<1>17. ASSUME ~Overlap PROVE Saver!AloneFits'
  <2>0. Saver!AloneFits /\ Saver!AtWork(w)
    BY <1>0, <1>1, <1>17 DEF Saver!AtWork
  <2>1. \A x \in Workers : Saver!AtWork(x)' => x = w
    BY <1>8, <2>0 DEF Saver!AtWork, Saver!AloneFits, Saver!OneAtWork
  <2>2. pc'[w] \in {"task", "blob"} /\ seg'[w] = 1 /\ (pc'[w] = "blob" => id'[w] = Saver!NewId(w))
    BY <1>1, <1>4, <1>9
  <2>3. Saver!OneAtWork' /\ Saver!VersionsFollow'
    BY <1>1, <2>0, <2>1 DEF Saver!AloneFits, Saver!OneAtWork, Saver!VersionsFollow
  <2>4. Saver!VisibleIsWhole'
    <3>1. \A x \in Workers : pc'[x] # "resume"
      BY <2>1, <2>2 DEF Saver!AtWork
    <3> QED BY <1>1, <2>0, <3>1 DEF Saver!AloneFits, Saver!VisibleIsWhole, Saver!Values
  <2>5. \A x \in Workers \ {w} : (Saver!OfTheNewest(x) /\ Saver!Newer(x)
        /\ Saver!ReadsAsWritten(x) /\ Saver!PutsWhole(x))'
    BY <2>1 DEF Saver!OfTheNewest, Saver!Newer, Saver!ReadsAsWritten, Saver!PutsWhole, Saver!AtWork
  <2>6. (Saver!OfTheNewest(w) /\ Saver!ReadsAsWritten(w) /\ Saver!PutsWhole(w))'
    BY <1>1, <2>0, <2>2 DEF Saver!OfTheNewest, Saver!ReadsAsWritten, Saver!PutsWhole, Saver!AtWork,
       Saver!AloneFits
  <2>7. Saver!Newer(w)'
    <3>1. \A c \in checkpoints : c.id < Saver!NewId(w)
      BY <1>10 DEF Saver!Ids
    <3> QED BY <1>1, <2>2, <3>1 DEF Saver!Newer
  <2> QED BY <2>3, <2>4, <2>5, <2>6, <2>7 DEF Saver!AloneFits
<1>18. Saver!KeepsOutput
  <2>1. \A k \in DOMAIN writes : k[2] # "answer" => k \notin DOMAIN tx[w]
    BY <1>0 DEF Saver!LocksAreApart
  <2> QED BY <1>5, <2>1 DEF Saver!KeepsOutput
<1> QED BY <1>11, <1>12, <1>13, <1>14, <1>15, <1>16, <1>17, <1>18, SaverGives

-----------------------------------------------------------------------------
LEMMA PutBlobKeeps ==
  ASSUME Saver!ConstantsAreUsable, Saver!IInv, NEW w \in Workers, Saver!PutBlob(w)
  PROVE Saver!IInv'
<1> DEFINE at == base[w].version + 1  mine == Saver!Mine(w)
           new == IF seg[w] = 1 THEN <<Saver!Whole(value[w])[1]>>
                                ELSE Append(blobs[at], Saver!Whole(value[w])[seg[w]])
<1>0. /\ SaverTyped /\ Saver!IdsAreNew /\ WritesStored /\ Saver!LocksAreApart /\ Saver!BlobsAreThere
      /\ \A x \in Workers : AtBatch(x)
      /\ (~Overlap) => Saver!AloneFits
  BY SaverHas
<1>1. /\ pc[w] = "blob" /\ blobs' = Saver!Put(blobs, at, new)
      /\ UNCHANGED <<checkpoints, writes, base, value, id, size, parts, tx, row, starts>>
  BY DEF Saver!PutBlob, Saver!reading
<1>2. seg[w] \in {1, 2} /\ value[w] = mine /\ tx[w] = <<>> /\ row[w] = 1
  <2>1. Saver!RestFits(w)
    BY <1>0 DEF AtBatch
  <2> QED BY <1>1, <2>1 DEF Saver!RestFits
<1>3. \/ seg[w] = 1 /\ seg' = [seg EXCEPT ![w] = @ + 1] /\ pc' = pc
      \/ seg[w] = 2 /\ seg' = [seg EXCEPT ![w] = 1] /\ pc' = [pc EXCEPT ![w] = "row"]
  BY <1>2 DEF Saver!PutBlob, Saver!To, Saver!Segments
<1>4. /\ at \in 1..MaxVersion /\ mine \in Saver!Values /\ base[w] \in checkpoints
      /\ base[w].version \in Nat /\ w \in Workers
  <2>1. base[w] \in checkpoints /\ base[w].version < MaxVersion
    BY <1>0, <1>1 DEF SaverTyped, Saver!Known, Saver!AtWork
  <2>2. base[w].version \in Nat /\ at \in 1..MaxVersion
    BY <1>0, <2>1 DEF SaverTyped, Saver!TypeOK, Saver!ConstantsAreUsable
  <2> QED BY <2>1, <2>2 DEF Saver!Mine, Saver!Values
<1>5. \/ seg[w] = 1 /\ seg'[w] = 2 /\ pc'[w] = "blob"
      \/ seg[w] = 2 /\ seg'[w] = 1 /\ pc'[w] = "row"
  <2>1. CASE seg[w] = 1 /\ seg' = [seg EXCEPT ![w] = @ + 1] /\ pc' = pc
    BY <1>0, <1>1, <2>1 DEF SaverTyped, Saver!Known
  <2>2. CASE seg[w] = 2 /\ seg' = [seg EXCEPT ![w] = 1] /\ pc' = [pc EXCEPT ![w] = "row"]
    BY <1>0, <2>2 DEF SaverTyped, Saver!Known
  <2> QED BY <1>3, <2>1, <2>2
<1>6. \A x \in Workers \ {w} : pc'[x] = pc[x] /\ seg'[x] = seg[x]
  <2>1. \A x \in Workers \ {w} : pc'[x] = pc[x]
    BY <1>0, <1>3 DEF SaverTyped, Saver!Known
  <2>2. \A x \in Workers \ {w} : seg'[x] = seg[x]
    BY <1>0, <1>3 DEF SaverTyped, Saver!Known
  <2> QED BY <2>1, <2>2
<1>7. pc' \in [Workers -> SaverPlaces] /\ seg' \in [Workers -> 1..Saver!Segments + 1]
  <2>1. pc' \in [Workers -> SaverPlaces]
    BY <1>0, <1>3 DEF SaverTyped, Saver!Known, SaverPlaces
  <2>2. seg' \in [Workers -> 1..3]
    <3>1. seg \in [Workers -> 1..3]
      BY <1>0 DEF SaverTyped, Saver!Known, Saver!Segments
    <3>2. CASE seg[w] = 1 /\ seg' = [seg EXCEPT ![w] = @ + 1]
      BY <3>1, <3>2
    <3>3. CASE seg' = [seg EXCEPT ![w] = 1]
      BY <3>1, <3>3
    <3> QED BY <1>3, <3>2, <3>3
  <2> QED BY <2>1, <2>2 DEF Saver!Segments
<1>8. /\ DOMAIN blobs' = DOMAIN blobs \union {at} /\ blobs'[at] = new
      /\ \A v \in DOMAIN blobs : v # at => blobs'[v] = blobs[v]
  <2> HIDE DEF at, new
  <2> QED BY <1>1 DEF Saver!Put
<1>9. new \in Seq(Saver!Pieces) /\ (seg[w] = 1 => new = <<Saver!Whole(mine)[1]>>)
  <2>1. Saver!Whole(mine)[1] \in Saver!Pieces /\ Saver!Whole(mine)[2] \in Saver!Pieces
    BY <1>4, WholeIsPieces
  <2>2. CASE seg[w] = 1
    <3> HIDE DEF mine
    <3> QED BY <1>2, <2>1, <2>2
  <2>3. CASE seg[w] = 2
    <3>1. blobs[at] \in Seq(Saver!Pieces)
      BY <1>0, <1>1, <2>3 DEF Saver!BlobsAreThere, SaverTyped, Saver!Known
    <3> HIDE DEF at, mine
    <3> QED BY <1>2, <2>1, <2>3, <3>1, AppendProperties
  <2> QED BY <1>2, <2>2, <2>3
<1>10. SaverTyped'
  <2>1. DOMAIN blobs' \subseteq 1..MaxVersion
        /\ \A v \in DOMAIN blobs' : blobs'[v] \in Seq(Saver!Pieces)
    <3> HIDE DEF at, new
    <3> QED BY <1>0, <1>4, <1>8, <1>9 DEF SaverTyped, Saver!TypeOK, Saver!Known
  <2>2. \A x \in Workers : Saver!AtWork(x)' => Saver!AtWork(x)
    BY <1>1, <1>6 DEF Saver!AtWork
  <2>3. Saver!TypeOK'
    <3>1. \A x \in Workers : /\ pc'[x] \in SaverPlaces /\ base'[x] \in checkpoints'
                             /\ seg'[x] \in 1..Saver!Segments + 1 /\ row'[x] \in 1..3
                             /\ Len(parts'[x]) <= size'[x]
      BY <1>0, <1>1, <1>7 DEF SaverTyped, Saver!TypeOK
    <3> QED BY <1>0, <1>1, <2>1, <3>1 DEF SaverTyped, Saver!TypeOK, SaverPlaces
  <2>4. Saver!Known'
    BY <1>0, <1>1, <1>7, <2>1, <2>2 DEF SaverTyped, Saver!Known, SaverPlaces
  <2> QED BY <2>3, <2>4 DEF SaverTyped
<1>11. Saver!IdsAreNew'
  <2>1. \A x \in Workers : pc'[x] \in {"blob", "row"} => pc[x] \in {"blob", "row"}
    BY <1>1, <1>6
  <2> QED BY <1>0, <1>1, <2>1, IdsStay
<1>12. WritesStored' /\ Saver!LocksAreApart'
  BY <1>0, <1>1, StoredStays DEF Saver!LocksAreApart
<1>13. Saver!BlobsAreThere'
  <2>1. /\ \A c \in checkpoints' : c # Saver!NoCheckpoint => c.version \in DOMAIN blobs'
        /\ \A x \in Workers : base'[x].version + 1 \in DOMAIN blobs =>
              base'[x].version + 1 \in DOMAIN blobs'
        /\ base'[w].version + 1 \in DOMAIN blobs'
    BY <1>0, <1>1, <1>8 DEF Saver!BlobsAreThere
  <2>2. \A x \in Workers \ {w} :
          /\ pc'[x] = "read" => base'[x] # Saver!NoCheckpoint
          /\ pc'[x] = "row" \/ (pc'[x] = "blob" /\ seg'[x] = 2) =>
                base'[x].version + 1 \in DOMAIN blobs'
    <3> SUFFICES ASSUME NEW x \in Workers \ {w}
                 PROVE /\ pc'[x] = "read" => base'[x] # Saver!NoCheckpoint
                       /\ pc'[x] = "row" \/ (pc'[x] = "blob" /\ seg'[x] = 2) =>
                             base'[x].version + 1 \in DOMAIN blobs'
      OBVIOUS
    <3>1. pc'[x] = pc[x] /\ seg'[x] = seg[x] /\ base'[x] = base[x]
      BY <1>1, <1>6
    <3> QED BY <1>0, <2>1, <3>1 DEF Saver!BlobsAreThere
  <2>3. pc'[w] # "read"
    BY <1>5
  <2> QED BY <2>1, <2>2, <2>3 DEF Saver!BlobsAreThere
<1>14. \A x \in Workers : AtBatch(x)'
  <2>1. AtBatch(w)'
    <3>1. mine = Saver!Mine(w)' /\ value'[w] = mine /\ tx'[w] = <<>> /\ row'[w] = 1
      BY <1>1, <1>2 DEF Saver!Mine
    <3> HIDE DEF mine
    <3> QED BY <1>5, <3>1 DEF AtBatch, Saver!ResumeFits, Saver!TaskFits, Saver!RestFits
  <2>2. ASSUME NEW x \in Workers \ {w} PROVE AtBatch(x)'
    BY <1>0, <1>1, <1>6, OtherFits
  <2> QED BY <2>1, <2>2
<1>15. ASSUME ~Overlap PROVE Saver!AloneFits'
  <2>0. Saver!AloneFits /\ Saver!AtWork(w)
    BY <1>0, <1>1, <1>15 DEF Saver!AtWork
  <2>1. \A x \in Workers : Saver!AtWork(x)' => x = w
    BY <1>6, <2>0 DEF Saver!AtWork, Saver!AloneFits, Saver!OneAtWork
  <2>2. Saver!OneAtWork' /\ Saver!VersionsFollow'
    BY <1>1, <2>0, <2>1 DEF Saver!AloneFits, Saver!OneAtWork, Saver!VersionsFollow
  <2>3. Saver!VisibleIsWhole'
    <3>1. \A x \in Workers : pc'[x] # "resume"
      BY <1>5, <2>1 DEF Saver!AtWork
    <3>2. \A c \in checkpoints : c.version # at
      <4>1. \A c \in checkpoints : c.version <= base[w].version /\ c.version \in Nat
        BY <1>0, <2>0 DEF Saver!AloneFits, Saver!OfTheNewest, SaverTyped, Saver!TypeOK
      <4> QED BY <1>4, <4>1
    <3>3. \A c \in checkpoints' \ {Saver!NoCheckpoint} :
             c.version \in DOMAIN blobs' /\ \E v \in Saver!Values :
                blobs'[c.version] = Saver!Whole(v)
      <4> HIDE DEF at, new
      <4> QED BY <1>1, <1>8, <2>0, <3>2 DEF Saver!AloneFits, Saver!VisibleIsWhole
    <3> QED BY <3>1, <3>3 DEF Saver!VisibleIsWhole, Saver!Values
  <2>4. \A x \in Workers \ {w} : (Saver!OfTheNewest(x) /\ Saver!Newer(x)
        /\ Saver!ReadsAsWritten(x) /\ Saver!PutsWhole(x))'
    BY <2>1 DEF Saver!OfTheNewest, Saver!Newer, Saver!ReadsAsWritten, Saver!PutsWhole, Saver!AtWork
  <2>5. (Saver!OfTheNewest(w) /\ Saver!Newer(w) /\ Saver!ReadsAsWritten(w))'
    BY <1>1, <1>5, <2>0 DEF Saver!OfTheNewest, Saver!Newer, Saver!ReadsAsWritten, Saver!AtWork,
       Saver!AloneFits
  <2>6. Saver!PutsWhole(w)'
    <3>1. at = base'[w].version + 1 /\ Saver!Mine(w)' = mine
      BY <1>1 DEF Saver!Mine
    <3>2. ASSUME seg[w] = 1 PROVE blobs'[at] = <<Saver!Whole(mine)[1]>>
      BY <1>8, <1>9, <3>2
    <3>3. ASSUME seg[w] = 2 PROVE blobs'[at] = Saver!Whole(mine)
      <4>1. blobs[at] = <<Saver!Whole(mine)[1]>>
        BY <1>1, <2>0, <3>3 DEF Saver!AloneFits, Saver!PutsWhole
      <4>2. new = Append(<<Saver!Whole(mine)[1]>>, Saver!Whole(mine)[2])
        BY <1>2, <3>3, <4>1
      <4> QED BY <1>8, <4>2, WholeIs
    <3> HIDE DEF at, new, mine
    <3> QED BY <1>5, <3>1, <3>2, <3>3 DEF Saver!PutsWhole
  <2> QED BY <2>2, <2>3, <2>4, <2>5, <2>6 DEF Saver!AloneFits
<1> QED BY <1>10, <1>11, <1>12, <1>13, <1>14, <1>15, SaverGives

-----------------------------------------------------------------------------
LEMMA PutRowKeeps ==
  ASSUME Saver!ConstantsAreUsable, Saver!IInv, NEW w \in Workers, Saver!PutRow(w)
  PROVE Saver!IInv'
<1> DEFINE new == [id |-> id[w], version |-> base[w].version + 1, parent |-> base[w].id]
<1>0. /\ SaverTyped /\ Saver!IdsAreNew /\ WritesStored /\ Saver!LocksAreApart /\ Saver!BlobsAreThere
      /\ \A x \in Workers : AtBatch(x)
      /\ (~Overlap) => Saver!AloneFits
  BY SaverHas
<1>1. /\ pc[w] = "row" /\ checkpoints' = checkpoints \union {new}
      /\ base' = [base EXCEPT ![w] = new]
      /\ pc' = [pc EXCEPT ![w] = IF new.version < MaxVersion THEN "task" ELSE "idle"]
      /\ UNCHANGED <<blobs, writes, value, id, size, parts, tx, row, seg, starts>>
  BY DEF Saver!PutRow, Saver!To, Saver!reading, Saver!batch
<1>2. base[w] \in checkpoints /\ base[w].version \in Nat /\ new.version \in 1..MaxVersion
      /\ id[w] \in Nat \ {0} /\ base[w].id \in Nat
  <2>1. base[w] \in checkpoints /\ base[w].version < MaxVersion /\ id[w] \in Nat
    BY <1>0, <1>1 DEF SaverTyped, Saver!Known, Saver!AtWork
  <2>2. base[w].version \in Nat /\ new.version \in 1..MaxVersion /\ base[w].id \in Nat
    BY <1>0, <2>1 DEF SaverTyped, Saver!TypeOK, Saver!ConstantsAreUsable
  <2> QED BY <1>0, <1>1, <2>1, <2>2 DEF Saver!IdsAreNew
<1>3. /\ new.id = id[w] /\ new.version = base[w].version + 1 /\ new # Saver!NoCheckpoint
      /\ new \in [id : Nat, version : 0..MaxVersion, parent : Nat]
      /\ \A c \in checkpoints : c.id # new.id
  <2>1. new.id = id[w] /\ new.version = base[w].version + 1
    OBVIOUS
  <2>2. new # Saver!NoCheckpoint
    BY <1>2 DEF Saver!NoCheckpoint
  <2>3. new \in [id : Nat, version : 0..MaxVersion, parent : Nat]
    BY <1>2 DEF Saver!ConstantsAreUsable
  <2> QED BY <1>0, <1>1, <2>1, <2>2, <2>3 DEF Saver!IdsAreNew
<1> HIDE DEF new
<1>4. /\ base'[w] = new /\ pc'[w] = (IF new.version < MaxVersion THEN "task" ELSE "idle")
      /\ \A x \in Workers \ {w} : pc'[x] = pc[x] /\ base'[x] = base[x]
      /\ pc' \in [Workers -> SaverPlaces] /\ base' \in [Workers -> checkpoints']
  BY <1>0, <1>1 DEF SaverTyped, Saver!Known, SaverPlaces
<1>5. pc'[w] \in {"task", "idle"}
  BY <1>4
<1>6. SaverTyped'
  <2>1. \A c \in checkpoints' : c.id \in Nat /\ c.version \in 0..MaxVersion
    BY <1>0, <1>1, <1>3 DEF SaverTyped, Saver!TypeOK
  <2>2. \A c, d \in checkpoints' : c.id = d.id => c = d
    BY <1>0, <1>1, <1>3 DEF SaverTyped, Saver!TypeOK
  <2>3. \A x \in Workers : /\ pc'[x] \in SaverPlaces /\ base'[x] \in checkpoints'
                           /\ seg'[x] \in 1..Saver!Segments + 1 /\ row'[x] \in 1..3
                           /\ Len(parts'[x]) <= size'[x]
    BY <1>0, <1>1, <1>4 DEF SaverTyped, Saver!TypeOK
  <2>4. Saver!TypeOK'
    BY <1>0, <1>1, <2>1, <2>2, <2>3 DEF SaverTyped, Saver!TypeOK, SaverPlaces
  <2>5. \A x \in Workers : Saver!AtWork(x)' => base'[x].version < MaxVersion
    <3>1. Saver!AtWork(w)' => new.version < MaxVersion
      BY <1>4 DEF Saver!AtWork
    <3> QED BY <1>0, <1>4, <3>1 DEF SaverTyped, Saver!Known, Saver!AtWork
  <2>6. Saver!Known'
    <3>1. checkpoints' \subseteq [id : Nat, version : 0..MaxVersion, parent : Nat]
          /\ Saver!NoCheckpoint \in checkpoints'
      BY <1>0, <1>1, <1>3 DEF SaverTyped, Saver!Known
    <3> QED BY <1>0, <1>1, <1>4, <2>5, <3>1 DEF SaverTyped, Saver!Known, SaverPlaces
  <2> QED BY <2>4, <2>6 DEF SaverTyped
<1>7. Saver!IdsAreNew'
  <2>1. Saver!Ids' = Saver!Ids
    BY <1>1, <1>3 DEF Saver!Ids
  <2>2. \E c \in checkpoints' : \A d \in checkpoints' : d.id <= c.id
    <3>1. PICK c \in checkpoints : \A d \in checkpoints : d.id <= c.id
      BY <1>0 DEF Saver!IdsAreNew
    <3>2. c.id \in Nat /\ new.id \in Nat /\ \A d \in checkpoints : d.id \in Nat
      BY <1>0, <1>2, <1>3 DEF SaverTyped, Saver!TypeOK
    <3>3. CASE new.id <= c.id
      BY <1>1, <3>1, <3>3
    <3>4. CASE c.id <= new.id
      BY <1>1, <3>1, <3>2, <3>4
    <3> QED BY <3>2, <3>3, <3>4
  <2>3. \A c \in checkpoints' : c.id = 0 => c = Saver!NoCheckpoint
    BY <1>0, <1>1, <1>2, <1>3 DEF Saver!IdsAreNew
  <2>4. ASSUME NEW x \in Workers, pc'[x] \in {"blob", "row"}
        PROVE /\ id'[x] # 0 /\ \A c \in checkpoints' : c.id # id'[x]
              /\ \A y \in Workers \ {x} : pc'[y] \in {"blob", "row"} => id'[y] # id'[x]
    <3>1. x # w /\ pc[x] \in {"blob", "row"}
      BY <1>4, <1>5, <2>4
    <3>2. id[x] # id[w] /\ id[x] # 0 /\ \A c \in checkpoints : c.id # id[x]
      BY <1>0, <1>1, <3>1 DEF Saver!IdsAreNew
    <3>3. \A y \in Workers \ {x} : pc'[y] \in {"blob", "row"} => id[y] # id[x]
      BY <1>0, <1>4, <1>5, <3>1 DEF Saver!IdsAreNew
    <3> QED BY <1>1, <1>3, <3>2, <3>3
  <2> QED BY <1>0, <2>1, <2>2, <2>3, <2>4 DEF Saver!IdsAreNew
<1>8. WritesStored' /\ Saver!LocksAreApart'
  BY <1>0, <1>1, StoredStays DEF Saver!LocksAreApart
<1>9. Saver!BlobsAreThere'
  <2>1. new.version \in DOMAIN blobs
    BY <1>0, <1>1, <1>3 DEF Saver!BlobsAreThere
  <2> QED BY <1>0, <1>1, <1>4, <1>5, <2>1 DEF Saver!BlobsAreThere
<1>10. \A x \in Workers : AtBatch(x)'
  <2>1. AtBatch(w)'
    <3>1. tx'[w] = <<>> /\ row'[w] = 1 /\ seg'[w] = 1
      BY <1>0, <1>1 DEF AtBatch, Saver!RestFits
    <3>2. DOMAIN <<>> = {}
      OBVIOUS
    <3> QED BY <1>5, <3>1, <3>2 DEF AtBatch, Saver!ResumeFits, Saver!TaskFits, Saver!RestFits,
               Saver!Holds
  <2>2. ASSUME NEW x \in Workers \ {w} PROVE AtBatch(x)'
    BY <1>0, <1>1, <1>4, OtherFits
  <2> QED BY <2>1, <2>2
<1>11. ASSUME ~Overlap PROVE Saver!AloneFits'
  <2>0. Saver!AloneFits /\ Saver!AtWork(w)
    BY <1>0, <1>1, <1>11 DEF Saver!AtWork
  <2>1. \A x \in Workers : Saver!AtWork(x)' => x = w
    BY <1>4, <2>0 DEF Saver!AtWork, Saver!AloneFits, Saver!OneAtWork
  <2>2. /\ \A c \in checkpoints : c.id < new.id /\ c.id <= base[w].id
              /\ c.version <= base[w].version
        /\ blobs[new.version] = Saver!Whole(Saver!Mine(w)) /\ Saver!Mine(w) \in Saver!Values
    <3>1. Saver!Mine(w) \in Saver!Values
      BY <1>2, <1>3 DEF Saver!Mine, Saver!Values
    <3> QED BY <1>1, <1>3, <2>0, <3>1 DEF Saver!AloneFits, Saver!OfTheNewest, Saver!Newer,
               Saver!PutsWhole
  <2>3. \A c \in checkpoints : c.version < new.version /\ c.id \in Nat /\ c.version \in Nat
    BY <1>0, <1>2, <1>3, <2>2 DEF SaverTyped, Saver!TypeOK
  <2>4. Saver!OneAtWork'
    BY <2>1 DEF Saver!OneAtWork
  <2>5. Saver!VersionsFollow'
    <3> SUFFICES ASSUME NEW c \in checkpoints', NEW d \in checkpoints', c.id < d.id
                 PROVE c.version < d.version
      BY DEF Saver!VersionsFollow
    <3>1. CASE c \in checkpoints /\ d \in checkpoints
      BY <2>0, <3>1 DEF Saver!AloneFits, Saver!VersionsFollow
    <3>2. CASE c \in checkpoints /\ d = new
      BY <2>3, <3>2
    <3>3. CASE c = new /\ d \in checkpoints
      <4>1. d.id < c.id /\ d.id \in Nat /\ c.id \in Nat
        BY <1>2, <1>3, <2>2, <2>3, <3>3
      <4> QED BY <4>1
    <3>4. CASE c = new /\ d = new
      BY <1>2, <1>3, <3>4
    <3> QED BY <1>1, <3>1, <3>2, <3>3, <3>4
  <2>6. Saver!VisibleIsWhole'
    <3>1. \A x \in Workers : pc'[x] # "resume"
      BY <1>5, <2>1 DEF Saver!AtWork
    <3>2. new.version \in DOMAIN blobs
      BY <1>0, <1>1, <1>3 DEF Saver!BlobsAreThere
    <3>3. \A c \in checkpoints' \ {Saver!NoCheckpoint} :
             c.version \in DOMAIN blobs' /\ \E v \in Saver!Values :
                blobs'[c.version] = Saver!Whole(v)
      BY <1>1, <2>0, <2>2, <3>2 DEF Saver!AloneFits, Saver!VisibleIsWhole
    <3> QED BY <3>1, <3>3 DEF Saver!VisibleIsWhole, Saver!Values
  <2>7. \A x \in Workers \ {w} : (Saver!OfTheNewest(x) /\ Saver!Newer(x)
        /\ Saver!ReadsAsWritten(x) /\ Saver!PutsWhole(x))'
    BY <2>1 DEF Saver!OfTheNewest, Saver!Newer, Saver!ReadsAsWritten, Saver!PutsWhole, Saver!AtWork
  <2>8. (Saver!Newer(w) /\ Saver!ReadsAsWritten(w) /\ Saver!PutsWhole(w))'
    BY <1>5 DEF Saver!Newer, Saver!ReadsAsWritten, Saver!PutsWhole
  <2>9. Saver!OfTheNewest(w)'
    <3>1. \A c \in checkpoints' : c.id <= new.id /\ c.version <= new.version
      BY <1>1, <1>2, <1>3, <2>2, <2>3
    <3> QED BY <1>4, <3>1 DEF Saver!OfTheNewest
  <2> QED BY <2>4, <2>5, <2>6, <2>7, <2>8, <2>9 DEF Saver!AloneFits
<1> QED BY <1>6, <1>7, <1>8, <1>9, <1>10, <1>11, SaverGives

-----------------------------------------------------------------------------
LEMMA SaverStep ==
  ASSUME Saver!ConstantsAreUsable, Saver!IInv, [Saver!Next]_(Saver!vars)
  PROVE Saver!IInv' /\ Saver!KeepsOutput
<1>1. CASE UNCHANGED Saver!vars
  BY <1>1, SaverIdles DEF Saver!vars, Saver!KeepsOutput
<1>2. ASSUME NEW w \in Workers,
             \/ Saver!Load(w) \/ Saver!Read(w) \/ Saver!Insert(w) \/ Saver!AppendRest(w)
                   \/ Saver!Commit(w)
             \/ Saver!Cancel(w) \/ Saver!PutBlob(w) \/ Saver!PutRow(w) \/ Saver!Die(w)
                   \/ Saver!Expire(w)
      PROVE Saver!IInv' /\ Saver!KeepsOutput
  <2>1. CASE Saver!Commit(w)
    BY <2>1, CommitFits
  <2>2. UNCHANGED writes => Saver!KeepsOutput
    BY DEF Saver!KeepsOutput
  <2>3. CASE Saver!Load(w)
    BY <2>2, <2>3, LoadKeeps DEF Saver!Load
  <2>4. CASE Saver!Read(w)
    BY <2>2, <2>4, SaverReadKeeps DEF Saver!Read
  <2>5. CASE Saver!Insert(w)
    BY <2>2, <2>5, InsertKeeps DEF Saver!Insert
  <2>6. CASE Saver!AppendRest(w)
    BY <2>2, <2>6, AppendRestKeeps DEF Saver!AppendRest
  <2>7. CASE Saver!Cancel(w)
    BY <2>2, <2>7, StopKeeps DEF Saver!Cancel, Saver!To
  <2>8. CASE Saver!Die(w)
    BY <2>2, <2>8, StopKeeps DEF Saver!Die, Saver!To
  <2>9. CASE Saver!Expire(w)
    BY <2>2, <2>9, StopKeeps DEF Saver!Expire, Saver!To
  <2>10. CASE Saver!PutBlob(w)
    BY <2>2, <2>10, PutBlobKeeps DEF Saver!PutBlob
  <2>11. CASE Saver!PutRow(w)
    BY <2>2, <2>11, PutRowKeeps DEF Saver!PutRow
  <2> QED BY <1>2, <2>1, <2>3, <2>4, <2>5, <2>6, <2>7, <2>8, <2>9, <2>10, <2>11
<1> QED BY <1>1, <1>2 DEF Saver!Next

LEMMA StepKeepsOutput ==
  ASSUME Saver!ConstantsAreUsable, Saver!IInv, [Saver!Next]_(Saver!vars)
  PROVE Saver!KeepsOutput
  BY SaverStep

\* Whoever is killed or cancelled between two segments: a committed write is one value in full,
\* a task's writes are all there or none, a worker that stopped holds no lock, saved output is
\* never replaced and, with one worker at a time, a visible checkpoint is read back as one value
\* (aurora_dataapi_saver.py).
THEOREM CheckpointsKept ==
  ASSUME Saver!ConstantsAreUsable
  PROVE Saver!Spec => []SaverPromise /\ [][Saver!KeepsOutput]_(Saver!vars)
<1>1. Saver!Init => Saver!IInv
  BY SaverInit
<1>2. Saver!IInv /\ [Saver!Next]_(Saver!vars) => Saver!IInv' /\ Saver!KeepsOutput
  BY SaverStep
<1>3. Saver!IInv => SaverPromise
  BY SaverSays
<1> QED BY <1>1, <1>2, <1>3, PTL DEF Saver!Spec

-----------------------------------------------------------------------------
(* The throwaway Gateway of the harness. *)

CONSTANTS MaxBreaks, MaxPasted
VARIABLES cloud, logs, joined, book, at, step, entries, todo, owned, groups, left, code, hit,
          breaks, pasted
Harness == INSTANCE GatewayHarness WITH
    MaxFaults <- MaxBreaks, pc <- at, file <- book, faults <- breaks

\* What is created, in order.
LEMMA HarnessSteps ==
    /\ Len(Harness!Steps) = 9
    /\ \A k \in 1..9 : Harness!Steps[k] \in Harness!Ours
    /\ \A r \in Harness!Ours : \E k \in 1..9 : r = Harness!Steps[k]
<1> DEFINE S == Harness!Steps
<1>1. Len(S) = 9 /\ DOMAIN S = 1..9
  BY DEF Harness!Steps
<1>2. Harness!Ours = {S[k] : k \in 1..9}
  BY <1>1 DEF Harness!Ours, Harness!ToSet
<1> HIDE DEF S
<1>3. /\ \A k \in 1..9 : S[k] \in Harness!Ours
      /\ \A r \in Harness!Ours : \E k \in 1..9 : r = S[k]
  BY <1>2
<1>4. QED
  BY <1>1, <1>3 DEF S

LEMMA HarnessStepsAre ==
    /\ Harness!Steps[1] = Harness!Mine("iam-role", "lambda")
    /\ Harness!Steps[2] = Harness!Mine("iam-role", "gateway")
    /\ Harness!Steps[3] = Harness!Mine("lambda", "echo")
    /\ Harness!Steps[4] = Harness!Mine("lambda", "interceptor")
    /\ Harness!Steps[5] = Harness!Mine("gateway", "gateway")
    /\ Harness!Steps[6] = Harness!Mine("target", "echo")
    /\ Harness!Steps[7] = Harness!Mine("policy-engine", "engine")
    /\ Harness!Steps[8] = Harness!Mine("policy", "permit_all")
    /\ Harness!Steps[9] = Harness!Mine("policy", "binding")
BY DEF Harness!Steps, Harness!Gateway, Harness!Engine, Harness!Binding

LEMMA HarnessKinds ==
    /\ \A r \in Harness!Ours : r.run = "mine"
    /\ \A r \in Harness!Neighbour : r.run = "other"
    /\ \A r \in Harness!Ours \union Harness!Neighbour :
          r = Harness!Of(r.run, r.kind, r.name)
    /\ Harness!Gateway \in Harness!Ours /\ Harness!Gateway.kind = "gateway"
    /\ Harness!Engine \in Harness!Ours /\ Harness!Engine.kind = "policy-engine"
    /\ Harness!Role \union Harness!Function \subseteq Harness!Ours
    /\ \A r \in Harness!Ours : Harness!Named(r) <=> r \in Harness!Role \union Harness!Function
    /\ \A r \in Harness!Ours : r.kind = "lambda" <=> r \in Harness!Function
    /\ \A r \in Harness!Neighbour : r.kind # "lambda"
<1> USE DEF Harness!Mine, Harness!Of
<1>1. \A k \in 1..9 : LET r == Harness!Steps[k] IN
         /\ r = Harness!Of(r.run, r.kind, r.name) /\ r.run = "mine"
         /\ Harness!Named(r) <=> r \in Harness!Role \union Harness!Function
         /\ r.kind = "lambda" <=> r \in Harness!Function
  <2>1. ASSUME NEW k \in 1..9
        PROVE LET r == Harness!Steps[k] IN
         /\ r = Harness!Of(r.run, r.kind, r.name) /\ r.run = "mine"
         /\ Harness!Named(r) <=> r \in Harness!Role \union Harness!Function
         /\ r.kind = "lambda" <=> r \in Harness!Function
    <3>1. k = 1 \/ k = 2 \/ k = 3 \/ k = 4 \/ k = 5 \/ k = 6 \/ k = 7 \/ k = 8 \/ k = 9
      OBVIOUS
    <3>2. CASE k \in {1, 2}
      BY <3>2, HarnessStepsAre DEF Harness!Named, Harness!Role, Harness!Function
    <3>3. CASE k \in {3, 4}
      BY <3>3, HarnessStepsAre DEF Harness!Named, Harness!Role, Harness!Function
    <3>4. CASE k \in {5, 6, 7}
      BY <3>4, HarnessStepsAre DEF Harness!Named, Harness!Role, Harness!Function
    <3>5. CASE k \in {8, 9}
      BY <3>5, HarnessStepsAre DEF Harness!Named, Harness!Role, Harness!Function
    <3> QED BY <3>1, <3>2, <3>3, <3>4, <3>5
  <2> QED BY <2>1
<1>2. \A r \in Harness!Neighbour : /\ r.run = "other" /\ r = Harness!Of(r.run, r.kind, r.name)
                                   /\ r.kind # "lambda"
  BY DEF Harness!Neighbour
<1>3. /\ Harness!Gateway \in Harness!Ours /\ Harness!Gateway.kind = "gateway"
      /\ Harness!Engine \in Harness!Ours /\ Harness!Engine.kind = "policy-engine"
  BY HarnessSteps, HarnessStepsAre DEF Harness!Gateway, Harness!Engine
<1>4. Harness!Role \union Harness!Function \subseteq Harness!Ours
  <2> HIDE DEF Harness!Mine, Harness!Of
  <2> QED BY HarnessSteps, HarnessStepsAre DEF Harness!Role, Harness!Function
<1>5. QED
  <2> HIDE DEF Harness!Mine, Harness!Of
  <2> QED BY <1>1, <1>2, <1>3, <1>4, HarnessSteps

\* A child goes with the run of its parent, which is no child.
LEMMA HarnessAnchors ==
  ASSUME NEW r \in Harness!Ours \union Harness!Neighbour
  PROVE /\ Harness!Anchor(r) \in Harness!Ours \union Harness!Neighbour
        /\ Harness!Anchor(r).run = r.run
        /\ Harness!Anchor(r) # r =>
              \/ r.kind = "target" /\ Harness!Anchor(r).kind = "gateway"
              \/ r.kind = "policy" /\ Harness!Anchor(r).kind = "policy-engine"
        /\ Harness!Anchor(r).kind \notin {"target", "policy"}
        /\ r \in Harness!Ours <=> Harness!Anchor(r) \in Harness!Ours
<1> DEFINE Fine(x) ==
             /\ Harness!Anchor(x).run = x.run
             /\ Harness!Anchor(x) # x =>
                   \/ x.kind = "target" /\ Harness!Anchor(x).kind = "gateway"
                   \/ x.kind = "policy" /\ Harness!Anchor(x).kind = "policy-engine"
             /\ Harness!Anchor(x).kind \notin {"target", "policy"}
<1>1. \A k \in {1, 2, 3, 4} :
         Fine(Harness!Steps[k]) /\ Harness!Anchor(Harness!Steps[k]) = Harness!Steps[k]
  BY HarnessStepsAre DEF Harness!Anchor, Harness!Mine, Harness!Of
<1>2. \A k \in {5, 7} :
         Fine(Harness!Steps[k]) /\ Harness!Anchor(Harness!Steps[k]) = Harness!Steps[k]
  BY HarnessStepsAre DEF Harness!Anchor, Harness!Mine, Harness!Of
<1>3. Fine(Harness!Steps[6]) /\ Harness!Anchor(Harness!Steps[6]) = Harness!Steps[5]
  <2>1. Harness!Anchor(Harness!Steps[6]) = Harness!Steps[5]
    BY HarnessStepsAre DEF Harness!Anchor, Harness!Mine, Harness!Of
  <2>2. Harness!Steps[6].run = Harness!Steps[5].run /\ Harness!Steps[6].kind = "target"
        /\ Harness!Steps[5].kind = "gateway"
    BY HarnessStepsAre DEF Harness!Mine, Harness!Of
  <2> QED BY <2>1, <2>2
<1>4. \A k \in {8, 9} :
         Fine(Harness!Steps[k]) /\ Harness!Anchor(Harness!Steps[k]) = Harness!Steps[7]
  <2>1. /\ Harness!Anchor(Harness!Steps[8]) = Harness!Steps[7]
        /\ Harness!Anchor(Harness!Steps[9]) = Harness!Steps[7]
    BY HarnessStepsAre DEF Harness!Anchor, Harness!Mine, Harness!Of
  <2>2. \A k \in {8, 9} :
           Harness!Steps[k].run = Harness!Steps[7].run /\ Harness!Steps[k].kind = "policy"
    BY HarnessStepsAre DEF Harness!Mine, Harness!Of
  <2>3. Harness!Steps[7].kind = "policy-engine"
    BY HarnessStepsAre DEF Harness!Mine, Harness!Of
  <2> QED BY <2>1, <2>2, <2>3
<1>5. \A x \in Harness!Neighbour : Fine(x) /\ Harness!Anchor(x) \in Harness!Neighbour
  <2> DEFINE R == Harness!Of("other", "iam-role", "gateway")
             G == Harness!Of("other", "gateway", "gateway")
             T == Harness!Of("other", "target", "echo")
  <2>1. /\ R.kind = "iam-role" /\ G.kind = "gateway" /\ T.kind = "target" /\ T.run = "other"
        /\ G.run = "other"
    BY DEF Harness!Of
  <2>2. Harness!Neighbour = {R, G, T}
    BY DEF Harness!Neighbour
  <2>3. /\ Harness!Anchor(R) = R /\ Harness!Anchor(G) = G
    BY <2>1 DEF Harness!Anchor
  <2>4. Harness!Anchor(T) = G
    BY <2>1 DEF Harness!Anchor
  <2> HIDE DEF R, G, T
  <2>5. Fine(R) /\ Fine(G) /\ Fine(T)
    BY <2>1, <2>3, <2>4
  <2> HIDE DEF Fine
  <2> QED BY <2>2, <2>3, <2>4, <2>5
<1>6. \A k \in 1..9 :
         Fine(Harness!Steps[k]) /\ Harness!Anchor(Harness!Steps[k]) \in Harness!Ours
  <2>1. \A k \in 1..9 : k \in {1, 2, 3, 4} \/ k \in {5, 7} \/ k = 6 \/ k \in {8, 9}
    OBVIOUS
  <2> HIDE DEF Fine
  <2>2. \A k \in 1..9 : Harness!Steps[k] \in Harness!Ours
    BY HarnessSteps
  <2> QED BY <2>1, <1>1, <1>2, <1>3, <1>4, <2>2
<1>7. \A x \in Harness!Ours : Fine(x) /\ Harness!Anchor(x) \in Harness!Ours
  <2> HIDE DEF Fine
  <2> QED BY <1>6, HarnessSteps
<1>8. \A x \in Harness!Ours : x \notin Harness!Neighbour
  BY HarnessKinds
<1>9. QED
  <2>1. Fine(r) /\ (r \in Harness!Ours <=> Harness!Anchor(r) \in Harness!Ours)
        /\ Harness!Anchor(r) \in Harness!Ours \union Harness!Neighbour
    <3> HIDE DEF Fine
    <3> QED BY <1>5, <1>7, <1>8
  <2> QED BY <2>1

\* A parent is created before its children, and no child hangs on the binding rule.
LEMMA HarnessParentsFirst ==
    \A k \in 1..9 : \/ Harness!Anchor(Harness!Steps[k]) = Harness!Steps[k]
                    \/ \E m \in 1..(k - 1) :
                          /\ Harness!Steps[m] # Harness!Binding
                          /\ Harness!Anchor(Harness!Steps[k]) = Harness!Steps[m]
<1>1. \A k \in {1, 2, 3, 4, 5, 7} : Harness!Anchor(Harness!Steps[k]) = Harness!Steps[k]
  BY HarnessStepsAre DEF Harness!Anchor, Harness!Mine, Harness!Of
<1>2. /\ Harness!Anchor(Harness!Steps[6]) = Harness!Steps[5]
      /\ Harness!Anchor(Harness!Steps[8]) = Harness!Steps[7]
      /\ Harness!Anchor(Harness!Steps[9]) = Harness!Steps[7]
  BY HarnessStepsAre DEF Harness!Anchor, Harness!Mine, Harness!Of
<1>3. \A m \in {5, 7} : Harness!Steps[m] # Harness!Binding
  BY HarnessStepsAre DEF Harness!Binding, Harness!Mine, Harness!Of
<1>4. \A k \in 1..9 : k \in {1, 2, 3, 4, 5, 7} \/ k = 6 \/ k = 8 \/ k = 9
  OBVIOUS
<1>5. 5 \in 1..(6 - 1) /\ 7 \in 1..(8 - 1) /\ 7 \in 1..(9 - 1)
  OBVIOUS
<1>6. QED
  BY <1>1, <1>2, <1>3, <1>4, <1>5

\* Teardown takes children before their parents, and the Gateway before the engine it uses.
LEMMA HarnessOrder ==
  ASSUME NEW r, NEW q,
         \/ r.kind = "gateway" /\ q.kind = "target"
         \/ r.kind = "policy-engine" /\ q.kind \in {"policy", "gateway"}
  PROVE ~Harness!KindBefore(r, q) /\ r.kind # q.kind
<1>1. /\ Len(Harness!Kinds) = 6
      /\ Harness!Kinds[1] = "target" /\ Harness!Kinds[2] = "gateway" /\ Harness!Kinds[3] = "policy"
      /\ Harness!Kinds[4] = "policy-engine" /\ Harness!Kinds[5] = "lambda"
      /\ Harness!Kinds[6] = "iam-role"
  BY DEF Harness!Kinds
<1>2. r.kind # q.kind
  OBVIOUS
<1>3. SUFFICES ASSUME NEW k \in 1..6, NEW n \in 1..6, k < n,
                      Harness!Kinds[k] = r.kind, Harness!Kinds[n] = q.kind
               PROVE FALSE
  BY <1>1, <1>2 DEF Harness!KindBefore
<1>4. \A m \in 1..6 : m = 1 \/ m = 2 \/ m = 3 \/ m = 4 \/ m = 5 \/ m = 6
  OBVIOUS
<1>5. r.kind = "gateway" => k = 2
  BY <1>1, <1>3, <1>4
<1>6. r.kind = "policy-engine" => k = 4
  BY <1>1, <1>3, <1>4
<1>7. (q.kind = "target" => n = 1) /\ (q.kind = "gateway" => n = 2) /\ (q.kind = "policy" => n = 3)
  BY <1>1, <1>3, <1>4
<1>8. QED
  BY <1>3, <1>5, <1>6, <1>7

LEMMA AppendAdds ==
  ASSUME NEW S, NEW s \in Seq(S), NEW x
  PROVE Harness!ToSet(Append(s, x)) = Harness!ToSet(s) \union {x}
<1>1. DOMAIN s = 1..Len(s) /\ Len(s) \in Nat /\ DOMAIN Append(s, x) = 1..(Len(s) + 1)
  OBVIOUS
<1>2. /\ \A i \in 1..Len(s) : Append(s, x)[i] = s[i]
      /\ Append(s, x)[Len(s) + 1] = x
  OBVIOUS
<1>3. \A i \in 1..(Len(s) + 1) : i \in 1..Len(s) \/ i = Len(s) + 1
  BY <1>1
<1>4. 1..Len(s) \subseteq 1..(Len(s) + 1) /\ Len(s) + 1 \in 1..(Len(s) + 1)
  BY <1>1
<1>5. QED
  <2> DEFINE a == Append(s, x)
  <2>1. /\ \A i \in 1..Len(s) : a[i] = s[i]
        /\ a[Len(s) + 1] = x /\ DOMAIN a = 1..(Len(s) + 1)
    BY <1>1, <1>2
  <2> HIDE DEF a
  <2>2. {a[i] : i \in DOMAIN a} = {s[i] : i \in DOMAIN s} \union {x}
    BY <2>1, <1>1, <1>3, <1>4
  <2> QED BY <2>2 DEF Harness!ToSet, a

\* What the invariant says of one entry.
LEMMA HarnessFacts ==
  ASSUME Harness!IInv
  PROVE /\ \A i \in DOMAIN entries : /\ entries[i] \in Harness!Ours \union Harness!Neighbour
                                     /\ entries[i] \in Harness!ToSet(entries)
        /\ \A r \in Harness!ToSet(entries) : \E i \in DOMAIN entries : entries[i] = r
        /\ \A r \in Harness!ToSet(book) : r \in Harness!Ours \union Harness!Neighbour
        /\ \A r \in Harness!Ours \union Harness!Neighbour :
              /\ Harness!IsOurs(r) => r.run = "mine"
              /\ Harness!Refused(r) => r.run # "mine"
              /\ r \in cloud /\ r.run = "mine" => Harness!IsOurs(r)
              /\ r.run = "mine" <=> r \in Harness!Ours
<1> DEFINE U == Harness!Ours \union Harness!Neighbour
<1>1. entries \in Seq(U) /\ book \in Seq(U) /\ (\A r \in owned : r.run = "mine")
      /\ Harness!ParentsStay
  BY DEF Harness!IInv, Harness!Known
<1>2. \A r \in U : r.run = "mine" <=> r \in Harness!Ours
  BY HarnessKinds
<1>3. \A r \in U : Harness!Anchor(r).run = r.run
  BY HarnessAnchors
<1> HIDE DEF U
<1>4. \A i \in DOMAIN entries : entries[i] \in U /\ entries[i] \in Harness!ToSet(entries)
  BY <1>1 DEF Harness!ToSet
<1>5. /\ \A r \in Harness!ToSet(entries) : \E i \in DOMAIN entries : entries[i] = r
      /\ \A r \in Harness!ToSet(book) : r \in U
  BY <1>1 DEF Harness!ToSet
<1>6. \A r \in U : /\ Harness!IsOurs(r) => r.run = "mine"
                   /\ Harness!Refused(r) => r.run # "mine"
                   /\ r \in cloud /\ r.run = "mine" => Harness!IsOurs(r)
  BY <1>1, <1>3 DEF Harness!IsOurs, Harness!Tagged, Harness!Refused, Harness!ParentsStay
<1>7. QED
  BY <1>2, <1>4, <1>5, <1>6 DEF U

LEMMA HarnessInit == ASSUME Harness!BoundsAreNatural, Harness!Init PROVE Harness!IInv
<1>1. \A r \in Harness!Neighbour : Harness!Anchor(r) \in Harness!Neighbour
  <2>1. \A r \in Harness!Neighbour : r \notin Harness!Ours
    BY HarnessKinds
  <2> QED BY <2>1, HarnessAnchors
<1>2. Harness!ToSet(book) = {} /\ Harness!ToSet(entries) = {}
  BY DEF Harness!Init, Harness!ToSet
<1>3. Harness!TypeOK
  <2>1. Harness!ToSet(book) \subseteq Harness!Ours \union Harness!Neighbour
    BY <1>2
  <2>2. Harness!ToSet(entries) \subseteq Harness!Ours \union Harness!Neighbour
    BY <1>2
  <2>3. 0 \in 0..Len(Harness!Steps)
    BY HarnessSteps
  <2>4. todo \subseteq DOMAIN entries /\ 0 \in 0..MaxBreaks /\ 0 \in 0..MaxPasted
    BY DEF Harness!Init, Harness!BoundsAreNatural
  <2> QED BY <2>1, <2>2, <2>3, <2>4, Zenon DEF Harness!Init, Harness!TypeOK
<1>4. Harness!Known
  BY <1>2, <1>3 DEF Harness!Known, Harness!Init
<1>5. Harness!OthersAreKept /\ Harness!ParentsStay /\ Harness!Untouched /\ Harness!NotedInOrder
      /\ Harness!JoinedIsNoted
  BY <1>1 DEF Harness!Init, Harness!OthersAreKept, Harness!ParentsStay, Harness!Untouched,
     Harness!NotedInOrder, Harness!JoinedIsNoted, Harness!Creating
<1>6. Harness!NamedAreTracked
  BY HarnessKinds DEF Harness!Init, Harness!NamedAreTracked
<1>7. Harness!NothingLeftYet /\ Harness!PastIsDone /\ Harness!LeftIsHeld /\ Harness!CleanExitIsClean
  BY DEF Harness!Init, Harness!NothingLeftYet, Harness!PastIsDone, Harness!LeftIsHeld,
         Harness!CleanExitIsClean
<1>8. QED
  BY <1>3, <1>4, <1>5, <1>6, <1>7 DEF Harness!IInv

LEMMA HarnessFault ==
  ASSUME Harness!BoundsAreNatural, Harness!TypeOK, Harness!Fault \/ Harness!NoFault
  PROVE breaks' \in 0..MaxBreaks /\ hit' \in BOOLEAN
<1>1. breaks \in 0..MaxBreaks /\ hit \in BOOLEAN /\ MaxBreaks \in Nat
  BY DEF Harness!BoundsAreNatural, Harness!TypeOK
<1>2. CASE Harness!NoFault
  BY <1>1, <1>2 DEF Harness!NoFault
<1>3. CASE Harness!Fault
  BY <1>1, <1>3 DEF Harness!Fault
<1>4. QED
  BY <1>2, <1>3

\* Each action keeps the invariant: what it changes, then the parts one by one.
LEMMA HarnessStart ==
  ASSUME Harness!BoundsAreNatural, Harness!IInv, Harness!Start
  PROVE Harness!IInv'
<1> DEFINE U == Harness!Ours \union Harness!Neighbour
<1>1. Harness!TypeOK /\ entries \in Seq(U) /\ book \in Seq(U)
      /\ left \union groups \subseteq Harness!ToSet(entries) /\ (\A r \in owned : r.run = "mine")
      /\ Len(Harness!Steps) = 9
  BY HarnessSteps DEF Harness!IInv, Harness!Known
<1>2. book' \in Seq(U) /\ entries' \in Seq(U)
  BY <1>1 DEF Harness!Start, Harness!account
<1>3. Harness!ToSet(book') \subseteq U /\ Harness!ToSet(entries') \subseteq U
  BY <1>2 DEF Harness!ToSet
<1>4. left' \union groups' \subseteq Harness!ToSet(entries')
      /\ (\A r \in owned' : r.run = "mine")
  BY <1>1 DEF Harness!Start, Harness!account
<1>5. Harness!TypeOK'
  BY <1>1, <1>3, SMTT(30) DEF Harness!BoundsAreNatural, Harness!TypeOK, Harness!Start,
     Harness!account
<1>6. Harness!Known'
  BY <1>2, <1>4, <1>5 DEF Harness!Known
<1>7. Harness!OthersAreKept'
  BY <1>1 DEF Harness!IInv, Harness!OthersAreKept, Harness!Start, Harness!account
<1>8. Harness!NamedAreTracked'
  BY <1>1 DEF Harness!IInv, Harness!NamedAreTracked, Harness!Start, Harness!account
<1>9. Harness!ParentsStay'
  BY <1>1 DEF Harness!IInv, Harness!ParentsStay, Harness!Start, Harness!account
<1>10. Harness!Untouched'
  BY <1>1 DEF Harness!IInv, Harness!Untouched, Harness!Start, Harness!account
<1>11. Harness!NotedInOrder'
  <2>1. \A r \in Harness!Neighbour : r \notin Harness!Ours
    BY HarnessKinds
  <2> QED BY <1>1, <2>1 DEF Harness!IInv, Harness!Untouched, Harness!NotedInOrder, Harness!Creating,
             Harness!Start, Harness!account
<1>12. Harness!JoinedIsNoted'
  BY <1>1 DEF Harness!IInv, Harness!JoinedIsNoted, Harness!Start, Harness!account
<1>13. Harness!NothingLeftYet'
  BY <1>1 DEF Harness!IInv, Harness!NothingLeftYet, Harness!Start, Harness!account
<1>14. Harness!PastIsDone'
  BY <1>1 DEF Harness!IInv, Harness!PastIsDone, Harness!DoneWith, Harness!Start, Harness!account
<1>15. Harness!LeftIsHeld'
  BY <1>1 DEF Harness!IInv, Harness!LeftIsHeld, Harness!Start, Harness!account
<1>16. Harness!CleanExitIsClean'
  BY <1>1 DEF Harness!IInv, Harness!CleanExitIsClean, Harness!Start, Harness!account
<1>17. QED
  BY <1>6, <1>7, <1>8, <1>9, <1>10, <1>11, <1>12, <1>13, <1>14, <1>15, <1>16 DEF Harness!IInv

LEMMA HarnessNoteNamed ==
  ASSUME Harness!BoundsAreNatural, Harness!IInv, Harness!NoteNamed
  PROVE Harness!IInv'
<1> DEFINE U == Harness!Ours \union Harness!Neighbour
<1>1. Harness!TypeOK /\ entries \in Seq(U) /\ book \in Seq(U)
      /\ left \union groups \subseteq Harness!ToSet(entries) /\ (\A r \in owned : r.run = "mine")
      /\ Len(Harness!Steps) = 9
  BY HarnessSteps DEF Harness!IInv, Harness!Known
<1> DEFINE s == Harness!Steps[step + 1]
<1>2. /\ step + 1 \in 1..9 /\ step \in Nat /\ s \in Harness!Ours
      /\ entries' = Append(entries, s)
      /\ \/ book' = Append(book, s) /\ at' = "call" /\ breaks' = breaks /\ hit' = hit
            /\ code' = code
         \/ /\ book' = book /\ at' = "failed" /\ code' = "raised" /\ breaks < MaxBreaks
            /\ breaks' = breaks + 1 /\ hit' = TRUE
      /\ cloud' = cloud /\ logs' = logs /\ joined' = joined /\ todo' = todo /\ owned' = owned
      /\ groups' = groups /\ left' = left /\ pasted' = pasted
      /\ step' = step /\ at = "create" /\ Harness!Named(s)
      /\ book = entries
  <2>1. step \in Nat /\ step < 9 /\ at \in {"create", "note"}
    BY <1>1 DEF Harness!IInv, Harness!TypeOK, Harness!NotedInOrder, Harness!Creating,
       Harness!NoteNamed
  <2>2. step + 1 \in 1..9
    BY <2>1
  <2>3. s \in Harness!Ours
    BY <2>2, HarnessSteps
  <2>4. book = entries
    BY <2>1 DEF Harness!IInv, Harness!NotedInOrder, Harness!Creating
  <2> QED BY <1>1, <2>1, <2>2, <2>3, <2>4 DEF Harness!NoteNamed, Harness!Note, Harness!Fault,
             Harness!NoFault, Harness!account
<1> HIDE DEF s
<1>3. /\ Harness!ToSet(entries') = Harness!ToSet(entries) \union {s}
      /\ Harness!ToSet(book') \in {Harness!ToSet(book), Harness!ToSet(book) \union {s}}
      /\ at' # "failed" => book' = entries'
  <2>1. Harness!ToSet(Append(entries, s)) = Harness!ToSet(entries) \union {s}
        /\ Harness!ToSet(Append(book, s)) = Harness!ToSet(book) \union {s}
    BY <1>1, AppendAdds DEF U
  <2> QED BY <1>2, <2>1
<1>4. step' \in 0..9 /\ DOMAIN entries \subseteq DOMAIN entries'
  BY <1>1, <1>2 DEF Harness!TypeOK
<1>5. book' \in Seq(U) /\ entries' \in Seq(U)
  <2>1. s \in U
    BY <1>2 DEF U
  <2> HIDE DEF U
  <2>2. Append(entries, s) \in Seq(U) /\ Append(book, s) \in Seq(U)
    BY <1>1, <2>1
  <2> QED BY <1>1, <1>2, <2>2
<1>6. Harness!ToSet(book') \subseteq U /\ Harness!ToSet(entries') \subseteq U
  BY <1>5 DEF Harness!ToSet
<1>7. left' \union groups' \subseteq Harness!ToSet(entries')
      /\ (\A r \in owned' : r.run = "mine")
  BY <1>1, <1>2, <1>3
<1>8. Harness!TypeOK'
  <2>1. code' # "none" /\ at' # "idle"
        /\ code' \in {"none", "pass", "fail", "raised", "leftovers", "died"}
        /\ at' \in {"call", "create", "failed"}
    BY <1>1, <1>2 DEF Harness!TypeOK
  <2>2. todo' \subseteq DOMAIN entries' /\ step' \in 0..9
    BY <1>1, <1>2, <1>4 DEF Harness!TypeOK
  <2>4. breaks' \in 0..MaxBreaks /\ hit' \in BOOLEAN
    BY <1>1, HarnessFault DEF Harness!NoteNamed, Harness!Note
  <2>3. /\ cloud' \subseteq U /\ logs' \subseteq Harness!Function /\ joined' \in BOOLEAN
        /\ owned' \subseteq U /\ groups' \subseteq Harness!Function /\ left' \subseteq U
        /\ pasted' \in 0..MaxPasted
    BY <1>1, <1>2 DEF Harness!TypeOK, U
  <2> HIDE DEF U
  <2> QED BY <1>1, <1>6, <2>1, <2>2, <2>3, <2>4 DEF Harness!TypeOK, U
<1>9. Harness!Known'
  BY <1>5, <1>7, <1>8 DEF Harness!Known
<1>10. Harness!OthersAreKept'
  BY <1>1 DEF Harness!IInv, Harness!OthersAreKept, Harness!NoteNamed, Harness!Note, Harness!Fault,
     Harness!NoFault, Harness!account
<1>11. Harness!NamedAreTracked'
  BY <1>2, <1>3 DEF Harness!IInv, Harness!NamedAreTracked
<1>12. Harness!ParentsStay'
  BY <1>1 DEF Harness!IInv, Harness!ParentsStay, Harness!NoteNamed, Harness!Note, Harness!Fault,
     Harness!NoFault, Harness!account
<1>13. Harness!Untouched'
  BY <1>1 DEF Harness!IInv, Harness!Untouched, Harness!NoteNamed, Harness!Note, Harness!Fault,
     Harness!NoFault, Harness!account
<1>14. Harness!NotedInOrder'
  <2>1. at' = "call" => step' < 9 /\ Harness!Steps[step' + 1] = s /\ s \in Harness!ToSet(entries')
    BY <1>1, <1>2, <1>3 DEF s
  <2>2. /\ \A k \in 1..step : Harness!Steps[k] = Harness!Binding \/ Harness!Steps[k] \in cloud
        /\ \A r \in cloud \intersect Harness!Ours : r \in Harness!ToSet(entries)
    BY <1>2 DEF Harness!IInv, Harness!NotedInOrder, Harness!Creating
  <2>3. at' \in {"call", "failed"}
    BY <1>2
  <2> QED BY <1>1, <1>2, <1>3, <2>1, <2>2, <2>3 DEF Harness!NotedInOrder, Harness!Creating
<1>15. Harness!JoinedIsNoted'
  BY <1>1 DEF Harness!IInv, Harness!JoinedIsNoted, Harness!NoteNamed, Harness!Note, Harness!Fault,
     Harness!NoFault, Harness!account
<1>16. Harness!NothingLeftYet'
  BY <1>1 DEF Harness!IInv, Harness!NothingLeftYet, Harness!NoteNamed, Harness!Note, Harness!Fault,
     Harness!NoFault, Harness!account
<1>17. Harness!PastIsDone'
  BY <1>1 DEF Harness!IInv, Harness!PastIsDone, Harness!DoneWith, Harness!NoteNamed, Harness!Note,
     Harness!Fault, Harness!NoFault, Harness!account
<1>18. Harness!LeftIsHeld'
  BY <1>1 DEF Harness!IInv, Harness!LeftIsHeld, Harness!NoteNamed, Harness!Note, Harness!Fault,
     Harness!NoFault, Harness!account
<1>19. Harness!CleanExitIsClean'
  BY <1>1 DEF Harness!IInv, Harness!CleanExitIsClean, Harness!NoteNamed, Harness!Note,
     Harness!Fault, Harness!NoFault, Harness!account
<1>20. QED
  BY <1>9, <1>10, <1>11, <1>12, <1>13, <1>14, <1>15, <1>16, <1>17, <1>18, <1>19 DEF Harness!IInv

LEMMA HarnessNoteCreated ==
  ASSUME Harness!BoundsAreNatural, Harness!IInv, Harness!NoteCreated
  PROVE Harness!IInv'
<1> DEFINE U == Harness!Ours \union Harness!Neighbour
<1>1. Harness!TypeOK /\ entries \in Seq(U) /\ book \in Seq(U)
      /\ left \union groups \subseteq Harness!ToSet(entries) /\ (\A r \in owned : r.run = "mine")
      /\ Len(Harness!Steps) = 9
  BY HarnessSteps DEF Harness!IInv, Harness!Known
<1> DEFINE s == Harness!Steps[step + 1]
<1>2. /\ step + 1 \in 1..9 /\ step \in Nat /\ s \in Harness!Ours
      /\ entries' = Append(entries, s)
      /\ \/ book' = Append(book, s) /\ at' = "create" /\ breaks' = breaks /\ hit' = hit
            /\ code' = code
         \/ /\ book' = book /\ at' = "failed" /\ code' = "raised" /\ breaks < MaxBreaks
            /\ breaks' = breaks + 1 /\ hit' = TRUE
      /\ cloud' = cloud /\ logs' = logs /\ joined' = joined /\ todo' = todo /\ owned' = owned
      /\ groups' = groups /\ left' = left /\ pasted' = pasted
      /\ step' = step + 1 /\ at = "note"
      /\ book = entries
  <2>1. step \in Nat /\ step < 9 /\ at \in {"create", "note"}
    BY <1>1 DEF Harness!IInv, Harness!TypeOK, Harness!NotedInOrder, Harness!Creating,
       Harness!NoteCreated
  <2>2. step + 1 \in 1..9
    BY <2>1
  <2>3. s \in Harness!Ours
    BY <2>2, HarnessSteps
  <2>4. book = entries
    BY <2>1 DEF Harness!IInv, Harness!NotedInOrder, Harness!Creating
  <2> QED BY <1>1, <2>1, <2>2, <2>3, <2>4 DEF Harness!NoteCreated, Harness!Note, Harness!Fault,
             Harness!NoFault, Harness!account
<1> HIDE DEF s
<1>3. /\ Harness!ToSet(entries') = Harness!ToSet(entries) \union {s}
      /\ Harness!ToSet(book') \in {Harness!ToSet(book), Harness!ToSet(book) \union {s}}
      /\ at' # "failed" => book' = entries'
  <2>1. Harness!ToSet(Append(entries, s)) = Harness!ToSet(entries) \union {s}
        /\ Harness!ToSet(Append(book, s)) = Harness!ToSet(book) \union {s}
    BY <1>1, AppendAdds DEF U
  <2> QED BY <1>2, <2>1
<1>4. step' \in 0..9 /\ DOMAIN entries \subseteq DOMAIN entries'
  BY <1>1, <1>2 DEF Harness!TypeOK
<1>5. book' \in Seq(U) /\ entries' \in Seq(U)
  <2>1. s \in U
    BY <1>2 DEF U
  <2> HIDE DEF U
  <2>2. Append(entries, s) \in Seq(U) /\ Append(book, s) \in Seq(U)
    BY <1>1, <2>1
  <2> QED BY <1>1, <1>2, <2>2
<1>6. Harness!ToSet(book') \subseteq U /\ Harness!ToSet(entries') \subseteq U
  BY <1>5 DEF Harness!ToSet
<1>7. left' \union groups' \subseteq Harness!ToSet(entries')
      /\ (\A r \in owned' : r.run = "mine")
  BY <1>1, <1>2, <1>3
<1>8. Harness!TypeOK'
  <2>1. code' # "none" /\ at' # "idle"
        /\ code' \in {"none", "pass", "fail", "raised", "leftovers", "died"}
        /\ at' \in {"call", "create", "failed"}
    BY <1>1, <1>2 DEF Harness!TypeOK
  <2>2. todo' \subseteq DOMAIN entries' /\ step' \in 0..9
    BY <1>1, <1>2, <1>4 DEF Harness!TypeOK
  <2>4. breaks' \in 0..MaxBreaks /\ hit' \in BOOLEAN
    BY <1>1, HarnessFault DEF Harness!NoteCreated, Harness!Note
  <2>3. /\ cloud' \subseteq U /\ logs' \subseteq Harness!Function /\ joined' \in BOOLEAN
        /\ owned' \subseteq U /\ groups' \subseteq Harness!Function /\ left' \subseteq U
        /\ pasted' \in 0..MaxPasted
    BY <1>1, <1>2 DEF Harness!TypeOK, U
  <2> HIDE DEF U
  <2> QED BY <1>1, <1>6, <2>1, <2>2, <2>3, <2>4 DEF Harness!TypeOK, U
<1>9. Harness!Known'
  BY <1>5, <1>7, <1>8 DEF Harness!Known
<1>10. Harness!OthersAreKept'
  BY <1>1 DEF Harness!IInv, Harness!OthersAreKept, Harness!NoteCreated, Harness!Note, Harness!Fault,
     Harness!NoFault, Harness!account
<1>11. Harness!NamedAreTracked'
  BY <1>2, <1>3 DEF Harness!IInv, Harness!NamedAreTracked
<1>12. Harness!ParentsStay'
  BY <1>1 DEF Harness!IInv, Harness!ParentsStay, Harness!NoteCreated, Harness!Note, Harness!Fault,
     Harness!NoFault, Harness!account
<1>13. Harness!Untouched'
  BY <1>1 DEF Harness!IInv, Harness!Untouched, Harness!NoteCreated, Harness!Note, Harness!Fault,
     Harness!NoFault, Harness!account
<1>14. Harness!NotedInOrder'
  <2>1. CASE at' = "failed"
    BY <2>1 DEF Harness!NotedInOrder, Harness!Creating
  <2>2. CASE at' = "create"
    <3>1. /\ \A k \in 1..step : Harness!Steps[k] = Harness!Binding \/ Harness!Steps[k] \in cloud
          /\ \A r \in cloud \intersect Harness!Ours : r \in Harness!ToSet(entries) \/ r = s
          /\ s \in cloud
      BY <1>2 DEF Harness!IInv, Harness!NotedInOrder, Harness!Creating, s
    <3>2. \A k \in 1..step' : k \in 1..step \/ k = step + 1
      BY <1>2
    <3>3. \A k \in 1..step' : Harness!Steps[k] = Harness!Binding \/ Harness!Steps[k] \in cloud'
      BY <1>2, <3>1, <3>2 DEF s
    <3> QED BY <1>2, <1>3, <2>2, <3>1, <3>3 DEF Harness!NotedInOrder, Harness!Creating
  <2> QED BY <1>2, <2>1, <2>2
<1>15. Harness!JoinedIsNoted'
  BY <1>1 DEF Harness!IInv, Harness!JoinedIsNoted, Harness!NoteCreated, Harness!Note, Harness!Fault,
     Harness!NoFault, Harness!account
<1>16. Harness!NothingLeftYet'
  BY <1>1 DEF Harness!IInv, Harness!NothingLeftYet, Harness!NoteCreated, Harness!Note,
     Harness!Fault, Harness!NoFault, Harness!account
<1>17. Harness!PastIsDone'
  BY <1>1 DEF Harness!IInv, Harness!PastIsDone, Harness!DoneWith, Harness!NoteCreated, Harness!Note,
     Harness!Fault, Harness!NoFault, Harness!account
<1>18. Harness!LeftIsHeld'
  BY <1>1 DEF Harness!IInv, Harness!LeftIsHeld, Harness!NoteCreated, Harness!Note, Harness!Fault,
     Harness!NoFault, Harness!account
<1>19. Harness!CleanExitIsClean'
  BY <1>1 DEF Harness!IInv, Harness!CleanExitIsClean, Harness!NoteCreated, Harness!Note,
     Harness!Fault, Harness!NoFault, Harness!account
<1>20. QED
  BY <1>9, <1>10, <1>11, <1>12, <1>13, <1>14, <1>15, <1>16, <1>17, <1>18, <1>19 DEF Harness!IInv

LEMMA HarnessCreated ==
  ASSUME Harness!BoundsAreNatural, Harness!IInv, Harness!Created
  PROVE Harness!IInv'
<1> DEFINE U == Harness!Ours \union Harness!Neighbour
<1>1. Harness!TypeOK /\ entries \in Seq(U) /\ book \in Seq(U)
      /\ left \union groups \subseteq Harness!ToSet(entries) /\ (\A r \in owned : r.run = "mine")
      /\ Len(Harness!Steps) = 9
  BY HarnessSteps DEF Harness!IInv, Harness!Known
<1> DEFINE s == Harness!Steps[step + 1]
<1>2. /\ step + 1 \in 1..9 /\ step \in Nat /\ s \in Harness!Ours /\ at \in {"create", "call"}
      /\ Harness!Named(s) => at = "call" /\ s \in Harness!ToSet(book)
      /\ book = entries /\ joined = FALSE
      /\ \A k \in 1..step : Harness!Steps[k] = Harness!Binding \/ Harness!Steps[k] \in cloud
      /\ \A r \in cloud \intersect Harness!Ours : r \in Harness!ToSet(entries)
  <2>1. step \in Nat /\ step < 9 /\ at \in {"create", "call"}
        /\ (Harness!Named(s) => at = "call" /\ s \in Harness!ToSet(entries))
    BY <1>1 DEF Harness!IInv, Harness!TypeOK, Harness!NotedInOrder, Harness!Creating,
       Harness!Callable, Harness!Created
  <2>2. step + 1 \in 1..9
    BY <2>1
  <2>3. s \in Harness!Ours
    BY <2>2, HarnessSteps
  <2>4. book = entries /\ joined = FALSE
        /\ (\A k \in 1..step : Harness!Steps[k] = Harness!Binding \/ Harness!Steps[k] \in cloud)
        /\ \A r \in cloud \intersect Harness!Ours : r \in Harness!ToSet(entries)
    BY <1>1, <2>1 DEF Harness!IInv, Harness!NotedInOrder, Harness!Creating, Harness!JoinedIsNoted,
       Harness!TypeOK
  <2> QED BY <2>1, <2>2, <2>3, <2>4
<1>3. Harness!Anchor(s) \in cloud \union {s}
  <2>1. PICK m \in 1..9 : m = step + 1
    BY <1>2
  <2>2. \A k \in 1..step : Harness!Steps[k] # Harness!Binding => Harness!Steps[k] \in cloud
    BY <1>2
  <2>3. 1..(m - 1) = 1..step
    BY <1>2, <2>1
  <2> QED BY <2>1, <2>2, <2>3, HarnessParentsFirst
<1>4. cloud' \in {cloud, cloud \union {s}} /\ book' = book
      /\ (at' = "create" => step' = step + 1 /\ (\/ cloud' = cloud \union {s} /\ Harness!Named(s)
                                                 \/ cloud' = cloud /\ s = Harness!Binding))
      /\ at' \in {"create", "failed", "note"} /\ step' \in {step, step + 1}
      /\ (at' = "note" => step' = step /\ s \in cloud' /\ ~Harness!Named(s))
      /\ step' \in 0..9
      /\ UNCHANGED <<logs, joined, book, entries, todo, owned, groups, left, code, pasted>>
      /\ hit' \in BOOLEAN /\ breaks' \in 0..MaxBreaks
  <2>1. hit' \in BOOLEAN /\ breaks' \in 0..MaxBreaks
    BY <1>1 DEF Harness!BoundsAreNatural, Harness!TypeOK, Harness!Created, Harness!Callable
  <2>2. step \in Nat /\ step + 1 \in 0..9 /\ step \in 0..9
    BY <1>2
  <2> QED BY <2>1, <2>2 DEF Harness!Created, Harness!Callable
<1> HIDE DEF s
<1>5. book' \in Seq(U) /\ entries' \in Seq(U)
  BY <1>1 DEF Harness!Created, Harness!Callable
<1>6. Harness!ToSet(book') \subseteq U /\ Harness!ToSet(entries') \subseteq U
  BY <1>5 DEF Harness!ToSet
<1>7. left' \union groups' \subseteq Harness!ToSet(entries')
      /\ (\A r \in owned' : r.run = "mine")
  BY <1>1 DEF Harness!Created, Harness!Callable
<1>8. Harness!TypeOK'
  BY <1>1, <1>6, <1>2, <1>4, SMTT(30) DEF Harness!TypeOK, U
<1>9. Harness!Known'
  BY <1>5, <1>7, <1>8 DEF Harness!Known
<1>10. Harness!OthersAreKept'
  BY <1>4 DEF Harness!IInv, Harness!OthersAreKept
<1>11. Harness!NamedAreTracked'
  <2>1. \A r \in Harness!Ours : Harness!Named(r) <=> r \in Harness!Role \union Harness!Function
    BY HarnessKinds
  <2> QED BY <1>2, <1>4, <2>1 DEF Harness!IInv, Harness!NamedAreTracked
<1>12. Harness!ParentsStay'
  BY <1>2, <1>3, <1>4 DEF Harness!IInv, Harness!ParentsStay
<1>13. Harness!Untouched'
  BY <1>1 DEF Harness!IInv, Harness!Untouched, Harness!Created, Harness!Callable
<1>14. Harness!NotedInOrder'
  <2>1. CASE at' = "failed"
    BY <2>1 DEF Harness!NotedInOrder, Harness!Creating
  <2>2. CASE at' = "create"
    <3>2. \A k \in 1..step' : k \in 1..step \/ k = step + 1
      BY <1>2, <1>4, <2>2
    <3>3. \A k \in 1..step' : Harness!Steps[k] = Harness!Binding \/ Harness!Steps[k] \in cloud'
      BY <1>2, <1>4, <2>2, <3>2 DEF s
    <3>4. \A r \in cloud' \intersect Harness!Ours : r \in Harness!ToSet(entries')
      BY <1>2, <1>4, <2>2
    <3> QED BY <1>2, <1>4, <2>2, <3>3, <3>4 DEF Harness!NotedInOrder, Harness!Creating
  <2>3. CASE at' = "note"
    <3>1. step' = step /\ Harness!Steps[step' + 1] = s /\ step' < 9
      BY <1>2, <1>4, <2>3 DEF s
    <3> QED BY <1>1, <1>2, <1>4, <2>3, <3>1 DEF Harness!NotedInOrder, Harness!Creating
  <2> QED BY <1>4, <2>1, <2>2, <2>3
<1>15. Harness!JoinedIsNoted'
  BY <1>2, <1>4 DEF Harness!JoinedIsNoted
<1>16. Harness!NothingLeftYet'
  BY <1>1 DEF Harness!IInv, Harness!NothingLeftYet, Harness!Created, Harness!Callable
<1>17. Harness!PastIsDone'
  BY <1>1 DEF Harness!IInv, Harness!PastIsDone, Harness!DoneWith, Harness!Created, Harness!Callable
<1>18. Harness!LeftIsHeld'
  BY <1>1 DEF Harness!IInv, Harness!LeftIsHeld, Harness!Created, Harness!Callable
<1>19. Harness!CleanExitIsClean'
  BY <1>1 DEF Harness!IInv, Harness!CleanExitIsClean, Harness!Created, Harness!Callable
<1>20. QED
  BY <1>9, <1>10, <1>11, <1>12, <1>13, <1>14, <1>15, <1>16, <1>17, <1>18, <1>19 DEF Harness!IInv

LEMMA HarnessCreateFails ==
  ASSUME Harness!BoundsAreNatural, Harness!IInv, Harness!CreateFails
  PROVE Harness!IInv'
<1> DEFINE U == Harness!Ours \union Harness!Neighbour
<1>1. Harness!TypeOK /\ entries \in Seq(U) /\ book \in Seq(U)
      /\ left \union groups \subseteq Harness!ToSet(entries) /\ (\A r \in owned : r.run = "mine")
      /\ Len(Harness!Steps) = 9
  BY HarnessSteps DEF Harness!IInv, Harness!Known
<1> DEFINE s == Harness!Steps[step + 1]
<1>2. /\ step + 1 \in 1..9 /\ step \in Nat /\ s \in Harness!Ours /\ at \in {"create", "call"}
      /\ Harness!Named(s) => at = "call" /\ s \in Harness!ToSet(book)
      /\ book = entries /\ joined = FALSE
      /\ \A k \in 1..step : Harness!Steps[k] = Harness!Binding \/ Harness!Steps[k] \in cloud
      /\ \A r \in cloud \intersect Harness!Ours : r \in Harness!ToSet(entries)
  <2>1. step \in Nat /\ step < 9 /\ at \in {"create", "call"}
        /\ (Harness!Named(s) => at = "call" /\ s \in Harness!ToSet(entries))
    BY <1>1 DEF Harness!IInv, Harness!TypeOK, Harness!NotedInOrder, Harness!Creating,
       Harness!Callable, Harness!CreateFails
  <2>2. step + 1 \in 1..9
    BY <2>1
  <2>3. s \in Harness!Ours
    BY <2>2, HarnessSteps
  <2>4. book = entries /\ joined = FALSE
        /\ (\A k \in 1..step : Harness!Steps[k] = Harness!Binding \/ Harness!Steps[k] \in cloud)
        /\ \A r \in cloud \intersect Harness!Ours : r \in Harness!ToSet(entries)
    BY <1>1, <2>1 DEF Harness!IInv, Harness!NotedInOrder, Harness!Creating, Harness!JoinedIsNoted,
       Harness!TypeOK
  <2> QED BY <2>1, <2>2, <2>3, <2>4
<1>3. Harness!Anchor(s) \in cloud \union {s}
  <2>1. PICK m \in 1..9 : m = step + 1
    BY <1>2
  <2>2. \A k \in 1..step : Harness!Steps[k] # Harness!Binding => Harness!Steps[k] \in cloud
    BY <1>2
  <2>3. 1..(m - 1) = 1..step
    BY <1>2, <2>1
  <2> QED BY <2>1, <2>2, <2>3, HarnessParentsFirst
<1>4. cloud' \in {cloud, cloud \union {s}} /\ book' = book
      /\ (at' = "create" => step' = step + 1 /\ (\/ cloud' = cloud \union {s} /\ Harness!Named(s)
                                                 \/ cloud' = cloud /\ s = Harness!Binding))
      /\ at' \in {"create", "failed", "note"} /\ step' \in {step, step + 1}
      /\ (at' = "note" => step' = step /\ s \in cloud' /\ ~Harness!Named(s))
      /\ step' \in 0..9
      /\ UNCHANGED <<logs, joined, book, entries, todo, owned, groups, left, code, pasted>>
      /\ hit' \in BOOLEAN /\ breaks' \in 0..MaxBreaks
  <2>1. hit' \in BOOLEAN /\ breaks' \in 0..MaxBreaks
    BY <1>1 DEF Harness!BoundsAreNatural, Harness!TypeOK, Harness!CreateFails, Harness!Callable,
       Harness!Fault
  <2>2. step \in Nat /\ step + 1 \in 0..9 /\ step \in 0..9
    BY <1>2
  <2> QED BY <2>1, <2>2 DEF Harness!CreateFails, Harness!Callable, Harness!Fault
<1> HIDE DEF s
<1>5. book' \in Seq(U) /\ entries' \in Seq(U)
  BY <1>1 DEF Harness!CreateFails, Harness!Callable, Harness!Fault
<1>6. Harness!ToSet(book') \subseteq U /\ Harness!ToSet(entries') \subseteq U
  BY <1>5 DEF Harness!ToSet
<1>7. left' \union groups' \subseteq Harness!ToSet(entries')
      /\ (\A r \in owned' : r.run = "mine")
  BY <1>1 DEF Harness!CreateFails, Harness!Callable, Harness!Fault
<1>8. Harness!TypeOK'
  BY <1>1, <1>6, <1>2, <1>4, SMTT(30) DEF Harness!TypeOK, U
<1>9. Harness!Known'
  BY <1>5, <1>7, <1>8 DEF Harness!Known
<1>10. Harness!OthersAreKept'
  BY <1>4 DEF Harness!IInv, Harness!OthersAreKept
<1>11. Harness!NamedAreTracked'
  <2>1. \A r \in Harness!Ours : Harness!Named(r) <=> r \in Harness!Role \union Harness!Function
    BY HarnessKinds
  <2> QED BY <1>2, <1>4, <2>1 DEF Harness!IInv, Harness!NamedAreTracked
<1>12. Harness!ParentsStay'
  BY <1>2, <1>3, <1>4 DEF Harness!IInv, Harness!ParentsStay
<1>13. Harness!Untouched'
  BY <1>1 DEF Harness!IInv, Harness!Untouched, Harness!CreateFails, Harness!Callable, Harness!Fault
<1>14. Harness!NotedInOrder'
  <2>1. CASE at' = "failed"
    BY <2>1 DEF Harness!NotedInOrder, Harness!Creating
  <2>2. CASE at' = "create"
    <3>2. \A k \in 1..step' : k \in 1..step \/ k = step + 1
      BY <1>2, <1>4, <2>2
    <3>3. \A k \in 1..step' : Harness!Steps[k] = Harness!Binding \/ Harness!Steps[k] \in cloud'
      BY <1>2, <1>4, <2>2, <3>2 DEF s
    <3>4. \A r \in cloud' \intersect Harness!Ours : r \in Harness!ToSet(entries')
      BY <1>2, <1>4, <2>2
    <3> QED BY <1>2, <1>4, <2>2, <3>3, <3>4 DEF Harness!NotedInOrder, Harness!Creating
  <2>3. CASE at' = "note"
    <3>1. step' = step /\ Harness!Steps[step' + 1] = s /\ step' < 9
      BY <1>2, <1>4, <2>3 DEF s
    <3> QED BY <1>1, <1>2, <1>4, <2>3, <3>1 DEF Harness!NotedInOrder, Harness!Creating
  <2> QED BY <1>4, <2>1, <2>2, <2>3
<1>15. Harness!JoinedIsNoted'
  BY <1>2, <1>4 DEF Harness!JoinedIsNoted
<1>16. Harness!NothingLeftYet'
  BY <1>1 DEF Harness!IInv, Harness!NothingLeftYet, Harness!CreateFails, Harness!Callable,
     Harness!Fault
<1>17. Harness!PastIsDone'
  BY <1>1 DEF Harness!IInv, Harness!PastIsDone, Harness!DoneWith, Harness!CreateFails,
     Harness!Callable, Harness!Fault
<1>18. Harness!LeftIsHeld'
  BY <1>1 DEF Harness!IInv, Harness!LeftIsHeld, Harness!CreateFails, Harness!Callable, Harness!Fault
<1>19. Harness!CleanExitIsClean'
  BY <1>1 DEF Harness!IInv, Harness!CleanExitIsClean, Harness!CreateFails, Harness!Callable,
     Harness!Fault
<1>20. QED
  BY <1>9, <1>10, <1>11, <1>12, <1>13, <1>14, <1>15, <1>16, <1>17, <1>18, <1>19 DEF Harness!IInv

LEMMA HarnessWaitFails ==
  ASSUME Harness!BoundsAreNatural, Harness!IInv, Harness!WaitFails
  PROVE Harness!IInv'
<1> DEFINE U == Harness!Ours \union Harness!Neighbour
<1>1. Harness!TypeOK /\ entries \in Seq(U) /\ book \in Seq(U)
      /\ left \union groups \subseteq Harness!ToSet(entries) /\ (\A r \in owned : r.run = "mine")
      /\ Len(Harness!Steps) = 9
  BY HarnessSteps DEF Harness!IInv, Harness!Known
<1>2. book' \in Seq(U) /\ entries' \in Seq(U)
  BY <1>1 DEF Harness!WaitFails, Harness!Fault, Harness!account
<1>3. Harness!ToSet(book') \subseteq U /\ Harness!ToSet(entries') \subseteq U
  BY <1>2 DEF Harness!ToSet
<1>4. left' \union groups' \subseteq Harness!ToSet(entries')
      /\ (\A r \in owned' : r.run = "mine")
  BY <1>1 DEF Harness!WaitFails, Harness!Fault, Harness!account
<1>5. Harness!TypeOK'
  BY <1>1, <1>3, SMTT(30) DEF Harness!BoundsAreNatural, Harness!TypeOK, Harness!WaitFails,
     Harness!Fault, Harness!account
<1>6. Harness!Known'
  BY <1>2, <1>4, <1>5 DEF Harness!Known
<1>7. Harness!OthersAreKept'
  BY <1>1 DEF Harness!IInv, Harness!OthersAreKept, Harness!WaitFails, Harness!Fault, Harness!account
<1>8. Harness!NamedAreTracked'
  BY <1>1 DEF Harness!IInv, Harness!NamedAreTracked, Harness!WaitFails, Harness!Fault,
     Harness!account
<1>9. Harness!ParentsStay'
  BY <1>1 DEF Harness!IInv, Harness!ParentsStay, Harness!WaitFails, Harness!Fault, Harness!account
<1>10. Harness!Untouched'
  BY <1>1 DEF Harness!IInv, Harness!Untouched, Harness!WaitFails, Harness!Fault, Harness!account
<1>11. Harness!NotedInOrder'
  BY <1>1 DEF Harness!IInv, Harness!NotedInOrder, Harness!Creating, Harness!WaitFails,
     Harness!Fault, Harness!account
<1>12. Harness!JoinedIsNoted'
  BY <1>1 DEF Harness!IInv, Harness!JoinedIsNoted, Harness!WaitFails, Harness!Fault, Harness!account
<1>13. Harness!NothingLeftYet'
  BY <1>1 DEF Harness!IInv, Harness!NothingLeftYet, Harness!WaitFails, Harness!Fault,
     Harness!account
<1>14. Harness!PastIsDone'
  BY <1>1 DEF Harness!IInv, Harness!PastIsDone, Harness!DoneWith, Harness!WaitFails, Harness!Fault,
     Harness!account
<1>15. Harness!LeftIsHeld'
  BY <1>1 DEF Harness!IInv, Harness!LeftIsHeld, Harness!WaitFails, Harness!Fault, Harness!account
<1>16. Harness!CleanExitIsClean'
  BY <1>1 DEF Harness!IInv, Harness!CleanExitIsClean, Harness!WaitFails, Harness!Fault,
     Harness!account
<1>17. QED
  BY <1>6, <1>7, <1>8, <1>9, <1>10, <1>11, <1>12, <1>13, <1>14, <1>15, <1>16 DEF Harness!IInv

LEMMA HarnessProbe ==
  ASSUME Harness!BoundsAreNatural, Harness!IInv, Harness!Probe
  PROVE Harness!IInv'
<1> DEFINE U == Harness!Ours \union Harness!Neighbour
<1>1. Harness!TypeOK /\ entries \in Seq(U) /\ book \in Seq(U)
      /\ left \union groups \subseteq Harness!ToSet(entries) /\ (\A r \in owned : r.run = "mine")
      /\ Len(Harness!Steps) = 9
  BY HarnessSteps DEF Harness!IInv, Harness!Known
<1>2. book' \in Seq(U) /\ entries' \in Seq(U)
  BY <1>1 DEF Harness!Probe, Harness!Fault, Harness!NoFault
<1>3. Harness!ToSet(book') \subseteq U /\ Harness!ToSet(entries') \subseteq U
  BY <1>2 DEF Harness!ToSet
<1>4. left' \union groups' \subseteq Harness!ToSet(entries')
      /\ (\A r \in owned' : r.run = "mine")
  BY <1>1 DEF Harness!Probe, Harness!Fault, Harness!NoFault
<1>5. Harness!TypeOK'
  <2>1. logs' \subseteq Harness!Function /\ joined' \in BOOLEAN /\ breaks' \in 0..MaxBreaks
        /\ hit' \in BOOLEAN
    <3>1. breaks' \in 0..MaxBreaks /\ hit' \in BOOLEAN
      BY <1>1, HarnessFault DEF Harness!Probe
    <3>2. logs' \subseteq Harness!Function
      BY <1>1 DEF Harness!TypeOK, Harness!Probe
    <3>3. joined' \in BOOLEAN
      BY DEF Harness!Probe
    <3> QED BY <3>1, <3>2, <3>3
  <2>2. code' \in {"pass", "fail", "raised"} /\ at' = "failed"
        /\ UNCHANGED <<cloud, book, step, entries, todo, owned, groups, left, pasted>>
    BY DEF Harness!Probe
  <2> QED BY <1>1, <1>3, <2>1, <2>2, SMTT(30) DEF Harness!TypeOK, U
<1>6. Harness!Known'
  BY <1>2, <1>4, <1>5 DEF Harness!Known
<1>7. Harness!OthersAreKept'
  BY <1>1 DEF Harness!IInv, Harness!OthersAreKept, Harness!Probe, Harness!Fault, Harness!NoFault
<1>8. Harness!NamedAreTracked'
  BY <1>1 DEF Harness!IInv, Harness!NamedAreTracked, Harness!Probe, Harness!Fault, Harness!NoFault
<1>9. Harness!ParentsStay'
  BY <1>1 DEF Harness!IInv, Harness!ParentsStay, Harness!Probe, Harness!Fault, Harness!NoFault
<1>10. Harness!Untouched'
  BY <1>1 DEF Harness!IInv, Harness!Untouched, Harness!Probe, Harness!Fault, Harness!NoFault
<1>11. Harness!NotedInOrder'
  BY <1>1 DEF Harness!IInv, Harness!NotedInOrder, Harness!Creating, Harness!Probe, Harness!Fault,
     Harness!NoFault
<1>12. Harness!JoinedIsNoted'
  <2>1. at = "create" /\ at' = "failed" /\ UNCHANGED <<cloud, book, entries>>
    BY DEF Harness!Probe
  <2>2. book = entries /\ \A r \in cloud \intersect Harness!Ours : r \in Harness!ToSet(entries)
    BY <2>1 DEF Harness!IInv, Harness!NotedInOrder, Harness!Creating
  <2> QED BY <2>1, <2>2 DEF Harness!JoinedIsNoted
<1>13. Harness!NothingLeftYet'
  BY <1>1 DEF Harness!IInv, Harness!NothingLeftYet, Harness!Probe, Harness!Fault, Harness!NoFault
<1>14. Harness!PastIsDone'
  BY <1>1 DEF Harness!IInv, Harness!PastIsDone, Harness!DoneWith, Harness!Probe, Harness!Fault,
     Harness!NoFault
<1>15. Harness!LeftIsHeld'
  BY <1>1 DEF Harness!IInv, Harness!LeftIsHeld, Harness!Probe, Harness!Fault, Harness!NoFault
<1>16. Harness!CleanExitIsClean'
  BY <1>1 DEF Harness!IInv, Harness!CleanExitIsClean, Harness!Probe, Harness!Fault, Harness!NoFault
<1>17. QED
  BY <1>6, <1>7, <1>8, <1>9, <1>10, <1>11, <1>12, <1>13, <1>14, <1>15, <1>16 DEF Harness!IInv

LEMMA HarnessBeginTeardown ==
  ASSUME Harness!BoundsAreNatural, Harness!IInv, Harness!BeginTeardown
  PROVE Harness!IInv'
<1> DEFINE U == Harness!Ours \union Harness!Neighbour
<1>1. Harness!TypeOK /\ entries \in Seq(U) /\ book \in Seq(U)
      /\ left \union groups \subseteq Harness!ToSet(entries) /\ (\A r \in owned : r.run = "mine")
      /\ Len(Harness!Steps) = 9
  BY HarnessSteps DEF Harness!IInv, Harness!Known
<1>2. book' \in Seq(U) /\ entries' \in Seq(U)
  BY <1>1 DEF Harness!BeginTeardown, Harness!account
<1>3. Harness!ToSet(book') \subseteq U /\ Harness!ToSet(entries') \subseteq U
  BY <1>2 DEF Harness!ToSet
<1>4. left' \union groups' \subseteq Harness!ToSet(entries')
      /\ (\A r \in owned' : r.run = "mine")
  BY <1>1 DEF Harness!BeginTeardown, Harness!account
<1>5. Harness!TypeOK'
  BY <1>1, <1>3, SMTT(30) DEF Harness!BoundsAreNatural, Harness!TypeOK, Harness!BeginTeardown,
     Harness!account
<1>6. Harness!Known'
  BY <1>2, <1>4, <1>5 DEF Harness!Known
<1>7. Harness!OthersAreKept'
  BY <1>1 DEF Harness!IInv, Harness!OthersAreKept, Harness!BeginTeardown, Harness!account
<1>8. Harness!NamedAreTracked'
  BY <1>1 DEF Harness!IInv, Harness!NamedAreTracked, Harness!BeginTeardown, Harness!account
<1>9. Harness!ParentsStay'
  BY <1>1 DEF Harness!IInv, Harness!ParentsStay, Harness!BeginTeardown, Harness!account
<1>10. Harness!Untouched'
  BY <1>1 DEF Harness!IInv, Harness!Untouched, Harness!BeginTeardown, Harness!account
<1>11. Harness!NotedInOrder'
  BY <1>1 DEF Harness!IInv, Harness!NotedInOrder, Harness!Creating, Harness!BeginTeardown,
     Harness!account
<1>12. Harness!JoinedIsNoted'
  BY <1>1 DEF Harness!IInv, Harness!JoinedIsNoted, Harness!BeginTeardown, Harness!account
<1>13. Harness!NothingLeftYet'
  BY <1>1 DEF Harness!IInv, Harness!NothingLeftYet, Harness!BeginTeardown, Harness!account
<1>14. Harness!PastIsDone'
  BY <1>1 DEF Harness!IInv, Harness!PastIsDone, Harness!DoneWith, Harness!BeginTeardown,
     Harness!account
<1>15. Harness!LeftIsHeld'
  BY DEF Harness!IInv, Harness!NothingLeftYet, Harness!LeftIsHeld, Harness!BeginTeardown
<1>16. Harness!CleanExitIsClean'
  <2>1. entries = <<>> => Harness!ToSet(entries) = {}
    BY DEF Harness!ToSet
  <2> QED BY <2>1 DEF Harness!CleanExitIsClean, Harness!BeginTeardown
<1>17. QED
  BY <1>6, <1>7, <1>8, <1>9, <1>10, <1>11, <1>12, <1>13, <1>14, <1>15, <1>16 DEF Harness!IInv

LEMMA HarnessTeardownFile ==
  ASSUME Harness!BoundsAreNatural, Harness!IInv, Harness!TeardownFile
  PROVE Harness!IInv'
<1> DEFINE U == Harness!Ours \union Harness!Neighbour
<1>1. Harness!TypeOK /\ entries \in Seq(U) /\ book \in Seq(U)
      /\ left \union groups \subseteq Harness!ToSet(entries) /\ (\A r \in owned : r.run = "mine")
      /\ Len(Harness!Steps) = 9
  BY HarnessSteps DEF Harness!IInv, Harness!Known
<1>2. book' \in Seq(U) /\ entries' \in Seq(U)
  BY <1>1 DEF Harness!TeardownFile, Harness!account
<1>3. Harness!ToSet(book') \subseteq U /\ Harness!ToSet(entries') \subseteq U
  BY <1>2 DEF Harness!ToSet
<1>4. left' \union groups' \subseteq Harness!ToSet(entries')
      /\ (\A r \in owned' : r.run = "mine")
  BY <1>1 DEF Harness!TeardownFile, Harness!account
<1>5. Harness!TypeOK'
  <2>1. todo' = DOMAIN entries' /\ at' = "delete" /\ code' = "pass" /\ owned' = {} /\ groups' = {}
        /\ left' = {} /\ hit' = FALSE
        /\ UNCHANGED <<cloud, logs, joined, book, step, breaks, pasted>>
    BY DEF Harness!TeardownFile, Harness!account
  <2>2. todo' \subseteq DOMAIN entries' /\ hit' \in BOOLEAN /\ groups' \subseteq Harness!Function
        /\ owned' \subseteq U /\ left' \subseteq U
    BY <2>1
  <2>3. cloud' \subseteq U /\ logs' \subseteq Harness!Function /\ joined' \in BOOLEAN
        /\ step' \in 0..9 /\ breaks' \in 0..MaxBreaks /\ pasted' \in 0..MaxPasted
    BY <1>1, <2>1 DEF Harness!TypeOK, U
  <2> HIDE DEF U
  <2> QED BY <1>1, <1>3, <2>1, <2>2, <2>3 DEF Harness!TypeOK, U
<1>6. Harness!Known'
  BY <1>2, <1>4, <1>5 DEF Harness!Known
<1>7. Harness!OthersAreKept'
  BY <1>1 DEF Harness!IInv, Harness!OthersAreKept, Harness!TeardownFile, Harness!account
<1>8. Harness!NamedAreTracked'
  BY <1>1 DEF Harness!IInv, Harness!NamedAreTracked, Harness!TeardownFile, Harness!account
<1>9. Harness!ParentsStay'
  BY <1>1 DEF Harness!IInv, Harness!ParentsStay, Harness!TeardownFile, Harness!account
<1>10. Harness!Untouched'
  BY <1>1 DEF Harness!IInv, Harness!Untouched, Harness!TeardownFile, Harness!account
<1>11. Harness!NotedInOrder'
  BY <1>1 DEF Harness!IInv, Harness!NotedInOrder, Harness!Creating, Harness!TeardownFile,
     Harness!account
<1>12. Harness!JoinedIsNoted'
  BY <1>1 DEF Harness!IInv, Harness!JoinedIsNoted, Harness!TeardownFile, Harness!account
<1>13. Harness!NothingLeftYet'
  BY <1>1 DEF Harness!IInv, Harness!NothingLeftYet, Harness!TeardownFile, Harness!account
<1>14. Harness!PastIsDone'
  BY <1>1 DEF Harness!IInv, Harness!PastIsDone, Harness!DoneWith, Harness!TeardownFile,
     Harness!account
<1>15. Harness!LeftIsHeld'
  BY <1>1 DEF Harness!IInv, Harness!LeftIsHeld, Harness!TeardownFile, Harness!account
<1>16. Harness!CleanExitIsClean'
  BY <1>1 DEF Harness!IInv, Harness!CleanExitIsClean, Harness!TeardownFile, Harness!account
<1>17. QED
  BY <1>6, <1>7, <1>8, <1>9, <1>10, <1>11, <1>12, <1>13, <1>14, <1>15, <1>16 DEF Harness!IInv

LEMMA HarnessGoneEntry ==
  ASSUME Harness!BoundsAreNatural, Harness!IInv, Harness!GoneEntry
  PROVE Harness!IInv'
<1> DEFINE U == Harness!Ours \union Harness!Neighbour
<1>1. Harness!TypeOK /\ entries \in Seq(U) /\ book \in Seq(U)
      /\ left \union groups \subseteq Harness!ToSet(entries) /\ (\A r \in owned : r.run = "mine")
      /\ Len(Harness!Steps) = 9
  BY HarnessSteps DEF Harness!IInv, Harness!Known
<1>2. PICK i \in todo : LET this == entries[i] IN
         Harness!Entry(i) /\ ~Harness!IsOurs(this) /\ ~Harness!Refused(this)
        /\ (groups' = IF this.kind = "lambda" THEN groups \union {this} ELSE groups)
        /\ UNCHANGED <<cloud, owned, left>> /\ Harness!NoFault
  BY DEF Harness!GoneEntry
<1> DEFINE this == entries[i]
<1>3. /\ at = "delete" /\ at' = "delete" /\ todo' = todo \ {i} /\ i \in DOMAIN entries
      /\ UNCHANGED <<book, step, entries, code, pasted, logs, joined>>
      /\ this \in U /\ this \in Harness!ToSet(entries)
      /\ \A j \in DOMAIN entries \ todo' : j = i \/ j \in DOMAIN entries \ todo
  BY <1>1, <1>2, HarnessFacts DEF Harness!Entry, Harness!TypeOK
<1>4. /\ ~Harness!IsOurs(this) /\ ~Harness!Refused(this)
      /\ (groups' = IF this.kind = "lambda" THEN groups \union {this} ELSE groups)
      /\ UNCHANGED <<cloud, owned, left>> /\ Harness!NoFault
  BY <1>2 DEF Harness!Entry
<1>5. /\ Harness!IsOurs(this) => this.run = "mine"
      /\ Harness!Refused(this) => this.run # "mine"
      /\ this \in cloud /\ this.run = "mine" => Harness!IsOurs(this)
      /\ this.kind = "lambda" => this \in Harness!Function
  BY <1>3, HarnessFacts, HarnessKinds DEF U
<1>6. \A j \in DOMAIN entries \ todo : entries[j].run = "mine" => Harness!DoneWith(entries[j])
  BY <1>3 DEF Harness!IInv, Harness!PastIsDone
<1> HIDE DEF this
<1>7. cloud' = cloud
  BY <1>4
<1>8. book' \in Seq(U) /\ entries' \in Seq(U)
  BY <1>1, <1>3
<1>9. Harness!ToSet(book') \subseteq U /\ Harness!ToSet(entries') \subseteq U
  BY <1>8 DEF Harness!ToSet
<1>10. left' \union groups' \subseteq Harness!ToSet(entries')
      /\ (\A r \in owned' : r.run = "mine")
  BY <1>1, <1>3, <1>4
<1>11. Harness!TypeOK'
  <2>1. groups' \subseteq Harness!Function /\ owned' \subseteq U /\ left' \subseteq U
    BY <1>1, <1>3, <1>4, <1>5 DEF Harness!TypeOK, Harness!NoFault, U
  <2>2. code' = code /\ code # "none"
        /\ code \in {"none", "pass", "fail", "raised", "leftovers", "died"}
    BY <1>1, <1>3 DEF Harness!TypeOK
  <2>3. logs' \subseteq Harness!Function /\ joined' \in BOOLEAN /\ step' \in 0..9
        /\ pasted' \in 0..MaxPasted /\ todo' \subseteq DOMAIN entries' /\ cloud' \subseteq U
    BY <1>1, <1>3, <1>7 DEF Harness!TypeOK, U
  <2>4. breaks' \in 0..MaxBreaks /\ hit' \in BOOLEAN
    BY <1>1, <1>4, HarnessFault
  <2> HIDE DEF U
  <2> QED BY <1>1, <1>9, <1>3, <2>1, <2>2, <2>3, <2>4 DEF Harness!TypeOK, U
<1>12. Harness!Known'
  BY <1>8, <1>10, <1>11 DEF Harness!Known
<1>13. Harness!OthersAreKept'
  BY <1>7 DEF Harness!IInv, Harness!OthersAreKept
<1>14. Harness!NamedAreTracked'
  BY <1>3, <1>7 DEF Harness!IInv, Harness!NamedAreTracked
<1>15. Harness!ParentsStay'
  BY <1>7 DEF Harness!IInv, Harness!ParentsStay
<1>16. Harness!Untouched'
  BY <1>3 DEF Harness!Untouched
<1>17. Harness!NotedInOrder'
  BY <1>3 DEF Harness!NotedInOrder, Harness!Creating
<1>18. Harness!JoinedIsNoted'
  BY <1>3, <1>7 DEF Harness!IInv, Harness!JoinedIsNoted
<1>19. Harness!NothingLeftYet'
  BY <1>3 DEF Harness!NothingLeftYet
<1>20. Harness!PastIsDone'
  BY <1>3, <1>4, <1>5, <1>6 DEF Harness!PastIsDone, Harness!DoneWith, this
<1>21. Harness!LeftIsHeld'
  BY <1>3, <1>4 DEF Harness!IInv, Harness!LeftIsHeld, Harness!NoFault
<1>22. Harness!CleanExitIsClean'
  BY <1>3 DEF Harness!CleanExitIsClean
<1>23. QED
  BY <1>12, <1>13, <1>14, <1>15, <1>16, <1>17, <1>18, <1>19, <1>20, <1>21, <1>22 DEF Harness!IInv

LEMMA HarnessForeignEntry ==
  ASSUME Harness!BoundsAreNatural, Harness!IInv, Harness!ForeignEntry
  PROVE Harness!IInv'
<1> DEFINE U == Harness!Ours \union Harness!Neighbour
<1>1. Harness!TypeOK /\ entries \in Seq(U) /\ book \in Seq(U)
      /\ left \union groups \subseteq Harness!ToSet(entries) /\ (\A r \in owned : r.run = "mine")
      /\ Len(Harness!Steps) = 9
  BY HarnessSteps DEF Harness!IInv, Harness!Known
<1>2. PICK i \in todo : LET this == entries[i] IN
         Harness!Entry(i) /\ Harness!Refused(this) /\ left' = left \union {this}
        /\ UNCHANGED <<cloud, owned, groups>> /\ Harness!NoFault
  BY DEF Harness!ForeignEntry
<1> DEFINE this == entries[i]
<1>3. /\ at = "delete" /\ at' = "delete" /\ todo' = todo \ {i} /\ i \in DOMAIN entries
      /\ UNCHANGED <<book, step, entries, code, pasted, logs, joined>>
      /\ this \in U /\ this \in Harness!ToSet(entries)
      /\ \A j \in DOMAIN entries \ todo' : j = i \/ j \in DOMAIN entries \ todo
  BY <1>1, <1>2, HarnessFacts DEF Harness!Entry, Harness!TypeOK
<1>4. /\ Harness!Refused(this) /\ left' = left \union {this} /\ UNCHANGED <<cloud, owned, groups>>
      /\ Harness!NoFault
  BY <1>2 DEF Harness!Entry
<1>5. /\ Harness!IsOurs(this) => this.run = "mine"
      /\ Harness!Refused(this) => this.run # "mine"
      /\ this \in cloud /\ this.run = "mine" => Harness!IsOurs(this)
      /\ this.kind = "lambda" => this \in Harness!Function
  BY <1>3, HarnessFacts, HarnessKinds DEF U
<1>6. \A j \in DOMAIN entries \ todo : entries[j].run = "mine" => Harness!DoneWith(entries[j])
  BY <1>3 DEF Harness!IInv, Harness!PastIsDone
<1> HIDE DEF this
<1>7. cloud' = cloud
  BY <1>4
<1>8. book' \in Seq(U) /\ entries' \in Seq(U)
  BY <1>1, <1>3
<1>9. Harness!ToSet(book') \subseteq U /\ Harness!ToSet(entries') \subseteq U
  BY <1>8 DEF Harness!ToSet
<1>10. left' \union groups' \subseteq Harness!ToSet(entries')
      /\ (\A r \in owned' : r.run = "mine")
  BY <1>1, <1>3, <1>4
<1>11. Harness!TypeOK'
  <2>1. groups' \subseteq Harness!Function /\ owned' \subseteq U /\ left' \subseteq U
    BY <1>1, <1>3, <1>4 DEF Harness!TypeOK, Harness!NoFault, U
  <2>2. code' = code /\ code # "none"
        /\ code \in {"none", "pass", "fail", "raised", "leftovers", "died"}
    BY <1>1, <1>3 DEF Harness!TypeOK
  <2>3. logs' \subseteq Harness!Function /\ joined' \in BOOLEAN /\ step' \in 0..9
        /\ pasted' \in 0..MaxPasted /\ todo' \subseteq DOMAIN entries' /\ cloud' \subseteq U
    BY <1>1, <1>3, <1>7 DEF Harness!TypeOK, U
  <2>4. breaks' \in 0..MaxBreaks /\ hit' \in BOOLEAN
    BY <1>1, <1>4, HarnessFault
  <2> HIDE DEF U
  <2> QED BY <1>1, <1>9, <1>3, <2>1, <2>2, <2>3, <2>4 DEF Harness!TypeOK, U
<1>12. Harness!Known'
  BY <1>8, <1>10, <1>11 DEF Harness!Known
<1>13. Harness!OthersAreKept'
  BY <1>7 DEF Harness!IInv, Harness!OthersAreKept
<1>14. Harness!NamedAreTracked'
  BY <1>3, <1>7 DEF Harness!IInv, Harness!NamedAreTracked
<1>15. Harness!ParentsStay'
  BY <1>7 DEF Harness!IInv, Harness!ParentsStay
<1>16. Harness!Untouched'
  BY <1>3 DEF Harness!Untouched
<1>17. Harness!NotedInOrder'
  BY <1>3 DEF Harness!NotedInOrder, Harness!Creating
<1>18. Harness!JoinedIsNoted'
  BY <1>3, <1>7 DEF Harness!IInv, Harness!JoinedIsNoted
<1>19. Harness!NothingLeftYet'
  BY <1>3 DEF Harness!NothingLeftYet
<1>20. Harness!PastIsDone'
  BY <1>3, <1>4, <1>6 DEF Harness!PastIsDone, Harness!DoneWith, this
<1>21. Harness!LeftIsHeld'
  BY <1>3, <1>4, <1>5 DEF Harness!IInv, Harness!LeftIsHeld, Harness!NoFault
<1>22. Harness!CleanExitIsClean'
  BY <1>3 DEF Harness!CleanExitIsClean
<1>23. QED
  BY <1>12, <1>13, <1>14, <1>15, <1>16, <1>17, <1>18, <1>19, <1>20, <1>21, <1>22 DEF Harness!IInv

LEMMA HarnessDeletedEntry ==
  ASSUME Harness!BoundsAreNatural, Harness!IInv, Harness!DeletedEntry
  PROVE Harness!IInv'
<1> DEFINE U == Harness!Ours \union Harness!Neighbour
<1>1. Harness!TypeOK /\ entries \in Seq(U) /\ book \in Seq(U)
      /\ left \union groups \subseteq Harness!ToSet(entries) /\ (\A r \in owned : r.run = "mine")
      /\ Len(Harness!Steps) = 9
  BY HarnessSteps DEF Harness!IInv, Harness!Known
<1>2. PICK i \in todo : LET this == entries[i] IN
         Harness!Entry(i) /\ Harness!IsOurs(this) /\ ~Harness!Held(this)
        /\ cloud' = cloud \ {this} /\ owned' = owned \union {Harness!Anchor(this)}
        /\ (groups' = IF this.kind = "lambda" THEN groups \union {this} ELSE groups)
        /\ UNCHANGED left /\ Harness!NoFault
  BY DEF Harness!DeletedEntry
<1> DEFINE this == entries[i]
<1>3. /\ at = "delete" /\ at' = "delete" /\ todo' = todo \ {i} /\ i \in DOMAIN entries
      /\ UNCHANGED <<book, step, entries, code, pasted, logs, joined>>
      /\ this \in U /\ this \in Harness!ToSet(entries)
      /\ \A j \in DOMAIN entries \ todo' : j = i \/ j \in DOMAIN entries \ todo
  BY <1>1, <1>2, HarnessFacts DEF Harness!Entry, Harness!TypeOK
<1>4. /\ Harness!IsOurs(this) /\ ~Harness!Held(this) /\ cloud' = cloud \ {this}
      /\ owned' = owned \union {Harness!Anchor(this)}
      /\ (groups' = IF this.kind = "lambda" THEN groups \union {this} ELSE groups)
      /\ UNCHANGED left /\ Harness!NoFault
  BY <1>2 DEF Harness!Entry
<1>5. /\ Harness!IsOurs(this) => this.run = "mine"
      /\ Harness!Refused(this) => this.run # "mine"
      /\ this \in cloud /\ this.run = "mine" => Harness!IsOurs(this)
      /\ this.kind = "lambda" => this \in Harness!Function
  BY <1>3, HarnessFacts, HarnessKinds DEF U
<1>6. \A j \in DOMAIN entries \ todo : entries[j].run = "mine" => Harness!DoneWith(entries[j])
  BY <1>3 DEF Harness!IInv, Harness!PastIsDone
<1> HIDE DEF this
<1>7. cloud' = cloud \ {this} /\ joined' = joined
  BY <1>3, <1>4
<1>8. Harness!Anchor(this) \in U
  BY <1>3, HarnessAnchors DEF U
<1>9. book' \in Seq(U) /\ entries' \in Seq(U)
  BY <1>1, <1>3
<1>10. Harness!ToSet(book') \subseteq U /\ Harness!ToSet(entries') \subseteq U
  BY <1>9 DEF Harness!ToSet
<1>11. left' \union groups' \subseteq Harness!ToSet(entries')
      /\ (\A r \in owned' : r.run = "mine")
  <2>1. this.run = "mine" => Harness!Anchor(this).run = "mine" /\ Harness!Anchor(this) \in U
    BY <1>3, HarnessAnchors DEF U
  <2> QED BY <1>1, <1>3, <1>4, <1>5, <2>1
<1>12. Harness!TypeOK'
  <2>1. groups' \subseteq Harness!Function /\ owned' \subseteq U /\ left' \subseteq U
    BY <1>1, <1>3, <1>4, <1>5, <1>8 DEF Harness!TypeOK, Harness!NoFault, U
  <2>2. code' = code /\ code # "none"
        /\ code \in {"none", "pass", "fail", "raised", "leftovers", "died"}
    BY <1>1, <1>3 DEF Harness!TypeOK
  <2>3. logs' \subseteq Harness!Function /\ joined' \in BOOLEAN /\ step' \in 0..9
        /\ pasted' \in 0..MaxPasted /\ todo' \subseteq DOMAIN entries' /\ cloud' \subseteq U
    BY <1>1, <1>3, <1>7 DEF Harness!TypeOK, U
  <2>4. breaks' \in 0..MaxBreaks /\ hit' \in BOOLEAN
    BY <1>1, <1>4, HarnessFault
  <2> HIDE DEF U
  <2> QED BY <1>1, <1>10, <1>3, <2>1, <2>2, <2>3, <2>4 DEF Harness!TypeOK, U
<1>13. Harness!Known'
  BY <1>9, <1>11, <1>12 DEF Harness!Known
<1>14. Harness!OthersAreKept'
  <2>1. this \notin Harness!Neighbour
    BY <1>4, <1>5, HarnessKinds
  <2> QED BY <1>7, <2>1 DEF Harness!IInv, Harness!OthersAreKept
<1>15. Harness!NamedAreTracked'
  BY <1>3, <1>7 DEF Harness!IInv, Harness!NamedAreTracked
<1>16. Harness!ParentsStay'
  <2>1. ASSUME NEW c \in cloud, c # this, Harness!Anchor(c) = this
        PROVE FALSE
    BY <1>4, <2>1 DEF Harness!Held
  <2> QED BY <1>7, <2>1 DEF Harness!IInv, Harness!ParentsStay
<1>17. Harness!Untouched'
  BY <1>3 DEF Harness!Untouched
<1>18. Harness!NotedInOrder'
  BY <1>3 DEF Harness!NotedInOrder, Harness!Creating
<1>19. Harness!JoinedIsNoted'
  BY <1>3, <1>7 DEF Harness!IInv, Harness!JoinedIsNoted
<1>20. Harness!NothingLeftYet'
  BY <1>3 DEF Harness!NothingLeftYet
<1>21. Harness!PastIsDone'
  BY <1>3, <1>4, <1>7, <1>6 DEF Harness!PastIsDone, Harness!DoneWith, this
<1>22. Harness!LeftIsHeld'
  BY <1>3, <1>4 DEF Harness!IInv, Harness!LeftIsHeld, Harness!NoFault
<1>23. Harness!CleanExitIsClean'
  BY <1>3 DEF Harness!CleanExitIsClean
<1>24. QED
  BY <1>13, <1>14, <1>15, <1>16, <1>17, <1>18, <1>19, <1>20, <1>21, <1>22, <1>23 DEF Harness!IInv

LEMMA HarnessFailedEntry ==
  ASSUME Harness!BoundsAreNatural, Harness!IInv, Harness!FailedEntry
  PROVE Harness!IInv'
<1> DEFINE U == Harness!Ours \union Harness!Neighbour
<1>1. Harness!TypeOK /\ entries \in Seq(U) /\ book \in Seq(U)
      /\ left \union groups \subseteq Harness!ToSet(entries) /\ (\A r \in owned : r.run = "mine")
      /\ Len(Harness!Steps) = 9
  BY HarnessSteps DEF Harness!IInv, Harness!Known
<1>2. PICK i \in todo : LET this == entries[i] IN
         Harness!Entry(i) /\ Harness!IsOurs(this) /\ left' = left \union {this} /\ UNCHANGED groups
        /\ (IF Harness!Held(this)
            THEN UNCHANGED cloud /\ owned' = owned \union {Harness!Anchor(this)} /\ Harness!NoFault
            ELSE /\ cloud' \in {cloud, cloud \ {this}}
                 /\ owned' \in {owned, owned \union {Harness!Anchor(this)}} /\ Harness!Fault)
  BY DEF Harness!FailedEntry
<1> DEFINE this == entries[i]
<1>3. /\ at = "delete" /\ at' = "delete" /\ todo' = todo \ {i} /\ i \in DOMAIN entries
      /\ UNCHANGED <<book, step, entries, code, pasted, logs, joined>>
      /\ this \in U /\ this \in Harness!ToSet(entries)
      /\ \A j \in DOMAIN entries \ todo' : j = i \/ j \in DOMAIN entries \ todo
  BY <1>1, <1>2, HarnessFacts DEF Harness!Entry, Harness!TypeOK
<1>4. /\ Harness!IsOurs(this) /\ left' = left \union {this} /\ UNCHANGED groups
      /\ (IF Harness!Held(this)
          THEN UNCHANGED cloud /\ owned' = owned \union {Harness!Anchor(this)} /\ Harness!NoFault
          ELSE /\ cloud' \in {cloud, cloud \ {this}}
               /\ owned' \in {owned, owned \union {Harness!Anchor(this)}} /\ Harness!Fault)
  BY <1>2 DEF Harness!Entry
<1>5. /\ Harness!IsOurs(this) => this.run = "mine"
      /\ Harness!Refused(this) => this.run # "mine"
      /\ this \in cloud /\ this.run = "mine" => Harness!IsOurs(this)
      /\ this.kind = "lambda" => this \in Harness!Function
  BY <1>3, HarnessFacts, HarnessKinds DEF U
<1>6. \A j \in DOMAIN entries \ todo : entries[j].run = "mine" => Harness!DoneWith(entries[j])
  BY <1>3 DEF Harness!IInv, Harness!PastIsDone
<1> HIDE DEF this
<1>7. cloud' \subseteq cloud /\ joined' = joined /\ cloud \ {this} \subseteq cloud'
      /\ (Harness!Held(this) => cloud' = cloud) /\ (~hit' => Harness!Held(this) /\ ~hit)
      /\ (Harness!NoFault \/ Harness!Fault)
      /\ owned' \subseteq owned \union {Harness!Anchor(this)}
  BY <1>3, <1>4 DEF Harness!Fault, Harness!NoFault
<1>8. Harness!Anchor(this) \in U
  BY <1>3, HarnessAnchors DEF U
<1>9. book' \in Seq(U) /\ entries' \in Seq(U)
  BY <1>1, <1>3
<1>10. Harness!ToSet(book') \subseteq U /\ Harness!ToSet(entries') \subseteq U
  BY <1>9 DEF Harness!ToSet
<1>11. left' \union groups' \subseteq Harness!ToSet(entries')
      /\ (\A r \in owned' : r.run = "mine")
  <2>1. this.run = "mine" => Harness!Anchor(this).run = "mine" /\ Harness!Anchor(this) \in U
    BY <1>3, HarnessAnchors DEF U
  <2> QED BY <1>1, <1>3, <1>4, <1>5, <1>7, <2>1
<1>12. Harness!TypeOK'
  <2>1. groups' \subseteq Harness!Function /\ owned' \subseteq U /\ left' \subseteq U
    BY <1>1, <1>3, <1>4, <1>7, <1>8 DEF Harness!TypeOK, Harness!NoFault, U
  <2>2. code' = code /\ code # "none"
        /\ code \in {"none", "pass", "fail", "raised", "leftovers", "died"}
    BY <1>1, <1>3 DEF Harness!TypeOK
  <2>3. logs' \subseteq Harness!Function /\ joined' \in BOOLEAN /\ step' \in 0..9
        /\ pasted' \in 0..MaxPasted /\ todo' \subseteq DOMAIN entries' /\ cloud' \subseteq U
    BY <1>1, <1>3, <1>7 DEF Harness!TypeOK, U
  <2>4. breaks' \in 0..MaxBreaks /\ hit' \in BOOLEAN
    BY <1>1, <1>7, HarnessFault
  <2> HIDE DEF U
  <2> QED BY <1>1, <1>10, <1>3, <2>1, <2>2, <2>3, <2>4 DEF Harness!TypeOK, U
<1>13. Harness!Known'
  BY <1>9, <1>11, <1>12 DEF Harness!Known
<1>14. Harness!OthersAreKept'
  <2>1. this \notin Harness!Neighbour
    BY <1>4, <1>5, HarnessKinds
  <2> QED BY <1>7, <2>1 DEF Harness!IInv, Harness!OthersAreKept
<1>15. Harness!NamedAreTracked'
  BY <1>3, <1>7 DEF Harness!IInv, Harness!NamedAreTracked
<1>16. Harness!ParentsStay'
  <2>1. ASSUME NEW c \in cloud, c # this, Harness!Anchor(c) = this
        PROVE Harness!Held(this)
    BY <2>1 DEF Harness!Held
  <2> QED BY <1>7, <2>1 DEF Harness!IInv, Harness!ParentsStay
<1>17. Harness!Untouched'
  BY <1>3 DEF Harness!Untouched
<1>18. Harness!NotedInOrder'
  BY <1>3 DEF Harness!NotedInOrder, Harness!Creating
<1>19. Harness!JoinedIsNoted'
  BY <1>3, <1>7 DEF Harness!IInv, Harness!JoinedIsNoted
<1>20. Harness!NothingLeftYet'
  BY <1>3 DEF Harness!NothingLeftYet
<1>21. Harness!PastIsDone'
  BY <1>3, <1>4, <1>7, <1>6 DEF Harness!PastIsDone, Harness!DoneWith, this
<1>22. Harness!LeftIsHeld'
  <2> SUFFICES ASSUME ~hit', NEW x \in left', x.run = "mine"
               PROVE \E c \in cloud' : c \notin Harness!ToSet(entries') /\ Harness!Anchor(c) = x
    BY DEF Harness!LeftIsHeld
  <2>1. /\ Harness!Held(this) /\ cloud' = cloud
        /\ \A y \in left : y.run = "mine" =>
              \E c \in cloud : c \notin Harness!ToSet(entries) /\ Harness!Anchor(c) = y
    BY <1>3, <1>7 DEF Harness!IInv, Harness!LeftIsHeld
  <2>2. x = this \/ x \in left
    BY <1>4
  <2>3. ASSUME NEW j \in DOMAIN entries, entries[j] \in cloud, entries[j].run = "mine",
               ~Harness!TeardownOrder(i, j), j # i
        PROVE \E c \in cloud : c \notin Harness!ToSet(entries) /\ Harness!Anchor(c) = entries[j]
    <3>1. j \notin todo
      BY <1>2, <2>3 DEF Harness!Entry
    <3>2. entries[j] \in left
      BY <1>6, <2>3, <3>1 DEF Harness!DoneWith
    <3> QED BY <2>1, <2>3, <3>2
  <2>4. CASE \E c \in cloud : c # this /\ Harness!Anchor(c) = this /\ this.run = "mine"
    <3>1. PICK c \in cloud : c # this /\ Harness!Anchor(c) = this /\ this.run = "mine"
      BY <2>4
    <3>2. SUFFICES ASSUME c \in Harness!ToSet(entries) PROVE FALSE
      BY <1>3, <2>1, <2>2, <3>1
    <3>3. PICK j \in DOMAIN entries : entries[j] = c
      BY <3>2, HarnessFacts
    <3>4. /\ c \in U /\ c.run = "mine" /\ j # i
          /\ \/ c.kind = "target" /\ this.kind = "gateway"
             \/ c.kind = "policy" /\ this.kind = "policy-engine"
      BY <1>1, <3>1, <3>3, HarnessAnchors DEF Harness!TypeOK, U, this
    <3>5. ~Harness!TeardownOrder(i, j)
      <4>1. ~Harness!KindBefore(this, c) /\ this.kind # c.kind
        BY <3>4, HarnessOrder
      <4> QED BY <3>3, <4>1 DEF Harness!TeardownOrder, this
    <3>6. PICK e \in cloud : Harness!Anchor(e) = c
      BY <2>3, <3>1, <3>3, <3>4, <3>5
    <3>7. e \in U
      BY <1>1 DEF Harness!TypeOK, U
    <3>8. c.kind \notin {"target", "policy"}
      BY <3>6, <3>7, HarnessAnchors DEF U
    <3> QED BY <3>4, <3>8
  <2>5. CASE x = this /\ this = Harness!Engine /\ joined /\ Harness!Gateway \in cloud
    <3>1. /\ Harness!Gateway \in Harness!Ours /\ Harness!Gateway.kind = "gateway"
          /\ Harness!Gateway.run = "mine" /\ this.kind = "policy-engine"
      BY <2>5, HarnessKinds
    <3>2. Harness!Gateway \in Harness!ToSet(entries)
      BY <2>5, <3>1 DEF Harness!IInv, Harness!JoinedIsNoted
    <3>3. PICK j \in DOMAIN entries : entries[j] = Harness!Gateway
      BY <3>2, HarnessFacts
    <3>4. ~Harness!TeardownOrder(i, j) /\ j # i
      <4>1. ~Harness!KindBefore(this, Harness!Gateway) /\ this.kind # Harness!Gateway.kind
        BY <3>1, HarnessOrder
      <4> QED BY <3>3, <4>1 DEF Harness!TeardownOrder, this
    <3>5. PICK e \in cloud : e \notin Harness!ToSet(entries) /\ Harness!Anchor(e) = Harness!Gateway
      BY <2>3, <2>5, <3>1, <3>3, <3>4
    <3>6. e \in U /\ e \in Harness!Ours
      BY <1>1, <3>1, <3>5, HarnessAnchors DEF Harness!TypeOK, U
    <3> QED BY <2>5, <3>5, <3>6 DEF Harness!IInv, Harness!JoinedIsNoted
  <2>6. CASE x \in left
    BY <1>3, <2>1, <2>6
  <2>7. CASE x = this
    BY <2>1, <2>4, <2>5, <2>7 DEF Harness!Held
  <2> QED BY <2>2, <2>6, <2>7
<1>23. Harness!CleanExitIsClean'
  BY <1>3 DEF Harness!CleanExitIsClean
<1>24. QED
  BY <1>13, <1>14, <1>15, <1>16, <1>17, <1>18, <1>19, <1>20, <1>21, <1>22, <1>23 DEF Harness!IInv

LEMMA HarnessDeleteLogGroups ==
  ASSUME Harness!BoundsAreNatural, Harness!IInv, Harness!DeleteLogGroups
  PROVE Harness!IInv'
<1> DEFINE U == Harness!Ours \union Harness!Neighbour
<1>1. Harness!TypeOK /\ entries \in Seq(U) /\ book \in Seq(U)
      /\ left \union groups \subseteq Harness!ToSet(entries) /\ (\A r \in owned : r.run = "mine")
      /\ Len(Harness!Steps) = 9
  BY HarnessSteps DEF Harness!IInv, Harness!Known
<1>2. /\ at = "delete" /\ todo = {} /\ at' = "ended" /\ logs' \subseteq logs /\ left \subseteq left'
      /\ UNCHANGED <<cloud, joined, book, step, entries, todo, owned, groups, pasted>>
      /\ code' = IF code # "raised" /\ left' # {} THEN "leftovers" ELSE code
      /\ (Harness!NoFault \/ Harness!Fault)
  BY DEF Harness!DeleteLogGroups
<1>3. (left' = left /\ logs' = logs \ groups /\ Harness!NoFault)
      \/ (hit' = TRUE /\ \E g \in groups : left' = left \union {g})
  BY DEF Harness!DeleteLogGroups, Harness!Fault
<1>4. book' \in Seq(U) /\ entries' \in Seq(U)
  BY <1>1 DEF Harness!DeleteLogGroups, Harness!Fault, Harness!NoFault
<1>5. Harness!ToSet(book') \subseteq U /\ Harness!ToSet(entries') \subseteq U
  BY <1>4 DEF Harness!ToSet
<1>6. left' \union groups' \subseteq Harness!ToSet(entries')
      /\ (\A r \in owned' : r.run = "mine")
  BY <1>1, <1>2, <1>3
<1>7. Harness!TypeOK'
  <2>1. code' \in {"none", "pass", "fail", "raised", "leftovers", "died"} /\ code' # "none"
        /\ at' = "ended"
    BY <1>1, <1>2 DEF Harness!TypeOK
  <2>2. left' \subseteq U /\ logs' \subseteq Harness!Function
    BY <1>1, <1>5, <1>6, <1>2 DEF Harness!TypeOK
  <2>3. breaks' \in 0..MaxBreaks /\ hit' \in BOOLEAN
    BY <1>1, <1>2, HarnessFault
  <2>4. /\ cloud' \subseteq U /\ owned' \subseteq U /\ joined' \in BOOLEAN /\ step' \in 0..9
        /\ groups' \subseteq Harness!Function /\ todo' \subseteq DOMAIN entries'
        /\ pasted' \in 0..MaxPasted
    BY <1>1, <1>2 DEF Harness!TypeOK, U
  <2> HIDE DEF U
  <2> QED BY <1>1, <1>5, <2>1, <2>2, <2>3, <2>4 DEF Harness!TypeOK, U
<1>8. Harness!Known'
  BY <1>4, <1>6, <1>7 DEF Harness!Known
<1>9. Harness!OthersAreKept'
  BY <1>1 DEF Harness!IInv, Harness!OthersAreKept, Harness!DeleteLogGroups, Harness!Fault,
     Harness!NoFault
<1>10. Harness!NamedAreTracked'
  BY <1>1 DEF Harness!IInv, Harness!NamedAreTracked, Harness!DeleteLogGroups, Harness!Fault,
     Harness!NoFault
<1>11. Harness!ParentsStay'
  BY <1>1 DEF Harness!IInv, Harness!ParentsStay, Harness!DeleteLogGroups, Harness!Fault,
     Harness!NoFault
<1>12. Harness!Untouched'
  BY <1>1 DEF Harness!IInv, Harness!Untouched, Harness!DeleteLogGroups, Harness!Fault,
     Harness!NoFault
<1>13. Harness!NotedInOrder'
  BY <1>1 DEF Harness!IInv, Harness!NotedInOrder, Harness!Creating, Harness!DeleteLogGroups,
     Harness!Fault, Harness!NoFault
<1>14. Harness!JoinedIsNoted'
  BY <1>1 DEF Harness!IInv, Harness!JoinedIsNoted, Harness!DeleteLogGroups, Harness!Fault,
     Harness!NoFault
<1>15. Harness!NothingLeftYet'
  BY <1>1 DEF Harness!IInv, Harness!NothingLeftYet, Harness!DeleteLogGroups, Harness!Fault,
     Harness!NoFault
<1>16. Harness!PastIsDone'
  BY <1>1 DEF Harness!IInv, Harness!PastIsDone, Harness!DoneWith, Harness!DeleteLogGroups,
     Harness!Fault, Harness!NoFault
<1>17. Harness!LeftIsHeld'
  BY <1>1 DEF Harness!IInv, Harness!LeftIsHeld, Harness!DeleteLogGroups, Harness!Fault,
     Harness!NoFault
<1>18. Harness!CleanExitIsClean'
  <2> SUFFICES ASSUME code' \in {"pass", "fail"}, NEW r \in Harness!ToSet(entries'), r.run = "mine"
               PROVE r \notin cloud' /\ r \notin logs'
    BY DEF Harness!CleanExitIsClean
  <2>1. left' = {} /\ left = {} /\ logs' = logs \ groups
    BY <1>2, <1>3
  <2>2. PICK j \in DOMAIN entries : entries[j] = r
    BY <1>2, HarnessFacts
  <2>3. r \notin cloud /\ (r.kind = "lambda" => r \in groups)
    BY <1>2, <2>1, <2>2 DEF Harness!IInv, Harness!PastIsDone, Harness!DoneWith
  <2>4. r \in U /\ r \in Harness!Ours
    BY <1>2, HarnessFacts, HarnessKinds, <2>2 DEF U
  <2>5. r \in logs => r.kind = "lambda"
    BY <1>1, <2>4, HarnessKinds DEF Harness!TypeOK
  <2> QED BY <1>2, <2>1, <2>3, <2>5
<1>19. QED
  BY <1>8, <1>9, <1>10, <1>11, <1>12, <1>13, <1>14, <1>15, <1>16, <1>17, <1>18 DEF Harness!IInv

LEMMA HarnessInterrupt ==
  ASSUME Harness!BoundsAreNatural, Harness!IInv, Harness!Interrupt
  PROVE Harness!IInv'
<1> DEFINE U == Harness!Ours \union Harness!Neighbour
<1>1. Harness!TypeOK /\ entries \in Seq(U) /\ book \in Seq(U)
      /\ left \union groups \subseteq Harness!ToSet(entries) /\ (\A r \in owned : r.run = "mine")
      /\ Len(Harness!Steps) = 9
  BY HarnessSteps DEF Harness!IInv, Harness!Known
<1>2. book' \in Seq(U) /\ entries' \in Seq(U)
  BY <1>1 DEF Harness!Interrupt, Harness!Fault, Harness!account
<1>3. Harness!ToSet(book') \subseteq U /\ Harness!ToSet(entries') \subseteq U
  BY <1>2 DEF Harness!ToSet
<1>4. left' \union groups' \subseteq Harness!ToSet(entries')
      /\ (\A r \in owned' : r.run = "mine")
  BY <1>1 DEF Harness!Interrupt, Harness!Fault, Harness!account
<1>5. Harness!TypeOK'
  BY <1>1, <1>3, SMTT(30) DEF Harness!BoundsAreNatural, Harness!TypeOK, Harness!Interrupt,
     Harness!Fault, Harness!account
<1>6. Harness!Known'
  BY <1>2, <1>4, <1>5 DEF Harness!Known
<1>7. Harness!OthersAreKept'
  BY <1>1 DEF Harness!IInv, Harness!OthersAreKept, Harness!Interrupt, Harness!Fault, Harness!account
<1>8. Harness!NamedAreTracked'
  BY <1>1 DEF Harness!IInv, Harness!NamedAreTracked, Harness!Interrupt, Harness!Fault,
     Harness!account
<1>9. Harness!ParentsStay'
  BY <1>1 DEF Harness!IInv, Harness!ParentsStay, Harness!Interrupt, Harness!Fault, Harness!account
<1>10. Harness!Untouched'
  BY <1>1 DEF Harness!IInv, Harness!Untouched, Harness!Interrupt, Harness!Fault, Harness!account
<1>11. Harness!NotedInOrder'
  BY <1>1 DEF Harness!IInv, Harness!NotedInOrder, Harness!Creating, Harness!Interrupt,
     Harness!Fault, Harness!account
<1>12. Harness!JoinedIsNoted'
  BY <1>1 DEF Harness!IInv, Harness!JoinedIsNoted, Harness!Interrupt, Harness!Fault, Harness!account
<1>13. Harness!NothingLeftYet'
  BY <1>1 DEF Harness!IInv, Harness!NothingLeftYet, Harness!Interrupt, Harness!Fault,
     Harness!account
<1>14. Harness!PastIsDone'
  BY <1>1 DEF Harness!IInv, Harness!PastIsDone, Harness!DoneWith, Harness!Interrupt, Harness!Fault,
     Harness!account
<1>15. Harness!LeftIsHeld'
  BY <1>1 DEF Harness!IInv, Harness!LeftIsHeld, Harness!Interrupt, Harness!Fault, Harness!account
<1>16. Harness!CleanExitIsClean'
  BY <1>1 DEF Harness!IInv, Harness!CleanExitIsClean, Harness!Interrupt, Harness!Fault,
     Harness!account
<1>17. QED
  BY <1>6, <1>7, <1>8, <1>9, <1>10, <1>11, <1>12, <1>13, <1>14, <1>15, <1>16 DEF Harness!IInv

LEMMA HarnessDie ==
  ASSUME Harness!BoundsAreNatural, Harness!IInv, Harness!Die
  PROVE Harness!IInv'
<1> DEFINE U == Harness!Ours \union Harness!Neighbour
<1>1. Harness!TypeOK /\ entries \in Seq(U) /\ book \in Seq(U)
      /\ left \union groups \subseteq Harness!ToSet(entries) /\ (\A r \in owned : r.run = "mine")
      /\ Len(Harness!Steps) = 9
  BY HarnessSteps DEF Harness!IInv, Harness!Known
<1>2. book' \in Seq(U) /\ entries' \in Seq(U)
  BY <1>1 DEF Harness!Die, Harness!Fault, Harness!account
<1>3. Harness!ToSet(book') \subseteq U /\ Harness!ToSet(entries') \subseteq U
  BY <1>2 DEF Harness!ToSet
<1>4. left' \union groups' \subseteq Harness!ToSet(entries')
      /\ (\A r \in owned' : r.run = "mine")
  BY <1>1 DEF Harness!Die, Harness!Fault, Harness!account
<1>5. Harness!TypeOK'
  BY <1>1, <1>3, SMTT(30) DEF Harness!BoundsAreNatural, Harness!TypeOK, Harness!Die, Harness!Fault,
     Harness!account
<1>6. Harness!Known'
  BY <1>2, <1>4, <1>5 DEF Harness!Known
<1>7. Harness!OthersAreKept'
  BY <1>1 DEF Harness!IInv, Harness!OthersAreKept, Harness!Die, Harness!Fault, Harness!account
<1>8. Harness!NamedAreTracked'
  BY <1>1 DEF Harness!IInv, Harness!NamedAreTracked, Harness!Die, Harness!Fault, Harness!account
<1>9. Harness!ParentsStay'
  BY <1>1 DEF Harness!IInv, Harness!ParentsStay, Harness!Die, Harness!Fault, Harness!account
<1>10. Harness!Untouched'
  BY <1>1 DEF Harness!IInv, Harness!Untouched, Harness!Die, Harness!Fault, Harness!account
<1>11. Harness!NotedInOrder'
  BY <1>1 DEF Harness!IInv, Harness!NotedInOrder, Harness!Creating, Harness!Die, Harness!Fault,
     Harness!account
<1>12. Harness!JoinedIsNoted'
  BY <1>1 DEF Harness!IInv, Harness!JoinedIsNoted, Harness!Die, Harness!Fault, Harness!account
<1>13. Harness!NothingLeftYet'
  BY <1>1 DEF Harness!IInv, Harness!NothingLeftYet, Harness!Die, Harness!Fault, Harness!account
<1>14. Harness!PastIsDone'
  BY <1>1 DEF Harness!IInv, Harness!PastIsDone, Harness!DoneWith, Harness!Die, Harness!Fault,
     Harness!account
<1>15. Harness!LeftIsHeld'
  BY <1>1 DEF Harness!IInv, Harness!LeftIsHeld, Harness!Die, Harness!Fault, Harness!account
<1>16. Harness!CleanExitIsClean'
  BY <1>1 DEF Harness!IInv, Harness!CleanExitIsClean, Harness!Die, Harness!Fault, Harness!account
<1>17. QED
  BY <1>6, <1>7, <1>8, <1>9, <1>10, <1>11, <1>12, <1>13, <1>14, <1>15, <1>16 DEF Harness!IInv

LEMMA HarnessPaste ==
  ASSUME Harness!BoundsAreNatural, Harness!IInv, Harness!Paste
  PROVE Harness!IInv'
<1> DEFINE U == Harness!Ours \union Harness!Neighbour
<1>1. Harness!TypeOK /\ entries \in Seq(U) /\ book \in Seq(U)
      /\ left \union groups \subseteq Harness!ToSet(entries) /\ (\A r \in owned : r.run = "mine")
      /\ Len(Harness!Steps) = 9
  BY HarnessSteps DEF Harness!IInv, Harness!Known
<1>2. book' \in Seq(U) /\ entries' \in Seq(U)
  BY <1>1 DEF Harness!Paste, Harness!process
<1>3. Harness!ToSet(book') \subseteq U /\ Harness!ToSet(entries') \subseteq U
  BY <1>2 DEF Harness!ToSet
<1>4. left' \union groups' \subseteq Harness!ToSet(entries')
      /\ (\A r \in owned' : r.run = "mine")
  BY <1>1 DEF Harness!Paste, Harness!account, Harness!process
<1>5. Harness!TypeOK'
  BY <1>1, <1>3, SMTT(30) DEF Harness!BoundsAreNatural, Harness!TypeOK, Harness!Paste,
     Harness!account, Harness!process
<1>6. Harness!Known'
  BY <1>2, <1>4, <1>5 DEF Harness!Known
<1>7. Harness!OthersAreKept'
  BY <1>1 DEF Harness!IInv, Harness!OthersAreKept, Harness!Paste, Harness!account, Harness!process
<1>8. Harness!NamedAreTracked'
  <2>1. Harness!ToSet(book) \subseteq Harness!ToSet(book') /\ cloud' = cloud
    <3>1. PICK r \in Harness!Neighbour : book' = Append(book, r)
      BY DEF Harness!Paste
    <3> QED BY <1>1, <3>1, AppendAdds DEF Harness!Paste, Harness!account, U
  <2> QED BY <2>1 DEF Harness!IInv, Harness!NamedAreTracked
<1>9. Harness!ParentsStay'
  BY <1>1 DEF Harness!IInv, Harness!ParentsStay, Harness!Paste, Harness!account, Harness!process
<1>10. Harness!Untouched'
  BY <1>1 DEF Harness!IInv, Harness!Untouched, Harness!Paste, Harness!account, Harness!process
<1>11. Harness!NotedInOrder'
  BY <1>1 DEF Harness!IInv, Harness!NotedInOrder, Harness!Creating, Harness!Paste, Harness!account,
     Harness!process
<1>12. Harness!JoinedIsNoted'
  <2>1. Harness!ToSet(book) \subseteq Harness!ToSet(book')
    <3>1. PICK r \in Harness!Neighbour : book' = Append(book, r)
      BY DEF Harness!Paste
    <3> QED BY <1>1, <3>1, AppendAdds DEF U
  <2> QED BY <2>1 DEF Harness!IInv, Harness!JoinedIsNoted, Harness!Paste, Harness!account,
             Harness!process
<1>13. Harness!NothingLeftYet'
  BY <1>1 DEF Harness!IInv, Harness!NothingLeftYet, Harness!Paste, Harness!account, Harness!process
<1>14. Harness!PastIsDone'
  BY <1>1 DEF Harness!IInv, Harness!PastIsDone, Harness!DoneWith, Harness!Paste, Harness!account,
     Harness!process
<1>15. Harness!LeftIsHeld'
  BY <1>1 DEF Harness!IInv, Harness!LeftIsHeld, Harness!Paste, Harness!account, Harness!process
<1>16. Harness!CleanExitIsClean'
  BY <1>1 DEF Harness!IInv, Harness!CleanExitIsClean, Harness!Paste, Harness!account,
     Harness!process
<1>17. QED
  BY <1>6, <1>7, <1>8, <1>9, <1>10, <1>11, <1>12, <1>13, <1>14, <1>15, <1>16 DEF Harness!IInv

LEMMA HarnessStep ==
  ASSUME Harness!BoundsAreNatural, Harness!IInv, [Harness!Next]_Harness!vars
  PROVE Harness!IInv'
<1>1. CASE Harness!Next
  <2>1. CASE Harness!Start \/ Harness!CreateFails \/ Harness!WaitFails \/ Harness!TeardownFile
    BY <2>1, HarnessStart, HarnessCreateFails, HarnessWaitFails, HarnessTeardownFile
  <2>2. CASE Harness!Interrupt \/ Harness!Die \/ Harness!Paste
    BY <2>2, HarnessInterrupt, HarnessDie, HarnessPaste
  <2>3. CASE Harness!NoteNamed \/ Harness!Created \/ Harness!NoteCreated \/ Harness!Probe
             \/ Harness!BeginTeardown
    BY <2>3, HarnessNoteNamed, HarnessCreated, HarnessNoteCreated, HarnessProbe,
       HarnessBeginTeardown
  <2>4. CASE Harness!GoneEntry \/ Harness!ForeignEntry \/ Harness!DeletedEntry
             \/ Harness!FailedEntry \/ Harness!DeleteLogGroups
    BY <2>4, HarnessGoneEntry, HarnessForeignEntry, HarnessDeletedEntry, HarnessFailedEntry,
       HarnessDeleteLogGroups
  <2> QED BY <1>1, <2>1, <2>2, <2>3, <2>4 DEF Harness!Next, Harness!Proceed
<1>2. CASE UNCHANGED Harness!vars
  <2>1. UNCHANGED <<cloud, logs, joined, book, at, step, entries, todo, owned, groups, left, code,
                    hit, breaks, pasted>>
    BY <1>2 DEF Harness!vars
  <2>2. Harness!Known' /\ Harness!OthersAreKept' /\ Harness!NamedAreTracked' /\ Harness!ParentsStay'
    BY <2>1 DEF Harness!IInv, Harness!Known, Harness!TypeOK, Harness!OthersAreKept,
                Harness!NamedAreTracked, Harness!ParentsStay
  <2>3. Harness!Untouched' /\ Harness!NotedInOrder' /\ Harness!JoinedIsNoted'
    BY <2>1 DEF Harness!IInv, Harness!Untouched, Harness!NotedInOrder, Harness!Creating,
                Harness!JoinedIsNoted
  <2>4. Harness!NothingLeftYet' /\ Harness!PastIsDone' /\ Harness!LeftIsHeld'
        /\ Harness!CleanExitIsClean'
    BY <2>1 DEF Harness!IInv, Harness!NothingLeftYet, Harness!PastIsDone, Harness!DoneWith,
                Harness!LeftIsHeld, Harness!CleanExitIsClean
  <2> QED BY <2>2, <2>3, <2>4 DEF Harness!IInv
<1>3. QED
  BY <1>1, <1>2

\* What a person is told of a run and its teardown.
HarnessPromise == /\ Harness!TypeOK /\ Harness!OthersAreKept /\ Harness!NamedAreTracked
                  /\ Harness!CleanExitIsClean /\ Harness!OnePassIsEnough

LEMMA HarnessSays == ASSUME Harness!IInv PROVE HarnessPromise
BY DEF Harness!IInv, Harness!Known, Harness!LeftIsHeld, Harness!OnePassIsEnough, HarnessPromise

(* However a run of the throwaway Gateway and its teardowns fail or are    *)
(* killed: nothing another run made is deleted, whatever is pasted into    *)
(* the ledger; a role or function that exists is in the ledger book; a     *)
(* command that ends clean has left nothing its ledger lists; and one      *)
(* undisturbed teardown leaves only what hangs on an untracked resource.   *)
THEOREM HarnessKept ==
  ASSUME Harness!BoundsAreNatural
  PROVE Harness!Spec => []HarnessPromise
<1>1. Harness!Init => Harness!IInv
  BY HarnessInit
<1>2. Harness!IInv /\ [Harness!Next]_(Harness!vars) => Harness!IInv'
  BY HarnessStep
<1>3. Harness!IInv => HarnessPromise
  BY HarnessSays
<1> QED BY <1>1, <1>2, <1>3, PTL DEF Harness!Spec

-----------------------------------------------------------------------------
(* The proof that the backend runs as its own login. *)

CONSTANTS Jobs, NoJob, Parallel, MaxUpsets
VARIABLES pp, exit, verdict, backend, answerer, failed, tried, whole, data, purge, superseded,
          upsets
LoginProof == INSTANCE BackendProof WITH
    Runs <- Jobs, NoRun <- NoJob, Together <- Parallel, MaxFaults <- MaxUpsets, pc <- pp,
    receipt <- verdict, rows <- data, faults <- upsets

USE DEF LoginProof!RunsFollow, LoginProof!Stages, LoginProof!Proving, LoginProof!Active,
        LoginProof!ThreadRows, LoginProof!NoPurge

LEMMA LoginProofInit == ASSUME LoginProof!RunsFollow, LoginProof!Init PROVE LoginProof!IInv
BY DEF LoginProof!Init, LoginProof!IInv, LoginProof!Known, LoginProof!OneAtATime,
       LoginProof!PurgeFits, LoginProof!ReceiptFits, LoginProof!OlderAreOver,
       LoginProof!BackendFits, LoginProof!RowsFit, LoginProof!PassIsWhole, LoginProof!Pass

\* Each action keeps the invariant: what it does to its own run, then the others, which are idle
\* or over.
LEMMA LoginProofKeeps == ASSUME LoginProof!RunsFollow, LoginProof!IInv, LoginProof!Next
  PROVE LoginProof!IInv'
<1>1. ASSUME NEW r \in Jobs, LoginProof!Guard(r) PROVE LoginProof!IInv'
  <2> USE <1>1 DEF LoginProof!Guard, LoginProof!Bound
  <2>1. \A q \in Jobs \ {r} : pp'[q] = pp[q] /\ pp[q] \in {"idle", "done"} /\ purge[q].step = "none"
    BY DEF LoginProof!IInv, LoginProof!Known, LoginProof!OneAtATime, LoginProof!PurgeFits
  <2>2. LoginProof!Known'
    <3>1. pp' \in [Jobs -> LoginProof!Stages]
      BY DEF LoginProof!IInv, LoginProof!Known
    <3>2. exit' \in [Jobs -> {"none", "refused", "pass", "fail", "interrupted", "killed"}]
      BY DEF LoginProof!IInv, LoginProof!Known
    <3> QED BY <3>1, <3>2 DEF LoginProof!IInv, LoginProof!Known
  <2>3. LoginProof!OneAtATime'
    BY DEF LoginProof!IInv, LoginProof!Known, LoginProof!PurgeFits, LoginProof!OneAtATime
  <2>4. LoginProof!OlderAreOver'
    BY DEF LoginProof!IInv, LoginProof!Known, LoginProof!OneAtATime, LoginProof!PurgeFits,
           LoginProof!OlderAreOver, LoginProof!ReceiptFits
  <2>5. LoginProof!PurgeFits(r)' /\ LoginProof!ReceiptFits(r)' /\ LoginProof!BackendFits(r)'
    BY DEF LoginProof!IInv, LoginProof!Known, LoginProof!PurgeFits, LoginProof!ReceiptFits,
           LoginProof!BackendFits, LoginProof!Passed
  <2>6. LoginProof!RowsFit(r)'
    BY DEF LoginProof!IInv, LoginProof!Known, LoginProof!PurgeFits, LoginProof!RowsFit,
           LoginProof!Removing, LoginProof!Findable
  <2>7. ASSUME NEW q \in Jobs, q # r
        PROVE /\ LoginProof!PurgeFits(q)' /\ LoginProof!ReceiptFits(q)'
              /\ LoginProof!BackendFits(q)' /\ LoginProof!RowsFit(q)'
    BY <2>7, <2>1 DEF LoginProof!IInv, LoginProof!Known, LoginProof!PurgeFits,
                      LoginProof!ReceiptFits, LoginProof!BackendFits, LoginProof!RowsFit,
                      LoginProof!Passed
  <2>8. LoginProof!PassIsWhole'
    BY DEF LoginProof!IInv, LoginProof!Known, LoginProof!OneAtATime, LoginProof!PurgeFits,
           LoginProof!ReceiptFits, LoginProof!PassIsWhole, LoginProof!Pass, LoginProof!Passed,
           LoginProof!RowsFit, LoginProof!Findable
  <2> QED BY <2>2, <2>3, <2>4, <2>5, <2>6, <2>7, <2>8 DEF LoginProof!IInv
<1>2. ASSUME NEW r \in Jobs, LoginProof!Invalidate(r) PROVE LoginProof!IInv'
  <2> USE <1>2 DEF LoginProof!Invalidate, LoginProof!At
  <2>1. \A q \in Jobs \ {r} : pp'[q] = pp[q] /\ pp[q] \in {"idle", "done"} /\ purge[q].step = "none"
    BY DEF LoginProof!IInv, LoginProof!Known, LoginProof!OneAtATime, LoginProof!PurgeFits
  <2>2. LoginProof!Known' BY DEF LoginProof!IInv, LoginProof!Known, LoginProof!PurgeFits
  <2>3. LoginProof!OneAtATime'
    BY DEF LoginProof!IInv, LoginProof!Known, LoginProof!PurgeFits, LoginProof!OneAtATime
  <2>4. LoginProof!OlderAreOver'
    BY DEF LoginProof!IInv, LoginProof!Known, LoginProof!OneAtATime, LoginProof!PurgeFits,
           LoginProof!OlderAreOver, LoginProof!ReceiptFits
  <2>5. LoginProof!PurgeFits(r)' /\ LoginProof!ReceiptFits(r)' /\ LoginProof!BackendFits(r)'
    BY DEF LoginProof!IInv, LoginProof!Known, LoginProof!PurgeFits, LoginProof!ReceiptFits,
           LoginProof!BackendFits, LoginProof!Passed
  <2>6. LoginProof!RowsFit(r)'
    BY DEF LoginProof!IInv, LoginProof!Known, LoginProof!PurgeFits, LoginProof!RowsFit,
           LoginProof!Removing, LoginProof!Findable
  <2>7. ASSUME NEW q \in Jobs, q # r
        PROVE /\ LoginProof!PurgeFits(q)' /\ LoginProof!ReceiptFits(q)'
              /\ LoginProof!BackendFits(q)' /\ LoginProof!RowsFit(q)'
    BY <2>7, <2>1 DEF LoginProof!IInv, LoginProof!Known, LoginProof!PurgeFits,
                      LoginProof!ReceiptFits, LoginProof!BackendFits, LoginProof!RowsFit,
                      LoginProof!Passed
  <2>8. LoginProof!PassIsWhole'
    BY DEF LoginProof!IInv, LoginProof!Known, LoginProof!OneAtATime, LoginProof!PurgeFits,
           LoginProof!ReceiptFits, LoginProof!PassIsWhole, LoginProof!Pass, LoginProof!Passed,
           LoginProof!RowsFit, LoginProof!Findable
  <2> QED BY <2>2, <2>3, <2>4, <2>5, <2>6, <2>7, <2>8 DEF LoginProof!IInv
<1>3. ASSUME NEW r \in Jobs, LoginProof!StartBackend(r) PROVE LoginProof!IInv'
  <2> USE <1>3 DEF LoginProof!StartBackend, LoginProof!At
  <2>1. \A q \in Jobs \ {r} : pp'[q] = pp[q] /\ pp[q] \in {"idle", "done"} /\ purge[q].step = "none"
    BY DEF LoginProof!IInv, LoginProof!Known, LoginProof!OneAtATime, LoginProof!PurgeFits
  <2>2. LoginProof!Known' BY DEF LoginProof!IInv, LoginProof!Known, LoginProof!PurgeFits
  <2>3. LoginProof!OneAtATime'
    BY DEF LoginProof!IInv, LoginProof!Known, LoginProof!PurgeFits, LoginProof!OneAtATime
  <2>4. LoginProof!OlderAreOver'
    BY DEF LoginProof!IInv, LoginProof!Known, LoginProof!OneAtATime, LoginProof!PurgeFits,
           LoginProof!OlderAreOver, LoginProof!ReceiptFits
  <2>5. LoginProof!PurgeFits(r)' /\ LoginProof!ReceiptFits(r)' /\ LoginProof!BackendFits(r)'
    BY DEF LoginProof!IInv, LoginProof!Known, LoginProof!PurgeFits, LoginProof!ReceiptFits,
           LoginProof!BackendFits, LoginProof!Passed
  <2>6. LoginProof!RowsFit(r)'
    BY DEF LoginProof!IInv, LoginProof!Known, LoginProof!PurgeFits, LoginProof!RowsFit,
           LoginProof!Removing, LoginProof!Findable
  <2>7. ASSUME NEW q \in Jobs, q # r
        PROVE /\ LoginProof!PurgeFits(q)' /\ LoginProof!ReceiptFits(q)'
              /\ LoginProof!BackendFits(q)' /\ LoginProof!RowsFit(q)'
    BY <2>7, <2>1 DEF LoginProof!IInv, LoginProof!Known, LoginProof!PurgeFits,
                      LoginProof!ReceiptFits, LoginProof!BackendFits, LoginProof!RowsFit,
                      LoginProof!Passed
  <2>8. LoginProof!PassIsWhole'
    BY DEF LoginProof!IInv, LoginProof!Known, LoginProof!OneAtATime, LoginProof!PurgeFits,
           LoginProof!ReceiptFits, LoginProof!PassIsWhole, LoginProof!Pass, LoginProof!Passed,
           LoginProof!RowsFit, LoginProof!Findable
  <2> QED BY <2>2, <2>3, <2>4, <2>5, <2>6, <2>7, <2>8 DEF LoginProof!IInv
<1>4. ASSUME NEW r \in Jobs, LoginProof!BindPort(r) PROVE LoginProof!IInv'
  <2> USE <1>4 DEF LoginProof!BindPort, LoginProof!Bound, LoginProof!tool
  <2>1. LoginProof!Known' BY DEF LoginProof!IInv, LoginProof!Known, LoginProof!PurgeFits
  <2>2. LoginProof!OneAtATime'
    BY DEF LoginProof!IInv, LoginProof!Known, LoginProof!PurgeFits, LoginProof!OneAtATime
  <2>3. LoginProof!OlderAreOver'
    BY DEF LoginProof!IInv, LoginProof!Known, LoginProof!OneAtATime, LoginProof!PurgeFits,
           LoginProof!OlderAreOver, LoginProof!ReceiptFits
  <2>4. LoginProof!PurgeFits(r)' /\ LoginProof!ReceiptFits(r)' /\ LoginProof!BackendFits(r)'
    BY DEF LoginProof!IInv, LoginProof!Known, LoginProof!PurgeFits, LoginProof!ReceiptFits,
           LoginProof!BackendFits, LoginProof!Passed
  <2>5. LoginProof!RowsFit(r)'
    BY DEF LoginProof!IInv, LoginProof!Known, LoginProof!PurgeFits, LoginProof!RowsFit,
           LoginProof!Removing, LoginProof!Findable
  <2>6. ASSUME NEW q \in Jobs, q # r
        PROVE /\ LoginProof!PurgeFits(q)' /\ LoginProof!ReceiptFits(q)'
              /\ LoginProof!BackendFits(q)' /\ LoginProof!RowsFit(q)'
    BY <2>6 DEF LoginProof!IInv, LoginProof!Known, LoginProof!Removing, LoginProof!Findable,
                LoginProof!PurgeFits, LoginProof!ReceiptFits, LoginProof!BackendFits,
                LoginProof!RowsFit, LoginProof!Passed
  <2>7. LoginProof!PassIsWhole'
    BY DEF LoginProof!IInv, LoginProof!Known, LoginProof!OneAtATime, LoginProof!PurgeFits,
           LoginProof!ReceiptFits, LoginProof!PassIsWhole, LoginProof!Pass, LoginProof!Passed,
           LoginProof!RowsFit, LoginProof!Findable
  <2> QED BY <2>1, <2>2, <2>3, <2>4, <2>5, <2>6, <2>7 DEF LoginProof!IInv
<1>5. ASSUME NEW r \in Jobs, LoginProof!Healthy(r) PROVE LoginProof!IInv'
  <2> USE <1>5 DEF LoginProof!Healthy, LoginProof!At, LoginProof!Bound
  <2>1. \A q \in Jobs \ {r} : pp'[q] = pp[q] /\ pp[q] \in {"idle", "done"} /\ purge[q].step = "none"
    BY DEF LoginProof!IInv, LoginProof!Known, LoginProof!OneAtATime, LoginProof!PurgeFits
  <2>2. LoginProof!Known' BY DEF LoginProof!IInv, LoginProof!Known, LoginProof!PurgeFits
  <2>3. LoginProof!OneAtATime'
    BY DEF LoginProof!IInv, LoginProof!Known, LoginProof!PurgeFits, LoginProof!OneAtATime
  <2>4. LoginProof!OlderAreOver'
    BY DEF LoginProof!IInv, LoginProof!Known, LoginProof!OneAtATime, LoginProof!PurgeFits,
           LoginProof!OlderAreOver, LoginProof!ReceiptFits
  <2>5. LoginProof!PurgeFits(r)' /\ LoginProof!ReceiptFits(r)' /\ LoginProof!BackendFits(r)'
    BY DEF LoginProof!IInv, LoginProof!Known, LoginProof!PurgeFits, LoginProof!ReceiptFits,
           LoginProof!BackendFits, LoginProof!Passed
  <2>6. LoginProof!RowsFit(r)'
    BY DEF LoginProof!IInv, LoginProof!Known, LoginProof!PurgeFits, LoginProof!RowsFit,
           LoginProof!Removing, LoginProof!Findable
  <2>7. ASSUME NEW q \in Jobs, q # r
        PROVE /\ LoginProof!PurgeFits(q)' /\ LoginProof!ReceiptFits(q)'
              /\ LoginProof!BackendFits(q)' /\ LoginProof!RowsFit(q)'
    BY <2>7, <2>1 DEF LoginProof!IInv, LoginProof!Known, LoginProof!PurgeFits,
                      LoginProof!ReceiptFits, LoginProof!BackendFits, LoginProof!RowsFit,
                      LoginProof!Passed
  <2>8. LoginProof!PassIsWhole'
    BY DEF LoginProof!IInv, LoginProof!Known, LoginProof!OneAtATime, LoginProof!PurgeFits,
           LoginProof!ReceiptFits, LoginProof!PassIsWhole, LoginProof!Pass, LoginProof!Passed,
           LoginProof!RowsFit, LoginProof!Findable
  <2> QED BY <2>2, <2>3, <2>4, <2>5, <2>6, <2>7, <2>8 DEF LoginProof!IInv
<1>6. ASSUME NEW r \in Jobs, LoginProof!NeverHealthy(r) PROVE LoginProof!IInv'
  <2> USE <1>6 DEF LoginProof!NeverHealthy, LoginProof!At
  <2>1. \A q \in Jobs \ {r} : pp'[q] = pp[q] /\ pp[q] \in {"idle", "done"} /\ purge[q].step = "none"
    BY DEF LoginProof!IInv, LoginProof!Known, LoginProof!OneAtATime, LoginProof!PurgeFits
  <2>2. LoginProof!Known' BY DEF LoginProof!IInv, LoginProof!Known, LoginProof!PurgeFits
  <2>3. LoginProof!OneAtATime'
    BY DEF LoginProof!IInv, LoginProof!Known, LoginProof!PurgeFits, LoginProof!OneAtATime
  <2>4. LoginProof!OlderAreOver'
    BY DEF LoginProof!IInv, LoginProof!Known, LoginProof!OneAtATime, LoginProof!PurgeFits,
           LoginProof!OlderAreOver, LoginProof!ReceiptFits
  <2>5. LoginProof!PurgeFits(r)' /\ LoginProof!ReceiptFits(r)' /\ LoginProof!BackendFits(r)'
    BY DEF LoginProof!IInv, LoginProof!Known, LoginProof!PurgeFits, LoginProof!ReceiptFits,
           LoginProof!BackendFits, LoginProof!Passed
  <2>6. LoginProof!RowsFit(r)'
    BY DEF LoginProof!IInv, LoginProof!Known, LoginProof!PurgeFits, LoginProof!RowsFit,
           LoginProof!Removing, LoginProof!Findable
  <2>7. ASSUME NEW q \in Jobs, q # r
        PROVE /\ LoginProof!PurgeFits(q)' /\ LoginProof!ReceiptFits(q)'
              /\ LoginProof!BackendFits(q)' /\ LoginProof!RowsFit(q)'
    BY <2>7, <2>1 DEF LoginProof!IInv, LoginProof!Known, LoginProof!PurgeFits,
                      LoginProof!ReceiptFits, LoginProof!BackendFits, LoginProof!RowsFit,
                      LoginProof!Passed
  <2>8. LoginProof!PassIsWhole'
    BY DEF LoginProof!IInv, LoginProof!Known, LoginProof!OneAtATime, LoginProof!PurgeFits,
           LoginProof!ReceiptFits, LoginProof!PassIsWhole, LoginProof!Pass, LoginProof!Passed,
           LoginProof!RowsFit, LoginProof!Findable
  <2> QED BY <2>2, <2>3, <2>4, <2>5, <2>6, <2>7, <2>8 DEF LoginProof!IInv
<1>7. ASSUME NEW r \in Jobs, LoginProof!Checks(r) PROVE LoginProof!IInv'
  <2> USE <1>7 DEF LoginProof!Checks, LoginProof!Bound
  <2>1. \A q \in Jobs \ {r} : pp'[q] = pp[q] /\ pp[q] \in {"idle", "done"} /\ purge[q].step = "none"
    BY DEF LoginProof!IInv, LoginProof!Known, LoginProof!OneAtATime, LoginProof!PurgeFits
  <2>2. LoginProof!Known'
    <3>1. pp' \in [Jobs -> LoginProof!Stages]
      BY DEF LoginProof!IInv, LoginProof!Known
    <3>2. failed' \in [Jobs -> BOOLEAN] /\ tried' \in [Jobs -> BOOLEAN]
      BY DEF LoginProof!IInv, LoginProof!Known
    <3> QED BY <3>1, <3>2 DEF LoginProof!IInv, LoginProof!Known
  <2>3. LoginProof!OneAtATime'
    BY DEF LoginProof!IInv, LoginProof!Known, LoginProof!PurgeFits, LoginProof!OneAtATime
  <2>4. LoginProof!OlderAreOver'
    BY DEF LoginProof!IInv, LoginProof!Known, LoginProof!OneAtATime, LoginProof!PurgeFits,
           LoginProof!OlderAreOver, LoginProof!ReceiptFits
  <2>5. LoginProof!PurgeFits(r)' /\ LoginProof!ReceiptFits(r)' /\ LoginProof!BackendFits(r)'
    BY DEF LoginProof!IInv, LoginProof!Known, LoginProof!PurgeFits, LoginProof!ReceiptFits,
           LoginProof!BackendFits, LoginProof!Passed
  <2>6. LoginProof!RowsFit(r)'
    BY DEF LoginProof!IInv, LoginProof!Known, LoginProof!PurgeFits, LoginProof!RowsFit,
           LoginProof!Removing, LoginProof!Findable
  <2>7. ASSUME NEW q \in Jobs, q # r
        PROVE /\ LoginProof!PurgeFits(q)' /\ LoginProof!ReceiptFits(q)'
              /\ LoginProof!BackendFits(q)' /\ LoginProof!RowsFit(q)'
    BY <2>7, <2>1 DEF LoginProof!IInv, LoginProof!Known, LoginProof!PurgeFits,
                      LoginProof!ReceiptFits, LoginProof!BackendFits, LoginProof!RowsFit,
                      LoginProof!Passed
  <2>8. LoginProof!PassIsWhole'
    BY DEF LoginProof!IInv, LoginProof!Known, LoginProof!OneAtATime, LoginProof!PurgeFits,
           LoginProof!ReceiptFits, LoginProof!PassIsWhole, LoginProof!Pass, LoginProof!Passed,
           LoginProof!RowsFit, LoginProof!Findable
  <2> QED BY <2>2, <2>3, <2>4, <2>5, <2>6, <2>7, <2>8 DEF LoginProof!IInv
<1>8. ASSUME NEW r \in Jobs, LoginProof!Pause(r) PROVE LoginProof!IInv'
  <2> USE <1>8 DEF LoginProof!Pause, LoginProof!At
  <2>1. \A q \in Jobs \ {r} : pp'[q] = pp[q] /\ pp[q] \in {"idle", "done"} /\ purge[q].step = "none"
    BY DEF LoginProof!IInv, LoginProof!Known, LoginProof!OneAtATime, LoginProof!PurgeFits
  <2>2. LoginProof!Known' BY DEF LoginProof!IInv, LoginProof!Known, LoginProof!PurgeFits
  <2>3. LoginProof!OneAtATime'
    BY DEF LoginProof!IInv, LoginProof!Known, LoginProof!PurgeFits, LoginProof!OneAtATime
  <2>4. LoginProof!OlderAreOver'
    BY DEF LoginProof!IInv, LoginProof!Known, LoginProof!OneAtATime, LoginProof!PurgeFits,
           LoginProof!OlderAreOver, LoginProof!ReceiptFits
  <2>5. LoginProof!PurgeFits(r)' /\ LoginProof!ReceiptFits(r)' /\ LoginProof!BackendFits(r)'
    BY DEF LoginProof!IInv, LoginProof!Known, LoginProof!PurgeFits, LoginProof!ReceiptFits,
           LoginProof!BackendFits, LoginProof!Passed
  <2>6. LoginProof!RowsFit(r)'
    BY DEF LoginProof!IInv, LoginProof!Known, LoginProof!PurgeFits, LoginProof!RowsFit,
           LoginProof!Removing, LoginProof!Findable
  <2>7. ASSUME NEW q \in Jobs, q # r
        PROVE /\ LoginProof!PurgeFits(q)' /\ LoginProof!ReceiptFits(q)'
              /\ LoginProof!BackendFits(q)' /\ LoginProof!RowsFit(q)'
    BY <2>7, <2>1 DEF LoginProof!IInv, LoginProof!Known, LoginProof!PurgeFits,
                      LoginProof!ReceiptFits, LoginProof!BackendFits, LoginProof!RowsFit,
                      LoginProof!Passed
  <2>8. LoginProof!PassIsWhole'
    BY DEF LoginProof!IInv, LoginProof!Known, LoginProof!OneAtATime, LoginProof!PurgeFits,
           LoginProof!ReceiptFits, LoginProof!PassIsWhole, LoginProof!Pass, LoginProof!Passed,
           LoginProof!RowsFit, LoginProof!Findable
  <2> QED BY <2>2, <2>3, <2>4, <2>5, <2>6, <2>7, <2>8 DEF LoginProof!IInv
<1>9. ASSUME NEW r \in Jobs, LoginProof!Resume(r) PROVE LoginProof!IInv'
  <2> USE <1>9 DEF LoginProof!Resume, LoginProof!At, LoginProof!Bound
  <2>1. \A q \in Jobs \ {r} : pp'[q] = pp[q] /\ pp[q] \in {"idle", "done"} /\ purge[q].step = "none"
    BY DEF LoginProof!IInv, LoginProof!Known, LoginProof!OneAtATime, LoginProof!PurgeFits
  <2>2. LoginProof!Known' BY DEF LoginProof!IInv, LoginProof!Known, LoginProof!PurgeFits
  <2>3. LoginProof!OneAtATime'
    BY DEF LoginProof!IInv, LoginProof!Known, LoginProof!PurgeFits, LoginProof!OneAtATime
  <2>4. LoginProof!OlderAreOver'
    BY DEF LoginProof!IInv, LoginProof!Known, LoginProof!OneAtATime, LoginProof!PurgeFits,
           LoginProof!OlderAreOver, LoginProof!ReceiptFits
  <2>5. LoginProof!PurgeFits(r)' /\ LoginProof!ReceiptFits(r)' /\ LoginProof!BackendFits(r)'
    BY DEF LoginProof!IInv, LoginProof!Known, LoginProof!PurgeFits, LoginProof!ReceiptFits,
           LoginProof!BackendFits, LoginProof!Passed
  <2>6. LoginProof!RowsFit(r)'
    BY DEF LoginProof!IInv, LoginProof!Known, LoginProof!PurgeFits, LoginProof!RowsFit,
           LoginProof!Removing, LoginProof!Findable
  <2>7. ASSUME NEW q \in Jobs, q # r
        PROVE /\ LoginProof!PurgeFits(q)' /\ LoginProof!ReceiptFits(q)'
              /\ LoginProof!BackendFits(q)' /\ LoginProof!RowsFit(q)'
    BY <2>7, <2>1 DEF LoginProof!IInv, LoginProof!Known, LoginProof!PurgeFits,
                      LoginProof!ReceiptFits, LoginProof!BackendFits, LoginProof!RowsFit,
                      LoginProof!Passed
  <2>8. LoginProof!PassIsWhole'
    BY DEF LoginProof!IInv, LoginProof!Known, LoginProof!OneAtATime, LoginProof!PurgeFits,
           LoginProof!ReceiptFits, LoginProof!PassIsWhole, LoginProof!Pass, LoginProof!Passed,
           LoginProof!RowsFit, LoginProof!Findable
  <2> QED BY <2>2, <2>3, <2>4, <2>5, <2>6, <2>7, <2>8 DEF LoginProof!IInv
<1>10. ASSUME NEW r \in Jobs, LoginProof!RecoveryFails(r) PROVE LoginProof!IInv'
  <2> USE <1>10 DEF LoginProof!RecoveryFails
  <2>1. \A q \in Jobs \ {r} : pp'[q] = pp[q] /\ pp[q] \in {"idle", "done"} /\ purge[q].step = "none"
    BY DEF LoginProof!IInv, LoginProof!Known, LoginProof!OneAtATime, LoginProof!PurgeFits
  <2>2. LoginProof!Known' BY DEF LoginProof!IInv, LoginProof!Known, LoginProof!PurgeFits
  <2>3. LoginProof!OneAtATime'
    BY DEF LoginProof!IInv, LoginProof!Known, LoginProof!PurgeFits, LoginProof!OneAtATime
  <2>4. LoginProof!OlderAreOver'
    BY DEF LoginProof!IInv, LoginProof!Known, LoginProof!OneAtATime, LoginProof!PurgeFits,
           LoginProof!OlderAreOver, LoginProof!ReceiptFits
  <2>5. LoginProof!PurgeFits(r)' /\ LoginProof!ReceiptFits(r)' /\ LoginProof!BackendFits(r)'
    BY DEF LoginProof!IInv, LoginProof!Known, LoginProof!PurgeFits, LoginProof!ReceiptFits,
           LoginProof!BackendFits, LoginProof!Passed
  <2>6. LoginProof!RowsFit(r)'
    BY DEF LoginProof!IInv, LoginProof!Known, LoginProof!PurgeFits, LoginProof!RowsFit,
           LoginProof!Removing, LoginProof!Findable
  <2>7. ASSUME NEW q \in Jobs, q # r
        PROVE /\ LoginProof!PurgeFits(q)' /\ LoginProof!ReceiptFits(q)'
              /\ LoginProof!BackendFits(q)' /\ LoginProof!RowsFit(q)'
    BY <2>7, <2>1 DEF LoginProof!IInv, LoginProof!Known, LoginProof!PurgeFits,
                      LoginProof!ReceiptFits, LoginProof!BackendFits, LoginProof!RowsFit,
                      LoginProof!Passed
  <2>8. LoginProof!PassIsWhole'
    BY DEF LoginProof!IInv, LoginProof!Known, LoginProof!OneAtATime, LoginProof!PurgeFits,
           LoginProof!ReceiptFits, LoginProof!PassIsWhole, LoginProof!Pass, LoginProof!Passed,
           LoginProof!RowsFit, LoginProof!Findable
  <2> QED BY <2>2, <2>3, <2>4, <2>5, <2>6, <2>7, <2>8 DEF LoginProof!IInv
<1>11. ASSUME NEW r \in Jobs, LoginProof!CleanUp(r) PROVE LoginProof!IInv'
  <2> USE <1>11 DEF LoginProof!CleanUp, LoginProof!StartPurge, LoginProof!tool
  <2>1. \A q \in Jobs \ {r} : pp'[q] = pp[q] /\ pp[q] \in {"idle", "done"} /\ purge[q].step = "none"
    BY DEF LoginProof!IInv, LoginProof!Known, LoginProof!OneAtATime, LoginProof!PurgeFits
  <2>2. LoginProof!Known' BY DEF LoginProof!IInv, LoginProof!Known, LoginProof!PurgeFits
  <2>3. LoginProof!OneAtATime'
    BY DEF LoginProof!IInv, LoginProof!Known, LoginProof!PurgeFits, LoginProof!OneAtATime
  <2>4. LoginProof!OlderAreOver'
    BY DEF LoginProof!IInv, LoginProof!Known, LoginProof!OneAtATime, LoginProof!PurgeFits,
           LoginProof!OlderAreOver, LoginProof!ReceiptFits
  <2>5. LoginProof!PurgeFits(r)' /\ LoginProof!ReceiptFits(r)' /\ LoginProof!BackendFits(r)'
    BY DEF LoginProof!IInv, LoginProof!Known, LoginProof!PurgeFits, LoginProof!ReceiptFits,
           LoginProof!BackendFits, LoginProof!Passed
  <2>6. LoginProof!RowsFit(r)'
    BY DEF LoginProof!IInv, LoginProof!Known, LoginProof!PurgeFits, LoginProof!RowsFit,
           LoginProof!Removing, LoginProof!Findable
  <2>7. ASSUME NEW q \in Jobs, q # r
        PROVE /\ LoginProof!PurgeFits(q)' /\ LoginProof!ReceiptFits(q)'
              /\ LoginProof!BackendFits(q)' /\ LoginProof!RowsFit(q)'
    BY <2>7, <2>1 DEF LoginProof!IInv, LoginProof!Known, LoginProof!PurgeFits,
                      LoginProof!ReceiptFits, LoginProof!BackendFits, LoginProof!RowsFit,
                      LoginProof!Passed
  <2>8. LoginProof!PassIsWhole'
    BY DEF LoginProof!IInv, LoginProof!Known, LoginProof!OneAtATime, LoginProof!PurgeFits,
           LoginProof!ReceiptFits, LoginProof!PassIsWhole, LoginProof!Pass, LoginProof!Passed,
           LoginProof!RowsFit, LoginProof!Findable
  <2> QED BY <2>2, <2>3, <2>4, <2>5, <2>6, <2>7, <2>8 DEF LoginProof!IInv
<1>12. ASSUME NEW r \in Jobs, LoginProof!PurgeBookings(r) PROVE LoginProof!IInv'
  <2> USE <1>12 DEF LoginProof!PurgeBookings, LoginProof!tool
  <2>1. \A q \in Jobs \ {r} : pp'[q] = pp[q] /\ pp[q] \in {"idle", "done"} /\ purge[q].step = "none"
    BY DEF LoginProof!IInv, LoginProof!Known, LoginProof!OneAtATime, LoginProof!PurgeFits
  <2>2. LoginProof!Known'
    <3>1. purge' \in [Jobs -> [thread : Jobs \union {NoJob}, known : BOOLEAN,
                               step : {"none", "bookings", "journey", "counted"}]]
      BY SMTT(30) DEF LoginProof!IInv, LoginProof!Known
    <3>2. data' \in [Jobs -> SUBSET LoginProof!ThreadRows]
      BY DEF LoginProof!IInv, LoginProof!Known
    <3> QED BY <3>1, <3>2 DEF LoginProof!IInv, LoginProof!Known
  <2>3. LoginProof!OneAtATime'
    BY DEF LoginProof!IInv, LoginProof!Known, LoginProof!PurgeFits, LoginProof!OneAtATime
  <2>4. LoginProof!OlderAreOver'
    BY DEF LoginProof!IInv, LoginProof!Known, LoginProof!OneAtATime, LoginProof!PurgeFits,
           LoginProof!OlderAreOver, LoginProof!ReceiptFits
  <2>5. LoginProof!PurgeFits(r)' /\ LoginProof!ReceiptFits(r)' /\ LoginProof!BackendFits(r)'
    BY DEF LoginProof!IInv, LoginProof!Known, LoginProof!PurgeFits, LoginProof!ReceiptFits,
           LoginProof!BackendFits, LoginProof!Passed
  <2>6. LoginProof!RowsFit(r)'
    BY DEF LoginProof!IInv, LoginProof!Known, LoginProof!PurgeFits, LoginProof!RowsFit,
           LoginProof!Removing, LoginProof!Findable
  <2>7. ASSUME NEW q \in Jobs, q # r
        PROVE /\ LoginProof!PurgeFits(q)' /\ LoginProof!ReceiptFits(q)'
              /\ LoginProof!BackendFits(q)' /\ LoginProof!RowsFit(q)'
    BY <2>7, <2>1 DEF LoginProof!IInv, LoginProof!Known, LoginProof!PurgeFits,
                      LoginProof!ReceiptFits, LoginProof!BackendFits, LoginProof!RowsFit,
                      LoginProof!Passed
  <2>8. LoginProof!PassIsWhole'
    BY DEF LoginProof!IInv, LoginProof!Known, LoginProof!OneAtATime, LoginProof!PurgeFits,
           LoginProof!ReceiptFits, LoginProof!PassIsWhole, LoginProof!Pass, LoginProof!Passed,
           LoginProof!RowsFit, LoginProof!Findable
  <2> QED BY <2>2, <2>3, <2>4, <2>5, <2>6, <2>7, <2>8 DEF LoginProof!IInv
<1>13. ASSUME NEW r \in Jobs, LoginProof!PurgeJourney(r) PROVE LoginProof!IInv'
  <2> USE <1>13 DEF LoginProof!PurgeJourney, LoginProof!tool
  <2>1. \A q \in Jobs \ {r} : pp'[q] = pp[q] /\ pp[q] \in {"idle", "done"} /\ purge[q].step = "none"
    BY DEF LoginProof!IInv, LoginProof!Known, LoginProof!OneAtATime, LoginProof!PurgeFits
  <2>2. LoginProof!Known'
    <3>1. purge' \in [Jobs -> [thread : Jobs \union {NoJob}, known : BOOLEAN,
                               step : {"none", "bookings", "journey", "counted"}]]
      BY DEF LoginProof!IInv, LoginProof!Known
    <3>2. data' \in [Jobs -> SUBSET LoginProof!ThreadRows]
      BY DEF LoginProof!IInv, LoginProof!Known
    <3> QED BY <3>1, <3>2 DEF LoginProof!IInv, LoginProof!Known
  <2>3. LoginProof!OneAtATime'
    BY DEF LoginProof!IInv, LoginProof!Known, LoginProof!PurgeFits, LoginProof!OneAtATime
  <2>4. LoginProof!OlderAreOver'
    BY DEF LoginProof!IInv, LoginProof!Known, LoginProof!OneAtATime, LoginProof!PurgeFits,
           LoginProof!OlderAreOver, LoginProof!ReceiptFits
  <2>5. LoginProof!PurgeFits(r)' /\ LoginProof!ReceiptFits(r)' /\ LoginProof!BackendFits(r)'
    BY DEF LoginProof!IInv, LoginProof!Known, LoginProof!PurgeFits, LoginProof!ReceiptFits,
           LoginProof!BackendFits, LoginProof!Passed
  <2>6. LoginProof!RowsFit(r)'
    BY DEF LoginProof!IInv, LoginProof!Known, LoginProof!PurgeFits, LoginProof!RowsFit,
           LoginProof!Removing, LoginProof!Findable
  <2>7. ASSUME NEW q \in Jobs, q # r
        PROVE /\ LoginProof!PurgeFits(q)' /\ LoginProof!ReceiptFits(q)'
              /\ LoginProof!BackendFits(q)' /\ LoginProof!RowsFit(q)'
    BY <2>7, <2>1 DEF LoginProof!IInv, LoginProof!Known, LoginProof!PurgeFits,
                      LoginProof!ReceiptFits, LoginProof!BackendFits, LoginProof!RowsFit,
                      LoginProof!Passed
  <2>8. LoginProof!PassIsWhole'
    BY DEF LoginProof!IInv, LoginProof!Known, LoginProof!OneAtATime, LoginProof!PurgeFits,
           LoginProof!ReceiptFits, LoginProof!PassIsWhole, LoginProof!Pass, LoginProof!Passed,
           LoginProof!RowsFit, LoginProof!Findable
  <2> QED BY <2>2, <2>3, <2>4, <2>5, <2>6, <2>7, <2>8 DEF LoginProof!IInv
<1>14. ASSUME NEW r \in Jobs, LoginProof!CleanedUp(r) PROVE LoginProof!IInv'
  <2> USE <1>14 DEF LoginProof!CleanedUp, LoginProof!At
  <2>1. \A q \in Jobs \ {r} : pp'[q] = pp[q] /\ pp[q] \in {"idle", "done"} /\ purge[q].step = "none"
    BY DEF LoginProof!IInv, LoginProof!Known, LoginProof!OneAtATime, LoginProof!PurgeFits
  <2>2. LoginProof!Known' BY DEF LoginProof!IInv, LoginProof!Known, LoginProof!PurgeFits
  <2>3. LoginProof!OneAtATime'
    BY DEF LoginProof!IInv, LoginProof!Known, LoginProof!PurgeFits, LoginProof!OneAtATime
  <2>4. LoginProof!OlderAreOver'
    BY DEF LoginProof!IInv, LoginProof!Known, LoginProof!OneAtATime, LoginProof!PurgeFits,
           LoginProof!OlderAreOver, LoginProof!ReceiptFits
  <2>5. LoginProof!PurgeFits(r)' /\ LoginProof!ReceiptFits(r)' /\ LoginProof!BackendFits(r)'
    BY DEF LoginProof!IInv, LoginProof!Known, LoginProof!PurgeFits, LoginProof!ReceiptFits,
           LoginProof!BackendFits, LoginProof!Passed
  <2>6. LoginProof!RowsFit(r)'
    BY DEF LoginProof!IInv, LoginProof!Known, LoginProof!PurgeFits, LoginProof!RowsFit,
           LoginProof!Removing, LoginProof!Findable
  <2>7. ASSUME NEW q \in Jobs, q # r
        PROVE /\ LoginProof!PurgeFits(q)' /\ LoginProof!ReceiptFits(q)'
              /\ LoginProof!BackendFits(q)' /\ LoginProof!RowsFit(q)'
    BY <2>7, <2>1 DEF LoginProof!IInv, LoginProof!Known, LoginProof!PurgeFits,
                      LoginProof!ReceiptFits, LoginProof!BackendFits, LoginProof!RowsFit,
                      LoginProof!Passed
  <2>8. LoginProof!PassIsWhole'
    BY DEF LoginProof!IInv, LoginProof!Known, LoginProof!OneAtATime, LoginProof!PurgeFits,
           LoginProof!ReceiptFits, LoginProof!PassIsWhole, LoginProof!Pass, LoginProof!Passed,
           LoginProof!RowsFit, LoginProof!Findable
  <2> QED BY <2>2, <2>3, <2>4, <2>5, <2>6, <2>7, <2>8 DEF LoginProof!IInv
<1>15. ASSUME NEW r \in Jobs, LoginProof!CleanUpBreaks(r) PROVE LoginProof!IInv'
  <2> USE <1>15 DEF LoginProof!CleanUpBreaks, LoginProof!At, LoginProof!Fault
  <2>1. \A q \in Jobs \ {r} : pp'[q] = pp[q] /\ pp[q] \in {"idle", "done"} /\ purge[q].step = "none"
    BY DEF LoginProof!IInv, LoginProof!Known, LoginProof!OneAtATime, LoginProof!PurgeFits
  <2>2. LoginProof!Known' BY DEF LoginProof!IInv, LoginProof!Known, LoginProof!PurgeFits
  <2>3. LoginProof!OneAtATime'
    BY DEF LoginProof!IInv, LoginProof!Known, LoginProof!PurgeFits, LoginProof!OneAtATime
  <2>4. LoginProof!OlderAreOver'
    BY DEF LoginProof!IInv, LoginProof!Known, LoginProof!OneAtATime, LoginProof!PurgeFits,
           LoginProof!OlderAreOver, LoginProof!ReceiptFits
  <2>5. LoginProof!PurgeFits(r)' /\ LoginProof!ReceiptFits(r)' /\ LoginProof!BackendFits(r)'
    BY DEF LoginProof!IInv, LoginProof!Known, LoginProof!PurgeFits, LoginProof!ReceiptFits,
           LoginProof!BackendFits, LoginProof!Passed
  <2>6. LoginProof!RowsFit(r)'
    BY DEF LoginProof!IInv, LoginProof!Known, LoginProof!PurgeFits, LoginProof!RowsFit,
           LoginProof!Removing, LoginProof!Findable
  <2>7. ASSUME NEW q \in Jobs, q # r
        PROVE /\ LoginProof!PurgeFits(q)' /\ LoginProof!ReceiptFits(q)'
              /\ LoginProof!BackendFits(q)' /\ LoginProof!RowsFit(q)'
    BY <2>7, <2>1 DEF LoginProof!IInv, LoginProof!Known, LoginProof!PurgeFits,
                      LoginProof!ReceiptFits, LoginProof!BackendFits, LoginProof!RowsFit,
                      LoginProof!Passed
  <2>8. LoginProof!PassIsWhole'
    BY DEF LoginProof!IInv, LoginProof!Known, LoginProof!OneAtATime, LoginProof!PurgeFits,
           LoginProof!ReceiptFits, LoginProof!PassIsWhole, LoginProof!Pass, LoginProof!Passed,
           LoginProof!RowsFit, LoginProof!Findable
  <2> QED BY <2>2, <2>3, <2>4, <2>5, <2>6, <2>7, <2>8 DEF LoginProof!IInv
<1>16. ASSUME NEW r \in Jobs, LoginProof!Stop(r) PROVE LoginProof!IInv'
  <2> USE <1>16 DEF LoginProof!Stop, LoginProof!At
  <2>1. \A q \in Jobs \ {r} : pp'[q] = pp[q] /\ pp[q] \in {"idle", "done"} /\ purge[q].step = "none"
    BY DEF LoginProof!IInv, LoginProof!Known, LoginProof!OneAtATime, LoginProof!PurgeFits
  <2>2. LoginProof!Known' BY DEF LoginProof!IInv, LoginProof!Known, LoginProof!PurgeFits
  <2>3. LoginProof!OneAtATime'
    BY DEF LoginProof!IInv, LoginProof!Known, LoginProof!PurgeFits, LoginProof!OneAtATime
  <2>4. LoginProof!OlderAreOver'
    BY DEF LoginProof!IInv, LoginProof!Known, LoginProof!OneAtATime, LoginProof!PurgeFits,
           LoginProof!OlderAreOver, LoginProof!ReceiptFits
  <2>5. LoginProof!PurgeFits(r)' /\ LoginProof!ReceiptFits(r)' /\ LoginProof!BackendFits(r)'
    BY DEF LoginProof!IInv, LoginProof!Known, LoginProof!PurgeFits, LoginProof!ReceiptFits,
           LoginProof!BackendFits, LoginProof!Passed
  <2>6. LoginProof!RowsFit(r)'
    BY DEF LoginProof!IInv, LoginProof!Known, LoginProof!PurgeFits, LoginProof!RowsFit,
           LoginProof!Removing, LoginProof!Findable
  <2>7. ASSUME NEW q \in Jobs, q # r
        PROVE /\ LoginProof!PurgeFits(q)' /\ LoginProof!ReceiptFits(q)'
              /\ LoginProof!BackendFits(q)' /\ LoginProof!RowsFit(q)'
    BY <2>7, <2>1 DEF LoginProof!IInv, LoginProof!Known, LoginProof!PurgeFits,
                      LoginProof!ReceiptFits, LoginProof!BackendFits, LoginProof!RowsFit,
                      LoginProof!Passed
  <2>8. LoginProof!PassIsWhole'
    BY DEF LoginProof!IInv, LoginProof!Known, LoginProof!OneAtATime, LoginProof!PurgeFits,
           LoginProof!ReceiptFits, LoginProof!PassIsWhole, LoginProof!Pass, LoginProof!Passed,
           LoginProof!RowsFit, LoginProof!Findable
  <2> QED BY <2>2, <2>3, <2>4, <2>5, <2>6, <2>7, <2>8 DEF LoginProof!IInv
<1>17. ASSUME NEW r \in Jobs, LoginProof!SweepOne(r) PROVE LoginProof!IInv'
  <2> USE <1>17 DEF LoginProof!SweepOne, LoginProof!StartPurge, LoginProof!Findable
  <2>1. \A q \in Jobs \ {r} : pp'[q] = pp[q] /\ pp[q] \in {"idle", "done"} /\ purge[q].step = "none"
    BY DEF LoginProof!IInv, LoginProof!Known, LoginProof!OneAtATime, LoginProof!PurgeFits
  <2>2. LoginProof!Known' BY DEF LoginProof!IInv, LoginProof!Known, LoginProof!PurgeFits
  <2>3. LoginProof!OneAtATime'
    BY DEF LoginProof!IInv, LoginProof!Known, LoginProof!PurgeFits, LoginProof!OneAtATime
  <2>4. LoginProof!OlderAreOver'
    BY DEF LoginProof!IInv, LoginProof!Known, LoginProof!OneAtATime, LoginProof!PurgeFits,
           LoginProof!OlderAreOver, LoginProof!ReceiptFits
  <2>5. LoginProof!PurgeFits(r)' /\ LoginProof!ReceiptFits(r)' /\ LoginProof!BackendFits(r)'
    BY DEF LoginProof!IInv, LoginProof!Known, LoginProof!PurgeFits, LoginProof!ReceiptFits,
           LoginProof!BackendFits, LoginProof!Passed
  <2>6. LoginProof!RowsFit(r)'
    BY DEF LoginProof!IInv, LoginProof!Known, LoginProof!PurgeFits, LoginProof!RowsFit,
           LoginProof!Removing, LoginProof!Findable
  <2>7. ASSUME NEW q \in Jobs, q # r
        PROVE /\ LoginProof!PurgeFits(q)' /\ LoginProof!ReceiptFits(q)'
              /\ LoginProof!BackendFits(q)' /\ LoginProof!RowsFit(q)'
    BY <2>7, <2>1 DEF LoginProof!IInv, LoginProof!Known, LoginProof!PurgeFits,
                      LoginProof!ReceiptFits, LoginProof!BackendFits, LoginProof!RowsFit,
                      LoginProof!Passed
  <2>8. LoginProof!PassIsWhole'
    BY DEF LoginProof!IInv, LoginProof!Known, LoginProof!OneAtATime, LoginProof!PurgeFits,
           LoginProof!ReceiptFits, LoginProof!PassIsWhole, LoginProof!Pass, LoginProof!Passed,
           LoginProof!RowsFit, LoginProof!Findable
  <2> QED BY <2>2, <2>3, <2>4, <2>5, <2>6, <2>7, <2>8 DEF LoginProof!IInv
<1>18. ASSUME NEW r \in Jobs, LoginProof!SweptOne(r) PROVE LoginProof!IInv'
  <2> USE <1>18 DEF LoginProof!SweptOne, LoginProof!tool
  <2>1. \A q \in Jobs \ {r} : pp'[q] = pp[q] /\ pp[q] \in {"idle", "done"} /\ purge[q].step = "none"
    BY DEF LoginProof!IInv, LoginProof!Known, LoginProof!OneAtATime, LoginProof!PurgeFits
  <2>2. LoginProof!Known' BY DEF LoginProof!IInv, LoginProof!Known, LoginProof!PurgeFits
  <2>3. LoginProof!OneAtATime'
    BY DEF LoginProof!IInv, LoginProof!Known, LoginProof!PurgeFits, LoginProof!OneAtATime
  <2>4. LoginProof!OlderAreOver'
    BY DEF LoginProof!IInv, LoginProof!Known, LoginProof!OneAtATime, LoginProof!PurgeFits,
           LoginProof!OlderAreOver, LoginProof!ReceiptFits
  <2>5. LoginProof!PurgeFits(r)' /\ LoginProof!ReceiptFits(r)' /\ LoginProof!BackendFits(r)'
    BY DEF LoginProof!IInv, LoginProof!Known, LoginProof!PurgeFits, LoginProof!ReceiptFits,
           LoginProof!BackendFits, LoginProof!Passed
  <2>6. LoginProof!RowsFit(r)'
    BY DEF LoginProof!IInv, LoginProof!Known, LoginProof!PurgeFits, LoginProof!RowsFit,
           LoginProof!Removing, LoginProof!Findable
  <2>7. ASSUME NEW q \in Jobs, q # r
        PROVE /\ LoginProof!PurgeFits(q)' /\ LoginProof!ReceiptFits(q)'
              /\ LoginProof!BackendFits(q)' /\ LoginProof!RowsFit(q)'
    BY <2>7, <2>1 DEF LoginProof!IInv, LoginProof!Known, LoginProof!PurgeFits,
                      LoginProof!ReceiptFits, LoginProof!BackendFits, LoginProof!RowsFit,
                      LoginProof!Passed
  <2>8. LoginProof!PassIsWhole'
    BY DEF LoginProof!IInv, LoginProof!Known, LoginProof!OneAtATime, LoginProof!PurgeFits,
           LoginProof!ReceiptFits, LoginProof!PassIsWhole, LoginProof!Pass, LoginProof!Passed,
           LoginProof!RowsFit, LoginProof!Findable
  <2> QED BY <2>2, <2>3, <2>4, <2>5, <2>6, <2>7, <2>8 DEF LoginProof!IInv
<1>19. ASSUME NEW r \in Jobs, LoginProof!SweepBreaks(r) PROVE LoginProof!IInv'
  <2> USE <1>19 DEF LoginProof!SweepBreaks, LoginProof!At, LoginProof!Fault
  <2>1. \A q \in Jobs \ {r} : pp'[q] = pp[q] /\ pp[q] \in {"idle", "done"} /\ purge[q].step = "none"
    BY DEF LoginProof!IInv, LoginProof!Known, LoginProof!OneAtATime, LoginProof!PurgeFits
  <2>2. LoginProof!Known' BY DEF LoginProof!IInv, LoginProof!Known, LoginProof!PurgeFits
  <2>3. LoginProof!OneAtATime'
    BY DEF LoginProof!IInv, LoginProof!Known, LoginProof!PurgeFits, LoginProof!OneAtATime
  <2>4. LoginProof!OlderAreOver'
    BY DEF LoginProof!IInv, LoginProof!Known, LoginProof!OneAtATime, LoginProof!PurgeFits,
           LoginProof!OlderAreOver, LoginProof!ReceiptFits
  <2>5. LoginProof!PurgeFits(r)' /\ LoginProof!ReceiptFits(r)' /\ LoginProof!BackendFits(r)'
    BY DEF LoginProof!IInv, LoginProof!Known, LoginProof!PurgeFits, LoginProof!ReceiptFits,
           LoginProof!BackendFits, LoginProof!Passed
  <2>6. LoginProof!RowsFit(r)'
    BY DEF LoginProof!IInv, LoginProof!Known, LoginProof!PurgeFits, LoginProof!RowsFit,
           LoginProof!Removing, LoginProof!Findable
  <2>7. ASSUME NEW q \in Jobs, q # r
        PROVE /\ LoginProof!PurgeFits(q)' /\ LoginProof!ReceiptFits(q)'
              /\ LoginProof!BackendFits(q)' /\ LoginProof!RowsFit(q)'
    BY <2>7, <2>1 DEF LoginProof!IInv, LoginProof!Known, LoginProof!PurgeFits,
                      LoginProof!ReceiptFits, LoginProof!BackendFits, LoginProof!RowsFit,
                      LoginProof!Passed
  <2>8. LoginProof!PassIsWhole'
    BY DEF LoginProof!IInv, LoginProof!Known, LoginProof!OneAtATime, LoginProof!PurgeFits,
           LoginProof!ReceiptFits, LoginProof!PassIsWhole, LoginProof!Pass, LoginProof!Passed,
           LoginProof!RowsFit, LoginProof!Findable
  <2> QED BY <2>2, <2>3, <2>4, <2>5, <2>6, <2>7, <2>8 DEF LoginProof!IInv
<1>20. ASSUME NEW r \in Jobs, LoginProof!Swept(r) PROVE LoginProof!IInv'
  <2> USE <1>20 DEF LoginProof!Swept, LoginProof!At, LoginProof!Findable
  <2>1. \A q \in Jobs \ {r} : pp'[q] = pp[q] /\ pp[q] \in {"idle", "done"} /\ purge[q].step = "none"
    BY DEF LoginProof!IInv, LoginProof!Known, LoginProof!OneAtATime, LoginProof!PurgeFits
  <2>2. LoginProof!Known' BY DEF LoginProof!IInv, LoginProof!Known, LoginProof!PurgeFits
  <2>3. LoginProof!OneAtATime'
    BY DEF LoginProof!IInv, LoginProof!Known, LoginProof!PurgeFits, LoginProof!OneAtATime
  <2>4. LoginProof!OlderAreOver'
    BY DEF LoginProof!IInv, LoginProof!Known, LoginProof!OneAtATime, LoginProof!PurgeFits,
           LoginProof!OlderAreOver, LoginProof!ReceiptFits
  <2>5. LoginProof!PurgeFits(r)' /\ LoginProof!ReceiptFits(r)' /\ LoginProof!BackendFits(r)'
    BY DEF LoginProof!IInv, LoginProof!Known, LoginProof!PurgeFits, LoginProof!ReceiptFits,
           LoginProof!BackendFits, LoginProof!Passed
  <2>6. LoginProof!RowsFit(r)'
    BY DEF LoginProof!IInv, LoginProof!Known, LoginProof!PurgeFits, LoginProof!RowsFit,
           LoginProof!Removing, LoginProof!Findable
  <2>7. ASSUME NEW q \in Jobs, q # r
        PROVE /\ LoginProof!PurgeFits(q)' /\ LoginProof!ReceiptFits(q)'
              /\ LoginProof!BackendFits(q)' /\ LoginProof!RowsFit(q)'
    BY <2>7, <2>1 DEF LoginProof!IInv, LoginProof!Known, LoginProof!PurgeFits,
                      LoginProof!ReceiptFits, LoginProof!BackendFits, LoginProof!RowsFit,
                      LoginProof!Passed
  <2>8. LoginProof!PassIsWhole'
    BY DEF LoginProof!IInv, LoginProof!Known, LoginProof!OneAtATime, LoginProof!PurgeFits,
           LoginProof!ReceiptFits, LoginProof!PassIsWhole, LoginProof!Pass, LoginProof!Passed,
           LoginProof!RowsFit, LoginProof!Findable
  <2> QED BY <2>2, <2>3, <2>4, <2>5, <2>6, <2>7, <2>8 DEF LoginProof!IInv
<1>21. ASSUME NEW r \in Jobs, LoginProof!Close(r) PROVE LoginProof!IInv'
  <2> USE <1>21 DEF LoginProof!Close, LoginProof!At, LoginProof!Passed
  <2>1. \A q \in Jobs \ {r} : pp'[q] = pp[q] /\ pp[q] \in {"idle", "done"} /\ purge[q].step = "none"
    BY DEF LoginProof!IInv, LoginProof!Known, LoginProof!OneAtATime, LoginProof!PurgeFits
  <2>2. LoginProof!Known' BY DEF LoginProof!IInv, LoginProof!Known, LoginProof!PurgeFits
  <2>3. LoginProof!OneAtATime'
    BY DEF LoginProof!IInv, LoginProof!Known, LoginProof!PurgeFits, LoginProof!OneAtATime
  <2>4. LoginProof!OlderAreOver'
    BY DEF LoginProof!IInv, LoginProof!Known, LoginProof!OneAtATime, LoginProof!PurgeFits,
           LoginProof!OlderAreOver, LoginProof!ReceiptFits
  <2>5. LoginProof!PurgeFits(r)' /\ LoginProof!ReceiptFits(r)' /\ LoginProof!BackendFits(r)'
    BY DEF LoginProof!IInv, LoginProof!Known, LoginProof!PurgeFits, LoginProof!ReceiptFits,
           LoginProof!BackendFits, LoginProof!Passed
  <2>6. LoginProof!RowsFit(r)'
    BY DEF LoginProof!IInv, LoginProof!Known, LoginProof!PurgeFits, LoginProof!RowsFit,
           LoginProof!Removing, LoginProof!Findable
  <2>7. ASSUME NEW q \in Jobs, q # r
        PROVE /\ LoginProof!PurgeFits(q)' /\ LoginProof!ReceiptFits(q)'
              /\ LoginProof!BackendFits(q)' /\ LoginProof!RowsFit(q)'
    BY <2>7, <2>1 DEF LoginProof!IInv, LoginProof!Known, LoginProof!PurgeFits,
                      LoginProof!ReceiptFits, LoginProof!BackendFits, LoginProof!RowsFit,
                      LoginProof!Passed
  <2>8. LoginProof!PassIsWhole'
    BY DEF LoginProof!IInv, LoginProof!Known, LoginProof!OneAtATime, LoginProof!PurgeFits,
           LoginProof!ReceiptFits, LoginProof!PassIsWhole, LoginProof!Pass, LoginProof!Passed,
           LoginProof!RowsFit, LoginProof!Findable
  <2> QED BY <2>2, <2>3, <2>4, <2>5, <2>6, <2>7, <2>8 DEF LoginProof!IInv
<1>22. ASSUME NEW r \in Jobs, LoginProof!Return(r) PROVE LoginProof!IInv'
  <2> USE <1>22 DEF LoginProof!Return, LoginProof!At, LoginProof!Passed
  <2>1. \A q \in Jobs \ {r} : pp'[q] = pp[q] /\ pp[q] \in {"idle", "done"} /\ purge[q].step = "none"
    BY DEF LoginProof!IInv, LoginProof!Known, LoginProof!OneAtATime, LoginProof!PurgeFits
  <2>2. LoginProof!Known' BY DEF LoginProof!IInv, LoginProof!Known, LoginProof!PurgeFits
  <2>3. LoginProof!OneAtATime'
    BY DEF LoginProof!IInv, LoginProof!Known, LoginProof!PurgeFits, LoginProof!OneAtATime
  <2>4. LoginProof!OlderAreOver'
    BY DEF LoginProof!IInv, LoginProof!Known, LoginProof!OneAtATime, LoginProof!PurgeFits,
           LoginProof!OlderAreOver, LoginProof!ReceiptFits
  <2>5. LoginProof!PurgeFits(r)' /\ LoginProof!ReceiptFits(r)' /\ LoginProof!BackendFits(r)'
    BY DEF LoginProof!IInv, LoginProof!Known, LoginProof!PurgeFits, LoginProof!ReceiptFits,
           LoginProof!BackendFits, LoginProof!Passed
  <2>6. LoginProof!RowsFit(r)'
    BY DEF LoginProof!IInv, LoginProof!Known, LoginProof!PurgeFits, LoginProof!RowsFit,
           LoginProof!Removing, LoginProof!Findable
  <2>7. ASSUME NEW q \in Jobs, q # r
        PROVE /\ LoginProof!PurgeFits(q)' /\ LoginProof!ReceiptFits(q)'
              /\ LoginProof!BackendFits(q)' /\ LoginProof!RowsFit(q)'
    BY <2>7, <2>1 DEF LoginProof!IInv, LoginProof!Known, LoginProof!PurgeFits,
                      LoginProof!ReceiptFits, LoginProof!BackendFits, LoginProof!RowsFit,
                      LoginProof!Passed
  <2>8. LoginProof!PassIsWhole'
    BY DEF LoginProof!IInv, LoginProof!Known, LoginProof!OneAtATime, LoginProof!PurgeFits,
           LoginProof!ReceiptFits, LoginProof!PassIsWhole, LoginProof!Pass, LoginProof!Passed,
           LoginProof!RowsFit, LoginProof!Findable
  <2> QED BY <2>2, <2>3, <2>4, <2>5, <2>6, <2>7, <2>8 DEF LoginProof!IInv
<1>23. ASSUME NEW r \in Jobs, LoginProof!InterruptOutside(r) PROVE LoginProof!IInv'
  <2> USE <1>23 DEF LoginProof!InterruptOutside, LoginProof!Fault, LoginProof!Leaves
  <2>1. \A q \in Jobs \ {r} : pp'[q] = pp[q] /\ pp[q] \in {"idle", "done"} /\ purge[q].step = "none"
    BY DEF LoginProof!IInv, LoginProof!Known, LoginProof!OneAtATime, LoginProof!PurgeFits
  <2>2. LoginProof!Known' BY DEF LoginProof!IInv, LoginProof!Known, LoginProof!PurgeFits
  <2>3. LoginProof!OneAtATime'
    BY DEF LoginProof!IInv, LoginProof!Known, LoginProof!PurgeFits, LoginProof!OneAtATime
  <2>4. LoginProof!OlderAreOver'
    BY DEF LoginProof!IInv, LoginProof!Known, LoginProof!OneAtATime, LoginProof!PurgeFits,
           LoginProof!OlderAreOver, LoginProof!ReceiptFits
  <2>5. LoginProof!PurgeFits(r)' /\ LoginProof!ReceiptFits(r)' /\ LoginProof!BackendFits(r)'
    BY DEF LoginProof!IInv, LoginProof!Known, LoginProof!PurgeFits, LoginProof!ReceiptFits,
           LoginProof!BackendFits, LoginProof!Passed
  <2>6. LoginProof!RowsFit(r)'
    BY DEF LoginProof!IInv, LoginProof!Known, LoginProof!PurgeFits, LoginProof!RowsFit,
           LoginProof!Removing, LoginProof!Findable
  <2>7. ASSUME NEW q \in Jobs, q # r
        PROVE /\ LoginProof!PurgeFits(q)' /\ LoginProof!ReceiptFits(q)'
              /\ LoginProof!BackendFits(q)' /\ LoginProof!RowsFit(q)'
    BY <2>7, <2>1 DEF LoginProof!IInv, LoginProof!Known, LoginProof!PurgeFits,
                      LoginProof!ReceiptFits, LoginProof!BackendFits, LoginProof!RowsFit,
                      LoginProof!Passed
  <2>8. LoginProof!PassIsWhole'
    BY DEF LoginProof!IInv, LoginProof!Known, LoginProof!OneAtATime, LoginProof!PurgeFits,
           LoginProof!ReceiptFits, LoginProof!PassIsWhole, LoginProof!Pass, LoginProof!Passed,
           LoginProof!RowsFit, LoginProof!Findable
  <2> QED BY <2>2, <2>3, <2>4, <2>5, <2>6, <2>7, <2>8 DEF LoginProof!IInv
<1>24. ASSUME NEW r \in Jobs, LoginProof!InterruptInside(r) PROVE LoginProof!IInv'
  <2> USE <1>24 DEF LoginProof!InterruptInside, LoginProof!Fault, LoginProof!Working
  <2>1. \A q \in Jobs \ {r} : pp'[q] = pp[q] /\ pp[q] \in {"idle", "done"} /\ purge[q].step = "none"
    BY DEF LoginProof!IInv, LoginProof!Known, LoginProof!OneAtATime, LoginProof!PurgeFits
  <2>2. LoginProof!Known' BY DEF LoginProof!IInv, LoginProof!Known, LoginProof!PurgeFits
  <2>3. LoginProof!OneAtATime'
    BY DEF LoginProof!IInv, LoginProof!Known, LoginProof!PurgeFits, LoginProof!OneAtATime
  <2>4. LoginProof!OlderAreOver'
    BY DEF LoginProof!IInv, LoginProof!Known, LoginProof!OneAtATime, LoginProof!PurgeFits,
           LoginProof!OlderAreOver, LoginProof!ReceiptFits
  <2>5. LoginProof!PurgeFits(r)' /\ LoginProof!ReceiptFits(r)' /\ LoginProof!BackendFits(r)'
    BY DEF LoginProof!IInv, LoginProof!Known, LoginProof!PurgeFits, LoginProof!ReceiptFits,
           LoginProof!BackendFits, LoginProof!Passed
  <2>6. LoginProof!RowsFit(r)'
    BY DEF LoginProof!IInv, LoginProof!Known, LoginProof!PurgeFits, LoginProof!RowsFit,
           LoginProof!Removing, LoginProof!Findable
  <2>7. ASSUME NEW q \in Jobs, q # r
        PROVE /\ LoginProof!PurgeFits(q)' /\ LoginProof!ReceiptFits(q)'
              /\ LoginProof!BackendFits(q)' /\ LoginProof!RowsFit(q)'
    BY <2>7, <2>1 DEF LoginProof!IInv, LoginProof!Known, LoginProof!PurgeFits,
                      LoginProof!ReceiptFits, LoginProof!BackendFits, LoginProof!RowsFit,
                      LoginProof!Passed
  <2>8. LoginProof!PassIsWhole'
    BY DEF LoginProof!IInv, LoginProof!Known, LoginProof!OneAtATime, LoginProof!PurgeFits,
           LoginProof!ReceiptFits, LoginProof!PassIsWhole, LoginProof!Pass, LoginProof!Passed,
           LoginProof!RowsFit, LoginProof!Findable
  <2> QED BY <2>2, <2>3, <2>4, <2>5, <2>6, <2>7, <2>8 DEF LoginProof!IInv
<1>25. ASSUME NEW r \in Jobs, LoginProof!InterruptStopping(r) PROVE LoginProof!IInv'
  <2> USE <1>25 DEF LoginProof!InterruptStopping, LoginProof!Fault, LoginProof!Leaves
  <2>1. \A q \in Jobs \ {r} : pp'[q] = pp[q] /\ pp[q] \in {"idle", "done"} /\ purge[q].step = "none"
    BY DEF LoginProof!IInv, LoginProof!Known, LoginProof!OneAtATime, LoginProof!PurgeFits
  <2>2. LoginProof!Known' BY DEF LoginProof!IInv, LoginProof!Known, LoginProof!PurgeFits
  <2>3. LoginProof!OneAtATime'
    BY DEF LoginProof!IInv, LoginProof!Known, LoginProof!PurgeFits, LoginProof!OneAtATime
  <2>4. LoginProof!OlderAreOver'
    BY DEF LoginProof!IInv, LoginProof!Known, LoginProof!OneAtATime, LoginProof!PurgeFits,
           LoginProof!OlderAreOver, LoginProof!ReceiptFits
  <2>5. LoginProof!PurgeFits(r)' /\ LoginProof!ReceiptFits(r)' /\ LoginProof!BackendFits(r)'
    BY DEF LoginProof!IInv, LoginProof!Known, LoginProof!PurgeFits, LoginProof!ReceiptFits,
           LoginProof!BackendFits, LoginProof!Passed
  <2>6. LoginProof!RowsFit(r)'
    BY DEF LoginProof!IInv, LoginProof!Known, LoginProof!PurgeFits, LoginProof!RowsFit,
           LoginProof!Removing, LoginProof!Findable
  <2>7. ASSUME NEW q \in Jobs, q # r
        PROVE /\ LoginProof!PurgeFits(q)' /\ LoginProof!ReceiptFits(q)'
              /\ LoginProof!BackendFits(q)' /\ LoginProof!RowsFit(q)'
    BY <2>7, <2>1 DEF LoginProof!IInv, LoginProof!Known, LoginProof!PurgeFits,
                      LoginProof!ReceiptFits, LoginProof!BackendFits, LoginProof!RowsFit,
                      LoginProof!Passed
  <2>8. LoginProof!PassIsWhole'
    BY DEF LoginProof!IInv, LoginProof!Known, LoginProof!OneAtATime, LoginProof!PurgeFits,
           LoginProof!ReceiptFits, LoginProof!PassIsWhole, LoginProof!Pass, LoginProof!Passed,
           LoginProof!RowsFit, LoginProof!Findable
  <2> QED BY <2>2, <2>3, <2>4, <2>5, <2>6, <2>7, <2>8 DEF LoginProof!IInv
<1>26. ASSUME NEW r \in Jobs, LoginProof!Kill(r) PROVE LoginProof!IInv'
  <2> USE <1>26 DEF LoginProof!Kill, LoginProof!Fault
  <2>1. \A q \in Jobs \ {r} : pp'[q] = pp[q] /\ pp[q] \in {"idle", "done"} /\ purge[q].step = "none"
    BY DEF LoginProof!IInv, LoginProof!Known, LoginProof!OneAtATime, LoginProof!PurgeFits
  <2>2. LoginProof!Known' BY DEF LoginProof!IInv, LoginProof!Known, LoginProof!PurgeFits
  <2>3. LoginProof!OneAtATime'
    BY DEF LoginProof!IInv, LoginProof!Known, LoginProof!PurgeFits, LoginProof!OneAtATime
  <2>4. LoginProof!OlderAreOver'
    BY DEF LoginProof!IInv, LoginProof!Known, LoginProof!OneAtATime, LoginProof!PurgeFits,
           LoginProof!OlderAreOver, LoginProof!ReceiptFits
  <2>5. LoginProof!PurgeFits(r)' /\ LoginProof!ReceiptFits(r)' /\ LoginProof!BackendFits(r)'
    BY DEF LoginProof!IInv, LoginProof!Known, LoginProof!PurgeFits, LoginProof!ReceiptFits,
           LoginProof!BackendFits, LoginProof!Passed
  <2>6. LoginProof!RowsFit(r)'
    BY DEF LoginProof!IInv, LoginProof!Known, LoginProof!PurgeFits, LoginProof!RowsFit,
           LoginProof!Removing, LoginProof!Findable
  <2>7. ASSUME NEW q \in Jobs, q # r
        PROVE /\ LoginProof!PurgeFits(q)' /\ LoginProof!ReceiptFits(q)'
              /\ LoginProof!BackendFits(q)' /\ LoginProof!RowsFit(q)'
    BY <2>7, <2>1 DEF LoginProof!IInv, LoginProof!Known, LoginProof!PurgeFits,
                      LoginProof!ReceiptFits, LoginProof!BackendFits, LoginProof!RowsFit,
                      LoginProof!Passed
  <2>8. LoginProof!PassIsWhole'
    BY DEF LoginProof!IInv, LoginProof!Known, LoginProof!OneAtATime, LoginProof!PurgeFits,
           LoginProof!ReceiptFits, LoginProof!PassIsWhole, LoginProof!Pass, LoginProof!Passed,
           LoginProof!RowsFit, LoginProof!Findable
  <2> QED BY <2>2, <2>3, <2>4, <2>5, <2>6, <2>7, <2>8 DEF LoginProof!IInv
<1> QED
  BY <1>1, <1>2, <1>3, <1>4, <1>5, <1>6, <1>7, <1>8, <1>9, <1>10, <1>11, <1>12, <1>13,
     <1>14, <1>15, <1>16, <1>17, <1>18, <1>19, <1>20, <1>21, <1>22, <1>23, <1>24, <1>25, <1>26
     DEF LoginProof!Next, LoginProof!Interrupts

LEMMA LoginProofStep ==
  ASSUME LoginProof!RunsFollow, LoginProof!IInv, [LoginProof!Next]_(LoginProof!vars)
  PROVE LoginProof!IInv'
<1>1. CASE UNCHANGED LoginProof!vars
  BY <1>1 DEF LoginProof!vars, LoginProof!tool, LoginProof!IInv, LoginProof!Known,
     LoginProof!OneAtATime, LoginProof!PurgeFits, LoginProof!ReceiptFits,
     LoginProof!OlderAreOver, LoginProof!BackendFits, LoginProof!RowsFit, LoginProof!Removing,
     LoginProof!Findable, LoginProof!PassIsWhole, LoginProof!Pass, LoginProof!Passed
<1>2. QED BY <1>1, LoginProofKeeps

\* What the proof promises: a pass is whole, no older pass stands, no open backend is left.
LoginProofPromise ==
    /\ LoginProof!PassIsWhole /\ LoginProof!OldPassIsGone /\ LoginProof!NoOpenBackendLeft

LEMMA LoginProofSays == ASSUME LoginProof!RunsFollow, LoginProof!IInv PROVE LoginProofPromise
BY DEF LoginProofPromise, LoginProof!IInv, LoginProof!OlderAreOver, LoginProof!OldPassIsGone,
       LoginProof!NoOpenBackendLeft, LoginProof!BackendFits

\* Whatever is interrupted, killed or broken off in the middle of a purge: a verdict that passed is
\* of a run that passed every check and removed all it wrote, an older pass is void once a later
\* run began, and a backend that was started ends with its run unless the run is killed
\* (prove_backend_login.py, kill_and_resume_proof.py).
THEOREM LoginProofKept ==
  ASSUME LoginProof!RunsFollow
  PROVE LoginProof!Spec => []LoginProofPromise
<1>1. LoginProof!Init => LoginProof!IInv
  BY LoginProofInit
<1>2. LoginProof!IInv /\ [LoginProof!Next]_(LoginProof!vars) => LoginProof!IInv'
  BY LoginProofStep
<1>3. LoginProof!IInv => LoginProofPromise
  BY LoginProofSays
<1> QED BY <1>1, <1>2, <1>3, PTL DEF LoginProof!Spec
=============================================================================
