---------------------------- MODULE HostedRelease ----------------------------
(***************************************************************************)
(* scripts/publish.py: one release of the hosted site.  A publish reads    *)
(* the settings and the live deployment, builds the site, refuses while    *)
(* any hop disagrees with the release's mode or the proof of the backend   *)
(* login is not this commit's, then deploys the roles, the image, the App  *)
(* Runner service and the site, one after another.  Any step may fail,     *)
(* and App Runner may roll an update back or outlast the wait; what has    *)
(* been deployed stays.  Findings are the checks of                        *)
(* identity_release/preflight.py: each is one agreement with the mode.     *)
(***************************************************************************)
EXTENDS Integers, FiniteSets

CONSTANTS
    Publishes,   \* runs of the script
    MaxCommit,   \* bound: commits to the repository
    TightenAny,  \* may --tighten be used while the service still runs iam?
    Still        \* is the repository left alone while a publish runs?

VARIABLES
    pc,       \* how far each publish is
    mode,     \* MERIDIAN_AGENTCORE_AUTH as the publish read it
    kind,     \* "plan", "stage" or "apply"
    tighten,  \* --tighten
    image,    \* the commit of the image each publish built
    head,     \* the repository's commit
    proof,    \* the commit the last passing login proof ran at, 0 for none
    proven,   \* every commit such a proof ran at
    hops,     \* the mode each hop is deployed for
    roles,    \* the secrets the App Runner instance role may read
    service,  \* [mode, image] of the App Runner service
    op,       \* the App Runner operation in progress: a publish, or 0
    ended,    \* publishes whose operation App Runner has ended, with its result
    site,     \* the mode the site was built for, and by which publish
    receipt   \* .local/hosted-release.json: [by, status]

vars == <<pc, mode, kind, tighten, image, head, proof, proven, hops, roles, service, op,
          ended, site, receipt>>

\* No publish has the name that stands for none, and there is a commit to publish.
PublishesAssumption == 0 \notin Publishes /\ MaxCommit \in Nat \ {0}

-----------------------------------------------------------------------------

Modes == {"iam", "jwt"}
Hops == {"gateway", "runtimes", "policies", "interceptor", "identity", "budget"}
Secrets == {"master", "backend", "token"}

(* What App Runner has to read to start the service: the hosted backend is *)
(* the meridian_backend login in jwt mode, and has the shared token only   *)
(* in iam mode.                                                            *)
Needs(m) == IF m = "jwt" THEN {"backend"} ELSE {"master", "token"}

(* The iam role can read the backend's secret by its managed policy; a jwt *)
(* role keeps the grants an iam service needs unless it is tightened.      *)
Grants(m, tight) == IF m = "jwt" /\ tight THEN {"backend"} ELSE Secrets

Init ==
    /\ pc = [p \in Publishes |-> "idle"]
    /\ mode \in [Publishes -> Modes]
    /\ kind = [p \in Publishes |-> "plan"]
    /\ tighten = [p \in Publishes |-> FALSE]
    /\ image = [p \in Publishes |-> 0]
    /\ head = 1
    /\ proof = 0
    /\ proven = {}
    /\ hops = [h \in Hops |-> "iam"]
    /\ roles = Secrets
    /\ service = [mode |-> "iam", image |-> 0]
    /\ op = 0
    /\ ended = [p \in Publishes |-> "no"]
    /\ site = [mode |-> "iam", by |-> 0]
    /\ receipt = [by |-> 0, status |-> "none"]

Running(p) == pc[p] \notin {"idle", "failed", "done"}
Quiet == \A p \in Publishes : ~Running(p)
Goto(p, there) == pc' = [pc EXCEPT ![p] = there]

-----------------------------------------------------------------------------
(* Around the releases.                                                    *)

Commit ==
    /\ head < MaxCommit
    /\ Still => Quiet
    /\ head' = head + 1
    /\ UNCHANGED <<pc, mode, kind, tighten, image, proof, proven, hops, roles, service, op,
                   ended, site, receipt>>

(* A run of prove_backend_login.py at this commit that passed.             *)
Prove ==
    /\ Quiet
    /\ proof' = head
    /\ proven' = proven \cup {head}
    /\ UNCHANGED <<pc, mode, kind, tighten, image, head, hops, roles, service, op,
                   ended, site, receipt>>

(* The other scripts deploy a hop for either mode, one at a time.          *)
DeployHop ==
    /\ Quiet
    /\ \E h \in Hops, m \in Modes : hops' = [hops EXCEPT ![h] = m]
    /\ UNCHANGED <<pc, mode, kind, tighten, image, head, proof, proven, roles, service, op,
                   ended, site, receipt>>

(* The operation ends: the new definition is live, or App Runner rolled    *)
(* back to the one before.  Either way the service is RUNNING.             *)
OperationEnds ==
    /\ op # 0
    /\ op' = 0
    /\ \/ /\ ended' = [ended EXCEPT ![op] = "succeeded"]
          /\ service' = [mode |-> mode[op], image |-> image[op]]
       \/ /\ ended' = [ended EXCEPT ![op] = "rolled_back"]
          /\ UNCHANGED service
    /\ UNCHANGED <<pc, mode, kind, tighten, image, head, proof, proven, hops, roles, site,
                   receipt>>

-----------------------------------------------------------------------------
(* The plan.                                                               *)

(* inspect_target: the service is RUNNING and the account is the one.      *)
Inspect(p) ==
    /\ pc[p] = "idle"
    /\ Quiet
    /\ op = 0
    /\ Goto(p, "inspected")
    /\ kind' \in {[kind EXCEPT ![p] = k] : k \in {"plan", "stage", "apply"}}
    /\ \E tight \in BOOLEAN :
          /\ tight => mode[p] = "jwt" /\ (TightenAny \/ service.mode = "jwt")
          /\ tighten' = [tighten EXCEPT ![p] = tight]
    /\ UNCHANGED <<mode, image, head, proof, proven, hops, roles, service, op, ended, site,
                   receipt>>

GatewayAgrees(m) == hops["gateway"] = m
RuntimesAgree(m) == hops["runtimes"] = m
PoliciesAgree(m) == hops["policies"] = m
InterceptorAgrees(m) == hops["interceptor"] = m \/ m = "iam"
IdentityAgrees(m) == m = "jwt" => hops["identity"] = m
BudgetAgrees(m) == hops["budget"] = m

ProofIsThisCommits(m) == m = "jwt" => proof = head

Findings(m) ==
    ~ /\ GatewayAgrees(m) /\ RuntimesAgree(m) /\ PoliciesAgree(m)
      /\ InterceptorAgrees(m) /\ IdentityAgrees(m) /\ BudgetAgrees(m)
      /\ ProofIsThisCommits(m)

(* release_findings: the publish goes on, or refuses with its findings.    *)
Check(p) ==
    /\ pc[p] = "inspected"
    /\ IF kind[p] = "stage" THEN Goto(p, "done")
       ELSE IF Findings(mode[p]) THEN Goto(p, "failed")
       ELSE Goto(p, IF kind[p] = "plan" THEN "done" ELSE "checked")
    /\ UNCHANGED <<mode, kind, tighten, image, head, proof, proven, hops, roles, service, op,
                   ended, site, receipt>>

-----------------------------------------------------------------------------
(* deploy_release.                                                         *)

StartReceipt(p) ==
    /\ pc[p] = "checked"
    /\ Goto(p, "started")
    /\ receipt' = [by |-> p, status |-> "in_progress"]
    /\ UNCHANGED <<mode, kind, tighten, image, head, proof, proven, hops, roles, service, op,
                   ended, site>>

DeployRoles(p) ==
    /\ pc[p] = "started"
    /\ Goto(p, "roles")
    /\ roles' = Grants(mode[p], tighten[p])
    /\ UNCHANGED <<mode, kind, tighten, image, head, proof, proven, hops, service, op, ended,
                   site, receipt>>

(* The image is built from the working tree as it is now.                  *)
DeployImage(p) ==
    /\ pc[p] = "roles"
    /\ Goto(p, "imaged")
    /\ image' = [image EXCEPT ![p] = head]
    /\ UNCHANGED <<mode, kind, tighten, head, proof, proven, hops, roles, service, op, ended,
                   site, receipt>>

(* The definition the stack deployed is checked again; an update is asked  *)
(* for only when the service differs from it.                              *)
UpdateService(p) ==
    /\ pc[p] = "imaged"
    /\ Goto(p, "updating")
    /\ IF service = [mode |-> mode[p], image |-> image[p]]
       THEN ended' = [ended EXCEPT ![p] = "succeeded"] /\ UNCHANGED op
       ELSE op' = p /\ UNCHANGED ended
    /\ UNCHANGED <<mode, kind, tighten, image, head, proof, proven, hops, roles, service, site,
                   receipt>>

\* Mutant: a service that is RUNNING again has taken the update.
RetainedRunning(p) == op # p
(* The operation SUCCEEDED, and the service has what was asked for.        *)
Retained(p) ==
    /\ ended[p] = "succeeded"
    /\ service = [mode |-> mode[p], image |-> image[p]]

WaitForOperation(p) ==
    /\ pc[p] = "updating"
    /\ op # p
    /\ Goto(p, IF Retained(p) THEN "updated" ELSE "failed")
    /\ UNCHANGED <<mode, kind, tighten, image, head, proof, proven, hops, roles, service, op,
                   ended, site, receipt>>

DeploySite(p) ==
    /\ pc[p] = "updated"
    /\ Goto(p, "sited")
    /\ site' = [mode |-> mode[p], by |-> p]
    /\ UNCHANGED <<mode, kind, tighten, image, head, proof, proven, hops, roles, service, op,
                   ended, receipt>>

FinishReceipt(p) ==
    /\ pc[p] = "sited"
    /\ Goto(p, "done")
    /\ receipt' = [by |-> p, status |-> "deployed_pending_verification"]
    /\ UNCHANGED <<mode, kind, tighten, image, head, proof, proven, hops, roles, service, op,
                   ended, site>>

(* A command or a call fails, the wait times out, or the publish is        *)
(* killed.  An operation in progress goes on without it.                   *)
Fail(p) ==
    /\ Running(p)
    /\ Goto(p, "failed")
    /\ UNCHANGED <<mode, kind, tighten, image, head, proof, proven, hops, roles, service, op,
                   ended, site, receipt>>

Publish(p) == \/ Inspect(p) \/ Check(p) \/ StartReceipt(p) \/ DeployRoles(p)
              \/ DeployImage(p) \/ UpdateService(p) \/ WaitForOperation(p)
              \/ DeploySite(p) \/ FinishReceipt(p) \/ Fail(p)

Next == Commit \/ Prove \/ DeployHop \/ OperationEnds \/ \E p \in Publishes : Publish(p)

Spec == Init /\ [][Next]_vars

-----------------------------------------------------------------------------
(* Properties.                                                             *)

(* A receipt that says deployed names a release that is live as a whole:   *)
(* the roles, the service with its image and the site are all that         *)
(* publish's.  An update that App Runner rolled back, or that ended after  *)
(* its publish gave up, never leaves such a receipt (wait_for_operation:   *)
(* "RUNNING alone is insufficient").                                       *)
DeployedIsWhole ==
    receipt.status = "deployed_pending_verification" =>
        LET p == receipt.by IN
        /\ service = [mode |-> mode[p], image |-> image[p]]
        /\ site = [mode |-> mode[p], by |-> p]
        /\ roles = Grants(mode[p], tighten[p])

(* Between the roles and the service, and after a publish that failed      *)
(* there, the service that runs can still read its secrets, and so can the *)
(* one an operation is about to start: the roles are deployed first and    *)
(* keep what the service before them needs.                                *)
ServiceKeepsItsSecrets ==
    /\ Needs(service.mode) \subseteq roles
    /\ op # 0 => Needs(mode[op]) \subseteq roles

(* A jwt service runs only an image of a commit at which the login proof   *)
(* passed: "The receipt must be this release's" (preflight.py:416).        *)
ImageIsProven == service.mode = "jwt" => service.image \in proven

-----------------------------------------------------------------------------
(* The inductive invariant behind them. *)

Starting == {"started", "roles", "imaged", "updating", "updated", "sited"}
Granted == {"roles", "imaged", "updating", "updated", "sited"}
Live == {"updated", "sited"}
Deployed(p) == [mode |-> mode[p], image |-> image[p]]

TypeOK ==
    /\ pc \in [Publishes -> {"idle", "inspected", "checked", "failed", "done"} \cup Starting]
    /\ mode \in [Publishes -> Modes] /\ kind \in [Publishes -> {"plan", "stage", "apply"}]
    /\ tighten \in [Publishes -> BOOLEAN] /\ image \in [Publishes -> 0..MaxCommit]
    /\ head \in 1..MaxCommit /\ proof \in 0..MaxCommit /\ proven \subseteq 1..MaxCommit
    /\ hops \in [Hops -> Modes] /\ roles \subseteq Secrets
    /\ service \in [mode : Modes, image : 0..MaxCommit]
    /\ op \in Publishes \cup {0} /\ ended \in [Publishes -> {"no", "succeeded", "rolled_back"}]
    /\ site \in [mode : Modes, by : Publishes \cup {0}]
    /\ receipt \in [by : Publishes \cup {0},
                    status : {"none", "in_progress", "deployed_pending_verification"}]

OneAtATime == \A p, q \in Publishes : Running(p) /\ Running(q) => p = q

\* An operation App Runner works on is the running publish's, or one that was given up on.
OperationIsOwned == op # 0 => \A p \in Publishes : Running(p) => p = op /\ pc[p] = "updating"

\* The receipt names the publish at work, and says deployed only of one that is done.
ReceiptFirst ==
    /\ \A p \in Publishes : pc[p] \in Starting => receipt = [by |-> p, status |-> "in_progress"]
    /\ op # 0 => receipt.status = "in_progress"
    /\ receipt.status = "deployed_pending_verification" => receipt.by \in Publishes /\ pc[receipt.by] = "done"

\* Roles, service and site are the running publish's once it is past them.
InOrder ==
    \A p \in Publishes :
        /\ pc[p] \in Granted => roles = Grants(mode[p], tighten[p])
        /\ pc[p] \in Live => service = Deployed(p)
        /\ pc[p] = "sited" => site = [mode |-> mode[p], by |-> p]

\* Roles are tightened only once the service runs in jwt mode (release.md).
TightenedLate ==
    ~TightenAny => /\ roles \in {Secrets, {"backend"}}
                   /\ roles # Secrets => service.mode = "jwt" /\ (op # 0 => mode[op] = "jwt")
                   /\ \A p \in Publishes : tighten[p] /\ Running(p) => mode[p] = "jwt" /\ service.mode = "jwt"
                   /\ \A p \in Publishes : pc[p] = "idle" => ~tighten[p]

\* A checkout that stays still publishes the commit whose proof the preflight read.
ProvenFirst ==
    Still => /\ proof # 0 => proof \in proven
             /\ service.mode = "jwt" => service.image \in proven
             /\ op # 0 /\ mode[op] = "jwt" => image[op] \in proven
             /\ \A p \in Publishes : mode[p] = "jwt" =>
                   /\ pc[p] \in {"checked", "started", "roles"} => head \in proven
                   /\ pc[p] \in {"imaged", "updating", "updated", "sited"} => image[p] \in proven

IInv == /\ TypeOK /\ OneAtATime /\ OperationIsOwned /\ ReceiptFirst /\ InOrder /\ TightenedLate
        /\ ProvenFirst /\ DeployedIsWhole
=============================================================================
