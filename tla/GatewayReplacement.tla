------------------------- MODULE GatewayReplacement -------------------------
(* The identity release: `release_identity.py deploy`, `gateway`, `holds-logs`
   and `snapshot`, with `render_agentcore_config.py`, as an operator runs them
   one after another. The stack holds one Gateway; a mode switch builds the
   other mode's Gateway in four stages and deletes the old one. Any command may
   die between its steps, a deploy may be rolled back, and the AgentCore CLI may
   die before it writes its state file. Source paths are below meridian/. *)
EXTENDS Naturals

CONSTANTS Goals,        \* the modes the operator releases to
          MaxGateways,  \* bound on Gateways ever created
          MaxFaults     \* bound on deaths, rolled back deploys, lost files, edits

GoalsAssumption == Goals \subseteq {"iam", "jwt"}
BoundsAssumption == MaxGateways \in Nat \ {0} /\ MaxFaults \in Nat

VARIABLES gate,      \* the stack's Gateway, live
          learned,   \* the Runtimes were given the policy engine's id
          moving,    \* an accepted UpdateGateway not yet visible
          logGroup,  \* /aws/lambda/<holds function> exists
          file,      \* what the CLI's deployed-state.json lists
          render,    \* the rendered agentcore.json: its mode and stage
          url,       \* the Gateway id in AGENTCORE_GATEWAY_URL
          saved,     \* ids of the Gateways a complete snapshot was taken of
          ready,     \* clean tree; for jwt the proof at HEAD and the identity stack
          pin,       \* the interceptor function is deployed, with its tags
          cmd,       \* the command in progress
          orphan,    \* a Gateway was deleted whose role CloudFormation could not delete
          made,      \* Gateways created so far
          faults
vars == <<gate, learned, moving, logGroup, file, render, url, saved, ready, pin, cmd,
          orphan, made, faults>>
Stack == <<gate, learned, logGroup, orphan, made>>
Desk  == <<file, render, url, saved, ready, pin>>

Modes  == {"iam", "jwt"}
Other(m) == IF m = "iam" THEN "jwt" ELSE "iam"
Stages == {"gateway", "targets", "governance", "complete"}
Gates  == [id: 1..MaxGateways, mode: Modes, holds: BOOLEAN, engine: BOOLEAN,
           interceptor: BOOLEAN, granted: BOOLEAN]
Idle   == [at |-> "idle"]
Files  == [mode: Modes \cup {"none"}, holds: BOOLEAN, engine: BOOLEAN]
NoFile == [mode |-> "none", holds |-> FALSE, engine |-> FALSE]
Listed(g) == [mode |-> g.mode, holds |-> g.holds, engine |-> g.engine]

\* The finished iam release; an earlier trial may have left a grant on its role.
Init == /\ \E left \in BOOLEAN :
             gate = [id |-> 1, mode |-> "iam", holds |-> TRUE, engine |-> TRUE,
                     interceptor |-> FALSE, granted |-> left]
        /\ learned = TRUE /\ moving = "none" /\ logGroup = TRUE
        /\ file = Listed(gate) /\ render = [mode |-> "iam", stage |-> "complete"]
        /\ url = 1 /\ saved = {} /\ ready = FALSE /\ pin = FALSE
        /\ cmd = Idle /\ orphan = FALSE /\ made = 1 /\ faults = 0

HoldsFunction == gate.holds
Live(m) == gate.mode = m
Begins  == cmd = Idle /\ moving = "none"
Fault   == faults < MaxFaults /\ faults' = faults + 1

-----------------------------------------------------------------------------
(* The stages: read from the file, from the live Gateway and from the render. *)

StageFor(exists, holds, engine) ==
  CASE ~exists           -> "gateway"
    [] exists /\ ~holds  -> "targets"
    [] holds /\ exists /\ ~engine -> "governance"
    [] OTHER             -> "complete"

FileStage(m) == StageFor(file.mode = m, file.holds, file.engine)
LiveStage    == StageFor(TRUE, gate.holds, gate.engine)
Rendered(st) == [holds |-> st # "gateway", engine |-> st \in {"governance", "complete"},
                 id |-> st = "complete"]

Render(m) == /\ Begins
             /\ render' = [mode |-> m, stage |-> FileStage(m)]
             /\ UNCHANGED <<Stack, moving, file, url, saved, ready, pin, cmd, faults>>

-----------------------------------------------------------------------------
(* release_identity.py deploy: the checks, the plan, the CLI. *)

\* Mutant: the CLI's state file is the only opinion.
StageAgreesWithFile(m) == render.mode = m /\ render.stage = FileStage(m)
StageAgrees(m) ==
  LET st == render.stage
  IN /\ render.mode = m
     /\ st = FileStage(m)
     /\ (st = "gateway") <=> ~Live(m)
     /\ Live(m) => st \in {"gateway", LiveStage}

Residue == gate.granted \/ gate.interceptor

SnapshotUsable == gate.id \in saved

FirstStageReady(m) == /\ ready
                      /\ m = "jwt" => pin
                      /\ ~Residue
                      /\ SnapshotUsable

LogsGate == ~logGroup

Deploy(m) ==
  /\ Begins
  /\ StageAgrees(m)
  /\ render.stage = "gateway" => FirstStageReady(m)
  /\ render.stage = "targets" => LogsGate
  /\ cmd' = [at |-> "plan", mode |-> m, stage |-> render.stage]
  /\ UNCHANGED <<Stack, moving, Desk, faults>>

\* What CloudFormation would add and remove, against the stack itself.
Adds(r)    == {x \in {"holds", "engine"} : Rendered(render.stage)[x] /\ ~r[x]}
Removes(r) == {x \in {"holds", "engine"} : r[x] /\ ~Rendered(render.stage)[x]}
PlanSafe ==
  CASE cmd.stage = "gateway"    -> ~Live(cmd.mode)
    [] cmd.stage = "targets"    -> Live(cmd.mode) /\ Adds(gate) = {"holds"} /\ Removes(gate) = {}
    [] cmd.stage = "governance" -> Live(cmd.mode) /\ Adds(gate) = {"engine"} /\ Removes(gate) = {}
    [] OTHER                    -> Live(cmd.mode) /\ Adds(gate) = {} /\ Removes(gate) = {}
Plan == /\ cmd.at = "plan"
        /\ cmd' = IF PlanSafe THEN [cmd EXCEPT !.at = "run"] ELSE Idle
        /\ UNCHANGED <<Stack, moving, Desk, faults>>

\* The stack as rendered. A new Gateway takes a new id; the deleted function's
\* log group is kept; an updated Gateway may lose the interceptor it was given
\* outside the template.
Built ==
  LET r == Rendered(cmd.stage)
  IN IF cmd.stage = "gateway"
     THEN /\ made < MaxGateways
          /\ made' = made + 1
          /\ gate' = [id |-> made + 1, mode |-> cmd.mode, holds |-> FALSE, engine |-> FALSE,
                      interceptor |-> FALSE, granted |-> FALSE]
          /\ orphan' = (orphan \/ gate.granted)
          /\ learned' = FALSE
          /\ UNCHANGED logGroup
     ELSE /\ \E kept \in BOOLEAN :
               gate' = [gate EXCEPT !.holds = r.holds, !.engine = r.engine,
                                    !.interceptor = @ /\ kept]
          /\ learned' = r.id
          /\ logGroup' = (logGroup \/ r.holds)
          /\ UNCHANGED <<orphan, made>>
Collides == cmd.stage = "targets" /\ logGroup

DeployDone == /\ cmd.at = "run" /\ ~Collides
              /\ Built
              /\ file' = Listed(gate')
              /\ cmd' = Idle
              /\ UNCHANGED <<moving, render, url, saved, ready, pin, faults>>
\* The CLI dies after the stack was built and before it writes its file.
DeployUnrecorded == /\ cmd.at = "run" /\ ~Collides
                    /\ Built
                    /\ cmd' = Idle
                    /\ Fault
                    /\ UNCHANGED <<moving, Desk>>
\* Stage 2 rolled back may leave the log group it had created.
DeployRolledBack == /\ cmd.at = "run"
                    /\ \E kept \in BOOLEAN :
                         logGroup' = (logGroup \/ (kept /\ cmd.stage = "targets"))
                    /\ cmd' = Idle
                    /\ Fault
                    /\ UNCHANGED <<gate, learned, orphan, made, moving, Desk>>

-----------------------------------------------------------------------------
(* release_identity.py gateway: the invoke grant and the interceptor. *)

Actions == {"full", "grant", "attach", "revoke"}
Gateway(m, act) ==
  /\ Begins
  /\ Live(m)
  /\ act # "revoke" => m = "jwt" /\ gate.engine /\ pin
  /\ cmd' = [at |-> "located", act |-> act, before |-> gate]
  /\ UNCHANGED <<Stack, moving, Desk, faults>>

Unchanged == gate = cmd.before
At(pc) == cmd' = [cmd EXCEPT !.at = pc]
Grant ==
  /\ cmd.at = "located" /\ cmd.act # "revoke"
  /\ gate' = IF Unchanged /\ cmd.act # "attach" THEN [gate EXCEPT !.granted = TRUE] ELSE gate
  /\ IF Unchanged /\ cmd.act # "grant" THEN At("attach") ELSE cmd' = Idle
  /\ UNCHANGED <<learned, logGroup, orphan, made, moving, Desk, faults>>

Attach ==
  /\ cmd.at = "attach"
  /\ IF ~gate.granted \/ cmd.before.interceptor THEN cmd' = Idle /\ UNCHANGED moving
     ELSE At("reading") /\ moving' = "attach"
  /\ UNCHANGED <<Stack, Desk, faults>>
Detach ==
  /\ cmd.at = "located" /\ cmd.act = "revoke"
  /\ CASE ~Unchanged -> cmd' = Idle /\ UNCHANGED moving
       [] Unchanged /\ ~cmd.before.interceptor -> At("revoking") /\ UNCHANGED moving
       [] OTHER                   -> At("reading") /\ moving' = "detach"
  /\ UNCHANGED <<Stack, Desk, faults>>
\* AWS makes an accepted update visible; READY may be reported before UPDATING.
Land == /\ moving # "none"
        /\ gate' = [gate EXCEPT !.interceptor = (moving = "attach")]
        /\ moving' = "none"
        /\ UNCHANGED <<learned, logGroup, orphan, made, Desk, cmd, faults>>
Matches == gate.interceptor = (cmd.act # "revoke")
ReadBack ==
  /\ cmd.at = "reading"
  /\ Matches
  /\ IF cmd.act = "revoke" THEN At("revoking") ELSE cmd' = Idle
  /\ UNCHANGED <<Stack, moving, Desk, faults>>
\* The attempts run out, or the Gateway ends in a failed state: reported, not revoked.
ReadBackGivesUp ==
  /\ cmd.at = "reading" /\ ~Matches
  /\ cmd' = Idle
  /\ Fault
  /\ UNCHANGED <<Stack, moving, Desk>>
Revoke == /\ cmd.at = "revoking"
          /\ gate' = [gate EXCEPT !.granted = FALSE]
          /\ cmd' = Idle
          /\ UNCHANGED <<learned, logGroup, orphan, made, moving, Desk, faults>>
Die == /\ cmd # Idle /\ cmd.at # "run"
       /\ cmd' = Idle
       /\ Fault
       /\ UNCHANGED <<Stack, moving, Desk>>

-----------------------------------------------------------------------------
(* The other commands, and what may happen on the operator's desk. *)

HoldsLogs == /\ Begins /\ ~HoldsFunction /\ logGroup
             /\ logGroup' = FALSE
             /\ UNCHANGED <<gate, learned, orphan, made, moving, Desk, cmd, faults>>
\* Reads the Gateway the URL names; its name must be its mode's, and it needs its
\* holds target. A hop with findings is saved only on purpose.
Snapshot == /\ Begins
            /\ url = gate.id /\ gate.holds
            /\ saved' = saved \cup {url}
            /\ UNCHANGED <<Stack, moving, file, render, url, ready, pin, cmd, faults>>
SyncUrl == /\ Begins
           /\ url' = gate.id
           /\ UNCHANGED <<Stack, moving, file, render, saved, ready, pin, cmd, faults>>
Interceptor == /\ Begins
               /\ pin' = TRUE
               /\ UNCHANGED <<Stack, moving, file, render, url, saved, ready, cmd, faults>>
InterceptorDelete == /\ Begins /\ Fault
                     /\ pin' = FALSE
                     /\ UNCHANGED <<Stack, moving, file, render, url, saved, ready, cmd>>
Prepare == /\ Begins
           /\ ready' = TRUE
           /\ UNCHANGED <<Stack, moving, file, render, url, saved, pin, cmd, faults>>
Edit == /\ Fault
        /\ ready' = FALSE
        /\ UNCHANGED <<Stack, moving, file, render, url, saved, pin, cmd>>
LoseFile == /\ Begins /\ Fault
            /\ file' = NoFile
            /\ UNCHANGED <<Stack, moving, render, url, saved, ready, pin, cmd>>
\* agentcore status, then the file restored, as the refusal says.
RepairFile == /\ Begins
              /\ file' = Listed(gate)
              /\ UNCHANGED <<Stack, moving, render, url, saved, ready, pin, cmd, faults>>
\* Somebody resets the interceptor in the console, whatever runs here.
Reset == /\ Fault /\ moving = "none"
         /\ gate' = [gate EXCEPT !.interceptor = FALSE]
         /\ UNCHANGED <<learned, logGroup, orphan, made, moving, Desk, cmd>>

Running == \/ Plan \/ DeployDone
           \/ Grant \/ Attach \/ Detach \/ ReadBack \/ Revoke \/ Land
Faulty  == \/ DeployUnrecorded \/ DeployRolledBack \/ ReadBackGivesUp \/ Die
           \/ InterceptorDelete \/ Edit \/ LoseFile \/ Reset
Next == \/ Running \/ Faulty
        \/ \E m \in Goals : Render(m) \/ Deploy(m)
        \/ \E m \in Modes, act \in Actions : Gateway(m, act)
        \/ HoldsLogs \/ Snapshot \/ SyncUrl \/ Interceptor \/ Prepare \/ RepairFile
Spec == Init /\ [][Next]_vars

-----------------------------------------------------------------------------
TypeOK ==
  /\ gate \in Gates /\ learned \in BOOLEAN /\ logGroup \in BOOLEAN /\ orphan \in BOOLEAN
  /\ moving \in {"none", "attach", "detach"}
  /\ file \in Files /\ render \in [mode: Modes, stage: Stages]
  /\ url \in 1..MaxGateways /\ saved \subseteq 1..MaxGateways
  /\ ready \in BOOLEAN /\ pin \in BOOLEAN
  /\ made \in 1..MaxGateways /\ faults \in 0..MaxFaults
  /\ \/ cmd = Idle
     \/ cmd \in [at: {"plan", "run"}, mode: Modes, stage: Stages]
     \/ cmd \in [at: {"located", "attach", "reading", "revoking"}, act: Actions, before: Gates]

\* A Gateway that shows the interceptor may invoke it, and so does one on which
\* an attach is still landing, whatever command died between the grant, the
\* update and the read-back: otherwise every tool call through it would fail.
AttachedIsGranted == gate.interceptor \/ moving = "attach" => gate.granted

\* No Gateway is ever deleted while its role holds the policy written outside
\* the stack, which CloudFormation cannot delete with the role.
NothingLeftBehind == ~orphan

\* A Gateway goes only when a snapshot of that very Gateway exists, though a
\* rollback builds a third one under the first one's name.
Replaces == gate'.id # gate.id => gate.id \in saved
ReplacedIsSaved == [][Replaces]_vars

\* The log group is deleted only when its function is gone, and stage 2 never
\* meets a group CloudFormation would refuse to create.
DropsLogs == /\ logGroup /\ ~logGroup' => ~HoldsFunction
             /\ (cmd'.at = "run" /\ cmd'.stage = "targets") => ~logGroup'
LogsAreTheOldOnes == [][DropsLogs]_vars

\* Once the render, the CLI's file and the live Gateway agree on a stage, the
\* plan is that stage's: whatever file was lost or left behind and whatever stale
\* render is lying about, no deploy gets as far as planning to delete the holds
\* target or the policy engine of the Gateway it works on.
AgreedPlanIsSafe == cmd.at = "plan" => PlanSafe

\* An operator who does what the output prints, after any death, lost file or
\* rolled back deploy, gets the jwt release finished.
Finished(m) == /\ gate.mode = m /\ gate.engine /\ learned
               /\ m = "jwt" => gate.interceptor /\ gate.granted
Follows(m) == /\ ~Finished(m)
              /\ \/ Running
                 \/ Render(m)
                 \/ ~(Live(m) /\ learned) /\ Deploy(m)
                 \/ Gateway(Other(m), "revoke") /\ gate.granted
                 \/ m = "jwt" /\ learned /\ Gateway(m, "full")
                 \/ HoldsLogs \/ Snapshot \/ SyncUrl \/ Interceptor \/ Prepare \/ RepairFile
Onward == Follows("jwt") \/ Faulty

\* The way back from a release that stopped after its first stage, with the iam
\* snapshot taken before it: "if it refuses for lack of one, take one as it says".
HalfReleased ==
  /\ gate = [id |-> 2, mode |-> "jwt", holds |-> FALSE, engine |-> FALSE,
             interceptor |-> FALSE, granted |-> FALSE]
  /\ learned = FALSE /\ moving = "none" /\ logGroup \in BOOLEAN
  /\ file = Listed(gate) /\ render = [mode |-> "jwt", stage |-> "gateway"]
  /\ url = 2 /\ saved = {1} /\ ready = TRUE /\ pin = TRUE
  /\ cmd = Idle /\ orphan = FALSE /\ made = 2 /\ faults = 0
BackSpec == HalfReleased /\ [][Follows("iam")]_vars /\ WF_vars(Follows("iam"))
RollbackFinishes == <>Finished("iam")

-----------------------------------------------------------------------------
(* The inductive invariant: what the checks of a command established still     *)
(* holds when it acts, though it looks only once.                              *)

\* The policy engine is the last stage, and no stage takes the holds target back.
EngineComesLast == gate.engine => gate.holds

\* A deploy under way was checked: its stage is the render's, the Gateway it will
\* delete is saved and without a grant, and stage 2 has no log group to meet.
CheckedStillHolds ==
  cmd.at \in {"plan", "run"} =>
    /\ moving = "none"
    /\ cmd.stage = render.stage
    /\ cmd.stage = "gateway" => ~gate.granted /\ gate.id \in saved
    /\ cmd.stage = "targets" => ~logGroup

\* A grant is taken back only with the interceptor gone and none on its way.
RevokesLast ==
  /\ cmd.at \in {"located", "attach"} => moving = "none"
  /\ cmd.at = "attach" => cmd.act # "revoke"
  /\ (cmd.at = "reading" /\ cmd.act = "revoke") => moving # "attach"
  /\ cmd.at = "revoking" => moving # "attach" /\ ~gate.interceptor

IInv == /\ TypeOK /\ AttachedIsGranted /\ NothingLeftBehind /\ AgreedPlanIsSafe
        /\ EngineComesLast /\ CheckedStillHolds /\ RevokesLast
=============================================================================
