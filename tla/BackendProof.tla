---------------------------- MODULE BackendProof ----------------------------
(***************************************************************************)
(* The proof that a release waits for: runs of the tool that starts the    *)
(* backend as its own login, drives it through the checks and a recovery,  *)
(* purges what the recovery wrote, and records the outcome in a receipt.   *)
(* Runs are interrupted, killed, and break off in the middle of a purge.   *)
(***************************************************************************)
EXTENDS Naturals, FiniteSets

CONSTANTS Runs, NoRun,
          Together,      \* whether a run may start before another is over
          MaxFaults      \* bound: interrupts, kills and broken calls

VARIABLES pc, exit,      \* where each run is, and how it ended
          receipt,       \* the one receipt: [ok, by]
          backend,       \* each run's backend process
          answerer,      \* whose backend each run found healthy
          failed, tried, \* a check failed; the recovery was attempted
          whole,         \* the recovery passed, its own purge included
          rows,          \* what is in Aurora of each run's proof thread
          purge,         \* the purge each run has under way: [thread, step, known], or none
          superseded,    \* whose receipt each run found and invalidated
          faults
tool == <<pc, exit, failed, tried, whole, superseded>>
vars == <<tool, receipt, backend, answerer, rows, purge, faults>>

ThreadRows == {"journey", "hold", "booking"}  \* its thread, snapshots and executions; the link; the booking
NoPurge == [thread |-> NoRun, step |-> "none", known |-> FALSE]

Init == /\ pc = [r \in Runs |-> "idle"] /\ exit = [r \in Runs |-> "none"]
        /\ receipt = [ok |-> TRUE, by |-> NoRun]
        /\ backend = [r \in Runs |-> "none"] /\ answerer = [r \in Runs |-> NoRun]
        /\ failed = [r \in Runs |-> FALSE] /\ tried = [r \in Runs |-> FALSE]
        /\ whole = [r \in Runs |-> FALSE] /\ rows = [r \in Runs |-> {}]
        /\ purge = [r \in Runs |-> NoPurge] /\ superseded = [r \in Runs |-> {}] /\ faults = 0

Bound(q) == backend[q] = "serving"
At(r, here, there) == pc[r] = here /\ pc' = [pc EXCEPT ![r] = there]
Fault == faults < MaxFaults /\ faults' = faults + 1

-----------------------------------------------------------------------------
(* Refused without a trace when the port is bound.                         *)
Guard(r) ==
    /\ pc[r] = "idle" /\ (Together \/ \A q \in Runs \ {r} : pc[q] \in {"idle", "done"})
    /\ IF \E q \in Runs : Bound(q)
       THEN pc' = [pc EXCEPT ![r] = "done"] /\ exit' = [exit EXCEPT ![r] = "refused"]
       ELSE pc' = [pc EXCEPT ![r] = "guarded"] /\ UNCHANGED exit
    /\ UNCHANGED <<receipt, backend, answerer, failed, tried, whole, rows, purge, superseded, faults>>

(* An invalid receipt first, so that no older one outlives this run.       *)
Invalidate(r) ==
    /\ At(r, "guarded", "recorded") /\ receipt' = [ok |-> FALSE, by |-> r]
    /\ superseded' = [superseded EXCEPT ![r] = {receipt.by}]
    /\ UNCHANGED <<exit, backend, answerer, failed, tried, whole, rows, purge, faults>>

StartBackend(r) ==
    /\ At(r, "recorded", "starting") /\ backend' = [backend EXCEPT ![r] = "booting"]
    /\ UNCHANGED <<exit, receipt, answerer, failed, tried, whole, rows, purge, superseded, faults>>

(* The backend's process binds the port, or exits because it cannot.       *)
BindPort(r) ==
    /\ backend[r] = "booting"
    /\ backend' = [backend EXCEPT ![r] = IF \E q \in Runs : Bound(q) THEN "down" ELSE "serving"]
    /\ UNCHANGED <<tool, receipt, answerer, rows, purge, faults>>

(* Healthy is any answer on the port while the own process is alive.       *)
Healthy(r) ==
    /\ backend[r] \in {"booting", "serving"} /\ At(r, "starting", "checking")
    /\ \E q \in Runs : Bound(q) /\ answerer' = [answerer EXCEPT ![r] = q]
    /\ UNCHANGED <<exit, receipt, backend, failed, tried, whole, rows, purge, superseded, faults>>
NeverHealthy(r) ==
    /\ backend[r] \in {"booting", "down"} /\ At(r, "starting", "stopping")
    /\ failed' = [failed EXCEPT ![r] = TRUE]
    /\ UNCHANGED <<exit, receipt, backend, answerer, tried, whole, rows, purge, superseded, faults>>

(* The checks before the recovery, in order, up to the first that fails.   *)
Checks(r) ==
    /\ pc[r] = "checking"
    /\ \/ /\ Bound(answerer[r]) /\ pc' = [pc EXCEPT ![r] = "recovery"]
          /\ tried' = [tried EXCEPT ![r] = TRUE] /\ UNCHANGED failed
       \/ /\ failed' = [failed EXCEPT ![r] = TRUE] /\ pc' = [pc EXCEPT ![r] = "stopping"]
          /\ UNCHANGED tried
    /\ UNCHANGED <<exit, receipt, backend, answerer, whole, rows, purge, superseded, faults>>

(* The recovery: a paused run, its session stopped, a resume that holds.   *)
Pause(r) ==
    /\ At(r, "recovery", "paused") /\ rows' = [rows EXCEPT ![r] = {"journey"}]
    /\ UNCHANGED <<exit, receipt, backend, answerer, failed, tried, whole, purge, superseded, faults>>
Resume(r) ==
    /\ At(r, "paused", "cleaning") /\ "journey" \in rows[r] /\ Bound(answerer[r])
    /\ rows' = [rows EXCEPT ![r] = ThreadRows]
    /\ whole' = [whole EXCEPT ![r] = TRUE]
    /\ UNCHANGED <<exit, receipt, backend, answerer, failed, tried, purge, superseded, faults>>
(* A step of it fails, before or after the hold was placed.                *)
RecoveryFails(r) ==
    /\ pc[r] \in {"recovery", "paused"} /\ pc' = [pc EXCEPT ![r] = "cleaning"]
    /\ failed' = [failed EXCEPT ![r] = TRUE]
    /\ \/ UNCHANGED rows
       \/ "journey" \in rows[r] /\ rows' = [rows EXCEPT ![r] = ThreadRows]
    /\ UNCHANGED <<exit, receipt, backend, answerer, tried, whole, purge, superseded, faults>>

-----------------------------------------------------------------------------
(* A purge of one thread: its bookings are known through their hold        *)
(* requests, which go first, then the bookings, then the rest.             *)
StartPurge(r, t) ==
    /\ purge[r] = NoPurge
    /\ purge' = [purge EXCEPT ![r] = [thread |-> t, step |-> "bookings", known |-> "hold" \in rows[t]]]
    /\ rows' = [rows EXCEPT ![t] = @ \ {"hold"}]

PurgeBookings(r) ==
    /\ purge[r].step = "bookings" /\ purge' = [purge EXCEPT ![r].step = "journey"]
    /\ rows' = IF purge[r].known THEN [rows EXCEPT ![purge[r].thread] = @ \ {"booking"}] ELSE rows
    /\ UNCHANGED <<tool, receipt, backend, answerer, faults>>
PurgeJourney(r) ==
    /\ purge[r].step = "journey" /\ purge' = [purge EXCEPT ![r].step = "counted"]
    /\ rows' = [rows EXCEPT ![purge[r].thread] = @ \ {"journey", "hold"}]
    /\ UNCHANGED <<tool, receipt, backend, answerer, faults>>

(* The recovery removes its own rows, whatever happened to it.             *)
CleanUp(r) ==
    /\ pc[r] = "cleaning" /\ purge[r] = NoPurge /\ StartPurge(r, r)
    /\ UNCHANGED <<tool, receipt, backend, answerer, faults>>
CleanedUp(r) ==
    /\ purge[r].step = "counted" /\ At(r, "cleaning", "stopping") /\ purge' = [purge EXCEPT ![r] = NoPurge]
    /\ UNCHANGED <<exit, failed, tried, whole, superseded, receipt, backend, answerer, rows, faults>>
(* A call of it fails, or it is ended at its deadline.                     *)
CleanUpBreaks(r) ==
    /\ Fault /\ At(r, "cleaning", "stopping") /\ purge' = [purge EXCEPT ![r] = NoPurge]
    /\ failed' = [failed EXCEPT ![r] = TRUE] /\ whole' = [whole EXCEPT ![r] = FALSE]
    /\ UNCHANGED <<exit, tried, superseded, receipt, backend, answerer, rows>>

Stop(r) ==
    /\ At(r, "stopping", IF tried[r] THEN "sweeping" ELSE "closing")
    /\ backend' = [backend EXCEPT ![r] = IF @ = "none" THEN @ ELSE "down"]
    /\ UNCHANGED <<exit, failed, tried, whole, superseded, receipt, answerer, rows, purge, faults>>

Findable(r) == {t \in Runs : "journey" \in rows[t]}
(* Every proof thread still there is purged, and fails the receipt.        *)
SweepOne(r) ==
    /\ pc[r] = "sweeping" /\ \E t \in Findable(r) : StartPurge(r, t)
    /\ failed' = [failed EXCEPT ![r] = TRUE]
    /\ UNCHANGED <<pc, exit, tried, whole, superseded, receipt, backend, answerer, faults>>
SweptOne(r) ==
    /\ pc[r] = "sweeping" /\ purge[r].step = "counted" /\ purge' = [purge EXCEPT ![r] = NoPurge]
    /\ UNCHANGED <<tool, receipt, backend, answerer, rows, faults>>
SweepBreaks(r) ==
    /\ Fault /\ At(r, "sweeping", "closing") /\ purge' = [purge EXCEPT ![r] = NoPurge]
    /\ failed' = [failed EXCEPT ![r] = TRUE]
    /\ UNCHANGED <<exit, tried, whole, superseded, receipt, backend, answerer, rows>>
Swept(r) ==
    /\ purge[r] = NoPurge /\ Findable(r) = {} /\ At(r, "sweeping", "closing")
    /\ UNCHANGED <<exit, failed, tried, whole, superseded, receipt, backend, answerer, rows, purge, faults>>

Passed(r) == ~failed[r] /\ tried[r]
Close(r) ==
    /\ At(r, "closing", "written") /\ receipt' = [ok |-> Passed(r), by |-> r]
    /\ UNCHANGED <<exit, failed, tried, whole, superseded, backend, answerer, rows, purge, faults>>
Return(r) ==
    /\ At(r, "written", "done") /\ exit' = [exit EXCEPT ![r] = IF Passed(r) THEN "pass" ELSE "fail"]
    /\ UNCHANGED <<failed, tried, whole, superseded, receipt, backend, answerer, rows, purge, faults>>

-----------------------------------------------------------------------------
Guarded == {"idle", "guarded"}
Working == {"recorded", "starting", "checking", "recovery", "paused"}
Leaves(r) == pc' = [pc EXCEPT ![r] = "done"] /\ exit' = [exit EXCEPT ![r] = "interrupted"]

(* SIGINT or SIGTERM, wherever the run is.                                 *)
InterruptOutside(r) ==
    /\ Fault /\ pc[r] \in {"guarded", "written"} /\ Leaves(r)
    /\ UNCHANGED <<failed, tried, whole, superseded, receipt, backend, answerer, rows, purge>>
InterruptInside(r) ==
    /\ Fault /\ pc[r] \in Working /\ failed' = [failed EXCEPT ![r] = TRUE]
    /\ pc' = [pc EXCEPT ![r] = IF pc[r] = "paused" THEN "cleaning" ELSE "stopping"]
    /\ UNCHANGED <<exit, tried, whole, superseded, receipt, backend, answerer, rows, purge>>
(* While the backend is being stopped nothing is left to catch it.         *)
InterruptStopping(r) ==
    /\ Fault /\ pc[r] \in {"stopping", "closing"} /\ Leaves(r)
    /\ backend' = [backend EXCEPT ![r] = IF @ = "none" THEN @ ELSE "down"]
    /\ UNCHANGED <<failed, tried, whole, superseded, receipt, answerer, rows, purge>>
Kill(r) ==
    /\ Fault /\ pc[r] \notin {"idle", "done"}
    /\ pc' = [pc EXCEPT ![r] = "done"] /\ exit' = [exit EXCEPT ![r] = "killed"]
    /\ purge' = [purge EXCEPT ![r] = NoPurge]
    /\ \E b \in {backend[r], "down"} : backend' = [backend EXCEPT ![r] = b]
    /\ UNCHANGED <<failed, tried, whole, superseded, receipt, answerer, rows>>

Interrupts(r) == InterruptOutside(r) \/ InterruptInside(r) \/ InterruptStopping(r) \/ Kill(r)
Next == \E r \in Runs :
    \/ Guard(r) \/ Invalidate(r) \/ StartBackend(r) \/ BindPort(r) \/ Healthy(r) \/ NeverHealthy(r)
    \/ Checks(r) \/ Pause(r) \/ Resume(r) \/ RecoveryFails(r) \/ CleanUp(r) \/ PurgeBookings(r)
    \/ PurgeJourney(r) \/ CleanedUp(r) \/ CleanUpBreaks(r) \/ Stop(r) \/ SweepOne(r) \/ SweptOne(r)
    \/ SweepBreaks(r) \/ Swept(r) \/ Close(r) \/ Return(r) \/ Interrupts(r)
Spec == Init /\ [][Next]_vars
-----------------------------------------------------------------------------
Pass(r) == receipt.ok /\ receipt.by = r

(* A receipt that passed is that of a whole run: every check passed, the   *)
(* recovery removed all it had written, and no proof thread was left.      *)
PassIsWhole == \A r \in Runs : Pass(r) =>
    /\ whole[r] /\ ~failed[r] /\ rows[r] = {}
    /\ \A t \in Runs : "journey" \notin rows[t]

(* A run that began leaves no older receipt that passed.                   *)
OldPassIsGone == \A r \in Runs : receipt.ok => receipt.by \notin superseded[r]

(* However a run ends, short of being killed, its open backend ends too.   *)
NoOpenBackendLeft == \A r \in Runs :
    pc[r] = "done" /\ exit[r] # "killed" => backend[r] \in {"none", "down"}

(* prove_backend_login.py:14: "its rows are counted at zero in every table *)
(* after the purge, and a sweep of every phase5-proof- thread follows ...  *)
(* A leftover fails the receipt."                                          *)
LeftoverFails == \A r, t \in Runs : Pass(r) => rows[t] = {}

(* prove_backend_login.py:591: "Interrupted; the backend was stopped and   *)
(* the receipt records a failed run."                                      *)
InterruptedIsRecorded == \A r \in Runs :
    exit[r] = "interrupted" /\ (\A q \in Runs \ {r} : pc[q] = "idle") => ~receipt.ok

(* prove_backend_login.py:554: "port 8014 is already bound, so a backend   *)
(* there may not be the one this run starts": a run proves its own.        *)
ProvesItsOwn == \A r \in Runs : answerer[r] \in {NoRun, r}

-----------------------------------------------------------------------------
(* The inductive invariant, of runs that follow one another.               *)
RunsFollow == NoRun \notin Runs /\ ~Together /\ MaxFaults \in Nat

Stages == {"idle", "guarded", "recorded", "starting", "checking", "recovery", "paused",
           "cleaning", "stopping", "sweeping", "closing", "written", "done"}
Proving == Stages \ {"idle", "guarded", "written", "done"}
Active(r) == pc[r] \notin {"idle", "done"}

Known ==
    /\ pc \in [Runs -> Stages]
    /\ exit \in [Runs -> {"none", "refused", "pass", "fail", "interrupted", "killed"}]
    /\ receipt \in [ok : BOOLEAN, by : Runs \union {NoRun}]
    /\ backend \in [Runs -> {"none", "booting", "serving", "down"}]
    /\ failed \in [Runs -> BOOLEAN] /\ tried \in [Runs -> BOOLEAN] /\ whole \in [Runs -> BOOLEAN]
    /\ rows \in [Runs -> SUBSET ThreadRows]
    /\ purge \in [Runs -> [thread : Runs \union {NoRun}, known : BOOLEAN,
                           step : {"none", "bookings", "journey", "counted"}]]
    /\ superseded \in [Runs -> SUBSET (Runs \union {NoRun})]

OneAtATime == \A q, r \in Runs : q # r /\ Active(q) => ~Active(r)

(* A purge belongs to the stage it was started in.                         *)
PurgeFits(r) ==
    /\ purge[r].step = "none" => purge[r] = NoPurge
    /\ purge[r].step # "none" =>
          \/ pc[r] = "cleaning" /\ purge[r].thread = r
          \/ pc[r] = "sweeping" /\ failed[r]

(* The receipt is that of the run that proves, or proved last.             *)
ReceiptFits(r) ==
    /\ pc[r] \in {"idle", "guarded"} => receipt.by # r
    /\ pc[r] \in Proving => receipt = [ok |-> FALSE, by |-> r]
    /\ pc[r] = "written" => receipt = [ok |-> Passed(r), by |-> r]
OlderAreOver == \A r \in Runs : \A q \in superseded[r] :
    q # receipt.by /\ (q \in Runs => pc[q] = "done")

BackendFits(r) ==
    /\ pc[r] \in {"idle", "guarded", "recorded"} => backend[r] = "none"
    /\ pc[r] \in {"sweeping", "closing", "written"} => backend[r] \in {"none", "down"}
    /\ pc[r] = "done" /\ exit[r] # "killed" => backend[r] \in {"none", "down"}

(* What a run that has not failed has left of its rows.                    *)
Removing(r) ==
    \/ purge[r].step = "none" /\ "hold" \in rows[r]
    \/ purge[r].step = "bookings" /\ purge[r].known /\ "hold" \notin rows[r]
    \/ purge[r].step = "journey" /\ rows[r] \subseteq {"journey"}
    \/ purge[r].step = "counted" /\ rows[r] = {}
RowsFit(r) ==
    ~failed[r] =>
        /\ whole[r] /\ pc[r] = "cleaning" => Removing(r)
        /\ whole[r] /\ pc[r] \in {"stopping", "sweeping", "closing"} => rows[r] = {}
        /\ tried[r] /\ pc[r] \in {"cleaning", "stopping", "sweeping", "closing"} => whole[r]
        /\ tried[r] /\ pc[r] = "closing" => Findable(r) = {}

IInv == /\ Known /\ OneAtATime /\ OlderAreOver /\ PassIsWhole
        /\ \A r \in Runs : PurgeFits(r) /\ ReceiptFits(r) /\ BackendFits(r) /\ RowsFit(r)
=============================================================================
