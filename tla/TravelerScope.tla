---------------------------- MODULE TravelerScope ----------------------------
(***************************************************************************)
(* The traveler-scoped transaction of backend/db/rds_data_client.py and of *)
(* the holds Lambda: grant check and audit row, the settings row level     *)
(* security reads, the step down to the app role, and, as the work in it,  *)
(* the binding of one workflow thread to a journey, which both sides do.   *)
(* Each step is one Data API call.                                         *)
(***************************************************************************)
EXTENDS Naturals, FiniteSets

CONSTANTS Sessions, Connections, Travelers,
          Nobody,     \* a session opened for no traveler
          MaxFaults,  \* bound: failed calls, cancellations, deaths
          MaxChanges  \* bound: grants given or revoked

NobodyIsNobody == Nobody \notin Travelers \union Sessions
BoundsAreNatural == MaxFaults \in Nat /\ MaxChanges \in Nat

VARIABLES grants,    \* active bindings: <<side, traveler>>
          audit,     \* committed rows of traveler_access_audit: <<session, decision>>
          journeys,  \* committed journeys, each named by the session that made it
          bound,     \* the journey the thread is bound to, or Nobody
          lock,      \* the session with the thread's advisory lock, or Nobody
          leftover,  \* per connection: the session-level traveler setting
          pc, side, who, conn,  \* per session: where it is, whose code, for whom, on what
          setting, role,        \* per session: what its transaction has set
          row, made, binds,     \* per session: its uncommitted audit row, journey, binding
          seen, told, \* per session: whose rows it was shown, what its caller was told
          faults, changes

vars == <<grants, audit, journeys, bound, lock, leftover, pc, side, who, conn, setting, role,
          row, made, binds, seen, told, faults, changes>>
database == <<audit, journeys, bound>>
caller == <<side, who, conn>>
scope == <<setting, role>>
pending == <<row, made, binds>>
bounds == <<faults, changes>>

Sides == {"backend", "lambda"}
InTransaction == {"check", "refuse", "pin", "role", "lock", "look", "create", "bind",
                  "read", "commit"}

Init == /\ grants \in {Sides \X Travelers, {}} /\ audit = {} /\ journeys = {}
        /\ bound = Nobody /\ lock = Nobody /\ leftover = [c \in Connections |-> Nobody]
        /\ pc = [s \in Sessions |-> "idle"] /\ side = [s \in Sessions |-> "backend"]
        /\ who = [s \in Sessions |-> Nobody] /\ conn = [s \in Sessions |-> Nobody]
        /\ setting = [s \in Sessions |-> Nobody] /\ role = [s \in Sessions |-> "login"]
        /\ row = [s \in Sessions |-> "none"] /\ made = [s \in Sessions |-> FALSE]
        /\ binds = [s \in Sessions |-> FALSE] /\ seen = [s \in Sessions |-> {}]
        /\ told = [s \in Sessions |-> "nothing"] /\ faults = 0 /\ changes = 0

To(s, where) == pc' = [pc EXCEPT ![s] = where]
Tell(s, what) == told' = [told EXCEPT ![s] = what]

(* begin_transaction, on any connection of the pool that is free.          *)
Begin(s, k, t, c) ==
    /\ pc[s] = "idle" /\ (t = Nobody => k = "backend")
    /\ \A x \in Sessions : conn[x] # c
    /\ side' = [side EXCEPT ![s] = k] /\ who' = [who EXCEPT ![s] = t]
    /\ conn' = [conn EXCEPT ![s] = c]
    /\ setting' = [setting EXCEPT ![s] = leftover[c]] /\ UNCHANGED role
    /\ To(s, IF t = Nobody THEN "pin" ELSE "check")
    /\ UNCHANGED <<grants, database, lock, leftover, pending, seen, told, bounds>>

(* check_traveler_authorization: the binding, then the row, both inside.   *)
Check(s) ==
    /\ pc[s] = "check"
    /\ LET allowed == <<side[s], who[s]>> \in grants IN
       /\ row' = [row EXCEPT ![s] = IF allowed THEN "allow" ELSE "deny"]
       /\ To(s, IF allowed THEN "pin" ELSE "refuse")
    /\ UNCHANGED <<grants, database, lock, leftover, caller, scope, made, binds, seen, told,
                   bounds>>

(* The transaction ends: local settings, row locks and the connection go.  *)
End(s) == /\ conn' = [conn EXCEPT ![s] = Nobody]
          /\ setting' = [setting EXCEPT ![s] = Nobody] /\ role' = [role EXCEPT ![s] = "login"]
          /\ row' = [row EXCEPT ![s] = "none"] /\ made' = [made EXCEPT ![s] = FALSE]
          /\ binds' = [binds EXCEPT ![s] = FALSE]
          /\ lock' = IF lock = s THEN Nobody ELSE lock
          /\ UNCHANGED <<side, who, leftover>>

(* What a commit makes permanent.                                          *)
Keep(s) == /\ audit' = IF row[s] = "none" THEN audit ELSE audit \union {<<s, row[s]>>}
           /\ journeys' = IF made[s] THEN journeys \union {s} ELSE journeys
           /\ bound' = IF binds[s] THEN s ELSE bound

(* The backend commits the refusal; the Lambda rolls back and writes the   *)
(* row again on its own.                                                   *)
Refuse(s) ==
    /\ pc[s] = "refuse" /\ End(s)
    /\ IF side[s] = "backend" THEN Keep(s) /\ Tell(s, "denied") /\ To(s, "ended")
       ELSE UNCHANGED <<database, told>> /\ To(s, "record")
    /\ UNCHANGED <<grants, seen, bounds>>

RecordDenied(s) ==
    /\ pc[s] = "record" /\ audit' = audit \union {<<s, "deny">>}
    /\ Tell(s, "denied") /\ To(s, "ended")
    /\ UNCHANGED <<grants, journeys, bound, lock, leftover, caller, scope, pending, seen, bounds>>

\* Mutant: the setting outlives the transaction on its connection.
PinForTheSession(s) ==
    /\ pc[s] = "pin" /\ To(s, "role")
    /\ IF who[s] = Nobody THEN UNCHANGED <<setting, leftover>>
       ELSE /\ setting' = [setting EXCEPT ![s] = who[s]]
            /\ leftover' = [leftover EXCEPT ![conn[s]] = who[s]]
    /\ UNCHANGED <<grants, database, lock, caller, role, pending, seen, told, bounds>>

(* set_config(..., true): the traveler only when there is one.             *)
Pin(s) ==
    /\ pc[s] = "pin" /\ To(s, "role")
    /\ setting' = [setting EXCEPT ![s] = IF who[s] = Nobody THEN @ ELSE who[s]]
    /\ UNCHANGED <<grants, database, lock, leftover, caller, role, pending, seen, told, bounds>>

AssumeRole(s) ==
    /\ pc[s] = "role" /\ role' = [role EXCEPT ![s] = "app"]
    /\ To(s, IF who[s] = Nobody THEN "read" ELSE "lock")
    /\ UNCHANGED <<grants, database, lock, leftover, caller, setting, pending, seen, told, bounds>>

-----------------------------------------------------------------------------
Owner(j) == who[j]
Visible(s, j) == role[s] = "login" \/ Owner(j) = setting[s]
Bound(s) == bound # Nobody /\ Visible(s, bound)

(* A session for nobody reads what its policies let through.               *)
ReadUnscoped(s) ==
    /\ pc[s] = "read" /\ To(s, "commit")
    /\ seen' = [seen EXCEPT ![s] = {Owner(j) : j \in {k \in journeys : Visible(s, k)}}]
    /\ UNCHANGED <<grants, database, lock, leftover, caller, scope, pending, told, bounds>>

(* pg_advisory_xact_lock: the same key on both sides, held to the end.     *)
TakeLock(s) ==
    /\ pc[s] = "lock" /\ lock = Nobody /\ lock' = s /\ To(s, "look")
    /\ UNCHANGED <<grants, database, leftover, caller, scope, pending, seen, told, bounds>>

Look(s) ==
    /\ pc[s] = "look"
    /\ IF Bound(s) THEN seen' = [seen EXCEPT ![s] = @ \union {Owner(bound)}] /\ To(s, "commit")
       ELSE UNCHANGED seen /\ To(s, "create")
    /\ UNCHANGED <<grants, database, lock, leftover, caller, scope, pending, told, bounds>>

Create(s) ==
    /\ pc[s] = "create" /\ made' = [made EXCEPT ![s] = TRUE] /\ To(s, "bind")
    /\ UNCHANGED <<grants, database, lock, leftover, caller, scope, row, binds, seen, told, bounds>>

Waits(s) == \E x \in Sessions \ {s} : binds[x]    \* for another's uncommitted key

Bind(s) ==
    /\ pc[s] = "bind" /\ bound = Nobody /\ ~Waits(s)
    /\ binds' = [binds EXCEPT ![s] = TRUE] /\ To(s, "commit")
    /\ UNCHANGED <<grants, database, lock, leftover, caller, scope, row, made, seen, told, bounds>>

(* The thread is bound to a journey the policies hide: rolled back.        *)
NotOwned(s) ==
    /\ pc[s] = "bind" /\ bound # Nobody /\ End(s)
    /\ Tell(s, "not_owned") /\ To(s, "ended")
    /\ UNCHANGED <<grants, database, seen, bounds>>

Commit(s) == /\ pc[s] = "commit" /\ Keep(s) /\ End(s) /\ Tell(s, "done") /\ To(s, "ended")
             /\ UNCHANGED <<grants, seen, bounds>>

-----------------------------------------------------------------------------
Fault == faults < MaxFaults /\ faults' = faults + 1 /\ UNCHANGED changes

(* A call fails or the caller is cancelled: a call in flight is waited for *)
(* and the transaction rolled back; a commit may have landed.              *)
Fail(s) ==
    /\ pc[s] \in InTransaction \union {"record"} /\ Fault
    /\ End(s) /\ Tell(s, "failed") /\ To(s, "ended")
    /\ \/ UNCHANGED database
       \/ <<pc[s], side[s]>> \in {<<"commit", "backend">>, <<"commit", "lambda">>, <<"refuse", "backend">>}
          /\ Keep(s)
    /\ UNCHANGED <<grants, seen>>

(* The process dies, or the rollback is refused: until the Data API times  *)
(* the transaction out it keeps its lock.                                  *)
Abandon(s) ==
    /\ pc[s] \in InTransaction /\ Fault /\ To(s, "abandoned") /\ Tell(s, "failed")
    /\ UNCHANGED <<grants, database, lock, leftover, caller, scope, pending, seen>>

Expire(s) == /\ pc[s] = "abandoned" /\ End(s) /\ To(s, "ended")
             /\ UNCHANGED <<grants, database, seen, told, bounds>>

(* An administrator gives or revokes a grant.                              *)
Change == /\ changes < MaxChanges /\ changes' = changes + 1
          /\ \E g \in Sides \X Travelers :
                grants' = IF g \in grants THEN grants \ {g} ELSE grants \union {g}
          /\ UNCHANGED <<database, lock, leftover, pc, caller, scope, pending, seen, told, faults>>

Begins == \E s \in Sessions, k \in Sides, t \in Travelers \union {Nobody}, c \in Connections :
              Begin(s, k, t, c)
Next == \/ Begins \/ Change
        \/ \E s \in Sessions :
              \/ Check(s) \/ Refuse(s) \/ RecordDenied(s) \/ Pin(s) \/ AssumeRole(s)
              \/ ReadUnscoped(s) \/ TakeLock(s) \/ Look(s) \/ Create(s) \/ Bind(s) \/ NotOwned(s)
              \/ Commit(s) \/ Fail(s) \/ Abandon(s) \/ Expire(s)
Spec == Init /\ [][Next]_vars
-----------------------------------------------------------------------------
TypeOK ==
    /\ grants \subseteq Sides \X Travelers /\ audit \subseteq Sessions \X {"allow", "deny"}
    /\ journeys \subseteq Sessions /\ bound \in Sessions \union {Nobody}
    /\ lock \in Sessions \union {Nobody}
    /\ leftover \in [Connections -> Travelers \union {Nobody}]
    /\ pc \in [Sessions -> InTransaction \union {"idle", "record", "abandoned", "ended"}]
    /\ side \in [Sessions -> Sides] /\ who \in [Sessions -> Travelers \union {Nobody}]
    /\ conn \in [Sessions -> Connections \union {Nobody}]
    /\ setting \in [Sessions -> Travelers \union {Nobody}]
    /\ role \in [Sessions -> {"login", "app"}] /\ row \in [Sessions -> {"none", "allow", "deny"}]
    /\ made \in [Sessions -> BOOLEAN] /\ binds \in [Sessions -> BOOLEAN]
    /\ seen \in [Sessions -> SUBSET Travelers]
    /\ told \in [Sessions -> {"nothing", "denied", "not_owned", "failed", "done"}]
    /\ faults \in 0..MaxFaults /\ changes \in 0..MaxChanges

(* No session is shown another traveler's rows, and one opened for nobody  *)
(* is shown none, whoever used its connection before.                      *)
SeesOwnOnly == \A s \in Sessions : seen[s] \subseteq {who[s]}

(* A caller that was told it is not authorized has left its deny row, on   *)
(* either side of the Gateway.                                             *)
RefusalIsKept == \A s \in Sessions : told[s] = "denied" => <<s, "deny">> \in audit

(* A journey exists only with the allow row of the session that made it.   *)
EffectsAreAudited == \A j \in journeys : <<j, "allow">> \in audit

(* Every journey that was made is the one its thread is bound to.          *)
NoOrphanJourney == \A j \in journeys : bound = j

(* "Bound to another journey" is only ever said to another traveler: the   *)
(* lock makes the loser of a race find the winner's journey.               *)
NotOwnedIsTrue == \A s \in Sessions : told[s] = "not_owned" => who[bound] # who[s]

(* A session that ended, cancelled ones too, blocks nobody.                *)
EndedHoldsNoLock == \A s \in Sessions : pc[s] = "ended" => lock # s /\ conn[s] = Nobody

(* 005_bind_identity_to_traveler.sql:60: "Allow and deny decisions         *)
(* recorded before an RLS traveler scope is accepted".                     *)
AccessIsRecorded ==
    \A s \in Sessions : pc[s] = "ended" /\ seen[s] # {} => <<s, "allow">> \in audit

-----------------------------------------------------------------------------
(* The inductive invariant behind them. *)

Outside == {"idle", "record", "ended"}
ForTraveler == {"check", "refuse", "record", "lock", "look", "create", "bind"}
AsApp == {"lock", "look", "create", "bind", "read", "commit"}
Locked == {"look", "create", "bind"}

\* SET LOCAL ends with its transaction: no connection keeps a traveler.
NothingLeft == leftover = [c \in Connections |-> Nobody]

\* A session outside a transaction has no connection, lock, scope or uncommitted row.
Empty(s) == pc[s] \in Outside =>
    /\ conn[s] = Nobody /\ lock # s /\ setting[s] = Nobody /\ role[s] = "login"
    /\ row[s] = "none" /\ ~made[s] /\ ~binds[s]

\* Nothing is shown before a session opens, and nothing is told before it is over.
Fresh(s) == /\ pc[s] = "idle" => seen[s] = {} /\ who[s] = Nobody
            /\ pc[s] \notin {"ended", "abandoned"} => told[s] = "nothing"

\* Rows are read and written as the app role, under the session's own traveler.
Scoped(s) == /\ pc[s] \in ForTraveler => who[s] # Nobody
             /\ pc[s] = "read" => who[s] = Nobody
             /\ pc[s] \in AsApp => role[s] = "app" /\ setting[s] = who[s]
             /\ pc[s] \in {"check", "refuse", "pin"} => setting[s] = Nobody
             /\ pc[s] = "role" => setting[s] = who[s]

\* The audit row a transaction is about to commit.
Rowed(s) == /\ pc[s] = "check" => row[s] = "none"
            /\ pc[s] = "refuse" => row[s] = "deny"
            /\ pc[s] \in AsApp \cup {"pin", "role"} =>
                  row[s] = IF who[s] = Nobody THEN "none" ELSE "allow"

\* What a session has made but not committed, under the thread's lock it holds.
Working(s) ==
    /\ made[s] => pc[s] \in {"bind", "commit", "abandoned"} /\ row[s] = "allow" /\ who[s] # Nobody
    /\ pc[s] = "bind" => made[s]
    /\ binds[s] => made[s] /\ pc[s] \in {"commit", "abandoned"} /\ bound = Nobody
    /\ pc[s] = "commit" /\ made[s] => binds[s]
    /\ pc[s] \in Locked \/ (pc[s] = "commit" /\ who[s] # Nobody) => lock = s
    /\ pc[s] \in {"create", "bind"} /\ bound # Nobody => who[bound] # who[s]

OneBinds == \A s, x \in Sessions : binds[s] /\ binds[x] => s = x

\* The thread is bound to the one journey there is, which its maker committed with its row.
Made == /\ bound # Nobody => bound \in journeys
        /\ \A j \in journeys : bound = j /\ pc[j] = "ended" /\ who[j] # Nobody /\ <<j, "allow">> \in audit

Said == \A s \in Sessions : told[s] = "not_owned" => bound # Nobody /\ who[bound] # who[s]

IInv == /\ TypeOK /\ NothingLeft /\ OneBinds /\ Made /\ Said /\ RefusalIsKept /\ SeesOwnOnly
        /\ \A s \in Sessions : Empty(s) /\ Fresh(s) /\ Scoped(s) /\ Rowed(s) /\ Working(s)
=============================================================================
