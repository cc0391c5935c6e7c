---------------------------- MODULE HoldInventory ----------------------------
(***************************************************************************)
(* The places of one package and duration, and the holds Lambda's three    *)
(* writes on them: create_courtesy_hold, confirm_booking and release_hold. *)
(*                                                                         *)
(* Each call is one transaction of many statements over the Data API.      *)
(* CURRENT_TIMESTAMP is the time the transaction began; a statement sees   *)
(* what was committed when it ran.  Two advisory locks order the holds:    *)
(* the journey's, taken first and kept to the end, and the package's.  A   *)
(* confirmation and a release lock the booking's row only.                 *)
(*                                                                         *)
(* A caller that got no answer calls again: a retry is another call with   *)
(* the same arguments.  What a call answers is not modelled, so a commit   *)
(* whose answer is lost is a commit, and any other failure a rollback.     *)
(***************************************************************************)
EXTENDS Naturals, Sequences, FiniteSets

CONSTANTS
    Creates,        \* calls of create_courtesy_hold; one that inserts names its booking
    Confirms,       \* calls of confirm_booking
    Releases,       \* calls of release_hold
    Journeys,       \* journeys, each with one thread
    None,           \* no booking
    Capacity,       \* trip_packages.availability for the duration
    MaxParty,       \* bound: the travelers of one hold
    HoldTicks,      \* holdMinutes, in clock ticks
    MaxTime,        \* bound: the clock stops here
    MaxChain        \* MAX_REQUEST_CHAIN

Settles == Confirms \cup Releases
Calls   == Creates \cup Settles

ASSUME CallsAssumption == /\ IsFiniteSet(Creates) /\ None \notin Creates
                          /\ Creates \cap Settles = {} /\ Confirms \cap Releases = {}
ASSUME NumbersAssumption == /\ {Capacity, MaxTime} \subseteq Nat
                            /\ {MaxParty, HoldTicks, MaxChain} \subseteq Nat \ {0}

VARIABLES
    now,            \* the database clock
    journey, party, workflow,   \* the arguments of each hold call; workflow: it brings its own
                                \* holdRequestId, otherwise the id is derived from the terms
    requests,       \* hold_requests: the bookings of a request's successive ids, by its key
    status, expires,            \* bookings, one column each
    late,           \* history: bookings confirmed after their hold had lapsed
    pc, ts,         \* each call: its position, and when its transaction began
    probe,          \* a hold call: which of the request's ids it is at
    target          \* a confirmation or a release: the booking it names

args  == <<journey, party, workflow>>
table == <<requests, status, expires, late>>
vars  == <<now, args, table, pc, ts, probe, target>>

Open == {"journey", "request", "insert", "commit", "lock", "settle"}

-----------------------------------------------------------------------------
(* What the statements compute. *)

\* A derived id hashes the journey and the terms; the workflow saved one id for its run.
Key(c) == <<journey[c], IF workflow[c] THEN 0 ELSE party[c]>>
Keys   == Journeys \X (0..MaxParty)
Chain(c) == requests[Key(c)]

\* _is_dead_request: the booking lapsed or was released.
Dead(b, t) == status[b] = "released" \/ (status[b] = "held" /\ expires[b] <= t)

\* The bookings that count against the capacity for a transaction begun at t.
Reserved(t) == {b \in Creates : \/ status[b] = "confirmed"
                                \/ status[b] = "held" /\ expires[b] > t}

\* SUM(travelers_count) as the size of a set: one place for each traveler.
PlacesOf(S) == {p \in Creates \X (1..MaxParty) : p[1] \in S /\ p[2] <= party[p[1]]}
PlacesTaken(S) == Cardinality(PlacesOf(S))

\* The locks.
HoldsJourney(d, j) == journey[d] = j /\ pc[d] \in {"request", "insert", "commit"}

\* Mutant: no package lock.
PackageNeverLocked(c) == FALSE

\* pg_advisory_xact_lock on the package and the duration.
PackageLocked(c) == \E d \in Creates \ {c} : pc[d] = "commit"

\* An uncommitted hold_requests row with this call's id.
RequestLocked(c) ==
    \E d \in Creates \ {c} : pc[d] = "commit" /\ Key(d) = Key(c) /\ probe[d] = probe[c]

RowLocked(b) == \E x \in Settles : pc[x] = "settle" /\ target[x] = b

Goto(c, label) == pc' = [pc EXCEPT ![c] = label]

-----------------------------------------------------------------------------
(* create_courtesy_hold. *)

\* The expiry is computed just before the transaction begins.
BeginHold(c) ==
    /\ pc[c] = "start"
    /\ ts' = [ts EXCEPT ![c] = now]
    /\ Goto(c, "journey")
    /\ UNCHANGED <<now, args, table, probe, target>>

\* _journey waits for the journey's advisory lock, then reads or creates it.
LockJourney(c) ==
    /\ pc[c] = "journey"
    /\ \A d \in Creates : ~HoldsJourney(d, journey[c])
    /\ Goto(c, IF workflow[c] THEN "insert" ELSE "request")
    /\ UNCHANGED <<now, args, table, ts, probe, target>>

\* Mutant: a confirmed booking's request is replaced as well.
NextRequestUnlessHeld(c) ==
    /\ pc[c] = "request"
    /\ IF /\ probe[c] <= Len(Chain(c))
          /\ status[Chain(c)[probe[c]]] # "held" \/ Dead(Chain(c)[probe[c]], ts[c])
         THEN probe' = [probe EXCEPT ![c] = @ + 1] /\ UNCHANGED pc
         ELSE Goto(c, "insert") /\ UNCHANGED probe
    /\ UNCHANGED <<now, args, table, ts, target>>

\* _live_request_id: one id per step, past the dead ones, MAX_REQUEST_CHAIN at most.
NextRequest(c) ==
    /\ pc[c] = "request"
    /\ IF probe[c] > MaxChain THEN Goto(c, "done") /\ UNCHANGED probe
       ELSE IF probe[c] <= Len(Chain(c)) /\ Dead(Chain(c)[probe[c]], ts[c])
         THEN probe' = [probe EXCEPT ![c] = @ + 1] /\ UNCHANGED pc
         ELSE Goto(c, "insert") /\ UNCHANGED probe
    /\ UNCHANGED <<now, args, table, ts, target>>

Fits(c) == PlacesTaken(Reserved(ts[c])) + party[c] <= Capacity

\* Mutant: the request's row is not looked for.
InsertHoldAgain(c) ==
    /\ pc[c] = "insert" /\ ~PackageLocked(c)
    /\ Goto(c, IF Fits(c) THEN "commit" ELSE "done")
    /\ UNCHANGED <<now, args, table, ts, probe, target>>

\* A request already there is replayed, or refused when its terms differ: neither
\* changes a row.  A new one takes the package lock, counts and inserts, uncommitted.
InsertHold(c) ==
    /\ pc[c] = "insert" /\ ~RequestLocked(c)
    /\ \/ probe[c] <= Len(Chain(c)) /\ Goto(c, "done")
       \/ /\ probe[c] > Len(Chain(c)) /\ ~PackageLocked(c)
          /\ Goto(c, IF Fits(c) THEN "commit" ELSE "done")
    /\ UNCHANGED <<now, args, table, ts, probe, target>>

\* Mutant: the transaction is left open.
CommitHoldStaysOpen(c) ==
    /\ pc[c] = "commit" /\ status[c] = "none"
    /\ requests' = [requests EXCEPT ![Key(c)] = Append(@, c)]
    /\ status' = [status EXCEPT ![c] = "held"]
    /\ expires' = [expires EXCEPT ![c] = ts[c] + HoldTicks]
    /\ UNCHANGED <<now, args, late, pc, ts, probe, target>>

\* The request, the booking and its line become visible together.
CommitHold(c) ==
    /\ pc[c] = "commit"
    /\ requests' = [requests EXCEPT ![Key(c)] = Append(@, c)]
    /\ status' = [status EXCEPT ![c] = "held"]
    /\ expires' = [expires EXCEPT ![c] = ts[c] + HoldTicks]
    /\ Goto(c, "done")
    /\ UNCHANGED <<now, args, late, ts, probe, target>>

-----------------------------------------------------------------------------
(* confirm_booking and release_hold. *)

\* The traveler knows the booking from its receipt or its journey.
BeginSettle(x) ==
    /\ pc[x] = "start"
    /\ \E b \in Creates : status[b] # "none" /\ target' = [target EXCEPT ![x] = b]
    /\ ts' = [ts EXCEPT ![x] = now]
    /\ Goto(x, "lock")
    /\ UNCHANGED <<now, args, table, probe>>

\* Mutant: the confirmation reads the booking without FOR UPDATE.
ReadForConfirm(x) ==
    /\ pc[x] = "lock"
    /\ Goto(x, IF status[target[x]] = "held" /\ expires[target[x]] > ts[x]
               THEN "settle" ELSE "done")
    /\ UNCHANGED <<now, args, table, ts, probe, target>>

\* SELECT ... FOR UPDATE; confirmed is a replay, any other status but held is refused,
\* and so is a hold that had lapsed when the transaction began.
LockForConfirm(x) ==
    /\ pc[x] = "lock" /\ ~RowLocked(target[x])
    /\ Goto(x, IF status[target[x]] = "held" /\ expires[target[x]] > ts[x]
               THEN "settle" ELSE "done")
    /\ UNCHANGED <<now, args, table, ts, probe, target>>

CommitConfirm(x) ==
    /\ pc[x] = "settle"
    /\ status' = [status EXCEPT ![target[x]] = "confirmed"]
    /\ late' = IF expires[target[x]] <= now THEN late \cup {target[x]} ELSE late
    /\ Goto(x, "done")
    /\ UNCHANGED <<now, args, requests, expires, ts, probe, target>>

\* OWNED_HOLD_SQL ... FOR UPDATE OF b: a released hold is a replay, and only a held
\* one, lapsed or not, is released.
LockForRelease(x) ==
    /\ pc[x] = "lock" /\ ~RowLocked(target[x])
    /\ Goto(x, IF status[target[x]] = "held" THEN "settle" ELSE "done")
    /\ UNCHANGED <<now, args, table, ts, probe, target>>

CommitRelease(x) ==
    /\ pc[x] = "settle"
    /\ status' = [status EXCEPT ![target[x]] = "released"]
    /\ Goto(x, "done")
    /\ UNCHANGED <<now, args, requests, expires, late, ts, probe, target>>

-----------------------------------------------------------------------------
\* A named refusal, a failed statement, or Aurora ends what a dead Lambda left open.
Rollback(c) ==
    /\ pc[c] \in Open
    /\ Goto(c, "done")
    /\ UNCHANGED <<now, args, table, ts, probe, target>>

Tick ==
    /\ now < MaxTime
    /\ now' = now + 1
    /\ UNCHANGED <<args, table, pc, ts, probe, target>>

Init ==
    /\ now = 0
    /\ journey \in [Creates -> Journeys]
    /\ party \in [Creates -> 1..MaxParty]
    /\ workflow \in [Creates -> BOOLEAN]
    /\ requests = [k \in Keys |-> <<>>]
    /\ status = [b \in Creates |-> "none"]
    /\ expires = [b \in Creates |-> 0]
    /\ late = {}
    /\ pc = [c \in Calls |-> "start"]
    /\ ts = [c \in Calls |-> 0]
    /\ probe = [c \in Creates |-> 1]
    /\ target = [x \in Settles |-> None]

Hold(c) == LockJourney(c) \/ NextRequest(c) \/ InsertHold(c) \/ CommitHold(c)
Confirm(x) == LockForConfirm(x) \/ CommitConfirm(x)
Release(x) == LockForRelease(x) \/ CommitRelease(x)

Next == \/ \E c \in Creates : BeginHold(c) \/ Hold(c)
        \/ \E x \in Settles : BeginSettle(x)
        \/ \E x \in Confirms : Confirm(x)
        \/ \E x \in Releases : Release(x)
        \/ \E c \in Calls : Rollback(c)
        \/ Tick

Spec == Init /\ [][Next]_vars

-----------------------------------------------------------------------------
(* Properties. *)

Statuses == {"none", "held", "confirmed", "released"}

\* Every variable holds a value of its type, and the bookings named are there.
TypeOK ==
    /\ now \in Nat
    /\ journey \in [Creates -> Journeys]
    /\ party \in [Creates -> 1..MaxParty]
    /\ workflow \in [Creates -> BOOLEAN]
    /\ requests \in [Keys -> Seq(Creates)]
    /\ status \in [Creates -> Statuses]
    /\ expires \in [Creates -> Nat]
    /\ late \subseteq Creates
    /\ pc \in [Calls -> Open \cup {"start", "done"}]
    /\ ts \in [Calls -> Nat] /\ \A c \in Calls : ts[c] <= now
    /\ probe \in [Creates -> Nat \ {0}]
    /\ target \in [Settles -> Creates \cup {None}]
    /\ \A x \in Settles : pc[x] \in {"lock", "settle"} => target[x] \in Creates

\* The bookings that count now, but for those confirmed late.
Booked == Reserved(now) \ late

\* Bookings confirmed in time and holds that have not lapsed never exceed the capacity,
\* though a hold counts with the clock of a transaction that began long before.
WithinCapacity == PlacesTaken(Booked) <= Capacity

\* A booking that a retry may replace.
Over(b) == b \in late \/ Dead(b, now)

\* Retries of the same terms converge: a journey gets a new booking for them only when
\* every earlier one is dead, so it never pays for two.
OneLiveBooking ==
    \A k \in Keys : \A i \in 1..Len(requests[k]) :
        i < Len(requests[k]) => Over(requests[k][i])

\* A request the workflow saved books once, whatever became of the booking.
WorkflowBooksOnce == \A j \in Journeys : Len(requests[<<j, 0>>]) <= 1

\* A booking is settled once: what a release gave back is never confirmed, and what was
\* confirmed is never given back.
SettledOnce == [][\A b \in Creates : status[b] \in {"confirmed", "released"} =>
                     status'[b] = status[b]]_vars

-----------------------------------------------------------------------------
(* Why the safety properties hold: an inductive invariant. *)

\* One hold of the package is uncommitted, and it still fits whatever committed, was
\* released or lapsed since it counted.
InsertFits ==
    /\ \A c, d \in Creates : pc[c] = "commit" /\ pc[d] = "commit" => c = d
    /\ \A c \in Creates : pc[c] = "commit" => PlacesTaken(Booked) + party[c] <= Capacity

\* A call that has not ended has no booking yet; a request's bookings exist.
RowsFollowCalls ==
    /\ \A c \in Creates : pc[c] # "done" => status[c] = "none"
    /\ \A k \in Keys : \A i \in 1..Len(requests[k]) : status[requests[k][i]] # "none"
    /\ late \subseteq {b \in Creates : status[b] = "confirmed"}

\* A call has gone past nothing but bookings that are over, and inserts under a new id.
ProbesOver ==
    \A c \in Creates :
        /\ probe[c] <= Len(Chain(c)) + 1
        /\ workflow[c] => probe[c] = 1 /\ pc[c] # "request"
        /\ pc[c] = "commit" => probe[c] = Len(Chain(c)) + 1
        /\ \A i \in 1..(probe[c] - 1) : Over(Chain(c)[i])

\* A confirmation or a release about to commit has a held booking to itself.
SettlesExclusive ==
    \A x \in Settles : pc[x] = "settle" =>
        /\ status[target[x]] = "held"
        /\ \A y \in Settles : pc[y] = "settle" /\ target[y] = target[x] => x = y

\* The inductive invariant of the holds.
IInv ==
    /\ TypeOK
    /\ InsertFits /\ RowsFollowCalls /\ ProbesOver /\ SettlesExclusive
    /\ WithinCapacity /\ OneLiveBooking /\ WorkflowBooksOnce

-----------------------------------------------------------------------------
(* What migration 020 says of create_courtesy_hold, and the code does not keep. *)

\* A hold is admitted only when the capacity minus confirmed bookings and unexpired
\* holds covers it.
HoldsCovered ==
    [][\A c \in Creates : status[c] = "none" /\ status'[c] = "held" =>
          PlacesTaken(Reserved(now)) + party[c] <= Capacity]_vars

Waiting(c) == pc[c] \in Open
Answered(c) == pc[c] = "done"
=============================================================================
