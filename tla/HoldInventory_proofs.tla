------------------------- MODULE HoldInventory_proofs -------------------------
(* The inductive invariant of HoldInventory, and what follows from it. *)
EXTENDS HoldInventory, SequenceTheorems, FiniteSetTheorems, TLAPS

-----------------------------------------------------------------------------
(* Places: finite sets that grow with the bookings they belong to. *)

(* The places of any bookings are finitely many. *)
LEMMA PlacesFinite ==
  ASSUME NEW S \in SUBSET Creates
  PROVE  IsFiniteSet(PlacesOf(S)) /\ PlacesTaken(S) \in Nat
<1>1. IsFiniteSet(1..MaxParty)
  BY NumbersAssumption, FS_Interval
<1>2. IsFiniteSet(Creates \X (1..MaxParty))
  BY <1>1, CallsAssumption, FS_Product
<1>3. IsFiniteSet(PlacesOf(S))
  BY <1>2, FS_Subset DEF PlacesOf
<1> QED
  BY <1>3, FS_CardinalityType DEF PlacesTaken

(* More bookings take no fewer places. *)
LEMMA PlacesMonotone ==
  ASSUME NEW T \in SUBSET Creates, NEW S \in SUBSET T
  PROVE  PlacesTaken(S) <= PlacesTaken(T)
<1>1. PlacesOf(S) \subseteq PlacesOf(T)
  BY DEF PlacesOf
<1> QED
  BY <1>1, PlacesFinite, FS_Subset DEF PlacesTaken

(* A booking takes a place for each of its travelers. *)
LEMMA PlacesOfOne ==
  ASSUME TypeOK, NEW c \in Creates
  PROVE  PlacesTaken({c}) <= party[c]
<1> DEFINE f == [n \in 1..party[c] |-> <<c, n>>]
<1>1. party[c] \in Nat /\ party[c] <= MaxParty /\ MaxParty \in Nat
  BY NumbersAssumption DEF TypeOK
<1>2. f \in [1..party[c] -> PlacesOf({c})]
  BY <1>1 DEF PlacesOf
<1>3. \A p \in PlacesOf({c}) : \E n \in 1..party[c] : f[n] = p
  <2> SUFFICES ASSUME NEW p \in PlacesOf({c}) PROVE \E n \in 1..party[c] : f[n] = p
    OBVIOUS
  <2>1. p \in Creates \X (1..MaxParty) /\ p[1] = c /\ p[2] <= party[c]
    BY DEF PlacesOf
  <2>2. p[2] \in 1..party[c] /\ p = <<c, p[2]>>
    BY <2>1, <1>1
  <2> QED
    BY <2>2
<1>4. ExistsSurjection(1..party[c], PlacesOf({c}))
  BY <1>2, <1>3 DEF ExistsSurjection, Surjection
<1> QED
  BY <1>1, <1>4, FS_SurjCardinalityBound DEF PlacesTaken

(* One more booking takes at most its party's places. *)
LEMMA PlacesAdded ==
  ASSUME TypeOK, NEW S \in SUBSET Creates, NEW c \in Creates
  PROVE  PlacesTaken(S \cup {c}) <= PlacesTaken(S) + party[c]
<1>1. PlacesOf(S \cup {c}) = PlacesOf(S) \cup PlacesOf({c})
  BY DEF PlacesOf
<1>2. /\ IsFiniteSet(PlacesOf(S)) /\ IsFiniteSet(PlacesOf({c}))
      /\ PlacesTaken(S) \in Nat /\ PlacesTaken({c}) \in Nat
  BY PlacesFinite
<1>3. Cardinality(PlacesOf(S) \cap PlacesOf({c})) \in Nat
  BY <1>2, FS_Intersection, FS_CardinalityType
<1>4. PlacesTaken(S \cup {c}) <= PlacesTaken(S) + PlacesTaken({c})
  <2>1. Cardinality(PlacesOf(S) \cup PlacesOf({c}))
          = Cardinality(PlacesOf(S)) + Cardinality(PlacesOf({c}))
            - Cardinality(PlacesOf(S) \cap PlacesOf({c}))
    BY <1>2, FS_Union
  <2>2. PlacesTaken(S \cup {c})
          = PlacesTaken(S) + PlacesTaken({c}) - Cardinality(PlacesOf(S) \cap PlacesOf({c}))
    BY <1>1, <2>1 DEF PlacesTaken
  <2> QED
    BY <1>2, <1>3, <2>2
<1>5. PlacesTaken(S \cup {c}) \in Nat /\ party[c] \in Nat
  BY PlacesFinite, NumbersAssumption DEF TypeOK
<1> QED
  BY <1>2, <1>4, <1>5, PlacesOfOne

(* What counts is made of bookings, and a later clock counts no more of them. *)
LEMMA ReservedShrinks ==
  ASSUME TypeOK, NEW t \in Nat, t <= now
  PROVE  Booked \subseteq Reserved(t) /\ Reserved(t) \subseteq Creates
  BY DEF TypeOK, Booked, Reserved

-----------------------------------------------------------------------------
(* The steps. *)

(* The arguments of a call never change. *)
LEMMA ArgsKept == [Next]_vars => UNCHANGED args
  BY DEF Next, vars, Hold, Confirm, Release, BeginHold, LockJourney, NextRequest, InsertHold,
         CommitHold, BeginSettle, LockForConfirm, CommitConfirm, LockForRelease, CommitRelease,
         Rollback, Tick

(* Only the three commits change the tables. *)
LEMMA TableSteps ==
  ASSUME TypeOK, [Next]_vars
  PROVE  \/ UNCHANGED table /\ now' \in Nat /\ now <= now'
         \/ \E c \in Creates : CommitHold(c)
         \/ \E x \in Confirms : CommitConfirm(x)
         \/ \E x \in Releases : CommitRelease(x)
<1>1. now \in Nat
  BY DEF TypeOK
<1> QED
  BY <1>1 DEF Next, vars, Hold, Confirm, Release, BeginHold, LockJourney, NextRequest, InsertHold,
         BeginSettle, LockForConfirm, LockForRelease, Rollback, Tick

(* The initial states satisfy the inductive invariant: no call has begun. *)
LEMMA InitIInv == Init => IInv
<1> SUFFICES ASSUME Init PROVE IInv
  OBVIOUS
<1> USE CallsAssumption, NumbersAssumption DEF Init, Calls, Settles
<1>1. TypeOK
  BY DEF TypeOK, Open, Statuses, Keys
<1>2. InsertFits /\ SettlesExclusive /\ RowsFollowCalls
  BY DEF InsertFits, SettlesExclusive, RowsFollowCalls
<1>3. ProbesOver /\ OneLiveBooking /\ WorkflowBooksOnce
  <2>1. \A c \in Creates : Key(c) \in Keys
    BY DEF Key, Keys
  <2> QED
    BY <2>1 DEF ProbesOver, OneLiveBooking, WorkflowBooksOnce, Chain, Keys
<1>4. WithinCapacity
  <2>1. Booked = {}
    BY DEF Booked, Reserved
  <2>2. PlacesOf(Booked) = {}
    BY <2>1 DEF PlacesOf
  <2> QED
    BY <2>2, FS_EmptySet DEF WithinCapacity, PlacesTaken
<1> QED
  BY <1>1, <1>2, <1>3, <1>4 DEF IInv

(* A step changes the positions of the calls within their type. *)
LEMMA PositionsTyped ==
  ASSUME TypeOK, [Next]_vars
  PROVE  pc' \in [Calls -> Open \cup {"start", "done"}]
<1> USE DEF TypeOK, Goto, Open, Calls, Settles
<1>1. ASSUME NEW c \in Creates, BeginHold(c) \/ Hold(c)
      PROVE  pc' \in [Calls -> Open \cup {"start", "done"}]
  BY <1>1 DEF Hold, BeginHold, LockJourney, NextRequest, InsertHold, CommitHold
<1>2. ASSUME NEW x \in Settles, BeginSettle(x) \/ Confirm(x) \/ Release(x)
      PROVE  pc' \in [Calls -> Open \cup {"start", "done"}]
  BY <1>2 DEF Confirm, Release, BeginSettle, LockForConfirm, CommitConfirm, LockForRelease,
              CommitRelease
<1>3. ASSUME NEW c \in Calls, Rollback(c)
      PROVE  pc' \in [Calls -> Open \cup {"start", "done"}]
  BY <1>3 DEF Rollback
<1>4. CASE Tick \/ UNCHANGED vars
  BY <1>4 DEF Tick, vars
<1> QED
  BY <1>1, <1>2, <1>3, <1>4 DEF Next

(* A call's clock is not ahead of the database's. *)
LEMMA ClocksTyped ==
  ASSUME TypeOK, [Next]_vars
  PROVE  now' \in Nat /\ ts' \in [Calls -> Nat] /\ \A c \in Calls : ts'[c] <= now'
<1> USE DEF TypeOK, Calls, Settles
<1>1. ASSUME NEW c \in Creates, BeginHold(c)
      PROVE  now' \in Nat /\ ts' \in [Calls -> Nat] /\ \A d \in Calls : ts'[d] <= now'
  BY <1>1 DEF BeginHold
<1>2. ASSUME NEW x \in Settles, BeginSettle(x)
      PROVE  now' \in Nat /\ ts' \in [Calls -> Nat] /\ \A d \in Calls : ts'[d] <= now'
  BY <1>2 DEF BeginSettle
<1>3. CASE Tick
  BY <1>3 DEF Tick
<1>4. CASE UNCHANGED <<now, ts>>
  BY <1>4
<1> QED
  BY <1>1, <1>2, <1>3, <1>4
     DEF Next, vars, Hold, Confirm, Release, LockJourney, NextRequest, InsertHold,
         CommitHold, LockForConfirm, CommitConfirm, LockForRelease, CommitRelease, Rollback

(* A hold's request is one of the keys. *)
LEMMA KeyTyped ==
  ASSUME TypeOK, NEW c \in Creates
  PROVE  Key(c) \in Keys /\ Chain(c) \in Seq(Creates) /\ Len(Chain(c)) \in Nat
<1>1. Key(c) \in Keys
  BY NumbersAssumption DEF TypeOK, Key, Keys
<1>2. requests[Key(c)] \in Seq(Creates)
  BY <1>1 DEF TypeOK
<1> QED
  BY <1>1, <1>2 DEF Chain

(* What the three commits do to the tables. *)
LEMMA TablesTyped ==
  ASSUME TypeOK, [Next]_vars
  PROVE  /\ requests' \in [Keys -> Seq(Creates)]
         /\ status' \in [Creates -> Statuses]
         /\ expires' \in [Creates -> Nat]
         /\ late' \subseteq Creates
<1>1. ASSUME NEW c \in Creates, CommitHold(c)
      PROVE  /\ requests' \in [Keys -> Seq(Creates)] /\ status' \in [Creates -> Statuses]
             /\ expires' \in [Creates -> Nat] /\ late' \subseteq Creates
  <2>1. Key(c) \in Keys /\ Append(Chain(c), c) \in Seq(Creates)
    BY KeyTyped, AppendProperties
  <2>2. requests' \in [Keys -> Seq(Creates)]
    BY <1>1, <2>1 DEF CommitHold, TypeOK, Chain
  <2>3. ts[c] + HoldTicks \in Nat
    BY NumbersAssumption DEF TypeOK, Calls
  <2> QED
    BY <1>1, <2>2, <2>3 DEF CommitHold, TypeOK, Statuses
<1>2. ASSUME NEW x \in Settles, CommitConfirm(x) \/ CommitRelease(x)
      PROVE  /\ requests' \in [Keys -> Seq(Creates)] /\ status' \in [Creates -> Statuses]
             /\ expires' \in [Creates -> Nat] /\ late' \subseteq Creates
  <2>1. target[x] \in Creates
    BY <1>2 DEF TypeOK, CommitConfirm, CommitRelease
  <2> QED
    BY <1>2, <2>1 DEF CommitConfirm, CommitRelease, TypeOK, Statuses
<1> QED
  BY TableSteps, <1>1, <1>2 DEF table, TypeOK, Settles

(* Every step keeps the types. *)
LEMMA TypeStep == TypeOK /\ [Next]_vars => TypeOK'
<1> SUFFICES ASSUME TypeOK, [Next]_vars PROVE TypeOK'
  OBVIOUS
<1>1. probe' \in [Creates -> Nat \ {0}]
  BY DEF TypeOK, Next, vars, Hold, Confirm, Release, BeginHold, LockJourney, NextRequest, InsertHold,
         CommitHold, BeginSettle, LockForConfirm, CommitConfirm, LockForRelease, CommitRelease,
         Rollback, Tick
<1>2. /\ target' \in [Settles -> Creates \cup {None}]
      /\ \A x \in Settles : pc'[x] \in {"lock", "settle"} => target'[x] \in Creates
  <2> USE DEF TypeOK, Goto, Calls
  <2>1. ASSUME NEW x \in Settles, BeginSettle(x)
        PROVE  /\ target' \in [Settles -> Creates \cup {None}]
               /\ \A y \in Settles : pc'[y] \in {"lock", "settle"} => target'[y] \in Creates
    BY <2>1 DEF BeginSettle
  <2>2. ASSUME UNCHANGED target,
               \A x \in Settles : pc'[x] \in {"lock", "settle"} => pc[x] \in {"lock", "settle"}
        PROVE  /\ target' \in [Settles -> Creates \cup {None}]
               /\ \A y \in Settles : pc'[y] \in {"lock", "settle"} => target'[y] \in Creates
    BY <2>2
  <2>3. ASSUME NEW c \in Creates, BeginHold(c) \/ Hold(c)
        PROVE  UNCHANGED target /\ \A x \in Settles : pc'[x] = pc[x]
    BY <2>3, CallsAssumption
       DEF Hold, BeginHold, LockJourney, NextRequest, InsertHold, CommitHold
  <2>4. ASSUME NEW y \in Settles, Confirm(y) \/ Release(y)
        PROVE  UNCHANGED target /\
               \A x \in Settles : pc'[x] \in {"lock", "settle"} => pc[x] \in {"lock", "settle"}
    BY <2>4 DEF Confirm, Release, LockForConfirm, CommitConfirm, LockForRelease, CommitRelease
  <2>5. ASSUME NEW c \in Calls, Rollback(c)
        PROVE  UNCHANGED target /\
               \A x \in Settles : pc'[x] \in {"lock", "settle"} => pc[x] \in {"lock", "settle"}
    BY <2>5 DEF Rollback
  <2>6. CASE Tick \/ UNCHANGED vars
    BY <2>6, <2>2 DEF Tick, vars
  <2> QED
    BY <2>1, <2>2, <2>3, <2>4, <2>5, <2>6 DEF Next, Settles
<1>3. UNCHANGED args
  BY ArgsKept
<1> QED
  BY <1>1, <1>2, <1>3, PositionsTyped, ClocksTyped, TablesTyped DEF TypeOK, args

-----------------------------------------------------------------------------
(* The conjuncts of the invariant. *)

(* How a hold call gets to its commit, and that one which has ended stays so. *)
LEMMA HoldPositions ==
  ASSUME TypeOK, [Next]_vars, NEW c \in Creates
  PROVE  /\ pc[c] = "done" => pc'[c] = "done"
         /\ pc'[c] = "commit" /\ pc[c] # "commit" =>
               /\ UNCHANGED <<now, args, table, probe>>
               /\ ~PackageLocked(c) /\ Fits(c) /\ probe[c] > Len(Chain(c))
               /\ pc' = [pc EXCEPT ![c] = "commit"]
<1> USE DEF TypeOK, Goto, Open, Calls
<1>1. ASSUME NEW d \in Creates, BeginHold(d) \/ Hold(d), pc[c] = "done"
      PROVE  pc'[c] = "done"
  BY <1>1 DEF Hold, BeginHold, LockJourney, NextRequest, InsertHold, CommitHold
<1>2. ASSUME NEW d \in Creates, BeginHold(d) \/ Hold(d), pc'[c] = "commit", pc[c] # "commit"
      PROVE  InsertHold(c) /\ pc' = [pc EXCEPT ![c] = "commit"]
  BY <1>2 DEF Hold, BeginHold, LockJourney, NextRequest, InsertHold, CommitHold
<1>3. ASSUME InsertHold(c), pc' = [pc EXCEPT ![c] = "commit"]
      PROVE  /\ UNCHANGED <<now, args, table, probe>>
             /\ ~PackageLocked(c) /\ Fits(c) /\ probe[c] > Len(Chain(c))
  BY <1>3 DEF InsertHold
<1>4. ASSUME NEW x \in Settles, BeginSettle(x) \/ Confirm(x) \/ Release(x)
      PROVE  pc'[c] = pc[c]
  BY <1>4, CallsAssumption
     DEF Confirm, Release, BeginSettle, LockForConfirm, CommitConfirm, LockForRelease, CommitRelease
<1>5. ASSUME NEW d \in Calls, Rollback(d)
      PROVE  pc'[c] \in {"done", pc[c]}
  BY <1>5 DEF Rollback
<1>6. ASSUME Tick \/ UNCHANGED vars PROVE pc'[c] = pc[c]
  BY <1>6 DEF Tick, vars
<1> QED
  BY <1>1, <1>2, <1>3, <1>4, <1>5, <1>6 DEF Next, Settles

(* A booking that is over stays so: no confirmation that commits revives a lapsed hold in time. *)
LEMMA OverStays ==
  ASSUME IInv, [Next]_vars, NEW b \in Creates, status[b] # "none", Over(b)
  PROVE  Over(b)'
<1> USE DEF IInv, TypeOK, RowsFollowCalls, Over, Dead
<1>1. ASSUME NEW c \in Creates, CommitHold(c) PROVE Over(b)'
  <2>1. c # b
    BY <1>1 DEF CommitHold
  <2> QED
    BY <1>1, <2>1 DEF CommitHold
<1>2. ASSUME NEW x \in Settles, CommitConfirm(x) PROVE Over(b)'
  BY <1>2 DEF CommitConfirm, SettlesExclusive
<1>3. ASSUME NEW x \in Settles, CommitRelease(x) PROVE Over(b)'
  BY <1>3 DEF CommitRelease, SettlesExclusive
<1>4. CASE UNCHANGED table /\ now' \in Nat /\ now <= now'
  BY <1>4 DEF table
<1> QED
  BY TableSteps, <1>1, <1>2, <1>3, <1>4 DEF Settles

(* Bookings appear with their call's commit, and late ones are confirmed. *)
LEMMA RowsStep == IInv /\ [Next]_vars => RowsFollowCalls'
<1> SUFFICES ASSUME IInv, [Next]_vars PROVE RowsFollowCalls'
  OBVIOUS
<1>1. TypeOK /\ RowsFollowCalls /\ SettlesExclusive
  BY DEF IInv
<1>2. \A c \in Creates : pc[c] = "done" => pc'[c] = "done"
  BY <1>1, HoldPositions
<1>3. \A k \in Keys : requests[k] \in Seq(Creates)
  BY <1>1 DEF TypeOK
<1>4. ASSUME NEW c \in Creates, CommitHold(c) PROVE RowsFollowCalls'
  <2>1. pc'[c] = "done" /\ status[c] = "none" /\ c \notin late
    BY <1>1, <1>4 DEF CommitHold, Goto, TypeOK, Calls, RowsFollowCalls
  <2>2. \A d \in Creates : pc'[d] # "done" => status'[d] = "none"
    BY <1>1, <1>2, <1>4, <2>1 DEF CommitHold, TypeOK, RowsFollowCalls
  <2>3. ASSUME NEW k \in Keys, NEW i \in 1..Len(requests'[k])
        PROVE  status'[requests'[k][i]] # "none"
    <3>1. CASE k # Key(c)
      BY <1>1, <1>3, <1>4, <3>1 DEF CommitHold, TypeOK, RowsFollowCalls
    <3>2. CASE k = Key(c)
      <4>1. requests'[k] = Append(requests[k], c)
        BY <1>1, <1>4, <3>2 DEF CommitHold, TypeOK
      <4>2. CASE i \in 1..Len(requests[k])
        <5>1. requests'[k][i] = requests[k][i] /\ requests[k][i] \in Creates
          BY <1>3, <4>1, <4>2, AppendProperties, ElementOfSeq
        <5> QED
          BY <1>1, <1>4, <4>2, <5>1 DEF CommitHold, TypeOK, RowsFollowCalls
      <4>3. CASE i \notin 1..Len(requests[k])
        <5>1. requests'[k][i] = c
          BY <1>3, <4>1, <4>3, AppendProperties, LenProperties
        <5> QED
          BY <1>1, <1>4, <5>1 DEF CommitHold, TypeOK
      <4> QED
        BY <4>2, <4>3
    <3> QED
      BY <3>1, <3>2
  <2>4. late' \subseteq {b \in Creates : status'[b] = "confirmed"}
    BY <1>1, <1>4, <2>1 DEF CommitHold, TypeOK, RowsFollowCalls
  <2> QED
    BY <2>2, <2>3, <2>4 DEF RowsFollowCalls
<1>5. ASSUME NEW x \in Settles, CommitConfirm(x) \/ CommitRelease(x) PROVE RowsFollowCalls'
  <2>1. target[x] \in Creates /\ status[target[x]] = "held" /\ target[x] \notin late
    BY <1>1, <1>5 DEF CommitConfirm, CommitRelease, TypeOK, SettlesExclusive, RowsFollowCalls
  <2>2. pc'[target[x]] = "done"
    BY <1>1, <1>2, <2>1 DEF RowsFollowCalls
  <2>3. \A k \in Keys : \A i \in 1..Len(requests[k]) : requests[k][i] \in Creates
    BY <1>3, ElementOfSeq
  <2>4. /\ UNCHANGED requests
        /\ status' \in {[status EXCEPT ![target[x]] = "confirmed"],
                       [status EXCEPT ![target[x]] = "released"]}
    BY <1>5 DEF CommitConfirm, CommitRelease
  <2>5. \A d \in Creates : /\ d # target[x] => status'[d] = status[d]
                           /\ status[d] # "none" => status'[d] # "none"
    BY <1>1, <2>1, <2>4 DEF TypeOK
  <2>6. \A d \in Creates : pc'[d] # "done" => status'[d] = "none"
    BY <1>1, <1>2, <2>2, <2>5 DEF RowsFollowCalls
  <2>7. \A k \in Keys : \A i \in 1..Len(requests'[k]) : status'[requests'[k][i]] # "none"
    BY <1>1, <2>3, <2>4, <2>5 DEF RowsFollowCalls
  <2>8. late' \subseteq {b \in Creates : status'[b] = "confirmed"}
    <3>1. CASE CommitConfirm(x)
      BY <1>1, <3>1, <2>1 DEF CommitConfirm, TypeOK, RowsFollowCalls
    <3>2. CASE CommitRelease(x)
      BY <1>1, <3>2, <2>1 DEF CommitRelease, TypeOK, RowsFollowCalls
    <3> QED
      BY <1>5, <3>1, <3>2
  <2> QED
    BY <2>6, <2>7, <2>8 DEF RowsFollowCalls
<1>6. CASE UNCHANGED table
  BY <1>1, <1>2, <1>6 DEF RowsFollowCalls, table
<1> QED
  BY <1>1, <1>4, <1>5, <1>6, TableSteps DEF Settles

(* A confirmation and a release lock the row, and look at it under the lock. *)
LEMMA SettlesStep == IInv /\ [Next]_vars => SettlesExclusive'
<1> SUFFICES ASSUME IInv, [Next]_vars PROVE SettlesExclusive'
  OBVIOUS
<1>1. TypeOK /\ RowsFollowCalls /\ SettlesExclusive
  BY DEF IInv
<1> USE DEF TypeOK, Goto, Calls
<1>2. ASSUME NEW x \in Settles, BeginSettle(x) PROVE SettlesExclusive'
  <2>1. \A y \in Settles : pc'[y] = "settle" =>
            y # x /\ pc[y] = "settle" /\ target'[y] = target[y]
    BY <1>1, <1>2 DEF BeginSettle
  <2>2. UNCHANGED status
    BY <1>2 DEF BeginSettle, table
  <2> QED
    BY <1>1, <2>1, <2>2 DEF SettlesExclusive
<1>3. ASSUME NEW x \in Settles, LockForConfirm(x) \/ LockForRelease(x) PROVE SettlesExclusive'
  BY <1>1, <1>3 DEF LockForConfirm, LockForRelease, SettlesExclusive, RowLocked, table
<1>4. ASSUME NEW x \in Settles, CommitConfirm(x) \/ CommitRelease(x) PROVE SettlesExclusive'
  BY <1>1, <1>4 DEF CommitConfirm, CommitRelease, SettlesExclusive
<1>5. ASSUME NEW c \in Creates, CommitHold(c) PROVE SettlesExclusive'
  <2>1. status[c] = "none"
    BY <1>1, <1>5 DEF CommitHold, RowsFollowCalls
  <2> QED
    BY <1>1, <1>5, <2>1, CallsAssumption DEF CommitHold, SettlesExclusive
<1>6. ASSUME UNCHANGED <<table, target>>,
             \A x \in Settles : pc'[x] = "settle" => pc[x] = "settle"
      PROVE  SettlesExclusive'
  BY <1>1, <1>6 DEF SettlesExclusive, table
<1>7. ASSUME NEW c \in Creates,
             BeginHold(c) \/ LockJourney(c) \/ NextRequest(c) \/ InsertHold(c)
      PROVE  UNCHANGED <<table, target>> /\ \A x \in Settles : pc'[x] = pc[x]
  BY <1>1, <1>7, CallsAssumption DEF BeginHold, LockJourney, NextRequest, InsertHold
<1>8. ASSUME NEW c \in Calls, Rollback(c)
      PROVE  UNCHANGED <<table, target>> /\ \A x \in Settles : pc'[x] = "settle" => pc[x] = "settle"
  BY <1>1, <1>8 DEF Rollback
<1>9. CASE Tick \/ UNCHANGED vars
  BY <1>6, <1>9 DEF Tick, vars
<1> QED
  BY <1>2, <1>3, <1>4, <1>5, <1>6, <1>7, <1>8, <1>9
     DEF Next, Hold, Confirm, Release, Settles

(* A request's bookings grow at the end, with the commit of a call for it. *)
LEMMA ChainGrows ==
  ASSUME TypeOK, [Next]_vars, NEW k \in Keys
  PROVE  \/ requests'[k] = requests[k]
         \/ \E d \in Creates : /\ CommitHold(d) /\ Key(d) = k
                               /\ requests'[k] = Append(requests[k], d)
<1>1. ASSUME NEW d \in Creates, CommitHold(d)
      PROVE  \/ requests'[k] = requests[k]
             \/ Key(d) = k /\ requests'[k] = Append(requests[k], d)
  BY <1>1, KeyTyped DEF CommitHold, TypeOK
<1>2. ASSUME NEW x \in Settles, CommitConfirm(x) \/ CommitRelease(x)
      PROVE  requests'[k] = requests[k]
  BY <1>2 DEF CommitConfirm, CommitRelease
<1>3. CASE UNCHANGED table
  BY <1>3 DEF table
<1> QED
  BY <1>1, <1>2, <1>3, TableSteps DEF Settles

(* A request's booking keeps its place, and once over stays over. *)
LEMMA EntriesStay ==
  ASSUME IInv, [Next]_vars, NEW k \in Keys, NEW i \in 1..Len(requests[k])
  PROVE  /\ i <= Len(requests'[k]) /\ Len(requests'[k]) \in Nat
         /\ requests'[k][i] = requests[k][i]
         /\ Over(requests[k][i]) => Over(requests[k][i])'
<1>1. TypeOK /\ RowsFollowCalls
  BY DEF IInv
<1>2. requests[k] \in Seq(Creates) /\ Len(requests[k]) \in Nat
  BY <1>1, LenProperties DEF TypeOK
<1>3. i <= Len(requests'[k]) /\ Len(requests'[k]) \in Nat /\ requests'[k][i] = requests[k][i]
  <2>1. CASE requests'[k] = requests[k]
    BY <1>2, <2>1
  <2>2. ASSUME NEW d \in Creates, requests'[k] = Append(requests[k], d)
        PROVE  i <= Len(requests'[k]) /\ Len(requests'[k]) \in Nat /\ requests'[k][i] = requests[k][i]
    BY <1>2, <2>2, AppendProperties
  <2> QED
    BY <1>1, <2>1, <2>2, ChainGrows
<1>4. requests[k][i] \in Creates /\ status[requests[k][i]] # "none"
  BY <1>1, <1>2, ElementOfSeq DEF RowsFollowCalls
<1>5. ASSUME Over(requests[k][i]) PROVE Over(requests[k][i])'
  <2>1. PICK b \in Creates : b = requests[k][i]
    BY <1>4
  <2>2. Over(b)'
    BY <1>4, <1>5, <2>1, OverStays
  <2> QED
    BY <1>3, <2>1, <2>2 DEF Over, Dead
<1> QED
  BY <1>3, <1>5

(* A call reads its request's ids one by one, past dead bookings only. *)
LEMMA ProbePositions ==
  ASSUME TypeOK, [Next]_vars, NEW c \in Creates
  PROVE  /\ \/ probe'[c] = probe[c]
            \/ /\ pc[c] = "request" /\ UNCHANGED <<now, args, table, pc>>
               /\ probe[c] <= Len(Chain(c)) /\ Dead(Chain(c)[probe[c]], ts[c])
               /\ probe'[c] = probe[c] + 1
         /\ pc'[c] = "request" /\ pc[c] # "request" => ~workflow[c]
<1> USE DEF TypeOK, Goto, Calls
<1>1. ASSUME NEW d \in Creates, NextRequest(d)
      PROVE  /\ \/ probe'[c] = probe[c]
                \/ /\ pc[c] = "request" /\ UNCHANGED <<now, args, table, pc>>
                   /\ probe[c] <= Len(Chain(c)) /\ Dead(Chain(c)[probe[c]], ts[c])
                   /\ probe'[c] = probe[c] + 1
             /\ pc'[c] = "request" /\ pc[c] # "request" => ~workflow[c]
  BY <1>1 DEF NextRequest
<1>2. ASSUME NEW d \in Creates, BeginHold(d) \/ LockJourney(d) \/ InsertHold(d) \/ CommitHold(d)
      PROVE  probe'[c] = probe[c] /\ (pc'[c] = "request" /\ pc[c] # "request" => ~workflow[c])
  BY <1>2 DEF BeginHold, LockJourney, InsertHold, CommitHold
<1>3. ASSUME NEW x \in Settles, BeginSettle(x) \/ Confirm(x) \/ Release(x)
      PROVE  probe'[c] = probe[c] /\ pc'[c] = pc[c]
  BY <1>3, CallsAssumption
     DEF Confirm, Release, BeginSettle, LockForConfirm, CommitConfirm, LockForRelease, CommitRelease
<1>4. ASSUME NEW d \in Calls, Rollback(d)
      PROVE  probe'[c] = probe[c] /\ pc'[c] \in {"done", pc[c]}
  BY <1>4 DEF Rollback
<1>5. ASSUME Tick \/ UNCHANGED vars PROVE probe'[c] = probe[c] /\ pc'[c] = pc[c]
  BY <1>5 DEF Tick, vars
<1> QED
  BY <1>1, <1>2, <1>3, <1>4, <1>5 DEF Next, Hold, Settles

(* A call that has gone past dead bookings inserts at the end, since nobody else inserts. *)
LEMMA ProbesStep == IInv /\ [Next]_vars => ProbesOver'
<1> SUFFICES ASSUME IInv, [Next]_vars, NEW c \in Creates
             PROVE  /\ probe'[c] <= Len(Chain(c)') + 1
                    /\ workflow'[c] => probe'[c] = 1 /\ pc'[c] # "request"
                    /\ pc'[c] = "commit" => probe'[c] = Len(Chain(c)') + 1
                    /\ \A i \in 1..(probe'[c] - 1) : Over(Chain(c)[i])'
  BY DEF ProbesOver
<1> DEFINE k == Key(c)
<1>1. TypeOK /\ ProbesOver /\ InsertFits
  BY DEF IInv
<1>2. /\ k \in Keys /\ Key(c)' = k /\ UNCHANGED workflow
      /\ Chain(c) = requests[k] /\ Chain(c)' = requests'[k]
  BY <1>1, KeyTyped, ArgsKept DEF Key, Chain, args
<1>3. /\ requests[k] \in Seq(Creates) /\ Len(requests[k]) \in Nat
      /\ probe[c] \in Nat \ {0}
  BY <1>1, <1>2, LenProperties DEF TypeOK
<1>4. Len(requests'[k]) \in Nat /\ Len(requests[k]) <= Len(requests'[k])
  <2>1. CASE requests'[k] = requests[k]
    BY <1>3, <2>1
  <2>2. ASSUME NEW d \in Creates, requests'[k] = Append(requests[k], d)
        PROVE  Len(requests'[k]) = Len(requests[k]) + 1
    BY <1>3, <2>2, AppendProperties
  <2> QED
    BY <1>1, <1>2, <1>3, <2>1, <2>2, ChainGrows
<1>5. ASSUME NEW i \in 1..Len(requests[k]), Over(requests[k][i]) PROVE Over(requests[k][i])'
  BY <1>2, <1>5, EntriesStay
<1>6. CASE probe'[c] = probe[c]
  <2>1. probe'[c] <= Len(Chain(c)') + 1
    BY <1>1, <1>2, <1>3, <1>4, <1>6 DEF ProbesOver
  <2>2. workflow'[c] => probe'[c] = 1 /\ pc'[c] # "request"
    BY <1>1, <1>2, <1>6, ProbePositions DEF ProbesOver
  <2>3. ASSUME pc'[c] = "commit" PROVE probe'[c] = Len(Chain(c)') + 1
    <3>1. CASE pc[c] = "commit"
      <4>1. requests'[k] = requests[k]
        <5>1. ASSUME NEW d \in Creates, CommitHold(d) PROVE FALSE
          <6>1. d = c
            BY <1>1, <3>1, <5>1 DEF CommitHold, InsertFits
          <6> QED
            BY <1>1, <2>3, <5>1, <6>1 DEF CommitHold, Goto, TypeOK, Calls
        <5> QED
          BY <1>1, <1>2, <5>1, ChainGrows
      <4> QED
        BY <1>1, <1>2, <1>6, <3>1, <4>1 DEF ProbesOver
    <3>2. CASE pc[c] # "commit"
      <4>1. UNCHANGED table /\ probe[c] > Len(Chain(c))
        BY <1>1, <2>3, <3>2, HoldPositions
      <4>2. Chain(c)' = Chain(c)
        BY <1>2, <4>1 DEF table
      <4> QED
        BY <1>1, <1>2, <1>3, <1>6, <4>1, <4>2 DEF ProbesOver
    <3> QED
      BY <3>1, <3>2
  <2>4. ASSUME NEW i \in 1..(probe'[c] - 1) PROVE Over(Chain(c)[i])'
    <3>1. i \in 1..Len(requests[k]) /\ Over(requests[k][i])
      BY <1>1, <1>2, <1>3, <1>6 DEF ProbesOver
    <3> QED
      BY <1>2, <1>5, <3>1
  <2> QED
    BY <2>1, <2>2, <2>3, <2>4
<1>7. CASE probe'[c] # probe[c]
  <2>1. /\ pc[c] = "request" /\ UNCHANGED <<now, args, table, pc>>
        /\ probe[c] <= Len(Chain(c)) /\ Dead(Chain(c)[probe[c]], ts[c])
        /\ probe'[c] = probe[c] + 1
    BY <1>1, <1>7, ProbePositions
  <2>2. requests' = requests /\ probe[c] \in 1..Len(requests[k])
    BY <1>2, <1>3, <2>1 DEF table
  <2>3. requests[k][probe[c]] \in Creates
    BY <1>3, <2>2, ElementOfSeq
  <2>4. Over(requests[k][probe[c]])
    BY <1>1, <1>2, <2>1, <2>3 DEF Over, Dead, TypeOK, Calls
  <2>5. ASSUME NEW i \in 1..(probe'[c] - 1) PROVE Over(Chain(c)[i])'
    <3>1. i \in 1..Len(requests[k]) /\ (i = probe[c] \/ i \in 1..(probe[c] - 1))
      BY <1>3, <2>1, <2>2
    <3>2. Over(requests[k][i])
      BY <1>1, <1>2, <2>4, <3>1 DEF ProbesOver
    <3> QED
      BY <1>2, <1>5, <3>1, <3>2
  <2>6. ~workflow[c] /\ pc'[c] = "request"
    BY <1>1, <2>1 DEF ProbesOver
  <2> QED
    BY <1>2, <1>3, <2>1, <2>2, <2>5, <2>6
<1> QED
  BY <1>6, <1>7

(* A journey's terms get another booking only past bookings that are over. *)
LEMMA OneLiveStep == IInv /\ [Next]_vars => OneLiveBooking'
<1> SUFFICES ASSUME IInv, [Next]_vars, NEW k \in Keys, NEW i \in 1..Len(requests'[k]),
                    i < Len(requests'[k])
             PROVE  Over(requests[k][i])'
  BY DEF OneLiveBooking
<1>1. TypeOK /\ ProbesOver /\ OneLiveBooking
  BY DEF IInv
<1>2. requests[k] \in Seq(Creates) /\ Len(requests[k]) \in Nat
  BY <1>1, LenProperties DEF TypeOK
<1>3. CASE requests'[k] = requests[k]
  BY <1>1, <1>3, EntriesStay DEF OneLiveBooking
<1>4. ASSUME NEW d \in Creates, CommitHold(d), Key(d) = k, requests'[k] = Append(requests[k], d)
      PROVE  Over(requests[k][i])'
  <2>1. i \in 1..Len(requests[k])
    BY <1>2, <1>4, AppendProperties
  <2>2. probe[d] = Len(requests[k]) + 1
    BY <1>1, <1>4 DEF CommitHold, ProbesOver, Chain
  <2>3. Over(requests[k][i])
    BY <1>1, <1>2, <1>4, <2>1, <2>2 DEF ProbesOver, Chain
  <2> QED
    BY <2>1, <2>3, EntriesStay
<1> QED
  BY <1>1, <1>3, <1>4, ChainGrows

(* A workflow's saved request is never looked past, so only its first id is inserted. *)
LEMMA WorkflowStep == IInv /\ [Next]_vars => WorkflowBooksOnce'
<1> SUFFICES ASSUME IInv, [Next]_vars, NEW j \in Journeys PROVE Len(requests'[<<j, 0>>]) <= 1
  BY DEF WorkflowBooksOnce
<1> DEFINE k == <<j, 0>>
<1>1. TypeOK /\ ProbesOver /\ WorkflowBooksOnce
  BY DEF IInv
<1>2. k \in Keys
  BY NumbersAssumption DEF Keys
<1>3. requests[k] \in Seq(Creates) /\ Len(requests[k]) \in Nat
  BY <1>1, <1>2, LenProperties DEF TypeOK
<1>4. CASE requests'[k] = requests[k]
  BY <1>1, <1>4 DEF WorkflowBooksOnce
<1>5. ASSUME NEW d \in Creates, CommitHold(d), Key(d) = k, requests'[k] = Append(requests[k], d)
      PROVE  Len(requests'[k]) <= 1
  <2>1. workflow[d]
    BY <1>1, <1>5 DEF TypeOK, Key
  <2>2. Len(requests[k]) = 0
    <3>1. probe[d] = 1 /\ probe[d] = Len(Chain(d)) + 1
      BY <1>1, <1>5, <2>1 DEF CommitHold, ProbesOver
    <3>2. Chain(d) = requests[k]
      BY <1>5 DEF Chain
    <3> QED
      BY <1>3, <3>1, <3>2
  <2> QED
    BY <1>3, <1>5, <2>2, AppendProperties
<1> QED
  BY <1>1, <1>2, <1>4, <1>5, ChainGrows

-----------------------------------------------------------------------------
(* The capacity. *)

(* Only a hold's commit adds a booking that counts. *)
LEMMA BookedStep ==
  ASSUME IInv, [Next]_vars
  PROVE  \/ Booked' \subseteq Booked
         \/ \E c \in Creates : CommitHold(c) /\ Booked' \subseteq Booked \cup {c}
<1>1. TypeOK /\ RowsFollowCalls /\ SettlesExclusive
  BY DEF IInv
<1> USE DEF TypeOK, Booked, Reserved
<1>2. ASSUME NEW c \in Creates, CommitHold(c) PROVE Booked' \subseteq Booked \cup {c}
  BY <1>1, <1>2 DEF CommitHold
<1>3. ASSUME NEW x \in Settles, CommitConfirm(x) PROVE Booked' \subseteq Booked
  BY <1>1, <1>3 DEF CommitConfirm, SettlesExclusive
<1>4. ASSUME NEW x \in Settles, CommitRelease(x) PROVE Booked' \subseteq Booked
  BY <1>1, <1>4 DEF CommitRelease
<1>5. CASE UNCHANGED table /\ now' \in Nat /\ now <= now'
  BY <1>1, <1>5 DEF table
<1> QED
  BY <1>1, <1>2, <1>3, <1>4, <1>5, TableSteps DEF Settles

(* The places taken grow by a hold's party at most, and only with its commit. *)
LEMMA PlacesStep ==
  ASSUME IInv, [Next]_vars
  PROVE  /\ {PlacesTaken(Booked), PlacesTaken(Booked)'} \subseteq Nat
         /\ \/ PlacesTaken(Booked)' <= PlacesTaken(Booked)
            \/ \E c \in Creates : /\ CommitHold(c)
                                  /\ PlacesTaken(Booked)' <= PlacesTaken(Booked) + party[c]
<1>1. TypeOK /\ TypeOK'
  BY TypeStep DEF IInv
<1>2. Booked \subseteq Creates /\ Booked' \subseteq Creates
  BY DEF Booked, Reserved
<1>3. PICK S \in SUBSET Creates : S = Booked'
  BY <1>2
<1>4. PlacesTaken(Booked)' = PlacesTaken(S)
  <2>1. PlacesOf(Booked)' = PlacesOf(S)
    BY <1>3, ArgsKept DEF PlacesOf, args
  <2> QED
    BY <2>1 DEF PlacesTaken
<1>5. PlacesTaken(Booked) \in Nat /\ PlacesTaken(S) \in Nat
  BY <1>2, <1>3, PlacesFinite
<1>6. CASE S \subseteq Booked
  BY <1>2, <1>4, <1>5, <1>6, PlacesMonotone
<1>7. ASSUME NEW c \in Creates, CommitHold(c), S \subseteq Booked \cup {c}
      PROVE  PlacesTaken(Booked)' <= PlacesTaken(Booked) + party[c]
  <2>1. PlacesTaken(S) <= PlacesTaken(Booked \cup {c})
    BY <1>2, <1>7, PlacesMonotone
  <2>2. PlacesTaken(Booked \cup {c}) <= PlacesTaken(Booked) + party[c]
    BY <1>1, <1>2, PlacesAdded
  <2>3. PlacesTaken(Booked \cup {c}) \in Nat /\ party[c] \in Nat
    BY <1>1, <1>2, PlacesFinite, NumbersAssumption DEF TypeOK
  <2> QED
    BY <1>4, <1>5, <2>1, <2>2, <2>3
<1> QED
  BY <1>3, <1>4, <1>5, <1>6, <1>7, BookedStep

(* The hold that is uncommitted fitted when it counted, and nothing was added since. *)
LEMMA CapacityStep == IInv /\ [Next]_vars => WithinCapacity' /\ InsertFits'
<1> SUFFICES ASSUME IInv, [Next]_vars PROVE WithinCapacity' /\ InsertFits'
  OBVIOUS
<1>1. TypeOK /\ TypeOK' /\ InsertFits /\ WithinCapacity
  BY TypeStep DEF IInv
<1>2. /\ PlacesTaken(Booked) \in Nat /\ PlacesTaken(Booked)' \in Nat /\ Capacity \in Nat
      /\ UNCHANGED party /\ \A c \in Creates : party[c] \in Nat
  BY <1>1, PlacesStep, ArgsKept, NumbersAssumption DEF args, TypeOK
<1>3. WithinCapacity'
  <2>1. CASE PlacesTaken(Booked)' <= PlacesTaken(Booked)
    BY <1>1, <1>2, <2>1 DEF WithinCapacity
  <2>2. ASSUME NEW c \in Creates, CommitHold(c),
               PlacesTaken(Booked)' <= PlacesTaken(Booked) + party[c]
        PROVE  WithinCapacity'
    BY <1>1, <1>2, <2>2 DEF WithinCapacity, InsertFits, CommitHold
  <2> QED
    BY <2>1, <2>2, PlacesStep
<1>4. ASSUME NEW c \in Creates, pc'[c] = "commit"
      PROVE  /\ pc[c] = "commit" => \A d \in Creates : ~CommitHold(d)
             /\ pc[c] # "commit" => /\ \A d \in Creates \ {c} : pc'[d] # "commit"
                                    /\ PlacesTaken(Reserved(ts[c])) + party[c] <= Capacity
                                    /\ \A d \in Creates : ~CommitHold(d)
  <2>1. ASSUME NEW d \in Creates, CommitHold(d) PROVE pc[c] = "commit" => FALSE
    <3>1. pc'[d] = "done" /\ pc[d] = "commit"
      BY <1>1, <2>1 DEF CommitHold, Goto, TypeOK, Calls
    <3> QED
      BY <1>1, <1>4, <3>1 DEF InsertFits
  <2>2. ASSUME pc[c] # "commit"
        PROVE  /\ \A d \in Creates \ {c} : pc'[d] # "commit"
               /\ PlacesTaken(Reserved(ts[c])) + party[c] <= Capacity
               /\ \A d \in Creates : ~CommitHold(d)
    <3>1. /\ ~PackageLocked(c) /\ Fits(c) /\ pc' = [pc EXCEPT ![c] = "commit"]
      BY <1>1, <1>4, <2>2, HoldPositions
    <3>2. \A d \in Creates \ {c} : pc[d] # "commit" /\ pc'[d] = pc[d]
      BY <1>1, <3>1 DEF PackageLocked, TypeOK, Calls
    <3>3. \A d \in Creates : pc[d] # "commit"
      BY <2>2, <3>2
    <3> QED
      BY <3>1, <3>2, <3>3 DEF Fits, CommitHold
  <2> QED
    BY <2>1, <2>2
<1>5. ASSUME NEW c \in Creates, NEW d \in Creates, pc'[c] = "commit", pc'[d] = "commit"
      PROVE  c = d
  BY <1>1, <1>4, <1>5 DEF InsertFits
<1>6. ASSUME NEW c \in Creates, pc'[c] = "commit"
      PROVE  PlacesTaken(Booked)' + party'[c] <= Capacity
  <2>1. PlacesTaken(Booked)' <= PlacesTaken(Booked)
    BY <1>4, <1>6, PlacesStep
  <2>2. CASE pc[c] = "commit"
    BY <1>1, <1>2, <2>1, <2>2 DEF InsertFits
  <2>3. CASE pc[c] # "commit"
    <3>1. ts[c] \in Nat /\ ts[c] <= now
      BY <1>1 DEF TypeOK, Calls
    <3>2. PlacesTaken(Booked) <= PlacesTaken(Reserved(ts[c]))
      BY <1>1, <3>1, ReservedShrinks, PlacesMonotone
    <3>3. PlacesTaken(Reserved(ts[c])) \in Nat
      BY <1>1, <3>1, ReservedShrinks, PlacesFinite
    <3> QED
      BY <1>2, <1>4, <1>6, <2>1, <2>3, <3>2, <3>3
  <2> QED
    BY <2>2, <2>3
<1> QED
  BY <1>3, <1>5, <1>6 DEF InsertFits

-----------------------------------------------------------------------------
(* The theorems. *)

(* The holds satisfy their inductive invariant. *)
THEOREM Inductive == Spec => []IInv
<1>1. IInv /\ [Next]_vars => IInv'
  BY TypeStep, RowsStep, SettlesStep, ProbesStep, OneLiveStep, WorkflowStep, CapacityStep
     DEF IInv
<1> QED
  BY InitIInv, <1>1, PTL DEF Spec

(* Every variable holds a value of its type. *)
THEOREM TypeCorrect == Spec => []TypeOK
<1>1. IInv => TypeOK
  BY DEF IInv
<1> QED
  BY Inductive, <1>1, PTL

(* However holds, confirmations, releases and the clock interleave, the bookings that
   count never exceed the package's capacity, but for confirmations of lapsed holds. *)
THEOREM CapacityKept == Spec => []WithinCapacity
<1>1. IInv => WithinCapacity
  BY DEF IInv
<1> QED
  BY Inductive, <1>1, PTL

(* Any number of retries of the same terms leave the journey at most one live booking. *)
THEOREM LiveBookings == Spec => []OneLiveBooking
<1>1. IInv => OneLiveBooking
  BY DEF IInv
<1> QED
  BY Inductive, <1>1, PTL

(* A workflow's saved request is booked at most once. *)
THEOREM BooksOnce == Spec => []WorkflowBooksOnce
<1>1. IInv => WorkflowBooksOnce
  BY DEF IInv
<1> QED
  BY Inductive, <1>1, PTL

(* A booking confirmed or released is neither again, whoever races for it. *)
THEOREM SettledForGood == Spec => SettledOnce
<1>1. ASSUME IInv, [Next]_vars, NEW b \in Creates, status[b] \in {"confirmed", "released"}
      PROVE  status'[b] = status[b]
  <2>1. TypeOK /\ RowsFollowCalls /\ SettlesExclusive
    BY <1>1 DEF IInv
  <2>2. ASSUME NEW c \in Creates, CommitHold(c) PROVE status'[b] = status[b]
    <3>1. status[c] = "none"
      BY <2>1, <2>2 DEF CommitHold, RowsFollowCalls
    <3> QED
      BY <1>1, <2>1, <2>2, <3>1 DEF CommitHold, TypeOK
  <2>3. ASSUME NEW x \in Settles, CommitConfirm(x) \/ CommitRelease(x)
        PROVE  status'[b] = status[b]
    <3>1. status[target[x]] = "held"
      BY <2>1, <2>3 DEF CommitConfirm, CommitRelease, SettlesExclusive
    <3> QED
      BY <1>1, <2>1, <2>3, <3>1 DEF CommitConfirm, CommitRelease, TypeOK
  <2>4. CASE UNCHANGED table
    BY <2>4 DEF table
  <2> QED
    BY <1>1, <2>1, <2>2, <2>3, <2>4, TableSteps DEF Settles
<1>2. IInv /\ [Next]_vars =>
        [\A b \in Creates : status[b] \in {"confirmed", "released"} => status'[b] = status[b]]_vars
  BY <1>1
<1> QED
  BY Inductive, <1>2, PTL DEF Spec, SettledOnce

=============================================================================
