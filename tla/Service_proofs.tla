------------------------- MODULE Service_proofs -------------------------
(* Why the components a traveler meets keep their promises, for every value *)
(* of their constants.  The components share nothing but this module: each  *)
(* is an instance over constants and variables of its own names, and its    *)
(* inductive invariant stands in its own module.                            *)
EXTENDS Integers, Sequences, FiniteSetTheorems, SequenceTheorems, TLAPS

-----------------------------------------------------------------------------
(* A session scoped to one traveler. *)

CONSTANTS Sessions, Connections, Travelers, Nobody, MaxFaults, MaxChanges
VARIABLES grants, audit, journeys, bound, lock, leftover, pc, side, who, conn, setting, role, row,
          made, binds, seen, told, faults, changes
Scope == INSTANCE TravelerScope

USE DEF Scope!NobodyIsNobody, Scope!BoundsAreNatural, Scope!Sides, Scope!InTransaction,
        Scope!Outside, Scope!ForTraveler, Scope!AsApp, Scope!Locked, Scope!database, Scope!caller,
        Scope!scope, Scope!pending, Scope!bounds, Scope!To

\* Each action keeps the invariant.
LEMMA ScopeStep == ASSUME Scope!NobodyIsNobody, Scope!BoundsAreNatural, Scope!IInv,
                          [Scope!Next]_(Scope!vars)
  PROVE Scope!IInv'
<1>1. ASSUME NEW s \in Sessions, NEW k \in Scope!Sides, NEW t \in Travelers \union {Nobody},
              NEW c \in Connections, Scope!Begin(s, k, t, c)
      PROVE Scope!IInv'
  <2> USE <1>1 DEF Scope!Begin
  <2>1. /\ Scope!TypeOK' /\ Scope!NothingLeft' /\ Scope!OneBinds' /\ Scope!Made'
        /\ Scope!RefusalIsKept'
    BY DEF Scope!IInv, Scope!TypeOK, Scope!NothingLeft, Scope!OneBinds, Scope!Made,
           Scope!RefusalIsKept
  <2>2. Scope!Said'
    BY DEF Scope!IInv, Scope!Said, Scope!TypeOK, Scope!Made, Scope!Working, Scope!Fresh
  <2>3. Scope!SeesOwnOnly'
    BY DEF Scope!IInv, Scope!SeesOwnOnly, Scope!TypeOK, Scope!NothingLeft, Scope!OneBinds,
           Scope!Made, Scope!Said, Scope!RefusalIsKept, Scope!Empty, Scope!Fresh, Scope!Scoped,
           Scope!Rowed, Scope!Working
  <2>4. ASSUME NEW x \in Sessions PROVE Scope!Empty(x)'
    BY <2>4 DEF Scope!IInv, Scope!Empty, Scope!TypeOK
  <2>5. ASSUME NEW x \in Sessions PROVE Scope!Fresh(x)'
    BY <2>5 DEF Scope!IInv, Scope!Fresh, Scope!TypeOK
  <2>6. ASSUME NEW x \in Sessions PROVE Scope!Scoped(x)'
    BY <2>6 DEF Scope!IInv, Scope!Scoped, Scope!TypeOK, Scope!NothingLeft, Scope!OneBinds,
                Scope!Made, Scope!Said, Scope!RefusalIsKept, Scope!SeesOwnOnly, Scope!Empty,
                Scope!Fresh, Scope!Rowed, Scope!Working
  <2>7. ASSUME NEW x \in Sessions PROVE Scope!Rowed(x)'
    BY <2>7 DEF Scope!IInv, Scope!Rowed, Scope!TypeOK, Scope!NothingLeft, Scope!OneBinds,
                Scope!Made, Scope!Said, Scope!RefusalIsKept, Scope!SeesOwnOnly, Scope!Empty,
                Scope!Fresh, Scope!Scoped, Scope!Working
  <2>8. ASSUME NEW x \in Sessions PROVE Scope!Working(x)'
    <3>1. bound # Nobody => bound # s
      BY DEF Scope!IInv, Scope!Made
    <3>2. CASE x = s
      BY <3>2 DEF Scope!IInv, Scope!TypeOK, Scope!Working, Scope!Empty
    <3>3. CASE x # s
      BY <2>8, <3>1, <3>3 DEF Scope!IInv, Scope!TypeOK, Scope!Working, Scope!Empty
    <3>4. QED BY <3>2, <3>3
  <2> QED BY <2>1, <2>2, <2>3, <2>4, <2>5, <2>6, <2>7, <2>8 DEF Scope!IInv
<1>2. ASSUME Scope!Change PROVE Scope!IInv'
  <2> USE <1>2 DEF Scope!Change
  <2>1. /\ Scope!TypeOK' /\ Scope!NothingLeft' /\ Scope!OneBinds' /\ Scope!Made' /\ Scope!Said'
        /\ Scope!RefusalIsKept' /\ Scope!SeesOwnOnly'
    BY DEF Scope!IInv, Scope!TypeOK, Scope!NothingLeft, Scope!OneBinds, Scope!Made, Scope!Said,
           Scope!RefusalIsKept, Scope!SeesOwnOnly
  <2>2. ASSUME NEW x \in Sessions
         PROVE /\ Scope!Empty(x)' /\ Scope!Fresh(x)' /\ Scope!Scoped(x)' /\ Scope!Rowed(x)'
               /\ Scope!Working(x)'
    BY <2>2 DEF Scope!IInv, Scope!Empty, Scope!Fresh, Scope!Scoped, Scope!Rowed, Scope!Working
  <2> QED BY <2>1, <2>2 DEF Scope!IInv
<1>3. ASSUME NEW s \in Sessions, Scope!Check(s) PROVE Scope!IInv'
  <2> USE <1>3 DEF Scope!Check
  <2>1. /\ Scope!TypeOK' /\ Scope!NothingLeft' /\ Scope!OneBinds' /\ Scope!Made' /\ Scope!Said'
        /\ Scope!RefusalIsKept' /\ Scope!SeesOwnOnly'
    BY DEF Scope!IInv, Scope!TypeOK, Scope!NothingLeft, Scope!OneBinds, Scope!Made, Scope!Said,
           Scope!RefusalIsKept, Scope!SeesOwnOnly
  <2>2. ASSUME NEW x \in Sessions
         PROVE /\ Scope!Empty(x)' /\ Scope!Fresh(x)' /\ Scope!Scoped(x)' /\ Scope!Working(x)'
    BY <2>2 DEF Scope!IInv, Scope!Empty, Scope!Fresh, Scope!Scoped, Scope!Working
  <2>3. ASSUME NEW x \in Sessions PROVE Scope!Rowed(x)'
    BY <2>3 DEF Scope!IInv, Scope!Rowed, Scope!TypeOK
  <2> QED BY <2>1, <2>2, <2>3 DEF Scope!IInv
<1>4. ASSUME NEW s \in Sessions, Scope!Refuse(s) PROVE Scope!IInv'
  <2> USE <1>4 DEF Scope!Refuse, Scope!End, Scope!Keep, Scope!Tell
  <2>1. Scope!TypeOK' /\ Scope!NothingLeft' /\ Scope!OneBinds' /\ Scope!SeesOwnOnly'
    BY DEF Scope!IInv, Scope!TypeOK, Scope!NothingLeft, Scope!OneBinds, Scope!SeesOwnOnly
  <2>2. Scope!Made'
    BY DEF Scope!IInv, Scope!Made, Scope!TypeOK, Scope!OneBinds, Scope!Working
  <2>3. Scope!Said'
    BY DEF Scope!IInv, Scope!Said, Scope!TypeOK, Scope!Made, Scope!Working, Scope!Fresh
  <2>4. Scope!RefusalIsKept'
    BY DEF Scope!IInv, Scope!RefusalIsKept, Scope!TypeOK, Scope!NothingLeft, Scope!OneBinds,
           Scope!Made, Scope!Said, Scope!SeesOwnOnly, Scope!Empty, Scope!Fresh, Scope!Scoped,
           Scope!Rowed, Scope!Working
  <2>5. ASSUME NEW x \in Sessions PROVE Scope!Empty(x)'
    BY <2>5 DEF Scope!IInv, Scope!Empty, Scope!TypeOK
  <2>6. ASSUME NEW x \in Sessions PROVE Scope!Fresh(x)'
    BY <2>6 DEF Scope!IInv, Scope!Fresh, Scope!TypeOK
  <2>7. ASSUME NEW x \in Sessions PROVE Scope!Scoped(x)'
    BY <2>7 DEF Scope!IInv, Scope!Scoped, Scope!TypeOK
  <2>8. ASSUME NEW x \in Sessions PROVE Scope!Rowed(x)'
    BY <2>8 DEF Scope!IInv, Scope!Rowed, Scope!TypeOK
  <2>9. ASSUME NEW x \in Sessions PROVE Scope!Working(x)'
    BY <2>9 DEF Scope!IInv, Scope!Working, Scope!TypeOK
  <2> QED BY <2>1, <2>2, <2>3, <2>4, <2>5, <2>6, <2>7, <2>8, <2>9 DEF Scope!IInv
<1>5. ASSUME NEW s \in Sessions, Scope!RecordDenied(s) PROVE Scope!IInv'
  <2> USE <1>5 DEF Scope!RecordDenied, Scope!Tell
  <2>1. /\ Scope!TypeOK' /\ Scope!NothingLeft' /\ Scope!OneBinds' /\ Scope!Made' /\ Scope!Said'
        /\ Scope!RefusalIsKept' /\ Scope!SeesOwnOnly'
    BY DEF Scope!IInv, Scope!TypeOK, Scope!NothingLeft, Scope!OneBinds, Scope!Made, Scope!Said,
           Scope!RefusalIsKept, Scope!SeesOwnOnly
  <2>2. ASSUME NEW x \in Sessions
         PROVE /\ Scope!Empty(x)' /\ Scope!Scoped(x)' /\ Scope!Rowed(x)' /\ Scope!Working(x)'
    BY <2>2 DEF Scope!IInv, Scope!Empty, Scope!Scoped, Scope!Rowed, Scope!Working
  <2>3. ASSUME NEW x \in Sessions PROVE Scope!Fresh(x)'
    BY <2>3 DEF Scope!IInv, Scope!Fresh, Scope!TypeOK
  <2> QED BY <2>1, <2>2, <2>3 DEF Scope!IInv
<1>6. ASSUME NEW s \in Sessions, Scope!Pin(s) PROVE Scope!IInv'
  <2> USE <1>6 DEF Scope!Pin
  <2>1. /\ Scope!TypeOK' /\ Scope!NothingLeft' /\ Scope!OneBinds' /\ Scope!Made' /\ Scope!Said'
        /\ Scope!RefusalIsKept' /\ Scope!SeesOwnOnly'
    BY DEF Scope!IInv, Scope!TypeOK, Scope!NothingLeft, Scope!OneBinds, Scope!Made, Scope!Said,
           Scope!RefusalIsKept, Scope!SeesOwnOnly
  <2>2. ASSUME NEW x \in Sessions
         PROVE /\ Scope!Empty(x)' /\ Scope!Fresh(x)' /\ Scope!Rowed(x)' /\ Scope!Working(x)'
    BY <2>2 DEF Scope!IInv, Scope!Empty, Scope!Fresh, Scope!Rowed, Scope!Working
  <2>3. ASSUME NEW x \in Sessions PROVE Scope!Scoped(x)'
    BY <2>3 DEF Scope!IInv, Scope!Scoped, Scope!TypeOK
  <2> QED BY <2>1, <2>2, <2>3 DEF Scope!IInv
<1>7. ASSUME NEW s \in Sessions, Scope!AssumeRole(s) PROVE Scope!IInv'
  <2> USE <1>7 DEF Scope!AssumeRole
  <2>1. /\ Scope!TypeOK' /\ Scope!NothingLeft' /\ Scope!OneBinds' /\ Scope!Made' /\ Scope!Said'
        /\ Scope!RefusalIsKept' /\ Scope!SeesOwnOnly'
    BY DEF Scope!IInv, Scope!TypeOK, Scope!NothingLeft, Scope!OneBinds, Scope!Made, Scope!Said,
           Scope!RefusalIsKept, Scope!SeesOwnOnly
  <2>2. ASSUME NEW x \in Sessions
         PROVE /\ Scope!Empty(x)' /\ Scope!Fresh(x)' /\ Scope!Rowed(x)' /\ Scope!Working(x)'
    BY <2>2 DEF Scope!IInv, Scope!Empty, Scope!Fresh, Scope!Rowed, Scope!Working
  <2>3. ASSUME NEW x \in Sessions PROVE Scope!Scoped(x)'
    BY <2>3 DEF Scope!IInv, Scope!Scoped, Scope!TypeOK
  <2> QED BY <2>1, <2>2, <2>3 DEF Scope!IInv
<1>8. ASSUME NEW s \in Sessions, Scope!ReadUnscoped(s) PROVE Scope!IInv'
  <2> USE <1>8 DEF Scope!ReadUnscoped, Scope!Owner, Scope!Visible
  <2>1. /\ Scope!NothingLeft' /\ Scope!OneBinds' /\ Scope!Made' /\ Scope!Said'
        /\ Scope!RefusalIsKept'
    BY DEF Scope!IInv, Scope!NothingLeft, Scope!OneBinds, Scope!Made, Scope!Said,
           Scope!RefusalIsKept
  <2>2. ASSUME NEW x \in Sessions
         PROVE /\ Scope!Empty(x)' /\ Scope!Fresh(x)' /\ Scope!Scoped(x)' /\ Scope!Rowed(x)'
    BY <2>2 DEF Scope!IInv, Scope!Empty, Scope!Fresh, Scope!Scoped, Scope!Rowed
  <2>3. Scope!TypeOK'
    <3>1. \A j \in journeys : who[j] \in Travelers
      BY DEF Scope!IInv, Scope!TypeOK, Scope!Made
    <3>2. {Scope!Owner(j) : j \in {k \in journeys : Scope!Visible(s, k)}} \subseteq Travelers
      BY <3>1
    <3>3. seen' \in [Sessions -> SUBSET Travelers]
      BY <3>2 DEF Scope!IInv, Scope!TypeOK
    <3>4. pc' \in [Sessions -> Scope!InTransaction \union {"idle", "record", "abandoned", "ended"}]
      BY DEF Scope!IInv, Scope!TypeOK
    <3>5. QED BY <3>3, <3>4 DEF Scope!IInv, Scope!TypeOK
  <2>4. Scope!SeesOwnOnly'
    BY DEF Scope!IInv, Scope!SeesOwnOnly, Scope!TypeOK, Scope!Made, Scope!Scoped
  <2>5. ASSUME NEW x \in Sessions PROVE Scope!Working(x)'
    BY <2>5 DEF Scope!IInv, Scope!Working, Scope!TypeOK, Scope!Made, Scope!Empty, Scope!Fresh,
                Scope!Scoped, Scope!Rowed
  <2> QED BY <2>1, <2>2, <2>3, <2>4, <2>5 DEF Scope!IInv
<1>9. ASSUME NEW s \in Sessions, Scope!TakeLock(s) PROVE Scope!IInv'
  <2> USE <1>9 DEF Scope!TakeLock
  <2>1. /\ Scope!TypeOK' /\ Scope!NothingLeft' /\ Scope!OneBinds' /\ Scope!Made' /\ Scope!Said'
        /\ Scope!RefusalIsKept' /\ Scope!SeesOwnOnly'
    BY DEF Scope!IInv, Scope!TypeOK, Scope!NothingLeft, Scope!OneBinds, Scope!Made, Scope!Said,
           Scope!RefusalIsKept, Scope!SeesOwnOnly
  <2>2. ASSUME NEW x \in Sessions
         PROVE /\ Scope!Empty(x)' /\ Scope!Fresh(x)' /\ Scope!Scoped(x)' /\ Scope!Rowed(x)'
               /\ Scope!Working(x)'
    BY <2>2 DEF Scope!IInv, Scope!Empty, Scope!Fresh, Scope!Scoped, Scope!Rowed, Scope!Working
  <2> QED BY <2>1, <2>2 DEF Scope!IInv
<1>10. ASSUME NEW s \in Sessions, Scope!Look(s) PROVE Scope!IInv'
  <2> USE <1>10 DEF Scope!Look, Scope!Bound, Scope!Owner, Scope!Visible
  <2>1. Scope!NothingLeft' /\ Scope!OneBinds' /\ Scope!Said' /\ Scope!RefusalIsKept'
    BY DEF Scope!IInv, Scope!NothingLeft, Scope!OneBinds, Scope!Said, Scope!RefusalIsKept
  <2>2. Scope!TypeOK'
    BY DEF Scope!IInv, Scope!TypeOK, Scope!NothingLeft, Scope!OneBinds, Scope!Made, Scope!Said,
           Scope!RefusalIsKept, Scope!SeesOwnOnly, Scope!Empty, Scope!Fresh, Scope!Scoped,
           Scope!Rowed, Scope!Working
  <2>3. Scope!Made'
    BY DEF Scope!IInv, Scope!Made, Scope!TypeOK
  <2>4. Scope!SeesOwnOnly'
    BY DEF Scope!IInv, Scope!SeesOwnOnly, Scope!TypeOK, Scope!Made, Scope!Scoped
  <2>5. ASSUME NEW x \in Sessions PROVE Scope!Empty(x)'
    BY <2>5 DEF Scope!IInv, Scope!Empty, Scope!TypeOK
  <2>6. ASSUME NEW x \in Sessions PROVE Scope!Fresh(x)'
    BY <2>6 DEF Scope!IInv, Scope!Fresh, Scope!TypeOK
  <2>7. ASSUME NEW x \in Sessions PROVE Scope!Scoped(x)'
    BY <2>7 DEF Scope!IInv, Scope!Scoped, Scope!TypeOK
  <2>8. ASSUME NEW x \in Sessions PROVE Scope!Rowed(x)'
    BY <2>8 DEF Scope!IInv, Scope!Rowed, Scope!TypeOK
  <2>9. ASSUME NEW x \in Sessions PROVE Scope!Working(x)'
    BY <2>9 DEF Scope!IInv, Scope!Working, Scope!TypeOK, Scope!Made, Scope!Empty, Scope!Fresh,
                Scope!Scoped, Scope!Rowed
  <2> QED BY <2>1, <2>2, <2>3, <2>4, <2>5, <2>6, <2>7, <2>8, <2>9 DEF Scope!IInv
<1>11. ASSUME NEW s \in Sessions, Scope!Create(s) PROVE Scope!IInv'
  <2> USE <1>11 DEF Scope!Create
  <2>1. /\ Scope!TypeOK' /\ Scope!NothingLeft' /\ Scope!OneBinds' /\ Scope!Made' /\ Scope!Said'
        /\ Scope!RefusalIsKept' /\ Scope!SeesOwnOnly'
    BY DEF Scope!IInv, Scope!TypeOK, Scope!NothingLeft, Scope!OneBinds, Scope!Made, Scope!Said,
           Scope!RefusalIsKept, Scope!SeesOwnOnly
  <2>2. ASSUME NEW x \in Sessions
         PROVE /\ Scope!Empty(x)' /\ Scope!Fresh(x)' /\ Scope!Scoped(x)' /\ Scope!Rowed(x)'
    BY <2>2 DEF Scope!IInv, Scope!Empty, Scope!Fresh, Scope!Scoped, Scope!Rowed
  <2>3. ASSUME NEW x \in Sessions PROVE Scope!Working(x)'
    BY <2>3 DEF Scope!IInv, Scope!Working, Scope!TypeOK, Scope!Made, Scope!Empty, Scope!Fresh,
                Scope!Scoped, Scope!Rowed
  <2> QED BY <2>1, <2>2, <2>3 DEF Scope!IInv
<1>12. ASSUME NEW s \in Sessions, Scope!Bind(s) PROVE Scope!IInv'
  <2> USE <1>12 DEF Scope!Bind, Scope!Waits
  <2>1. /\ Scope!TypeOK' /\ Scope!NothingLeft' /\ Scope!OneBinds' /\ Scope!Made' /\ Scope!Said'
        /\ Scope!RefusalIsKept' /\ Scope!SeesOwnOnly'
    BY DEF Scope!IInv, Scope!TypeOK, Scope!NothingLeft, Scope!OneBinds, Scope!Made, Scope!Said,
           Scope!RefusalIsKept, Scope!SeesOwnOnly
  <2>2. ASSUME NEW x \in Sessions
         PROVE /\ Scope!Empty(x)' /\ Scope!Fresh(x)' /\ Scope!Scoped(x)' /\ Scope!Rowed(x)'
    BY <2>2 DEF Scope!IInv, Scope!Empty, Scope!Fresh, Scope!Scoped, Scope!Rowed
  <2>3. ASSUME NEW x \in Sessions PROVE Scope!Working(x)'
    BY <2>3 DEF Scope!IInv, Scope!Working, Scope!TypeOK
  <2> QED BY <2>1, <2>2, <2>3 DEF Scope!IInv
<1>13. ASSUME NEW s \in Sessions, Scope!NotOwned(s) PROVE Scope!IInv'
  <2> USE <1>13 DEF Scope!NotOwned, Scope!End, Scope!Tell
  <2>1. /\ Scope!TypeOK' /\ Scope!NothingLeft' /\ Scope!OneBinds' /\ Scope!Made'
        /\ Scope!RefusalIsKept' /\ Scope!SeesOwnOnly'
    BY DEF Scope!IInv, Scope!TypeOK, Scope!NothingLeft, Scope!OneBinds, Scope!Made,
           Scope!RefusalIsKept, Scope!SeesOwnOnly
  <2>2. Scope!Said'
    BY DEF Scope!IInv, Scope!Said, Scope!TypeOK, Scope!Made, Scope!Working, Scope!Fresh
  <2>3. ASSUME NEW x \in Sessions PROVE Scope!Empty(x)'
    BY <2>3 DEF Scope!IInv, Scope!Empty, Scope!TypeOK
  <2>4. ASSUME NEW x \in Sessions PROVE Scope!Fresh(x)'
    BY <2>4 DEF Scope!IInv, Scope!Fresh, Scope!TypeOK
  <2>5. ASSUME NEW x \in Sessions PROVE Scope!Scoped(x)'
    BY <2>5 DEF Scope!IInv, Scope!Scoped, Scope!TypeOK
  <2>6. ASSUME NEW x \in Sessions PROVE Scope!Rowed(x)'
    BY <2>6 DEF Scope!IInv, Scope!Rowed, Scope!TypeOK
  <2>7. ASSUME NEW x \in Sessions PROVE Scope!Working(x)'
    BY <2>7 DEF Scope!IInv, Scope!Working, Scope!TypeOK
  <2> QED BY <2>1, <2>2, <2>3, <2>4, <2>5, <2>6, <2>7 DEF Scope!IInv
<1>14. ASSUME NEW s \in Sessions, Scope!Commit(s) PROVE Scope!IInv'
  <2> USE <1>14 DEF Scope!Commit, Scope!Keep, Scope!End, Scope!Tell
  <2>1. /\ Scope!TypeOK' /\ Scope!NothingLeft' /\ Scope!OneBinds' /\ Scope!RefusalIsKept'
        /\ Scope!SeesOwnOnly'
    BY DEF Scope!IInv, Scope!TypeOK, Scope!NothingLeft, Scope!OneBinds, Scope!RefusalIsKept,
           Scope!SeesOwnOnly
  <2>2. Scope!Made'
    BY DEF Scope!IInv, Scope!Made, Scope!TypeOK, Scope!OneBinds, Scope!Working
  <2>3. Scope!Said'
    BY DEF Scope!IInv, Scope!Said, Scope!TypeOK, Scope!Made, Scope!Working, Scope!Fresh
  <2>4. ASSUME NEW x \in Sessions PROVE Scope!Empty(x)'
    BY <2>4 DEF Scope!IInv, Scope!Empty, Scope!TypeOK
  <2>5. ASSUME NEW x \in Sessions PROVE Scope!Fresh(x)'
    BY <2>5 DEF Scope!IInv, Scope!Fresh, Scope!TypeOK
  <2>6. ASSUME NEW x \in Sessions PROVE Scope!Scoped(x)'
    BY <2>6 DEF Scope!IInv, Scope!Scoped, Scope!TypeOK
  <2>7. ASSUME NEW x \in Sessions PROVE Scope!Rowed(x)'
    BY <2>7 DEF Scope!IInv, Scope!Rowed, Scope!TypeOK
  <2>8. ASSUME NEW x \in Sessions PROVE Scope!Working(x)'
    BY <2>8 DEF Scope!IInv, Scope!Working, Scope!TypeOK, Scope!NothingLeft, Scope!OneBinds,
                Scope!Made, Scope!Said, Scope!RefusalIsKept, Scope!SeesOwnOnly, Scope!Empty,
                Scope!Fresh, Scope!Scoped, Scope!Rowed
  <2> QED BY <2>1, <2>2, <2>3, <2>4, <2>5, <2>6, <2>7, <2>8 DEF Scope!IInv
<1>15. ASSUME NEW s \in Sessions, Scope!Fail(s) PROVE Scope!IInv'
  <2> USE <1>15 DEF Scope!Fail, Scope!Fault, Scope!End, Scope!Tell, Scope!Keep
  <2>1. /\ Scope!TypeOK' /\ Scope!NothingLeft' /\ Scope!OneBinds' /\ Scope!RefusalIsKept'
        /\ Scope!SeesOwnOnly'
    BY DEF Scope!IInv, Scope!TypeOK, Scope!NothingLeft, Scope!OneBinds, Scope!RefusalIsKept,
           Scope!SeesOwnOnly
  <2>2. Scope!Made'
    BY DEF Scope!IInv, Scope!Made, Scope!TypeOK, Scope!OneBinds, Scope!Working
  <2>3. Scope!Said'
    BY DEF Scope!IInv, Scope!Said, Scope!TypeOK, Scope!Made, Scope!Working, Scope!Fresh
  <2>4. ASSUME NEW x \in Sessions PROVE Scope!Empty(x)'
    BY <2>4 DEF Scope!IInv, Scope!Empty, Scope!TypeOK
  <2>5. ASSUME NEW x \in Sessions PROVE Scope!Fresh(x)'
    BY <2>5 DEF Scope!IInv, Scope!Fresh, Scope!TypeOK
  <2>6. ASSUME NEW x \in Sessions PROVE Scope!Scoped(x)'
    BY <2>6 DEF Scope!IInv, Scope!Scoped, Scope!TypeOK
  <2>7. ASSUME NEW x \in Sessions PROVE Scope!Rowed(x)'
    BY <2>7 DEF Scope!IInv, Scope!Rowed, Scope!TypeOK
  <2>8. ASSUME NEW x \in Sessions PROVE Scope!Working(x)'
    BY <2>8 DEF Scope!IInv, Scope!Working, Scope!TypeOK, Scope!NothingLeft, Scope!OneBinds,
                Scope!Made, Scope!Said, Scope!RefusalIsKept, Scope!SeesOwnOnly, Scope!Empty,
                Scope!Fresh, Scope!Scoped, Scope!Rowed
  <2> QED BY <2>1, <2>2, <2>3, <2>4, <2>5, <2>6, <2>7, <2>8 DEF Scope!IInv
<1>16. ASSUME NEW s \in Sessions, Scope!Abandon(s) PROVE Scope!IInv'
  <2> USE <1>16 DEF Scope!Abandon, Scope!Fault, Scope!Tell
  <2>1. /\ Scope!TypeOK' /\ Scope!NothingLeft' /\ Scope!OneBinds' /\ Scope!Made' /\ Scope!Said'
        /\ Scope!RefusalIsKept' /\ Scope!SeesOwnOnly'
    BY DEF Scope!IInv, Scope!TypeOK, Scope!NothingLeft, Scope!OneBinds, Scope!Made, Scope!Said,
           Scope!RefusalIsKept, Scope!SeesOwnOnly
  <2>2. ASSUME NEW x \in Sessions
         PROVE /\ Scope!Empty(x)' /\ Scope!Scoped(x)' /\ Scope!Rowed(x)' /\ Scope!Working(x)'
    BY <2>2 DEF Scope!IInv, Scope!Empty, Scope!Scoped, Scope!Rowed, Scope!Working
  <2>3. ASSUME NEW x \in Sessions PROVE Scope!Fresh(x)'
    BY <2>3 DEF Scope!IInv, Scope!Fresh, Scope!TypeOK
  <2> QED BY <2>1, <2>2, <2>3 DEF Scope!IInv
<1>17. ASSUME NEW s \in Sessions, Scope!Expire(s) PROVE Scope!IInv'
  <2> USE <1>17 DEF Scope!Expire, Scope!End
  <2>1. /\ Scope!TypeOK' /\ Scope!NothingLeft' /\ Scope!OneBinds' /\ Scope!Made' /\ Scope!Said'
        /\ Scope!RefusalIsKept' /\ Scope!SeesOwnOnly'
    BY DEF Scope!IInv, Scope!TypeOK, Scope!NothingLeft, Scope!OneBinds, Scope!Made, Scope!Said,
           Scope!RefusalIsKept, Scope!SeesOwnOnly
  <2>2. ASSUME NEW x \in Sessions PROVE Scope!Fresh(x)' /\ Scope!Scoped(x)' /\ Scope!Rowed(x)'
    BY <2>2 DEF Scope!IInv, Scope!Fresh, Scope!Scoped, Scope!Rowed
  <2>3. ASSUME NEW x \in Sessions PROVE Scope!Empty(x)'
    BY <2>3 DEF Scope!IInv, Scope!Empty, Scope!TypeOK
  <2>4. ASSUME NEW x \in Sessions PROVE Scope!Working(x)'
    BY <2>4 DEF Scope!IInv, Scope!Working, Scope!TypeOK
  <2> QED BY <2>1, <2>2, <2>3, <2>4 DEF Scope!IInv
<1>18. ASSUME UNCHANGED Scope!vars PROVE Scope!IInv'
  <2> USE <1>18 DEF Scope!vars
  <2>1. /\ Scope!TypeOK' /\ Scope!NothingLeft' /\ Scope!OneBinds' /\ Scope!Made' /\ Scope!Said'
        /\ Scope!RefusalIsKept' /\ Scope!SeesOwnOnly'
    BY DEF Scope!IInv, Scope!TypeOK, Scope!NothingLeft, Scope!OneBinds, Scope!Made, Scope!Said,
           Scope!RefusalIsKept, Scope!SeesOwnOnly
  <2>2. ASSUME NEW x \in Sessions
         PROVE /\ Scope!Empty(x)' /\ Scope!Fresh(x)' /\ Scope!Scoped(x)' /\ Scope!Rowed(x)'
               /\ Scope!Working(x)'
    BY <2>2 DEF Scope!IInv, Scope!Empty, Scope!Fresh, Scope!Scoped, Scope!Rowed, Scope!Working
  <2> QED BY <2>1, <2>2 DEF Scope!IInv
<1> QED BY <1>1, <1>2, <1>3, <1>4, <1>5, <1>6, <1>7, <1>8, <1>9, <1>10, <1>11, <1>12, <1>13, <1>14,
   <1>15, <1>16, <1>17, <1>18 DEF Scope!Next, Scope!Begins

\* Before any session opens there is no row, no journey and no lock, so the invariant holds.
LEMMA ScopeInit == ASSUME Scope!NobodyIsNobody, Scope!BoundsAreNatural, Scope!Init PROVE Scope!IInv
<1>1. Scope!TypeOK
  BY DEF Scope!Init, Scope!TypeOK
<1>2. /\ Scope!NothingLeft /\ Scope!OneBinds /\ Scope!Made
      /\ Scope!Said /\ Scope!RefusalIsKept /\ Scope!SeesOwnOnly
  BY DEF Scope!Init, Scope!NothingLeft, Scope!OneBinds, Scope!Made, Scope!Said,
         Scope!RefusalIsKept, Scope!SeesOwnOnly
<1>3. ASSUME NEW s \in Sessions
      PROVE /\ Scope!Empty(s) /\ Scope!Fresh(s) /\ Scope!Scoped(s)
            /\ Scope!Rowed(s) /\ Scope!Working(s)
  BY <1>3 DEF Scope!Init, Scope!Empty, Scope!Fresh, Scope!Scoped, Scope!Rowed, Scope!Working
<1>4. QED BY <1>1, <1>2, <1>3 DEF Scope!IInv

\* A scoped session acts for its traveler alone, and its audit row outlives its refusal.
ScopePromise ==
    /\ Scope!TypeOK
    /\ Scope!SeesOwnOnly
    /\ Scope!RefusalIsKept
    /\ Scope!EffectsAreAudited
    /\ Scope!NoOrphanJourney
    /\ Scope!NotOwnedIsTrue
    /\ Scope!EndedHoldsNoLock

\* What the invariant says of what sessions see and leave behind.
LEMMA ScopeSays == ASSUME Scope!NobodyIsNobody, Scope!IInv
  PROVE ScopePromise
<1>1. Scope!TypeOK /\ Scope!SeesOwnOnly /\ Scope!RefusalIsKept
  BY DEF Scope!IInv
<1>2. Scope!EffectsAreAudited /\ Scope!NoOrphanJourney
  BY DEF Scope!IInv, Scope!Made, Scope!EffectsAreAudited, Scope!NoOrphanJourney
<1>3. Scope!NotOwnedIsTrue
  BY DEF Scope!IInv, Scope!Said, Scope!NotOwnedIsTrue
<1>4. Scope!EndedHoldsNoLock
  BY DEF Scope!IInv, Scope!Empty, Scope!EndedHoldsNoLock
<1>5. QED BY <1>1, <1>2, <1>3, <1>4 DEF ScopePromise

\* A scoped session acts for its traveler alone, on either side of the Gateway and on whatever
\* pooled connection, for any number of sessions, travelers, faults and changed grants: it shows no
\* other traveler's rows, its refusal left a deny row, a journey has the allow row of its maker and
\* is the one its thread is bound to, only another traveler is refused a thread, and a session that
\* ended blocks nobody (scoped_session, ensure_journey).
THEOREM ScopeKept == ASSUME Scope!NobodyIsNobody, Scope!BoundsAreNatural
  PROVE Scope!Spec => []ScopePromise
<1>1. Scope!Init => Scope!IInv
  BY ScopeInit
<1>2. Scope!IInv /\ [Scope!Next]_(Scope!vars) => Scope!IInv'
  BY ScopeStep
<1>3. Scope!IInv => ScopePromise
  BY ScopeSays
<1>4. QED BY <1>1, <1>2, <1>3, PTL DEF Scope!Spec

-----------------------------------------------------------------------------
(* A governed turn. *)

CONSTANT MaxCancels
VARIABLES operation, thread, attempt, progress, decision, runtime, gateway, wire, error, cancels,
          pending, remembered, answer
Turn == INSTANCE GovernedTurn

USE DEF Turn!MaxCancelsAssumption, Turn!Attempts, Turn!Spans, Turn!NoRow, Turn!AnsweredPhases,
        Turn!CallErrors, Turn!Refusals, Turn!Settling, Turn!Causes, Turn!Confirmed, Turn!Returned,
        Turn!invoke, Turn!agent, Turn!kept

\* A RuntimeDecision.
Decisions == [call: Turn!Spans, placed: BOOLEAN, refused: BOOLEAN,
              policyDenied: BOOLEAN, message: BOOLEAN]

\* Any event leaves a decision.
LEMMA ApplyType == ASSUME NEW e \in Turn!Events, decision \in Decisions
  PROVE Turn!Apply(e) \in Decisions
<1>1. CASE e = "started"
  BY <1>1 DEF Turn!Apply, Decisions
<1>2. CASE e \in Turn!Spans
  BY <1>2 DEF Turn!Apply, Decisions
<1>3. CASE e = "placed"
  BY <1>3 DEF Turn!Apply, Decisions
<1>4. CASE e = "unplaced"
  BY <1>4 DEF Turn!Apply, Decisions
<1>5. CASE e = "unplaced_by_policy"
  BY <1>5 DEF Turn!Apply, Decisions
<1>6. CASE e = "result"
  BY <1>6 DEF Turn!Apply, Decisions
<1>7. CASE e \in {"failed", "expired"}
  BY <1>7 DEF Turn!Apply, Decisions
<1>8. QED BY <1>1, <1>2, <1>3, <1>4, <1>5, <1>6, <1>7 DEF Turn!Events

\* What an event changes of the decision: the call's fate, the settling and the message.
LEMMA ApplyField == ASSUME NEW e \in Turn!Events, decision \in Decisions PROVE
   /\ Turn!Apply(e).call = (IF e = "started" THEN "error"
                       ELSE IF e \in Turn!Spans THEN e ELSE decision.call)
   /\ Turn!Apply(e).placed = (e = "placed" \/ (decision.placed /\ e \notin Turn!Refusals))
   /\ Turn!Apply(e).refused = (e \in Turn!Refusals \/ (decision.refused /\ e # "placed"))
   /\ Turn!Apply(e).message = (e = "result" \/ decision.message)
<1>1. CASE e = "started"
  BY <1>1 DEF Turn!Apply, Decisions
<1>2. CASE e \in Turn!Spans
  BY <1>2 DEF Turn!Apply, Decisions
<1>3. CASE e = "placed"
  BY <1>3 DEF Turn!Apply, Decisions
<1>4. CASE e = "unplaced"
  BY <1>4 DEF Turn!Apply, Decisions
<1>5. CASE e = "unplaced_by_policy"
  BY <1>5 DEF Turn!Apply, Decisions
<1>6. CASE e = "result"
  BY <1>6 DEF Turn!Apply, Decisions
<1>7. CASE e \in {"failed", "expired"}
  BY <1>7 DEF Turn!Apply, Decisions
<1>8. QED BY <1>1, <1>2, <1>3, <1>4, <1>5, <1>6, <1>7 DEF Turn!Events

\* Events that are sent come after those on the wire.
LEMMA Emitted == ASSUME Turn!TypeOK, NEW e \in Seq(Turn!Events), Turn!Emit(1, e) PROVE
  /\ Len(wire'[1]) = Len(wire[1]) + Len(e)
  /\ \A i \in 1..Len(wire[1]) : wire'[1][i] = wire[1][i]
  /\ \A i \in 1..Len(e) : wire'[1][Len(wire[1]) + i] = e[i]
  /\ \A i \in 1..Len(wire'[1]) : i <= Len(wire[1]) \/ (i - Len(wire[1]) \in 1..Len(e) /\ wire'[1][i] = e[i - Len(wire[1])])
<1>1. wire[1] \in Seq(Turn!Events) /\ wire'[1] = wire[1] \o e
  BY DEF Turn!TypeOK, Turn!Emit
<1>2. QED BY <1>1

\* Reading takes the first event off the wire and changes nothing the event speaks of.
LEMMA EventRead == ASSUME Turn!TypeOK, Turn!OneAttempt, Turn!Confirmed, Turn!ReadEvent PROVE
  /\ wire[1] \in Seq(Turn!Events) /\ Len(wire[1]) > 0 /\ Len(wire'[1]) = Len(wire[1]) - 1
  /\ \A i \in 1..Len(wire'[1]) : wire'[1][i] = wire[1][i + 1]
  /\ UNCHANGED <<operation, runtime, gateway, error>>
<1>1. attempt = 1 /\ wire[1] \in Seq(Turn!Events) /\ wire[1] # <<>> /\ wire'[1] = Tail(wire[1])
  BY DEF Turn!TypeOK, Turn!OneAttempt, Turn!ReadEvent
<1>2. UNCHANGED <<operation, runtime, gateway, error>>
  BY DEF Turn!ReadEvent
<1>3. QED BY <1>1, <1>2

\* The event that is read is the one the decision takes in.
LEMMA EventApplied == ASSUME Turn!TypeOK, Turn!OneAttempt, Turn!Confirmed, Turn!ReadEvent, NEW e,
                             e = wire[1][1]
  PROVE
  /\ e \in Turn!Events
  /\ decision'.call = (IF e = "started" THEN "error"
                      ELSE IF e \in Turn!Spans THEN e ELSE decision.call)
  /\ decision'.placed = (e = "placed" \/ (decision.placed /\ e \notin Turn!Refusals))
  /\ decision'.refused = (e \in Turn!Refusals \/ (decision.refused /\ e # "placed"))
  /\ decision'.message = (e = "result" \/ decision.message)
  /\ thread' = "credential" => e = "expired"
<1>1. attempt = 1 /\ wire[1] \in Seq(Turn!Events) /\ wire[1] # <<>> /\ e = Head(wire[1])
  BY DEF Turn!TypeOK, Turn!OneAttempt, Turn!ReadEvent
<1>2. e \in Turn!Events /\ decision' = Turn!Apply(e) /\ decision \in Decisions
  BY <1>1 DEF Turn!ReadEvent, Turn!TypeOK, Decisions
<1>3. thread' = "credential" => e = "expired"
  BY <1>1 DEF Turn!ReadEvent
<1>4. QED BY <1>2, <1>3, ApplyField

\* Reading keeps the types of the wire and of the decision.
LEMMA ReadTyped == ASSUME Turn!TypeOK, Turn!ReadEvent
  PROVE wire' \in [Turn!Attempts -> Seq(Turn!Events)] /\ decision' \in Decisions
<1>1. wire[attempt] \in Seq(Turn!Events) /\ wire[attempt] # <<>>
  BY DEF Turn!ReadEvent, Turn!TypeOK
<1>2. Head(wire[attempt]) \in Turn!Events /\ Tail(wire[attempt]) \in Seq(Turn!Events)
  BY <1>1
<1>3. wire' \in [Turn!Attempts -> Seq(Turn!Events)]
  BY <1>2 DEF Turn!ReadEvent, Turn!TypeOK
<1>4. decision' = Turn!Apply(Head(wire[attempt])) /\ decision \in Decisions
  BY DEF Turn!ReadEvent, Turn!TypeOK, Decisions
<1>5. QED BY <1>2, <1>3, <1>4, ApplyType

\* Before the Gateway's call is answered no refusal was reported.
LEMMA NoRefusalYet == ASSUME Turn!IInv, Turn!Confirmed, runtime[1] \notin Turn!AnsweredPhases PROVE
  ~decision.refused /\ \A i \in 1..Len(wire[1]) : wire[1][i] \notin Turn!Refusals
  BY DEF Turn!IInv, Turn!EventsAreBacked, Turn!DecisionIsBacked, Turn!Backed

\* Lists of events in which a refusal comes last, and right after its cause.
SaidLast(e) == \A i \in 1..Len(e) : e[i] \in Turn!Refusals => i = Len(e)
HasCause(e) == \A i \in 1..Len(e) : e[i] \in Turn!Refusals => i > 1 /\ e[i - 1] \in Turn!Causes

\* Events in which each refusal follows its cause keep it so on the wire.
LEMMA EmitHasCause == ASSUME Turn!IInv, Turn!Confirmed, NEW e \in Seq(Turn!Events), Turn!Emit(1,
                             e), HasCause(e), UNCHANGED decision
  PROVE Turn!RefusalHasCause'
<1>1. /\ wire[1] \in Seq(Turn!Events) /\ Len(wire'[1]) = Len(wire[1]) + Len(e)
      /\ \A i \in 1..Len(wire[1]) : wire'[1][i] = wire[1][i]
      /\ \A i \in 1..Len(e) : wire'[1][Len(wire[1]) + i] = e[i]
  BY Emitted DEF Turn!IInv, Turn!TypeOK
<1>2. \A i \in 1..Len(wire[1]) : wire[1][i] \in Turn!Refusals =>
          (IF i = 1 THEN decision.call ELSE wire[1][i - 1]) \in Turn!Causes
  BY DEF Turn!IInv, Turn!RefusalHasCause
<1>3. SUFFICES ASSUME NEW i \in 1..Len(wire'[1]), wire'[1][i] \in Turn!Refusals
               PROVE (IF i = 1 THEN decision.call ELSE wire'[1][i - 1]) \in Turn!Causes
  BY DEF Turn!RefusalHasCause
<1> DEFINE n == Len(wire[1])  k == i - n
<1>4. n \in Nat /\ Len(e) \in Nat
  BY <1>1
<1>5. CASE i = 1 /\ i <= n
  BY <1>1, <1>2, <1>3, <1>4, <1>5
<1>6. CASE i # 1 /\ i <= n
  <2>1. i \in 1..n /\ i - 1 \in 1..n
    BY <1>1, <1>4, <1>6
  <2>2. wire'[1][i] = wire[1][i] /\ wire'[1][i - 1] = wire[1][i - 1]
    BY <2>1, <1>1
  <2>3. QED BY <1>2, <1>3, <1>6, <2>1, <2>2
<1>7. CASE i > n
  <2>1. k \in 1..Len(e) /\ i = n + k
    BY <1>1, <1>4, <1>7
  <2>2. e[k] \in Turn!Refusals
    BY <2>1, <1>1, <1>3
  <2>3. k > 1 /\ e[k - 1] \in Turn!Causes /\ k - 1 \in 1..Len(e) /\ i - 1 = n + (k - 1)
    BY <2>1, <2>2, <1>4 DEF HasCause
  <2>4. wire'[1][i - 1] = e[k - 1]
    BY <2>3, <1>1
  <2>5. QED BY <2>3, <2>4, <1>4
<1>8. QED BY <1>1, <1>4, <1>5, <1>6, <1>7

\* Events in which a refusal is the last keep it so on the wire.
LEMMA EmitIsLast == ASSUME Turn!IInv, Turn!Confirmed, runtime[1] \notin Turn!AnsweredPhases,
                           NEW e \in Seq(Turn!Events), Turn!Emit(1, e),
      SaidLast(e), UNCHANGED decision
  PROVE Turn!RefusalIsLast'
<1>1. /\ wire[1] \in Seq(Turn!Events) /\ Len(wire'[1]) = Len(wire[1]) + Len(e)
      /\ \A i \in 1..Len(wire[1]) : wire'[1][i] = wire[1][i]
      /\ \A i \in 1..Len(e) : wire'[1][Len(wire[1]) + i] = e[i]
  BY Emitted DEF Turn!IInv, Turn!TypeOK
<1>2. ~decision'.refused /\ \A i \in 1..Len(wire[1]) : wire[1][i] \notin Turn!Refusals
  BY NoRefusalYet
<1>3. ASSUME NEW i \in 1..Len(wire'[1]), wire'[1][i] \in Turn!Refusals PROVE i = Len(wire'[1])
  <2>1. i \notin 1..Len(wire[1])
    BY <1>1, <1>2, <1>3
  <2>2. i - Len(wire[1]) \in 1..Len(e) /\ i = Len(wire[1]) + (i - Len(wire[1]))
    BY <1>1, <2>1
  <2>3. QED BY <1>1, <1>3, <2>2 DEF SaidLast
<1>4. Len(wire'[1]) \in Nat
  BY <1>1
<1>5. QED BY <1>2, <1>3, <1>4 DEF Turn!RefusalIsLast

\* What an answered call reports has its refusal last, and after its cause.
LEMMA OutcomeSays == ASSUME NEW a \in Turn!Attempts
  PROVE Turn!Outcome(a) \in Seq(Turn!Events) /\ SaidLast(Turn!Outcome(a)) /\ HasCause(Turn!Outcome(a))
<1>1. Turn!Outcome(a) \in {<<"allowed">>, <<"error">>, <<"placed", "allowed">>,
                      <<"denied", "unplaced_by_policy">>, <<"refused", "unplaced">>, <<"error", "unplaced">>}
  BY DEF Turn!Outcome
<1>2. ASSUME NEW x \in {"allowed", "error"}
      PROVE <<x>> \in Seq(Turn!Events) /\ SaidLast(<<x>>) /\ HasCause(<<x>>)
  BY <1>2 DEF SaidLast, HasCause, Turn!Events
<1>3. <<"placed", "allowed">> \in Seq(Turn!Events) /\ SaidLast(<<"placed", "allowed">>) /\ HasCause(<<"placed", "allowed">>)
  BY DEF SaidLast, HasCause, Turn!Events
<1>4. ASSUME NEW x \in Turn!Causes, NEW y \in Turn!Refusals
      PROVE <<x, y>> \in Seq(Turn!Events) /\ SaidLast(<<x, y>>) /\ HasCause(<<x, y>>)
  <2>1. x \notin Turn!Refusals /\ x \in Turn!Events /\ y \in Turn!Events
    BY <1>4 DEF Turn!Events
  <2>2. Len(<<x, y>>) = 2 /\ <<x, y>>[1] = x /\ <<x, y>>[2] = y
    OBVIOUS
  <2>3. QED BY <1>4, <2>1, <2>2 DEF SaidLast, HasCause
<1>5. QED BY <1>1, <1>2, <1>3, <1>4


\* Each action keeps the invariant.
LEMMA TurnStep == ASSUME Turn!MaxCancelsAssumption, Turn!IInv, [Turn!Next]_(Turn!vars)
  PROVE Turn!IInv'
<1>1. ASSUME Turn!Authorize PROVE Turn!IInv'
  <2> USE <1>1 DEF Turn!Authorize, Turn!Over
  <2>1. /\ Turn!TypeOK' /\ Turn!OneAttempt' /\ Turn!EventsAreBacked' /\ Turn!DecisionIsBacked'
        /\ Turn!RefusalIsLast' /\ Turn!RefusalHasCause' /\ Turn!ResultIsSettled' /\ Turn!Phases'
        /\ Turn!RowSays' /\ Turn!PlacedIsWritten' /\ Turn!RememberedIsAudited'
    BY DEF Turn!IInv, Turn!TypeOK, Turn!Events, Turn!OneAttempt, Turn!EventsAreBacked, Turn!Backed,
           Turn!DecisionIsBacked, Turn!RefusalIsLast, Turn!RefusalHasCause, Turn!ResultIsSettled,
           Turn!Settled, Turn!Phases, Turn!RowSays, Turn!PlacedIsWritten, Turn!Written,
           Turn!RememberedIsAudited
  <2>2. Turn!NotSent'
    BY DEF Turn!IInv, Turn!NotSent, Turn!TypeOK, Turn!Events, Turn!OneAttempt, Turn!Phases
  <2>3. Turn!AllowStands'
    BY DEF Turn!IInv, Turn!AllowStands, Turn!TypeOK, Turn!Events, Turn!Phases
  <2>4. Turn!Reasons'
    BY DEF Turn!IInv, Turn!Reasons, Turn!TypeOK, Turn!Events, Turn!Phases, Turn!ResultIsSettled,
           Turn!Settled
  <2>5. Turn!RowBeforeTheEnd'
    BY DEF Turn!IInv, Turn!RowBeforeTheEnd, Turn!TypeOK, Turn!Events, Turn!Phases
  <2> QED BY <2>1, <2>2, <2>3, <2>4, <2>5 DEF Turn!IInv
<1>2. ASSUME Turn!Return PROVE Turn!IInv'
  <2> USE <1>2 DEF Turn!Return
  <2>1. /\ Turn!TypeOK' /\ Turn!OneAttempt' /\ Turn!NotSent' /\ Turn!EventsAreBacked'
        /\ Turn!DecisionIsBacked' /\ Turn!RefusalIsLast' /\ Turn!RefusalHasCause'
        /\ Turn!ResultIsSettled' /\ Turn!Phases' /\ Turn!RowSays' /\ Turn!AllowStands'
        /\ Turn!Reasons' /\ Turn!PlacedIsWritten' /\ Turn!RememberedIsAudited'
        /\ Turn!RowBeforeTheEnd'
    BY DEF Turn!IInv, Turn!TypeOK, Turn!Events, Turn!OneAttempt, Turn!NotSent,
           Turn!EventsAreBacked, Turn!Backed, Turn!DecisionIsBacked, Turn!RefusalIsLast,
           Turn!RefusalHasCause, Turn!ResultIsSettled, Turn!Settled, Turn!Phases, Turn!RowSays,
           Turn!AllowStands, Turn!Reasons, Turn!PlacedIsWritten, Turn!Written,
           Turn!RememberedIsAudited, Turn!RowBeforeTheEnd
  <2> QED BY <2>1 DEF Turn!IInv
<1>3. ASSUME Turn!CallFails PROVE Turn!IInv'
  <2> USE <1>3 DEF Turn!CallFails
  <2>1. /\ Turn!TypeOK' /\ Turn!OneAttempt' /\ Turn!NotSent' /\ Turn!EventsAreBacked'
        /\ Turn!DecisionIsBacked' /\ Turn!RefusalIsLast' /\ Turn!RefusalHasCause'
        /\ Turn!ResultIsSettled' /\ Turn!Phases' /\ Turn!RowSays' /\ Turn!AllowStands'
        /\ Turn!Reasons' /\ Turn!PlacedIsWritten' /\ Turn!RememberedIsAudited'
        /\ Turn!RowBeforeTheEnd'
    BY DEF Turn!IInv, Turn!TypeOK, Turn!Events, Turn!OneAttempt, Turn!NotSent,
           Turn!EventsAreBacked, Turn!Backed, Turn!DecisionIsBacked, Turn!RefusalIsLast,
           Turn!RefusalHasCause, Turn!ResultIsSettled, Turn!Settled, Turn!Phases, Turn!RowSays,
           Turn!AllowStands, Turn!Reasons, Turn!PlacedIsWritten, Turn!Written,
           Turn!RememberedIsAudited, Turn!RowBeforeTheEnd
  <2> QED BY <2>1 DEF Turn!IInv
<1>4. ASSUME Turn!Trace PROVE Turn!IInv'
  <2> USE <1>4 DEF Turn!Trace
  <2>1. /\ Turn!TypeOK' /\ Turn!OneAttempt' /\ Turn!NotSent' /\ Turn!EventsAreBacked'
        /\ Turn!DecisionIsBacked' /\ Turn!RefusalIsLast' /\ Turn!RefusalHasCause'
        /\ Turn!ResultIsSettled' /\ Turn!Phases' /\ Turn!RowSays' /\ Turn!PlacedIsWritten'
        /\ Turn!RememberedIsAudited' /\ Turn!RowBeforeTheEnd'
    BY DEF Turn!IInv, Turn!TypeOK, Turn!Events, Turn!OneAttempt, Turn!NotSent,
           Turn!EventsAreBacked, Turn!Backed, Turn!DecisionIsBacked, Turn!RefusalIsLast,
           Turn!RefusalHasCause, Turn!ResultIsSettled, Turn!Settled, Turn!Phases, Turn!RowSays,
           Turn!PlacedIsWritten, Turn!Written, Turn!RememberedIsAudited, Turn!RowBeforeTheEnd
  <2>2. Turn!AllowStands'
    BY DEF Turn!IInv, Turn!AllowStands, Turn!TypeOK, Turn!Events, Turn!Phases
  <2>3. Turn!Reasons'
    BY DEF Turn!IInv, Turn!Reasons, Turn!TypeOK, Turn!Events, Turn!Phases, Turn!ResultIsSettled,
           Turn!Settled
  <2> QED BY <2>1, <2>2, <2>3 DEF Turn!IInv
<1>5. ASSUME Turn!Hydrate PROVE Turn!IInv'
  <2> USE <1>5 DEF Turn!Hydrate
  <2>1. /\ Turn!TypeOK' /\ Turn!OneAttempt' /\ Turn!NotSent' /\ Turn!EventsAreBacked'
        /\ Turn!DecisionIsBacked' /\ Turn!RefusalIsLast' /\ Turn!RefusalHasCause'
        /\ Turn!ResultIsSettled' /\ Turn!Phases' /\ Turn!RowSays' /\ Turn!PlacedIsWritten'
        /\ Turn!RememberedIsAudited' /\ Turn!RowBeforeTheEnd'
    BY DEF Turn!IInv, Turn!TypeOK, Turn!Events, Turn!OneAttempt, Turn!NotSent,
           Turn!EventsAreBacked, Turn!Backed, Turn!DecisionIsBacked, Turn!RefusalIsLast,
           Turn!RefusalHasCause, Turn!ResultIsSettled, Turn!Settled, Turn!Phases, Turn!RowSays,
           Turn!PlacedIsWritten, Turn!Written, Turn!RememberedIsAudited, Turn!RowBeforeTheEnd
  <2>2. Turn!AllowStands'
    BY DEF Turn!IInv, Turn!AllowStands, Turn!TypeOK, Turn!Events, Turn!Phases
  <2>3. Turn!Reasons'
    BY DEF Turn!IInv, Turn!Reasons, Turn!TypeOK, Turn!Events, Turn!Phases, Turn!ResultIsSettled,
           Turn!Settled
  <2> QED BY <2>1, <2>2, <2>3 DEF Turn!IInv
<1>6. ASSUME Turn!BeginAudit PROVE Turn!IInv'
  <2> USE <1>6 DEF Turn!BeginAudit, Turn!StartAudit, Turn!Verdict, Turn!Calls
  <2>1. /\ Turn!TypeOK' /\ Turn!OneAttempt' /\ Turn!NotSent' /\ Turn!EventsAreBacked'
        /\ Turn!DecisionIsBacked' /\ Turn!RefusalIsLast' /\ Turn!RefusalHasCause'
        /\ Turn!ResultIsSettled' /\ Turn!Phases' /\ Turn!AllowStands' /\ Turn!Reasons'
        /\ Turn!PlacedIsWritten' /\ Turn!RowBeforeTheEnd'
    BY DEF Turn!IInv, Turn!TypeOK, Turn!Events, Turn!OneAttempt, Turn!NotSent,
           Turn!EventsAreBacked, Turn!Backed, Turn!DecisionIsBacked, Turn!RefusalIsLast,
           Turn!RefusalHasCause, Turn!ResultIsSettled, Turn!Settled, Turn!Phases, Turn!AllowStands,
           Turn!Reasons, Turn!PlacedIsWritten, Turn!Written, Turn!RowBeforeTheEnd
  <2>2. Turn!RowSays'
    BY DEF Turn!IInv, Turn!RowSays, Turn!Backed, Turn!TypeOK, Turn!Events, Turn!DecisionIsBacked,
           Turn!OneAttempt
  <2>3. Turn!RememberedIsAudited'
    BY DEF Turn!IInv, Turn!RememberedIsAudited, Turn!TypeOK, Turn!Events, Turn!Phases
  <2> QED BY <2>1, <2>2, <2>3 DEF Turn!IInv
<1>7. ASSUME Turn!AuditWaited PROVE Turn!IInv'
  <2> USE <1>7 DEF Turn!AuditWaited, Turn!AuditEnded, Turn!Over, Turn!ReplyToFailedCall,
                   Turn!RowFailed, Turn!ReplyToFailedStep, Turn!Remembers, Turn!Placed,
                   Turn!OutcomeUnknown
  <2>1. /\ Turn!TypeOK' /\ Turn!OneAttempt' /\ Turn!NotSent' /\ Turn!EventsAreBacked'
        /\ Turn!DecisionIsBacked' /\ Turn!RefusalIsLast' /\ Turn!RefusalHasCause'
        /\ Turn!ResultIsSettled' /\ Turn!Phases' /\ Turn!RowSays' /\ Turn!AllowStands'
        /\ Turn!RememberedIsAudited' /\ Turn!RowBeforeTheEnd'
    BY DEF Turn!IInv, Turn!TypeOK, Turn!Events, Turn!OneAttempt, Turn!NotSent,
           Turn!EventsAreBacked, Turn!Backed, Turn!DecisionIsBacked, Turn!RefusalIsLast,
           Turn!RefusalHasCause, Turn!ResultIsSettled, Turn!Settled, Turn!Phases, Turn!RowSays,
           Turn!AllowStands, Turn!RememberedIsAudited, Turn!RowBeforeTheEnd
  <2>2. Turn!Reasons'
    BY DEF Turn!IInv, Turn!Reasons, Turn!TypeOK, Turn!Events, Turn!Phases, Turn!ResultIsSettled,
           Turn!Settled
  <2>3. Turn!PlacedIsWritten'
    BY DEF Turn!IInv, Turn!PlacedIsWritten, Turn!Written, Turn!TypeOK, Turn!Events,
           Turn!DecisionIsBacked, Turn!Backed, Turn!Phases, Turn!OneAttempt
  <2> QED BY <2>1, <2>2, <2>3 DEF Turn!IInv
<1>8. ASSUME Turn!Remember PROVE Turn!IInv'
  <2> USE <1>8 DEF Turn!Remember, Turn!Over, Turn!ReplyToFailedStep, Turn!Placed
  <2>1. /\ Turn!OneAttempt' /\ Turn!NotSent' /\ Turn!EventsAreBacked' /\ Turn!DecisionIsBacked'
        /\ Turn!RefusalIsLast' /\ Turn!RefusalHasCause' /\ Turn!ResultIsSettled' /\ Turn!Phases'
        /\ Turn!RowSays' /\ Turn!AllowStands'
    BY DEF Turn!IInv, Turn!OneAttempt, Turn!NotSent, Turn!EventsAreBacked, Turn!Backed,
           Turn!DecisionIsBacked, Turn!RefusalIsLast, Turn!RefusalHasCause, Turn!ResultIsSettled,
           Turn!Settled, Turn!Phases, Turn!RowSays, Turn!AllowStands
  <2>2. Turn!TypeOK'
    <3>1. UNCHANGED <<operation, thread, attempt, progress, decision, runtime, gateway, wire, row,
                      cancels, pending>>
      OBVIOUS
    <3>2. /\ pc' \in {"log", "over"} /\ remembered' \in BOOLEAN /\ error' \in {error, "memory"}
          /\ answer' \in {answer, "unfinished", "failed"}
      BY DEF Turn!IInv, Turn!TypeOK
    <3> HIDE <1>8
    <3>9. QED BY <3>1, <3>2 DEF Turn!IInv, Turn!TypeOK
  <2>3. Turn!Reasons'
    BY DEF Turn!IInv, Turn!Reasons, Turn!TypeOK, Turn!Events, Turn!Phases, Turn!ResultIsSettled,
           Turn!Settled
  <2>4. Turn!PlacedIsWritten'
    BY DEF Turn!IInv, Turn!PlacedIsWritten, Turn!Written, Turn!TypeOK, Turn!Events,
           Turn!DecisionIsBacked, Turn!Backed, Turn!Phases, Turn!OneAttempt
  <2>5. Turn!RememberedIsAudited'
    BY DEF Turn!IInv, Turn!RememberedIsAudited, Turn!TypeOK, Turn!Events, Turn!Phases
  <2>6. Turn!RowBeforeTheEnd'
    BY DEF Turn!IInv, Turn!RowBeforeTheEnd, Turn!TypeOK, Turn!Events, Turn!Phases
  <2> QED BY <2>1, <2>2, <2>3, <2>4, <2>5, <2>6 DEF Turn!IInv
<1>9. ASSUME Turn!Log PROVE Turn!IInv'
  <2> USE <1>9 DEF Turn!Log, Turn!Over, Turn!Reply, Turn!ReplyToFailedStep, Turn!Placed
  <2>1. /\ Turn!TypeOK' /\ Turn!OneAttempt' /\ Turn!NotSent' /\ Turn!EventsAreBacked'
        /\ Turn!DecisionIsBacked' /\ Turn!RefusalIsLast' /\ Turn!RefusalHasCause'
        /\ Turn!ResultIsSettled' /\ Turn!Phases' /\ Turn!RowSays' /\ Turn!RememberedIsAudited'
    BY DEF Turn!IInv, Turn!TypeOK, Turn!Events, Turn!OneAttempt, Turn!NotSent,
           Turn!EventsAreBacked, Turn!Backed, Turn!DecisionIsBacked, Turn!RefusalIsLast,
           Turn!RefusalHasCause, Turn!ResultIsSettled, Turn!Settled, Turn!Phases, Turn!RowSays,
           Turn!RememberedIsAudited
  <2>2. Turn!AllowStands'
    BY DEF Turn!IInv, Turn!AllowStands, Turn!TypeOK, Turn!Events, Turn!Phases
  <2>3. Turn!Reasons'
    BY DEF Turn!IInv, Turn!Reasons, Turn!TypeOK, Turn!Events, Turn!Phases, Turn!ResultIsSettled,
           Turn!Settled
  <2>4. Turn!PlacedIsWritten'
    BY DEF Turn!IInv, Turn!PlacedIsWritten, Turn!Written, Turn!TypeOK, Turn!Events,
           Turn!DecisionIsBacked, Turn!Backed, Turn!Phases, Turn!OneAttempt
  <2>5. Turn!RowBeforeTheEnd'
    BY DEF Turn!IInv, Turn!RowBeforeTheEnd, Turn!TypeOK, Turn!Events, Turn!Phases
  <2> QED BY <2>1, <2>2, <2>3, <2>4, <2>5 DEF Turn!IInv
<1>10. ASSUME Turn!Send PROVE Turn!IInv'
  <2> USE <1>10 DEF Turn!Send
  <2>1. /\ Turn!TypeOK' /\ Turn!RefusalIsLast' /\ Turn!RefusalHasCause' /\ Turn!Phases'
        /\ Turn!AllowStands' /\ Turn!Reasons' /\ Turn!PlacedIsWritten' /\ Turn!RememberedIsAudited'
        /\ Turn!RowBeforeTheEnd'
    BY DEF Turn!IInv, Turn!TypeOK, Turn!Events, Turn!RefusalIsLast, Turn!RefusalHasCause,
           Turn!Phases, Turn!AllowStands, Turn!Reasons, Turn!PlacedIsWritten, Turn!Written,
           Turn!RememberedIsAudited, Turn!RowBeforeTheEnd
  <2>2. Turn!OneAttempt'
    BY DEF Turn!IInv, Turn!OneAttempt, Turn!TypeOK, Turn!Events
  <2>3. Turn!NotSent'
    BY DEF Turn!IInv, Turn!NotSent, Turn!TypeOK, Turn!Events, Turn!OneAttempt, Turn!Phases
  <2>4. Turn!EventsAreBacked'
    BY DEF Turn!IInv, Turn!EventsAreBacked, Turn!Backed, Turn!TypeOK, Turn!Events, Turn!OneAttempt,
           Turn!NotSent
  <2>5. Turn!DecisionIsBacked'
    BY DEF Turn!IInv, Turn!DecisionIsBacked, Turn!Backed, Turn!TypeOK, Turn!Events,
           Turn!OneAttempt, Turn!NotSent, Turn!EventsAreBacked, Turn!Phases
  <2>6. Turn!ResultIsSettled'
    BY DEF Turn!IInv, Turn!ResultIsSettled, Turn!Settled, Turn!TypeOK, Turn!Events
  <2>7. Turn!RowSays'
    BY DEF Turn!IInv, Turn!RowSays, Turn!Backed, Turn!TypeOK, Turn!Events
  <2> QED BY <2>1, <2>2, <2>3, <2>4, <2>5, <2>6, <2>7 DEF Turn!IInv
<1>11. ASSUME Turn!SendRefused PROVE Turn!IInv'
  <2> USE <1>11 DEF Turn!SendRefused
  <2>1. /\ Turn!OneAttempt' /\ Turn!NotSent' /\ Turn!EventsAreBacked' /\ Turn!DecisionIsBacked'
        /\ Turn!RefusalIsLast' /\ Turn!RefusalHasCause' /\ Turn!ResultIsSettled' /\ Turn!Phases'
        /\ Turn!RowSays' /\ Turn!AllowStands' /\ Turn!Reasons' /\ Turn!PlacedIsWritten'
        /\ Turn!RememberedIsAudited' /\ Turn!RowBeforeTheEnd'
    BY DEF Turn!IInv, Turn!OneAttempt, Turn!NotSent, Turn!EventsAreBacked, Turn!Backed,
           Turn!DecisionIsBacked, Turn!RefusalIsLast, Turn!RefusalHasCause, Turn!ResultIsSettled,
           Turn!Settled, Turn!Phases, Turn!RowSays, Turn!AllowStands, Turn!Reasons,
           Turn!PlacedIsWritten, Turn!Written, Turn!RememberedIsAudited, Turn!RowBeforeTheEnd
  <2>2. Turn!TypeOK'
    <3>1. UNCHANGED <<operation, pc, attempt, decision, runtime, gateway, wire, error, row,
                      remembered, cancels, pending, answer>>
      OBVIOUS
    <3>2. thread' = "unsent" /\ progress' \in BOOLEAN
      OBVIOUS
    <3> HIDE <1>11
    <3>9. QED BY <3>1, <3>2 DEF Turn!IInv, Turn!TypeOK
  <2> QED BY <2>1, <2>2 DEF Turn!IInv
<1>12. ASSUME Turn!Closed PROVE Turn!IInv'
  <2> USE <1>12 DEF Turn!Closed, Turn!MayResend
  <2>1. /\ Turn!OneAttempt' /\ Turn!NotSent' /\ Turn!EventsAreBacked' /\ Turn!DecisionIsBacked'
        /\ Turn!RefusalIsLast' /\ Turn!RefusalHasCause' /\ Turn!ResultIsSettled' /\ Turn!Phases'
        /\ Turn!RowSays' /\ Turn!AllowStands' /\ Turn!Reasons' /\ Turn!PlacedIsWritten'
        /\ Turn!RememberedIsAudited' /\ Turn!RowBeforeTheEnd'
    BY DEF Turn!IInv, Turn!OneAttempt, Turn!NotSent, Turn!EventsAreBacked, Turn!Backed,
           Turn!DecisionIsBacked, Turn!RefusalIsLast, Turn!RefusalHasCause, Turn!ResultIsSettled,
           Turn!Settled, Turn!Phases, Turn!RowSays, Turn!AllowStands, Turn!Reasons,
           Turn!PlacedIsWritten, Turn!Written, Turn!RememberedIsAudited, Turn!RowBeforeTheEnd
  <2>2. Turn!TypeOK'
    <3>1. UNCHANGED <<operation, pc, decision, runtime, gateway, wire, error, row, remembered,
                      cancels, pending, answer>>
      OBVIOUS
    <3>2. thread' \in {"send", "transport"} /\ attempt' \in Turn!Attempts
      BY DEF Turn!IInv, Turn!TypeOK
    <3>3. progress' \in BOOLEAN
      BY Zenon DEF Turn!IInv, Turn!TypeOK
    <3> HIDE <1>12
    <3>9. QED BY <3>1, <3>2, <3>3 DEF Turn!IInv, Turn!TypeOK
  <2> QED BY <2>1, <2>2 DEF Turn!IInv
<1>13. ASSUME Turn!NoResponse PROVE Turn!IInv'
  <2> USE <1>13 DEF Turn!NoResponse
  <2>1. /\ Turn!TypeOK' /\ Turn!OneAttempt' /\ Turn!NotSent' /\ Turn!EventsAreBacked'
        /\ Turn!DecisionIsBacked' /\ Turn!RefusalIsLast' /\ Turn!RefusalHasCause'
        /\ Turn!ResultIsSettled' /\ Turn!Phases' /\ Turn!RowSays' /\ Turn!AllowStands'
        /\ Turn!Reasons' /\ Turn!PlacedIsWritten' /\ Turn!RememberedIsAudited'
        /\ Turn!RowBeforeTheEnd'
    BY DEF Turn!IInv, Turn!TypeOK, Turn!Events, Turn!OneAttempt, Turn!NotSent,
           Turn!EventsAreBacked, Turn!Backed, Turn!DecisionIsBacked, Turn!RefusalIsLast,
           Turn!RefusalHasCause, Turn!ResultIsSettled, Turn!Settled, Turn!Phases, Turn!RowSays,
           Turn!AllowStands, Turn!Reasons, Turn!PlacedIsWritten, Turn!Written,
           Turn!RememberedIsAudited, Turn!RowBeforeTheEnd
  <2> QED BY <2>1 DEF Turn!IInv
<1>14. ASSUME Turn!Respond PROVE Turn!IInv'
  <2> USE <1>14 DEF Turn!Respond
  <2>1. /\ Turn!TypeOK' /\ Turn!OneAttempt' /\ Turn!NotSent' /\ Turn!EventsAreBacked'
        /\ Turn!DecisionIsBacked' /\ Turn!RefusalIsLast' /\ Turn!RefusalHasCause'
        /\ Turn!ResultIsSettled' /\ Turn!Phases' /\ Turn!RowSays' /\ Turn!AllowStands'
        /\ Turn!Reasons' /\ Turn!PlacedIsWritten' /\ Turn!RememberedIsAudited'
        /\ Turn!RowBeforeTheEnd'
    BY DEF Turn!IInv, Turn!TypeOK, Turn!Events, Turn!OneAttempt, Turn!NotSent,
           Turn!EventsAreBacked, Turn!Backed, Turn!DecisionIsBacked, Turn!RefusalIsLast,
           Turn!RefusalHasCause, Turn!ResultIsSettled, Turn!Settled, Turn!Phases, Turn!RowSays,
           Turn!AllowStands, Turn!Reasons, Turn!PlacedIsWritten, Turn!Written,
           Turn!RememberedIsAudited, Turn!RowBeforeTheEnd
  <2> QED BY <2>1 DEF Turn!IInv
<1>15. ASSUME Turn!ReadEvent PROVE Turn!IInv'
  <2> USE <1>15 DEF Turn!ReadEvent, Turn!Apply
  <2>1. /\ Turn!OneAttempt' /\ Turn!NotSent' /\ Turn!Phases' /\ Turn!RowSays' /\ Turn!AllowStands'
        /\ Turn!Reasons' /\ Turn!PlacedIsWritten' /\ Turn!RememberedIsAudited'
        /\ Turn!RowBeforeTheEnd'
    BY DEF Turn!IInv, Turn!OneAttempt, Turn!NotSent, Turn!Phases, Turn!RowSays, Turn!Backed,
           Turn!AllowStands, Turn!Reasons, Turn!PlacedIsWritten, Turn!Written,
           Turn!RememberedIsAudited, Turn!RowBeforeTheEnd
  <2>2. Turn!TypeOK'
    <3>1. UNCHANGED <<operation, pc, attempt, progress, runtime, gateway, error, row, remembered,
                      cancels, pending, answer>>
      OBVIOUS
    <3>2. thread' \in {"event", "credential", "read"}
      OBVIOUS
    <3>3. wire' \in [Turn!Attempts -> Seq(Turn!Events)] /\ decision' \in Decisions
      BY ReadTyped DEF Turn!IInv
    <3> HIDE <1>15
    <3>9. QED BY <3>1, <3>2, <3>3 DEF Turn!IInv, Turn!TypeOK, Decisions
  <2>3. Turn!EventsAreBacked'
    <3> SUFFICES ASSUME Turn!Confirmed PROVE Turn!EventsAreBacked'
      BY DEF Turn!EventsAreBacked
    <3>1. /\ wire[1] \in Seq(Turn!Events) /\ Len(wire[1]) > 0 /\ Len(wire'[1]) = Len(wire[1]) - 1
          /\ \A i \in 1..Len(wire'[1]) : wire'[1][i] = wire[1][i + 1]
          /\ UNCHANGED <<operation, runtime, gateway, error>>
      BY EventRead DEF Turn!IInv
    <3> HIDE <1>15
    <3>9. QED BY <3>1 DEF Turn!IInv, Turn!Backed, Turn!EventsAreBacked
  <2>4. Turn!DecisionIsBacked'
    <3> SUFFICES ASSUME Turn!Confirmed PROVE Turn!DecisionIsBacked'
      BY DEF Turn!DecisionIsBacked
    <3>1. /\ wire[1] \in Seq(Turn!Events) /\ Len(wire[1]) > 0 /\ Len(wire'[1]) = Len(wire[1]) - 1
          /\ \A i \in 1..Len(wire'[1]) : wire'[1][i] = wire[1][i + 1]
          /\ UNCHANGED <<operation, runtime, gateway, error>>
      BY EventRead DEF Turn!IInv
    <3> DEFINE e == wire[1][1]
    <3>2. /\ e \in Turn!Events
          /\ decision'.call = (IF e = "started" THEN "error"
                              ELSE IF e \in Turn!Spans THEN e ELSE decision.call)
          /\ decision'.placed = (e = "placed" \/ (decision.placed /\ e \notin Turn!Refusals))
          /\ decision'.refused = (e \in Turn!Refusals \/ (decision.refused /\ e # "placed"))
          /\ decision'.message = (e = "result" \/ decision.message)
          /\ thread' = "credential" => e = "expired"
      BY EventApplied DEF Turn!IInv
    <3>3. thread' = "credential" \/ error' = "credential" => Turn!Backed("expired")
      BY <3>1, <3>2 DEF Turn!IInv, Turn!EventsAreBacked, Turn!DecisionIsBacked, Turn!Phases
    <3> HIDE <1>15
    <3>4. Turn!Backed(e) /\ UNCHANGED <<gateway, runtime>>
      BY <3>1 DEF Turn!IInv, Turn!EventsAreBacked
    <3>5. Turn!Backed(decision'.call) /\ (decision'.placed => Turn!Backed("placed")) /\ (decision'.refused => Turn!Backed("unplaced"))
      BY <3>2, <3>4 DEF Turn!IInv, Turn!DecisionIsBacked, Turn!Backed, Turn!Events
    <3>6. decision'.refused => decision'.call \in Turn!Causes
      <4>1. CASE e \in Turn!Refusals
        <5>1. 1 \in 1..Len(wire[1])
          BY <3>1
        <5>2. decision.call \in Turn!Causes
          BY <4>1, <5>1 DEF Turn!IInv, Turn!RefusalHasCause
        <5>3. QED BY <3>2, <4>1, <5>2
      <4>2. CASE e \notin Turn!Refusals /\ decision'.refused
        <5>1. decision.refused
          BY <3>2, <4>2
        <5>2. 1 \in 1..Len(wire[1])
          BY <3>1
        <5>3. e \in {"failed", "result"}
          BY <5>1, <5>2 DEF Turn!IInv, Turn!RefusalIsLast
        <5>4. QED BY <3>2, <5>1, <5>3 DEF Turn!IInv, Turn!DecisionIsBacked
      <4>3. QED BY <4>1, <4>2
    <3>7. QED BY <3>3, <3>4, <3>5, <3>6 DEF Turn!DecisionIsBacked, Turn!Backed
  <2>5. Turn!RefusalIsLast'
    <3> SUFFICES ASSUME Turn!Confirmed PROVE Turn!RefusalIsLast'
      BY DEF Turn!RefusalIsLast
    <3>1. /\ wire[1] \in Seq(Turn!Events) /\ Len(wire[1]) > 0 /\ Len(wire'[1]) = Len(wire[1]) - 1
          /\ \A i \in 1..Len(wire'[1]) : wire'[1][i] = wire[1][i + 1]
          /\ UNCHANGED <<operation, runtime, gateway, error>>
      BY EventRead DEF Turn!IInv
    <3> DEFINE e == wire[1][1]
    <3>2. /\ e \in Turn!Events
          /\ decision'.call = (IF e = "started" THEN "error"
                              ELSE IF e \in Turn!Spans THEN e ELSE decision.call)
          /\ decision'.placed = (e = "placed" \/ (decision.placed /\ e \notin Turn!Refusals))
          /\ decision'.refused = (e \in Turn!Refusals \/ (decision.refused /\ e # "placed"))
          /\ decision'.message = (e = "result" \/ decision.message)
          /\ thread' = "credential" => e = "expired"
      BY EventApplied DEF Turn!IInv
    <3> HIDE <1>15
    <3>3. ASSUME NEW i \in 1..Len(wire'[1]), NEW j \in 1..Len(wire'[1]), i < j,
                 wire'[1][i] \in Turn!Refusals
          PROVE wire'[1][j] \in {"failed", "result"}
      <4>1. /\ i + 1 \in 1..Len(wire[1]) /\ j + 1 \in 1..Len(wire[1]) /\ i + 1 < j + 1
            /\ wire'[1][i] = wire[1][i + 1] /\ wire'[1][j] = wire[1][j + 1]
        BY <3>1, <3>3
      <4>2. QED BY <3>3, <4>1 DEF Turn!IInv, Turn!RefusalIsLast
    <3>4. ASSUME decision'.refused, NEW j \in 1..Len(wire'[1])
          PROVE wire'[1][j] \in {"failed", "result"}
      <4>1. /\ 1 \in 1..Len(wire[1]) /\ j + 1 \in 1..Len(wire[1]) /\ 1 < j + 1
            /\ wire'[1][j] = wire[1][j + 1]
        BY <3>1
      <4>2. e \in Turn!Refusals \/ decision.refused
        BY <3>2, <3>4
      <4>3. QED BY <4>1, <4>2 DEF Turn!IInv, Turn!RefusalIsLast
    <3>5. QED BY <3>3, <3>4 DEF Turn!RefusalIsLast
  <2>6. Turn!RefusalHasCause'
    <3> SUFFICES ASSUME Turn!Confirmed PROVE Turn!RefusalHasCause'
      BY DEF Turn!RefusalHasCause
    <3>1. /\ wire[1] \in Seq(Turn!Events) /\ Len(wire[1]) > 0 /\ Len(wire'[1]) = Len(wire[1]) - 1
          /\ \A i \in 1..Len(wire'[1]) : wire'[1][i] = wire[1][i + 1]
          /\ UNCHANGED <<operation, runtime, gateway, error>>
      BY EventRead DEF Turn!IInv
    <3> DEFINE e == wire[1][1]
    <3>2. /\ e \in Turn!Events
          /\ decision'.call = (IF e = "started" THEN "error"
                              ELSE IF e \in Turn!Spans THEN e ELSE decision.call)
          /\ decision'.placed = (e = "placed" \/ (decision.placed /\ e \notin Turn!Refusals))
          /\ decision'.refused = (e \in Turn!Refusals \/ (decision.refused /\ e # "placed"))
          /\ decision'.message = (e = "result" \/ decision.message)
          /\ thread' = "credential" => e = "expired"
      BY EventApplied DEF Turn!IInv
    <3> HIDE <1>15
    <3>3. ASSUME NEW i \in 1..Len(wire'[1]), wire'[1][i] \in Turn!Refusals
          PROVE (IF i = 1 THEN decision'.call ELSE wire'[1][i - 1]) \in Turn!Causes
      <4>1. /\ i + 1 \in 1..Len(wire[1]) /\ i + 1 # 1 /\ (i + 1) - 1 = i
            /\ wire[1][i + 1] \in Turn!Refusals
        BY <3>1, <3>3
      <4>2. wire[1][i] \in Turn!Causes
        BY <4>1 DEF Turn!IInv, Turn!RefusalHasCause
      <4>3. CASE i = 1
        BY <3>2, <4>2, <4>3 DEF Turn!Events
      <4>4. CASE i # 1
        <5>1. i - 1 \in 1..Len(wire'[1]) /\ (i - 1) + 1 = i
          BY <4>4
        <5>2. wire'[1][i - 1] = wire[1][i]
          BY <3>1, <5>1
        <5>3. QED BY <4>2, <4>4, <5>2
      <4>5. QED BY <4>3, <4>4
    <3>4. QED BY <3>3 DEF Turn!RefusalHasCause
  <2>7. Turn!ResultIsSettled'
    <3> SUFFICES ASSUME Turn!Confirmed PROVE Turn!ResultIsSettled'
      BY DEF Turn!ResultIsSettled
    <3>1. /\ wire[1] \in Seq(Turn!Events) /\ Len(wire[1]) > 0 /\ Len(wire'[1]) = Len(wire[1]) - 1
          /\ \A i \in 1..Len(wire'[1]) : wire'[1][i] = wire[1][i + 1]
          /\ UNCHANGED <<operation, runtime, gateway, error>>
      BY EventRead DEF Turn!IInv
    <3> DEFINE e == wire[1][1]
    <3>2. /\ e \in Turn!Events
          /\ decision'.call = (IF e = "started" THEN "error"
                              ELSE IF e \in Turn!Spans THEN e ELSE decision.call)
          /\ decision'.placed = (e = "placed" \/ (decision.placed /\ e \notin Turn!Refusals))
          /\ decision'.refused = (e \in Turn!Refusals \/ (decision.refused /\ e # "placed"))
          /\ decision'.message = (e = "result" \/ decision.message)
          /\ thread' = "credential" => e = "expired"
      BY EventApplied DEF Turn!IInv
    <3> HIDE <1>15
    <3>3. ASSUME NEW n \in 0..Len(wire'[1]), Turn!Settled(n + 1) PROVE Turn!Settled(n)'
      <4>1. CASE decision.placed \/ decision.refused \/ e \in Turn!Settling
        BY <3>2, <4>1 DEF Turn!Settled
      <4>2. CASE \E j \in 2..(n + 1) : wire[1][j] \in Turn!Settling
        <5>1. PICK j \in 2..(n + 1) : wire[1][j] \in Turn!Settling
          BY <4>2
        <5>2. j - 1 \in 1..n /\ j - 1 \in 1..Len(wire'[1]) /\ wire'[1][j - 1] = wire[1][j]
          BY <3>1
        <5>3. QED BY <5>1, <5>2 DEF Turn!Settled
      <4>3. QED BY <3>1, <3>3, <4>1, <4>2 DEF Turn!Settled
    <3>4. runtime'[1] = "narrate" => Turn!Settled(Len(wire'[1]) + 1)
      <4>1. Len(wire'[1]) + 1 = Len(wire[1])
        BY <3>1
      <4>2. QED BY <3>1, <4>1 DEF Turn!IInv, Turn!ResultIsSettled
    <3>5. ASSUME NEW i \in 1..Len(wire'[1]), wire'[1][i] = "result" PROVE Turn!Settled((i - 1) + 1)
      BY <3>1, <3>5 DEF Turn!IInv, Turn!ResultIsSettled
    <3>6. decision'.message => decision'.placed \/ decision'.refused
      <4>1. CASE e = "result"
        BY <3>1, <3>2, <4>1 DEF Turn!IInv, Turn!ResultIsSettled, Turn!Settled
      <4>2. CASE e # "result"
        BY <3>2, <4>2 DEF Turn!IInv, Turn!ResultIsSettled
      <4>3. QED BY <4>1, <4>2
    <3>7. runtime'[1] = "narrate" => Turn!Settled(Len(wire[1]))'
      BY <3>1, <3>3, <3>4
    <3>8. ASSUME NEW i \in 1..Len(wire'[1]), wire'[1][i] = "result" PROVE Turn!Settled(i - 1)'
      BY <3>1, <3>3, <3>5, <3>8
    <3>9. QED BY <3>6, <3>7, <3>8 DEF Turn!ResultIsSettled
  <2> QED BY <2>1, <2>2, <2>3, <2>4, <2>5, <2>6, <2>7 DEF Turn!IInv
<1>16. ASSUME Turn!StreamEnd PROVE Turn!IInv'
  <2> USE <1>16 DEF Turn!StreamEnd
  <2>1. /\ Turn!TypeOK' /\ Turn!OneAttempt' /\ Turn!NotSent' /\ Turn!EventsAreBacked'
        /\ Turn!DecisionIsBacked' /\ Turn!RefusalIsLast' /\ Turn!RefusalHasCause'
        /\ Turn!ResultIsSettled' /\ Turn!Phases' /\ Turn!RowSays' /\ Turn!AllowStands'
        /\ Turn!Reasons' /\ Turn!PlacedIsWritten' /\ Turn!RememberedIsAudited'
        /\ Turn!RowBeforeTheEnd'
    BY DEF Turn!IInv, Turn!TypeOK, Turn!Events, Turn!OneAttempt, Turn!NotSent,
           Turn!EventsAreBacked, Turn!Backed, Turn!DecisionIsBacked, Turn!RefusalIsLast,
           Turn!RefusalHasCause, Turn!ResultIsSettled, Turn!Settled, Turn!Phases, Turn!RowSays,
           Turn!AllowStands, Turn!Reasons, Turn!PlacedIsWritten, Turn!Written,
           Turn!RememberedIsAudited, Turn!RowBeforeTheEnd
  <2> QED BY <2>1 DEF Turn!IInv
<1>17. ASSUME Turn!StreamBreak PROVE Turn!IInv'
  <2> USE <1>17 DEF Turn!StreamBreak
  <2>1. /\ Turn!TypeOK' /\ Turn!OneAttempt' /\ Turn!NotSent' /\ Turn!EventsAreBacked'
        /\ Turn!DecisionIsBacked' /\ Turn!RefusalIsLast' /\ Turn!RefusalHasCause'
        /\ Turn!ResultIsSettled' /\ Turn!Phases' /\ Turn!RowSays' /\ Turn!AllowStands'
        /\ Turn!Reasons' /\ Turn!PlacedIsWritten' /\ Turn!RememberedIsAudited'
        /\ Turn!RowBeforeTheEnd'
    BY DEF Turn!IInv, Turn!TypeOK, Turn!Events, Turn!OneAttempt, Turn!NotSent,
           Turn!EventsAreBacked, Turn!Backed, Turn!DecisionIsBacked, Turn!RefusalIsLast,
           Turn!RefusalHasCause, Turn!ResultIsSettled, Turn!Settled, Turn!Phases, Turn!RowSays,
           Turn!AllowStands, Turn!Reasons, Turn!PlacedIsWritten, Turn!Written,
           Turn!RememberedIsAudited, Turn!RowBeforeTheEnd
  <2> QED BY <2>1 DEF Turn!IInv
<1>18. ASSUME Turn!AuditTask PROVE Turn!IInv'
  <2> USE <1>18 DEF Turn!AuditTask
  <2>1. /\ Turn!OneAttempt' /\ Turn!NotSent' /\ Turn!EventsAreBacked' /\ Turn!DecisionIsBacked'
        /\ Turn!RefusalIsLast' /\ Turn!RefusalHasCause' /\ Turn!ResultIsSettled' /\ Turn!Phases'
        /\ Turn!RowSays' /\ Turn!AllowStands' /\ Turn!Reasons' /\ Turn!PlacedIsWritten'
        /\ Turn!RememberedIsAudited' /\ Turn!RowBeforeTheEnd'
    BY DEF Turn!IInv, Turn!OneAttempt, Turn!NotSent, Turn!EventsAreBacked, Turn!Backed,
           Turn!DecisionIsBacked, Turn!RefusalIsLast, Turn!RefusalHasCause, Turn!ResultIsSettled,
           Turn!Settled, Turn!Phases, Turn!RowSays, Turn!AllowStands, Turn!Reasons,
           Turn!PlacedIsWritten, Turn!Written, Turn!RememberedIsAudited, Turn!RowBeforeTheEnd
  <2>2. Turn!TypeOK'
    <3>1. UNCHANGED <<operation, pc, thread, attempt, progress, decision, runtime, gateway, wire,
                      error, remembered, cancels, pending, answer>>
      OBVIOUS
    <3>2. row' \in [state: {"none", "writing", "committed", "lost"},
                    verdict: {"none", "allow", "deny", "error"}, call: Turn!Spans \cup {"unknown"}]
      BY DEF Turn!IInv, Turn!TypeOK
    <3> HIDE <1>18
    <3>9. QED BY <3>1, <3>2 DEF Turn!IInv, Turn!TypeOK
  <2> QED BY <2>1, <2>2 DEF Turn!IInv
<1>19. ASSUME Turn!Cancel PROVE Turn!IInv'
  <2> USE <1>19 DEF Turn!Cancel, Turn!Over
  <2>1. /\ Turn!OneAttempt' /\ Turn!NotSent' /\ Turn!EventsAreBacked' /\ Turn!DecisionIsBacked'
        /\ Turn!RefusalIsLast' /\ Turn!RefusalHasCause' /\ Turn!ResultIsSettled' /\ Turn!Phases'
        /\ Turn!RowSays' /\ Turn!AllowStands' /\ Turn!PlacedIsWritten' /\ Turn!RememberedIsAudited'
    BY DEF Turn!IInv, Turn!OneAttempt, Turn!NotSent, Turn!EventsAreBacked, Turn!Backed,
           Turn!DecisionIsBacked, Turn!RefusalIsLast, Turn!RefusalHasCause, Turn!ResultIsSettled,
           Turn!Settled, Turn!Phases, Turn!RowSays, Turn!AllowStands, Turn!PlacedIsWritten,
           Turn!Written, Turn!RememberedIsAudited
  <2>2. Turn!TypeOK'
    <3>1. UNCHANGED <<operation, thread, attempt, progress, decision, runtime, gateway, wire, row,
                      remembered>>
      OBVIOUS
    <3>2. /\ pc' \in {pc, "audit", "over"} /\ error' \in {error, "cancelled"}
          /\ answer' \in {answer, "cancelled"} /\ pending' \in BOOLEAN
      BY DEF Turn!IInv, Turn!TypeOK
    <3>3. cancels' \in 0..MaxCancels
      BY DEF Turn!IInv, Turn!TypeOK
    <3> HIDE <1>19
    <3>9. QED BY <3>1, <3>2, <3>3 DEF Turn!IInv, Turn!TypeOK
  <2>3. Turn!Reasons'
    BY DEF Turn!IInv, Turn!Reasons, Turn!TypeOK, Turn!Events, Turn!Phases, Turn!ResultIsSettled,
           Turn!Settled
  <2>4. Turn!RowBeforeTheEnd'
    BY DEF Turn!IInv, Turn!RowBeforeTheEnd, Turn!TypeOK, Turn!Events, Turn!Phases
  <2> QED BY <2>1, <2>2, <2>3, <2>4 DEF Turn!IInv
<1>20. ASSUME NEW a \in Turn!Attempts, Turn!RuntimeFails(a) PROVE Turn!IInv'
  <2> USE <1>20 DEF Turn!RuntimeFails, Turn!RuntimeGoes, Turn!Emit, Turn!BackendStays
  <2>1. /\ Turn!TypeOK' /\ Turn!OneAttempt' /\ Turn!NotSent' /\ Turn!DecisionIsBacked'
        /\ Turn!ResultIsSettled' /\ Turn!Phases' /\ Turn!RowSays' /\ Turn!AllowStands'
        /\ Turn!Reasons' /\ Turn!PlacedIsWritten' /\ Turn!RememberedIsAudited'
        /\ Turn!RowBeforeTheEnd'
    BY DEF Turn!IInv, Turn!TypeOK, Turn!Events, Turn!OneAttempt, Turn!NotSent,
           Turn!DecisionIsBacked, Turn!Backed, Turn!ResultIsSettled, Turn!Settled, Turn!Phases,
           Turn!RowSays, Turn!AllowStands, Turn!Reasons, Turn!PlacedIsWritten, Turn!Written,
           Turn!RememberedIsAudited, Turn!RowBeforeTheEnd
  <2>2. Turn!EventsAreBacked'
    BY DEF Turn!IInv, Turn!EventsAreBacked, Turn!Backed, Turn!TypeOK, Turn!Events, Turn!OneAttempt,
           Turn!NotSent
  <2>3. Turn!RefusalIsLast'
    <3> SUFFICES ASSUME Turn!Confirmed PROVE Turn!RefusalIsLast'
      BY DEF Turn!RefusalIsLast
    <3>1. a = 1 /\ runtime[1] \notin Turn!AnsweredPhases
      BY DEF Turn!IInv, Turn!OneAttempt
    <3>2. PICK event \in {"failed", "expired"} : Turn!Emit(1, <<event>>)
      BY <3>1
    <3>3. <<event>> \in Seq(Turn!Events) /\ SaidLast(<<event>>)
      BY DEF Turn!Events, SaidLast
    <3>4. QED BY <3>1, <3>2, <3>3, EmitIsLast
  <2>4. Turn!RefusalHasCause'
    <3> SUFFICES ASSUME Turn!Confirmed PROVE Turn!RefusalHasCause'
      BY DEF Turn!RefusalHasCause
    <3>1. a = 1
      BY DEF Turn!IInv, Turn!OneAttempt
    <3>2. PICK event \in {"failed", "expired"} : Turn!Emit(1, <<event>>)
      BY <3>1
    <3>3. <<event>> \in Seq(Turn!Events) /\ HasCause(<<event>>)
      BY DEF Turn!Events, HasCause
    <3>4. QED BY <3>1, <3>2, <3>3, EmitHasCause
  <2> QED BY <2>1, <2>2, <2>3, <2>4 DEF Turn!IInv
<1>21. ASSUME NEW a \in Turn!Attempts, Turn!PlaceCall(a) PROVE Turn!IInv'
  <2> USE <1>21 DEF Turn!PlaceCall, Turn!RuntimeGoes, Turn!Emit, Turn!BackendStays
  <2>1. /\ Turn!TypeOK' /\ Turn!OneAttempt' /\ Turn!ResultIsSettled' /\ Turn!Phases'
        /\ Turn!AllowStands' /\ Turn!Reasons' /\ Turn!RememberedIsAudited' /\ Turn!RowBeforeTheEnd'
    BY DEF Turn!IInv, Turn!TypeOK, Turn!Events, Turn!OneAttempt, Turn!ResultIsSettled,
           Turn!Settled, Turn!Phases, Turn!AllowStands, Turn!Reasons, Turn!RememberedIsAudited,
           Turn!RowBeforeTheEnd
  <2>2. Turn!NotSent'
    BY DEF Turn!IInv, Turn!NotSent, Turn!TypeOK, Turn!Events
  <2>3. Turn!EventsAreBacked'
    BY DEF Turn!IInv, Turn!EventsAreBacked, Turn!Backed, Turn!TypeOK, Turn!Events, Turn!OneAttempt,
           Turn!NotSent
  <2>4. Turn!DecisionIsBacked'
    BY DEF Turn!IInv, Turn!DecisionIsBacked, Turn!Backed, Turn!TypeOK, Turn!Events,
           Turn!OneAttempt, Turn!NotSent, Turn!EventsAreBacked, Turn!Phases
  <2>5. Turn!RefusalIsLast'
    <3> SUFFICES ASSUME Turn!Confirmed PROVE Turn!RefusalIsLast'
      BY DEF Turn!RefusalIsLast
    <3>1. a = 1 /\ runtime[1] \notin Turn!AnsweredPhases
      BY DEF Turn!IInv, Turn!OneAttempt
    <3>2. <<"started">> \in Seq(Turn!Events) /\ SaidLast(<<"started">>)
      BY DEF Turn!Events, SaidLast
    <3>3. Turn!Emit(1, <<"started">>)
      BY <3>1
    <3>4. QED BY <3>1, <3>2, <3>3, EmitIsLast
  <2>6. Turn!RefusalHasCause'
    <3> SUFFICES ASSUME Turn!Confirmed PROVE Turn!RefusalHasCause'
      BY DEF Turn!RefusalHasCause
    <3>1. a = 1
      BY DEF Turn!IInv, Turn!OneAttempt
    <3>2. <<"started">> \in Seq(Turn!Events) /\ HasCause(<<"started">>)
      BY DEF Turn!Events, HasCause
    <3>3. Turn!Emit(1, <<"started">>)
      BY <3>1
    <3>4. QED BY <3>1, <3>2, <3>3, EmitHasCause
  <2>7. Turn!RowSays'
    BY DEF Turn!IInv, Turn!RowSays, Turn!Backed, Turn!TypeOK, Turn!Events, Turn!OneAttempt,
           Turn!NotSent, Turn!EventsAreBacked, Turn!DecisionIsBacked, Turn!RefusalIsLast,
           Turn!RefusalHasCause, Turn!ResultIsSettled, Turn!Settled, Turn!Phases, Turn!AllowStands,
           Turn!Reasons, Turn!PlacedIsWritten, Turn!Written, Turn!RememberedIsAudited,
           Turn!RowBeforeTheEnd
  <2>8. Turn!PlacedIsWritten'
    BY DEF Turn!IInv, Turn!PlacedIsWritten, Turn!Written, Turn!TypeOK, Turn!Events,
           Turn!OneAttempt, Turn!NotSent, Turn!EventsAreBacked, Turn!Backed, Turn!DecisionIsBacked,
           Turn!RefusalIsLast, Turn!RefusalHasCause, Turn!ResultIsSettled, Turn!Settled,
           Turn!Phases, Turn!RowSays, Turn!AllowStands, Turn!Reasons, Turn!RememberedIsAudited,
           Turn!RowBeforeTheEnd
  <2> QED BY <2>1, <2>2, <2>3, <2>4, <2>5, <2>6, <2>7, <2>8 DEF Turn!IInv
<1>22. ASSUME NEW a \in Turn!Attempts, Turn!AnswerDirectly(a) PROVE Turn!IInv'
  <2> USE <1>22 DEF Turn!AnswerDirectly, Turn!RuntimeGoes, Turn!BackendStays
  <2>1. /\ Turn!TypeOK' /\ Turn!OneAttempt' /\ Turn!NotSent' /\ Turn!EventsAreBacked'
        /\ Turn!DecisionIsBacked' /\ Turn!RefusalIsLast' /\ Turn!RefusalHasCause'
        /\ Turn!ResultIsSettled' /\ Turn!Phases' /\ Turn!RowSays' /\ Turn!AllowStands'
        /\ Turn!Reasons' /\ Turn!PlacedIsWritten' /\ Turn!RememberedIsAudited'
        /\ Turn!RowBeforeTheEnd'
    BY DEF Turn!IInv, Turn!TypeOK, Turn!Events, Turn!OneAttempt, Turn!NotSent,
           Turn!EventsAreBacked, Turn!Backed, Turn!DecisionIsBacked, Turn!RefusalIsLast,
           Turn!RefusalHasCause, Turn!ResultIsSettled, Turn!Settled, Turn!Phases, Turn!RowSays,
           Turn!AllowStands, Turn!Reasons, Turn!PlacedIsWritten, Turn!Written,
           Turn!RememberedIsAudited, Turn!RowBeforeTheEnd
  <2> QED BY <2>1 DEF Turn!IInv
<1>23. ASSUME NEW a \in Turn!Attempts, Turn!ExpireBeforeCall(a) PROVE Turn!IInv'
  <2> USE <1>23 DEF Turn!ExpireBeforeCall, Turn!RuntimeGoes, Turn!Emit, Turn!BackendStays
  <2>1. /\ Turn!TypeOK' /\ Turn!OneAttempt' /\ Turn!NotSent' /\ Turn!DecisionIsBacked'
        /\ Turn!Phases' /\ Turn!RowSays' /\ Turn!AllowStands' /\ Turn!Reasons'
        /\ Turn!PlacedIsWritten' /\ Turn!RememberedIsAudited' /\ Turn!RowBeforeTheEnd'
    BY DEF Turn!IInv, Turn!TypeOK, Turn!Events, Turn!OneAttempt, Turn!NotSent,
           Turn!DecisionIsBacked, Turn!Backed, Turn!Phases, Turn!RowSays, Turn!AllowStands,
           Turn!Reasons, Turn!PlacedIsWritten, Turn!Written, Turn!RememberedIsAudited,
           Turn!RowBeforeTheEnd
  <2>2. Turn!EventsAreBacked'
    BY DEF Turn!IInv, Turn!EventsAreBacked, Turn!Backed, Turn!TypeOK, Turn!Events
  <2>3. Turn!RefusalIsLast'
    <3> SUFFICES ASSUME Turn!Confirmed PROVE Turn!RefusalIsLast'
      BY DEF Turn!RefusalIsLast
    <3>1. a = 1 /\ runtime[1] \notin Turn!AnsweredPhases
      BY DEF Turn!IInv, Turn!OneAttempt
    <3>2. <<"started", "error", "unplaced">> \in Seq(Turn!Events) /\ SaidLast(<<"started", "error", "unplaced">>)
      BY DEF Turn!Events, SaidLast
    <3>3. Turn!Emit(1, <<"started", "error", "unplaced">>)
      BY <3>1
    <3>4. QED BY <3>1, <3>2, <3>3, EmitIsLast
  <2>4. Turn!RefusalHasCause'
    <3> SUFFICES ASSUME Turn!Confirmed PROVE Turn!RefusalHasCause'
      BY DEF Turn!RefusalHasCause
    <3>1. a = 1
      BY DEF Turn!IInv, Turn!OneAttempt
    <3>2. <<"started", "error", "unplaced">> \in Seq(Turn!Events) /\ HasCause(<<"started", "error", "unplaced">>)
      BY DEF Turn!Events, HasCause
    <3>3. Turn!Emit(1, <<"started", "error", "unplaced">>)
      BY <3>1
    <3>4. QED BY <3>1, <3>2, <3>3, EmitHasCause
  <2>5. Turn!ResultIsSettled'
    <3> SUFFICES ASSUME Turn!Confirmed PROVE Turn!ResultIsSettled'
      BY DEF Turn!ResultIsSettled
    <3>1. a = 1 /\ runtime[1] = "start" /\ runtime'[1] = "raise" /\ Turn!TypeOK /\ wire[1] \in Seq(Turn!Events)
      BY DEF Turn!IInv, Turn!TypeOK, Turn!OneAttempt
    <3> DEFINE e == <<"started", "error", "unplaced">>
    <3>2. e \in Seq(Turn!Events) /\ Len(e) = 3 /\ \A k \in 1..3 : e[k] # "result"
      BY DEF Turn!Events
    <3>3. Turn!Emit(1, e)
      BY <3>1
    <3>4. \A i \in 1..Len(wire[1]) : wire[1][i] # "result"
      BY <3>1 DEF Turn!IInv, Turn!EventsAreBacked, Turn!Backed
    <3>5. \A i \in 1..Len(wire'[1]) : wire'[1][i] # "result"
      BY <3>1, <3>2, <3>3, <3>4, Emitted
    <3>6. QED BY <3>1, <3>5 DEF Turn!IInv, Turn!ResultIsSettled
  <2> QED BY <2>1, <2>2, <2>3, <2>4, <2>5 DEF Turn!IInv
<1>24. ASSUME NEW a \in Turn!Attempts, Turn!CallAnswered(a) PROVE Turn!IInv'
  <2> USE <1>24 DEF Turn!CallAnswered, Turn!RuntimeGoes, Turn!Emit, Turn!Outcome, Turn!BackendStays
  <2>1. /\ Turn!OneAttempt' /\ Turn!NotSent' /\ Turn!DecisionIsBacked' /\ Turn!Phases'
        /\ Turn!RowSays' /\ Turn!AllowStands' /\ Turn!Reasons' /\ Turn!PlacedIsWritten'
        /\ Turn!RememberedIsAudited' /\ Turn!RowBeforeTheEnd'
    BY DEF Turn!IInv, Turn!OneAttempt, Turn!NotSent, Turn!DecisionIsBacked, Turn!Backed,
           Turn!Phases, Turn!RowSays, Turn!AllowStands, Turn!Reasons, Turn!PlacedIsWritten,
           Turn!Written, Turn!RememberedIsAudited, Turn!RowBeforeTheEnd
  <2>2. Turn!TypeOK'
    <3>1. UNCHANGED <<operation, pc, thread, attempt, progress, decision, gateway, error, row,
                      remembered, cancels, pending, answer>>
      OBVIOUS
    <3>2. runtime' \in [Turn!Attempts -> {"none", "start", "call", "raise", "narrate", "ended"}]
      BY DEF Turn!IInv, Turn!TypeOK
    <3>8. Turn!Outcome(a) \in Seq(Turn!Events)
      BY OutcomeSays
    <3>3. PICK e \in Seq(Turn!Events) : wire' = [wire EXCEPT ![a] = wire[a] \o e]
      BY <3>8
    <3>5. wire[a] \o e \in Seq(Turn!Events) /\ wire \in [Turn!Attempts -> Seq(Turn!Events)]
      BY DEF Turn!IInv, Turn!TypeOK
    <3>4. wire' \in [Turn!Attempts -> Seq(Turn!Events)]
      BY <3>3, <3>5
    <3> HIDE <1>24
    <3>9. QED BY <3>1, <3>2, <3>4 DEF Turn!IInv, Turn!TypeOK
  <2>3. Turn!EventsAreBacked'
    BY DEF Turn!IInv, Turn!EventsAreBacked, Turn!Backed, Turn!TypeOK, Turn!Events, Turn!OneAttempt,
           Turn!NotSent
  <2>4. Turn!RefusalIsLast'
    <3> SUFFICES ASSUME Turn!Confirmed PROVE Turn!RefusalIsLast'
      BY DEF Turn!RefusalIsLast
    <3>1. a = 1 /\ runtime[1] \notin Turn!AnsweredPhases
      BY DEF Turn!IInv, Turn!OneAttempt
    <3>2. Turn!Outcome(1) \in Seq(Turn!Events) /\ SaidLast(Turn!Outcome(1))
      BY OutcomeSays
    <3>3. Turn!Emit(1, Turn!Outcome(1))
      BY <3>1
    <3>4. QED BY <3>1, <3>2, <3>3, EmitIsLast
  <2>5. Turn!RefusalHasCause'
    <3> SUFFICES ASSUME Turn!Confirmed PROVE Turn!RefusalHasCause'
      BY DEF Turn!RefusalHasCause
    <3>1. a = 1
      BY DEF Turn!IInv, Turn!OneAttempt
    <3>2. Turn!Outcome(1) \in Seq(Turn!Events) /\ HasCause(Turn!Outcome(1))
      BY OutcomeSays
    <3>3. Turn!Emit(1, Turn!Outcome(1))
      BY <3>1
    <3>4. QED BY <3>1, <3>2, <3>3, EmitHasCause
  <2>6. Turn!ResultIsSettled'
    BY DEF Turn!IInv, Turn!ResultIsSettled, Turn!Settled, Turn!TypeOK, Turn!Events,
           Turn!OneAttempt, Turn!NotSent, Turn!EventsAreBacked, Turn!Backed, Turn!DecisionIsBacked,
           Turn!RefusalIsLast, Turn!RefusalHasCause, Turn!Phases, Turn!RowSays, Turn!AllowStands,
           Turn!Reasons, Turn!PlacedIsWritten, Turn!Written, Turn!RememberedIsAudited,
           Turn!RowBeforeTheEnd
  <2> QED BY <2>1, <2>2, <2>3, <2>4, <2>5, <2>6 DEF Turn!IInv
<1>25. ASSUME NEW a \in Turn!Attempts, Turn!CallGivesUp(a) PROVE Turn!IInv'
  <2> USE <1>25 DEF Turn!CallGivesUp, Turn!RuntimeGoes, Turn!Emit, Turn!BackendStays
  <2>1. /\ Turn!OneAttempt' /\ Turn!NotSent' /\ Turn!DecisionIsBacked' /\ Turn!Phases'
        /\ Turn!RowSays' /\ Turn!AllowStands' /\ Turn!Reasons' /\ Turn!PlacedIsWritten'
        /\ Turn!RememberedIsAudited' /\ Turn!RowBeforeTheEnd'
    BY DEF Turn!IInv, Turn!OneAttempt, Turn!NotSent, Turn!DecisionIsBacked, Turn!Backed,
           Turn!Phases, Turn!RowSays, Turn!AllowStands, Turn!Reasons, Turn!PlacedIsWritten,
           Turn!Written, Turn!RememberedIsAudited, Turn!RowBeforeTheEnd
  <2>2. Turn!TypeOK'
    <3>1. UNCHANGED <<operation, pc, thread, attempt, progress, decision, gateway, error, row,
                      remembered, cancels, pending, answer>>
      OBVIOUS
    <3>2. runtime' \in [Turn!Attempts -> {"none", "start", "call", "raise", "narrate", "ended"}]
      BY DEF Turn!IInv, Turn!TypeOK
    <3>8. <<"error">> \in Seq(Turn!Events) /\ <<"error", "unplaced">> \in Seq(Turn!Events)
      BY DEF Turn!Events
    <3>3. PICK e \in Seq(Turn!Events) : wire' = [wire EXCEPT ![a] = wire[a] \o e]
      BY <3>8
    <3>5. wire[a] \o e \in Seq(Turn!Events) /\ wire \in [Turn!Attempts -> Seq(Turn!Events)]
      BY DEF Turn!IInv, Turn!TypeOK
    <3>4. wire' \in [Turn!Attempts -> Seq(Turn!Events)]
      BY <3>3, <3>5
    <3> HIDE <1>25
    <3>9. QED BY <3>1, <3>2, <3>4 DEF Turn!IInv, Turn!TypeOK
  <2>3. Turn!EventsAreBacked'
    BY DEF Turn!IInv, Turn!EventsAreBacked, Turn!Backed, Turn!TypeOK, Turn!Events
  <2>4. Turn!RefusalIsLast'
    <3> SUFFICES ASSUME Turn!Confirmed PROVE Turn!RefusalIsLast'
      BY DEF Turn!RefusalIsLast
    <3>1. a = 1 /\ runtime[1] \notin Turn!AnsweredPhases
      BY DEF Turn!IInv, Turn!OneAttempt
    <3>2. <<"error", "unplaced">> \in Seq(Turn!Events) /\ SaidLast(<<"error", "unplaced">>)
      BY DEF Turn!Events, SaidLast
    <3>3. Turn!Emit(1, <<"error", "unplaced">>)
      BY <3>1
    <3>4. QED BY <3>1, <3>2, <3>3, EmitIsLast
  <2>5. Turn!RefusalHasCause'
    <3> SUFFICES ASSUME Turn!Confirmed PROVE Turn!RefusalHasCause'
      BY DEF Turn!RefusalHasCause
    <3>1. a = 1
      BY DEF Turn!IInv, Turn!OneAttempt
    <3>2. <<"error", "unplaced">> \in Seq(Turn!Events) /\ HasCause(<<"error", "unplaced">>)
      BY DEF Turn!Events, HasCause
    <3>3. Turn!Emit(1, <<"error", "unplaced">>)
      BY <3>1
    <3>4. QED BY <3>1, <3>2, <3>3, EmitHasCause
  <2>6. Turn!ResultIsSettled'
    BY DEF Turn!IInv, Turn!ResultIsSettled, Turn!Settled, Turn!TypeOK, Turn!Events,
           Turn!OneAttempt, Turn!NotSent, Turn!EventsAreBacked, Turn!Backed, Turn!DecisionIsBacked,
           Turn!RefusalIsLast, Turn!RefusalHasCause, Turn!Phases, Turn!RowSays, Turn!AllowStands,
           Turn!Reasons, Turn!PlacedIsWritten, Turn!Written, Turn!RememberedIsAudited,
           Turn!RowBeforeTheEnd
  <2> QED BY <2>1, <2>2, <2>3, <2>4, <2>5, <2>6 DEF Turn!IInv
<1>26. ASSUME NEW a \in Turn!Attempts, Turn!RuntimeErrors(a) PROVE Turn!IInv'
  <2> USE <1>26 DEF Turn!RuntimeErrors, Turn!RuntimeGoes, Turn!Emit, Turn!BackendStays
  <2>1. /\ Turn!OneAttempt' /\ Turn!NotSent' /\ Turn!EventsAreBacked' /\ Turn!DecisionIsBacked'
        /\ Turn!RefusalIsLast' /\ Turn!ResultIsSettled' /\ Turn!Phases' /\ Turn!RowSays'
        /\ Turn!AllowStands' /\ Turn!Reasons' /\ Turn!PlacedIsWritten' /\ Turn!RememberedIsAudited'
        /\ Turn!RowBeforeTheEnd'
    BY DEF Turn!IInv, Turn!OneAttempt, Turn!NotSent, Turn!EventsAreBacked, Turn!Backed,
           Turn!DecisionIsBacked, Turn!RefusalIsLast, Turn!ResultIsSettled, Turn!Settled,
           Turn!Phases, Turn!RowSays, Turn!AllowStands, Turn!Reasons, Turn!PlacedIsWritten,
           Turn!Written, Turn!RememberedIsAudited, Turn!RowBeforeTheEnd
  <2>2. Turn!TypeOK'
    BY DEF Turn!IInv, Turn!TypeOK, Turn!Events
  <2>3. Turn!RefusalHasCause'
    <3> SUFFICES ASSUME Turn!Confirmed PROVE Turn!RefusalHasCause'
      BY DEF Turn!RefusalHasCause
    <3>1. a = 1
      BY DEF Turn!IInv, Turn!OneAttempt
    <3>2. <<"failed">> \in Seq(Turn!Events) /\ HasCause(<<"failed">>)
      BY DEF Turn!Events, HasCause
    <3>3. Turn!Emit(1, <<"failed">>)
      BY <3>1
    <3>4. QED BY <3>1, <3>2, <3>3, EmitHasCause
  <2> QED BY <2>1, <2>2, <2>3 DEF Turn!IInv
<1>27. ASSUME NEW a \in Turn!Attempts, Turn!RuntimeAnswers(a) PROVE Turn!IInv'
  <2> USE <1>27 DEF Turn!RuntimeAnswers, Turn!RuntimeGoes, Turn!Emit, Turn!BackendStays
  <2>1. /\ Turn!OneAttempt' /\ Turn!NotSent' /\ Turn!EventsAreBacked' /\ Turn!DecisionIsBacked'
        /\ Turn!RefusalIsLast' /\ Turn!ResultIsSettled' /\ Turn!Phases' /\ Turn!RowSays'
        /\ Turn!AllowStands' /\ Turn!Reasons' /\ Turn!PlacedIsWritten' /\ Turn!RememberedIsAudited'
        /\ Turn!RowBeforeTheEnd'
    BY DEF Turn!IInv, Turn!OneAttempt, Turn!NotSent, Turn!EventsAreBacked, Turn!Backed,
           Turn!DecisionIsBacked, Turn!RefusalIsLast, Turn!ResultIsSettled, Turn!Settled,
           Turn!Phases, Turn!RowSays, Turn!AllowStands, Turn!Reasons, Turn!PlacedIsWritten,
           Turn!Written, Turn!RememberedIsAudited, Turn!RowBeforeTheEnd
  <2>2. Turn!TypeOK'
    BY DEF Turn!IInv, Turn!TypeOK, Turn!Events
  <2>3. Turn!RefusalHasCause'
    <3> SUFFICES ASSUME Turn!Confirmed PROVE Turn!RefusalHasCause'
      BY DEF Turn!RefusalHasCause
    <3>1. a = 1
      BY DEF Turn!IInv, Turn!OneAttempt
    <3>2. <<"result">> \in Seq(Turn!Events) /\ HasCause(<<"result">>)
      BY DEF Turn!Events, HasCause
    <3>3. Turn!Emit(1, <<"result">>)
      BY <3>1
    <3>4. QED BY <3>1, <3>2, <3>3, EmitHasCause
  <2> QED BY <2>1, <2>2, <2>3 DEF Turn!IInv
<1>28. ASSUME NEW a \in Turn!Attempts, Turn!GatewayDecides(a) PROVE Turn!IInv'
  <2> USE <1>28 DEF Turn!GatewayDecides, Turn!GatewayMoves, Turn!BackendStays
  <2>1. /\ Turn!TypeOK' /\ Turn!OneAttempt' /\ Turn!NotSent' /\ Turn!EventsAreBacked'
        /\ Turn!DecisionIsBacked' /\ Turn!RefusalIsLast' /\ Turn!RefusalHasCause'
        /\ Turn!ResultIsSettled' /\ Turn!Phases' /\ Turn!RowSays' /\ Turn!AllowStands'
        /\ Turn!Reasons' /\ Turn!PlacedIsWritten' /\ Turn!RememberedIsAudited'
        /\ Turn!RowBeforeTheEnd'
    BY DEF Turn!IInv, Turn!TypeOK, Turn!Events, Turn!OneAttempt, Turn!NotSent,
           Turn!EventsAreBacked, Turn!Backed, Turn!DecisionIsBacked, Turn!RefusalIsLast,
           Turn!RefusalHasCause, Turn!ResultIsSettled, Turn!Settled, Turn!Phases, Turn!RowSays,
           Turn!AllowStands, Turn!Reasons, Turn!PlacedIsWritten, Turn!Written,
           Turn!RememberedIsAudited, Turn!RowBeforeTheEnd
  <2> QED BY <2>1 DEF Turn!IInv
<1>29. ASSUME NEW a \in Turn!Attempts, Turn!LambdaRefuses(a) PROVE Turn!IInv'
  <2> USE <1>29 DEF Turn!LambdaRefuses, Turn!GatewayMoves, Turn!BackendStays
  <2>1. /\ Turn!TypeOK' /\ Turn!OneAttempt' /\ Turn!NotSent' /\ Turn!EventsAreBacked'
        /\ Turn!DecisionIsBacked' /\ Turn!RefusalIsLast' /\ Turn!RefusalHasCause'
        /\ Turn!ResultIsSettled' /\ Turn!Phases' /\ Turn!RowSays' /\ Turn!AllowStands'
        /\ Turn!Reasons' /\ Turn!PlacedIsWritten' /\ Turn!RememberedIsAudited'
        /\ Turn!RowBeforeTheEnd'
    BY DEF Turn!IInv, Turn!TypeOK, Turn!Events, Turn!OneAttempt, Turn!NotSent,
           Turn!EventsAreBacked, Turn!Backed, Turn!DecisionIsBacked, Turn!RefusalIsLast,
           Turn!RefusalHasCause, Turn!ResultIsSettled, Turn!Settled, Turn!Phases, Turn!RowSays,
           Turn!AllowStands, Turn!Reasons, Turn!PlacedIsWritten, Turn!Written,
           Turn!RememberedIsAudited, Turn!RowBeforeTheEnd
  <2> QED BY <2>1 DEF Turn!IInv
<1>30. ASSUME NEW a \in Turn!Attempts, Turn!LambdaWrites(a) PROVE Turn!IInv'
  <2> USE <1>30 DEF Turn!LambdaWrites, Turn!GatewayMoves, Turn!BackendStays
  <2>1. /\ Turn!TypeOK' /\ Turn!OneAttempt' /\ Turn!NotSent' /\ Turn!EventsAreBacked'
        /\ Turn!DecisionIsBacked' /\ Turn!RefusalIsLast' /\ Turn!RefusalHasCause'
        /\ Turn!ResultIsSettled' /\ Turn!Phases' /\ Turn!RowSays' /\ Turn!AllowStands'
        /\ Turn!Reasons' /\ Turn!PlacedIsWritten' /\ Turn!RememberedIsAudited'
        /\ Turn!RowBeforeTheEnd'
    BY DEF Turn!IInv, Turn!TypeOK, Turn!Events, Turn!OneAttempt, Turn!NotSent,
           Turn!EventsAreBacked, Turn!Backed, Turn!DecisionIsBacked, Turn!RefusalIsLast,
           Turn!RefusalHasCause, Turn!ResultIsSettled, Turn!Settled, Turn!Phases, Turn!RowSays,
           Turn!AllowStands, Turn!Reasons, Turn!PlacedIsWritten, Turn!Written,
           Turn!RememberedIsAudited, Turn!RowBeforeTheEnd
  <2> QED BY <2>1 DEF Turn!IInv
<1>31. ASSUME UNCHANGED Turn!vars PROVE Turn!IInv'
  <2> USE <1>31 DEF Turn!vars
  <2>1. /\ Turn!TypeOK' /\ Turn!OneAttempt' /\ Turn!NotSent' /\ Turn!EventsAreBacked'
        /\ Turn!DecisionIsBacked' /\ Turn!RefusalIsLast' /\ Turn!RefusalHasCause'
        /\ Turn!ResultIsSettled' /\ Turn!Phases' /\ Turn!RowSays' /\ Turn!AllowStands'
        /\ Turn!Reasons' /\ Turn!PlacedIsWritten' /\ Turn!RememberedIsAudited'
        /\ Turn!RowBeforeTheEnd'
    BY DEF Turn!IInv, Turn!TypeOK, Turn!Events, Turn!OneAttempt, Turn!NotSent,
           Turn!EventsAreBacked, Turn!Backed, Turn!DecisionIsBacked, Turn!RefusalIsLast,
           Turn!RefusalHasCause, Turn!ResultIsSettled, Turn!Settled, Turn!Phases, Turn!RowSays,
           Turn!AllowStands, Turn!Reasons, Turn!PlacedIsWritten, Turn!Written,
           Turn!RememberedIsAudited, Turn!RowBeforeTheEnd
  <2> QED BY <2>1 DEF Turn!IInv
<1> QED BY <1>1, <1>2, <1>3, <1>4, <1>5, <1>6, <1>7, <1>8, <1>9, <1>10, <1>11, <1>12, <1>13, <1>14,
   <1>15, <1>16, <1>17, <1>18, <1>19, <1>20, <1>21, <1>22, <1>23, <1>24, <1>25, <1>26, <1>27,
   <1>28, <1>29, <1>30, <1>31 DEF Turn!Next, Turn!Request, Turn!Thread, Turn!Concierge, Turn!Lambda

\* A request that has read nothing yet has neither sent, written nor said anything.
LEMMA TurnInit == ASSUME Turn!MaxCancelsAssumption, Turn!Init PROVE Turn!IInv
<1>1. Turn!TypeOK
  <2>1. wire \in [Turn!Attempts -> Seq(Turn!Events)]
    BY DEF Turn!Init
  <2>2. decision \in Decisions /\ Turn!Nothing \in Decisions
    BY DEF Turn!Init, Turn!Nothing, Decisions
  <2>3. progress \in BOOLEAN /\ pending \in BOOLEAN /\ remembered \in BOOLEAN
    BY Zenon DEF Turn!Init
  <2>4. /\ runtime \in [Turn!Attempts -> {"none", "start", "call", "raise", "narrate", "ended"}]
        /\ gateway \in [Turn!Attempts -> {"none", "sent", "running", "rejected", "denied",
                                      "refused", "written"}]
    BY DEF Turn!Init
  <2>5. row \in [state: {"none", "writing", "committed", "lost"},
                verdict: {"none", "allow", "deny", "error"}, call: Turn!Spans \cup {"unknown"}]
    BY DEF Turn!Init
  <2>6. /\ operation \in {"turn", "write"} /\ pc = "read" /\ thread = "idle" /\ attempt = 1
        /\ error = "none" /\ answer = "none" /\ cancels \in 0..MaxCancels
    BY DEF Turn!Init
  <2>7. QED BY <2>1, <2>2, <2>3, <2>4, <2>5, <2>6 DEF Turn!TypeOK, Decisions
<1>2. Len(wire[1]) = 0
  BY DEF Turn!Init
<1>3. /\ Turn!OneAttempt /\ Turn!NotSent /\ Turn!Phases
      /\ Turn!RowSays /\ Turn!AllowStands /\ Turn!Reasons
  BY DEF Turn!Init, Turn!Nothing, Turn!OneAttempt, Turn!NotSent, Turn!Phases, Turn!RowSays,
         Turn!Backed, Turn!AllowStands, Turn!Reasons
<1>4. /\ Turn!EventsAreBacked /\ Turn!RefusalIsLast /\ Turn!RefusalHasCause
      /\ Turn!ResultIsSettled /\ Turn!DecisionIsBacked
  BY <1>2 DEF Turn!Init, Turn!Nothing, Turn!EventsAreBacked, Turn!RefusalIsLast,
              Turn!RefusalHasCause, Turn!ResultIsSettled,
              Turn!DecisionIsBacked, Turn!Backed
<1>5. Turn!PlacedIsWritten /\ Turn!RememberedIsAudited /\ Turn!RowBeforeTheEnd
  BY DEF Turn!Init, Turn!PlacedIsWritten, Turn!RememberedIsAudited, Turn!RowBeforeTheEnd
<1>6. QED BY <1>1, <1>3, <1>4, <1>5 DEF Turn!IInv

\* A governed turn tells the traveler, the audit and its memory only what happened.
TurnPromise ==
    /\ Turn!TypeOK
    /\ Turn!PlacedIsWritten
    /\ Turn!UnwrittenUnlessGivenUp
    /\ Turn!CalledOnce
    /\ Turn!RowBeforeTheEnd
    /\ Turn!RowIsTruthful
    /\ Turn!RememberedIsAudited

\* What the invariant says of what the traveler, the audit and the memory are told.
LEMMA TurnSays == ASSUME Turn!IInv
  PROVE TurnPromise
<1>1. Turn!TypeOK /\ Turn!PlacedIsWritten /\ Turn!RowBeforeTheEnd /\ Turn!RememberedIsAudited
  BY DEF Turn!IInv
<1>2. Turn!UnwrittenUnlessGivenUp
  <2> SUFFICES ASSUME answer \in {"failed", "unplaced"}, Turn!Confirmed, ~Turn!GaveUp,
                      NEW a \in Turn!Attempts
               PROVE  /\ gateway[a] \in {"none", "rejected", "denied", "refused"}
                      /\ runtime[a] \in {"none", "raise", "narrate", "ended"}
    BY DEF Turn!UnwrittenUnlessGivenUp
  <2>1. /\ gateway[2] = "none" /\ runtime[2] = "none"
        /\ gateway[1] \in {"none", "sent", "running", "rejected", "denied", "refused", "written"}
        /\ decision.call \in Turn!Spans
    BY DEF Turn!IInv, Turn!TypeOK, Turn!OneAttempt
  <2>2. CASE thread = "idle" \/ error = "unsent"
    BY <2>1, <2>2 DEF Turn!IInv, Turn!NotSent
  <2>3. CASE error = "credential"
    BY <2>1, <2>3 DEF Turn!IInv, Turn!DecisionIsBacked, Turn!Backed
  <2>4. CASE decision.refused
    BY <2>1, <2>4 DEF Turn!IInv, Turn!DecisionIsBacked, Turn!Backed, Turn!GaveUp
  <2>5. QED BY <2>2, <2>3, <2>4 DEF Turn!IInv, Turn!Reasons
<1>3. Turn!CalledOnce
  BY DEF Turn!IInv, Turn!OneAttempt, Turn!CalledOnce
<1>4. Turn!RowIsTruthful
  <2>1. row.state = "committed" /\ row.verdict = "allow" =>
           /\ ~decision.policyDenied /\ error \in {"none", "trace", "memory", "cancelled"}
           /\ error = "trace" => remembered
    BY DEF Turn!IInv, Turn!AllowStands
  <2>2. row.call \in {"allowed", "denied", "refused"} /\ Turn!Confirmed => Turn!Backed(row.call)
    BY DEF Turn!IInv, Turn!RowSays
  <2>3. Turn!Confirmed => (Turn!Written <=> gateway[1] = "written")
    BY DEF Turn!IInv, Turn!OneAttempt, Turn!Written
  <2>4. row.call \in {"denied", "refused"} => ~Turn!Written
    BY <2>2, <2>3 DEF Turn!Backed, Turn!Written
  <2>5. QED BY <2>1, <2>2, <2>3, <2>4 DEF Turn!RowIsTruthful, Turn!Backed
<1>5. QED BY <1>1, <1>2, <1>3, <1>4 DEF TurnPromise

\* However often a request is cancelled and whatever is lost on the way to the Lambda, for any
\* number of cancellations: a receipt stands for a committed write, only a Gateway call given up on
\* hides one, one click is one call, the audit row is committed or known lost before the end and
\* says no more than happened, and no turn is remembered without its row (production_agent.py).
THEOREM TurnKept == ASSUME Turn!MaxCancelsAssumption
  PROVE Turn!Spec => []TurnPromise
<1>1. Turn!Init => Turn!IInv
  BY TurnInit
<1>2. Turn!IInv /\ [Turn!Next]_(Turn!vars) => Turn!IInv'
  BY TurnStep
<1>3. Turn!IInv => TurnPromise
  BY TurnSays
<1>4. QED BY <1>1, <1>2, <1>3, PTL DEF Turn!Spec

-----------------------------------------------------------------------------
(* A reply that is streamed. *)

CONSTANTS Keepalive, Idle, Ceiling, Cap, RequestLimit, MaxAuthorization, MaxTransit, MaxLag,
          MaxOutput, MayDie
VARIABLES now, touched, heard, server, opened, lastSent, connected, work, finished, output, handed,
          queue
Stream == INSTANCE EventStream

USE DEF Stream!TimesFit, Stream!ConnectionIsPrompt, Stream!LiveIsNotQuiet, Stream!Greeting,
        Stream!Outputs, Stream!Keep, Stream!Terminal, Stream!ReadBack, Stream!page, Stream!stream,
        Stream!task, Stream!Times

LEMMA TimesAreNatural == ASSUME Stream!TimesFit
  PROVE /\ Keepalive \in Nat /\ Idle \in Nat /\ Ceiling \in Nat /\ Cap \in Nat
        /\ RequestLimit \in Nat
        /\ MaxAuthorization \in Nat /\ MaxTransit \in Nat /\ MaxLag \in Nat /\ MaxOutput \in Nat
OBVIOUS

\* A frame is sent at the end of the wire, with the time.
LEMMA SendsLast ==
  ASSUME Stream!WellFormed, NEW e \in 0..Stream!ReadBack, Stream!Sent(e), now' = now
  PROVE /\ wire' \in Seq((0..Stream!ReadBack) \X Stream!Times) /\ wire' # <<>>
        /\ Len(wire') = Len(wire) + 1 /\ Len(wire) \in Nat
        /\ \A i \in 1..Len(wire) : wire'[i] = wire[i]
        /\ wire'[Len(wire) + 1] = <<e, now>>
        /\ \A x \in Stream!ToSet(wire') : x[2] \in 0..now'
        /\ lastSent' = now
<1>1. <<e, now>> \in (0..Stream!ReadBack) \X Stream!Times
  BY DEF Stream!WellFormed, Stream!TypeOK
<1>2. /\ wire' \in Seq((0..Stream!ReadBack) \X Stream!Times) /\ wire' # <<>>
      /\ Len(wire') = Len(wire) + 1 /\ Len(wire) \in Nat
      /\ \A i \in 1..Len(wire) : wire'[i] = wire[i]
      /\ wire'[Len(wire) + 1] = <<e, now>>
      /\ lastSent' = now
  BY <1>1, AppendProperties DEF Stream!WellFormed, Stream!Sent
<1>3. \A x \in Stream!ToSet(wire') : x[2] \in 0..now'
  <2>1. SUFFICES ASSUME NEW i \in 1..Len(wire') PROVE wire'[i][2] \in 0..now
    BY <1>2 DEF Stream!ToSet
  <2>2. CASE i = Len(wire) + 1
    BY <1>2, <2>2 DEF Stream!WellFormed, Stream!TypeOK
  <2>3. CASE i \in 1..Len(wire)
    <3>1. wire[i] \in Stream!ToSet(wire)
      BY <2>3 DEF Stream!ToSet, Stream!WellFormed
    <3>2. QED BY <1>2, <2>3, <3>1 DEF Stream!WellFormed, Stream!TypeOK
  <2>4. QED BY <1>2, <2>2, <2>3
<1>4. QED BY <1>2, <1>3

\* What is on the wire was sent before now.
LEMMA WireIsTimed == ASSUME Stream!WellFormed, NEW i \in 1..Len(wire)
  PROVE wire[i][1] \in 0..Stream!ReadBack /\ wire[i][2] \in 0..now
<1>1. wire[i] \in (0..Stream!ReadBack) \X Stream!Times
  BY ElementOfSeq DEF Stream!WellFormed
<1>2. wire[i] \in Stream!ToSet(wire)
  BY LenProperties DEF Stream!ToSet, Stream!WellFormed
<1>3. QED BY <1>1, <1>2 DEF Stream!WellFormed, Stream!TypeOK

\* The frame that arrives is the first of the wire.
LEMMA FirstArrives == ASSUME Stream!WellFormed, wire # <<>>, wire' = Tail(wire), now' = now
  PROVE /\ wire' \in Seq((0..Stream!ReadBack) \X Stream!Times)
        /\ Len(wire) \in Nat \ {0} /\ Len(wire') = Len(wire) - 1
        /\ \A i \in 1..Len(wire') : wire'[i] = wire[i + 1]
        /\ Head(wire) = wire[1] /\ wire[1][1] \in 0..Stream!ReadBack /\ wire[1][2] \in 0..now
        /\ \A x \in Stream!ToSet(wire') : x[2] \in 0..now'
<1>1. /\ wire' \in Seq((0..Stream!ReadBack) \X Stream!Times)
      /\ Len(wire) \in Nat \ {0} /\ Len(wire') = Len(wire) - 1
      /\ \A i \in 1..Len(wire') : wire'[i] = wire[i + 1]
      /\ Head(wire) = wire[1] /\ wire[1][1] \in 0..Stream!ReadBack
  <2>1. wire \in Seq((0..Stream!ReadBack) \X Stream!Times)
    BY DEF Stream!WellFormed
  <2>2. /\ wire' \in Seq((0..Stream!ReadBack) \X Stream!Times) /\ Len(wire') = Len(wire) - 1
        /\ \A i \in 1..Len(wire') : wire'[i] = wire[i + 1]
    BY <2>1, HeadTailProperties
  <2>3. Len(wire) \in Nat \ {0}
    BY <2>1, EmptySeq
  <2>4. wire[1] \in (0..Stream!ReadBack) \X Stream!Times
    BY <2>1, <2>3, ElementOfSeq
  <2>5. Head(wire) = wire[1]
    BY <2>1
  <2>. QED BY <2>2, <2>3, <2>4, <2>5
<1>2. \A i \in 1..Len(wire) : wire[i][2] \in 0..now
  BY WireIsTimed
<1>3. \A x \in Stream!ToSet(wire') : x[2] \in 0..now'
  <2>1. SUFFICES ASSUME NEW i \in 1..Len(wire') PROVE wire'[i][2] \in 0..now
    BY <1>1, LenProperties DEF Stream!ToSet
  <2>2. QED BY <1>1, <1>2
<1>4. QED BY <1>1, <1>2, <1>3

\* What is framed is the next event.
LEMMA FramesNext ==
  ASSUME Stream!TimesFit, Stream!WellFormed, Stream!Opened, Stream!QueuedInOrder, Stream!Frame,
         NEW f \in [0..Len(wire) -> 0..output],
                        Stream!Counts(f)
  PROVE /\ Head(queue) = Stream!Event(Stream!Framed + 1)
        /\ Head(queue) \in Stream!Outputs \union {Stream!Terminal}
        /\ queue' \in Seq(Stream!Outputs \union {Stream!Terminal})
        /\ Stream!Framed \in 0..output /\ Stream!Framed' = Stream!Framed + 1
        /\ Stream!Framed = output => work = "done"
        /\ Head(queue) = Stream!Terminal <=> Stream!Framed = output
        /\ Len(queue) \in Nat \ {0} /\ Len(queue') = Len(queue) - 1
        /\ \A i \in 1..Len(queue') : queue'[i] = queue[i + 1]
<1>1. /\ Len(queue) \in Nat \ {0} /\ Len(queue') = Len(queue) - 1 /\ Len(handed) \in Nat
      /\ queue' \in Seq(Stream!Outputs \union {Stream!Terminal})
      /\ \A i \in 1..Len(queue') : queue'[i] = queue[i + 1]
      /\ Head(queue) = queue[1] /\ queue[1] \in Stream!Outputs \union {Stream!Terminal}
  <2> DEFINE Events == Stream!Outputs \union {Stream!Terminal}
  <2>1. queue \in Seq(Events) /\ queue # <<>> /\ queue' = Tail(queue) /\ handed \in Seq(Events)
    BY DEF Stream!WellFormed, Stream!Frame
  <2> HIDE DEF Events
  <2>2. /\ queue' \in Seq(Events) /\ Len(queue') = Len(queue) - 1
        /\ \A i \in 1..Len(queue') : queue'[i] = queue[i + 1]
    BY <2>1, HeadTailProperties
  <2>3. Len(queue) \in Nat \ {0} /\ Len(handed) \in Nat
    BY <2>1, EmptySeq, LenProperties
  <2>4. queue[1] \in Events
    BY <2>1, <2>3, ElementOfSeq
  <2>5. Head(queue) = queue[1]
    BY <2>1
  <2>. QED BY <2>2, <2>3, <2>4, <2>5 DEF Events
<1>2. Stream!Framed \in 0..output
  <2>1. Len(wire) \in Nat
    BY LenProperties DEF Stream!WellFormed
  <2>2. f[Len(wire)] \in 0..output
    BY <2>1
  <2>3. connected
    BY DEF Stream!Frame, Stream!Listening
  <2>. QED BY <2>2, <2>3 DEF Stream!Counts
<1>3. Stream!Framed' = Stream!Framed + 1
  BY <1>1 DEF Stream!Framed, Stream!Emitted, Stream!Frame, Stream!WellFormed, Stream!TypeOK
<1>4. Head(queue) = Stream!Event(Stream!Framed + 1)
  BY <1>1 DEF Stream!QueuedInOrder, Stream!Frame, Stream!Listening
<1>5. Stream!Framed = output => work = "done"
  <2>1. output \in Nat
    BY TimesAreNatural DEF Stream!WellFormed, Stream!TypeOK
  <2>2. CASE work # "done"
    <3>1. Stream!Framed = output - Len(queue) - Len(handed)
      BY <2>1, <2>2 DEF Stream!Framed, Stream!Emitted
    <3>. QED BY <1>1, <2>1, <3>1
  <2>. QED BY <2>2
<1>6. Head(queue) = Stream!Terminal <=> Stream!Framed = output
  BY <1>2, <1>4, SMTT(60) DEF Stream!Event, Stream!WellFormed, Stream!TypeOK
<1>7. QED BY <1>1, <1>2, <1>3, <1>4, <1>5, <1>6

\* A frame that is sent keeps the order and the times of the wire.
LEMMA SendKeepsTime ==
  ASSUME Stream!TimesFit, Stream!WellFormed, Stream!WireInTime, NEW e \in 0..Stream!ReadBack,
         Stream!Sent(e), now' = now,
                              wire # <<>> => now <= lastSent + Stream!Gap
  PROVE Stream!WireInTime'
<1>1. /\ Len(wire') = Len(wire) + 1 /\ Len(wire) \in Nat
      /\ \A i \in 1..Len(wire) : wire'[i] = wire[i]
      /\ wire'[Len(wire) + 1] = <<e, now>> /\ lastSent' = now
  BY SendsLast
<1>2. now \in Nat /\ lastSent \in 0..now /\ MaxTransit \in Nat /\ Stream!Gap \in Nat
  BY TimesAreNatural DEF Stream!WellFormed, Stream!TypeOK, Stream!Gap
<1>3. \A i \in 1..Len(wire) : wire[i][2] \in 0..now
  BY WireIsTimed
<1>4. SUFFICES ASSUME NEW i \in 1..Len(wire')
      PROVE /\ now' <= wire'[i][2] + MaxTransit
            /\ wire'[i][2] <= lastSent'
            /\ \A j \in i..Len(wire') : wire'[i][2] <= wire'[j][2]
            /\ i < Len(wire') => wire'[i + 1][2] <= wire'[i][2] + Stream!Gap
            /\ i = Len(wire') => wire'[i][2] = lastSent'
  BY DEF Stream!WireInTime, Stream!Gap
<1>5. CASE i = Len(wire) + 1
  BY <1>1, <1>2, <1>5, SMTT(60)
<1>6. CASE i \in 1..Len(wire)
  <2>1. /\ wire'[i] = wire[i] /\ now <= wire[i][2] + MaxTransit /\ wire[i][2] \in 0..now
        /\ \A j \in i..Len(wire) : wire[i][2] <= wire[j][2]
        /\ i < Len(wire) => wire[i + 1][2] <= wire[i][2] + Stream!Gap
        /\ i = Len(wire) => wire[i][2] = lastSent
    BY <1>1, <1>3, <1>6 DEF Stream!WireInTime
  <2>2. ASSUME NEW j \in i..Len(wire') PROVE wire'[i][2] <= wire'[j][2]
    <3>1. CASE j = Len(wire) + 1
      BY <1>1, <2>1, <3>1, SMTT(60)
    <3>2. CASE j \in i..Len(wire)
      <4>1. wire'[j] = wire[j]
        BY <1>1, <1>6, <3>2
      <4>2. QED BY <2>1, <3>2, <4>1
    <3>3. QED BY <1>1, <2>2, <3>1, <3>2, SMTT(60)
  <2>3. CASE i < Len(wire)
    <3>1. wire'[i + 1] = wire[i + 1]
      <4>1. i + 1 \in 1..Len(wire)
        BY <1>1, <1>6, <2>3
      <4>2. QED BY <1>1, <4>1
    <3>2. i # Len(wire')
      BY <1>1, <2>3
    <3>3. now' <= wire'[i][2] + MaxTransit /\ wire'[i][2] <= lastSent'
      BY <1>1, <1>2, <2>1, SMTT(60)
    <3>4. QED BY <2>1, <2>2, <2>3, <3>1, <3>2, <3>3
  <2>4. CASE i = Len(wire)
    <3>1. wire # <<>>
      BY <1>1, <1>6
    <3>2. now <= wire[i][2] + Stream!Gap
      BY <1>2, <2>1, <2>4, <3>1
    <3>3. wire'[i + 1] = <<e, now>> /\ i # Len(wire')
      BY <1>1, <2>4
    <3>4. now' <= wire'[i][2] + MaxTransit /\ wire'[i][2] <= lastSent'
      BY <1>1, <1>2, <2>1, SMTT(60)
    <3>5. wire'[i + 1][2] <= wire'[i][2] + Stream!Gap
      BY <2>1, <3>2, <3>3
    <3>6. QED BY <2>2, <3>3, <3>4, <3>5
  <2>5. QED BY <1>1, <1>6, <2>3, <2>4
<1>7. QED BY <1>1, <1>5, <1>6, SMTT(60)

\* An output that is sent is the next one, so it is counted.
LEMMA SendKeepsCount ==
  ASSUME Stream!TimesFit, Stream!WellFormed, NEW f \in [0..Len(wire) -> 0..output],
         Stream!Counts(f),
         NEW e \in 0..Stream!ReadBack, Stream!Sent(e), now' = now, UNCHANGED <<told, heard, work,
                                                                               output>>,
         NEW n \in 0..output, n = f[Len(wire)] + (IF e \in Stream!Outputs THEN 1 ELSE 0),
         e \in Stream!Outputs => e = n, e = Stream!Terminal => work = "done" /\ n = output,
         connected' => n = Stream!Framed'
  PROVE \E g \in [0..Len(wire') -> 0..output'] : Stream!Counts(g)'
<1>1. /\ Len(wire') = Len(wire) + 1 /\ Len(wire) \in Nat
      /\ \A i \in 1..Len(wire) : wire'[i] = wire[i]
      /\ wire'[Len(wire) + 1] = <<e, now>>
  BY SendsLast
<1> DEFINE g == [i \in 0..Len(wire) + 1 |-> IF i <= Len(wire) THEN f[i] ELSE n]
<1>2. g \in [0..Len(wire') -> 0..output']
  BY <1>1, SMTT(60)
<1>3. told' = "waiting" => g[0] = Len(heard')
  BY <1>1 DEF Stream!Counts
<1>4. ASSUME NEW i \in 1..Len(wire')
      PROVE /\ g[i] = g[i - 1] + (IF wire'[i][1] \in Stream!Outputs THEN 1 ELSE 0)
            /\ wire'[i][1] \in Stream!Outputs => wire'[i][1] = g[i]
            /\ wire'[i][1] = Stream!Terminal => work' = "done" /\ g[i] = output'
  <2>1. CASE i = Len(wire) + 1
    <3>1. wire'[i][1] = e /\ g[i] = n /\ g[i - 1] = f[Len(wire)]
      BY <1>1, <2>1, SMTT(60)
    <3>2. QED BY <3>1
  <2>2. CASE i \in 1..Len(wire)
    <3>1. wire'[i] = wire[i]
      BY <1>1, <2>2
    <3>2. /\ i \in 0..Len(wire) + 1 /\ i - 1 \in 0..Len(wire) + 1 /\ i <= Len(wire)
          /\ i - 1 <= Len(wire)
      BY <1>1, <2>2
    <3>3. g[i] = f[i] /\ g[i - 1] = f[i - 1]
      BY <3>2
    <3>4. QED BY <2>2, <3>1, <3>3 DEF Stream!Counts
  <2>3. QED BY <1>1, <1>4, <2>1, <2>2, SMTT(60)
<1>5. connected' => g[Len(wire')] = Stream!Framed'
  BY <1>1
<1>6. QED BY <1>2, <1>3, <1>4, <1>5 DEF Stream!Counts

\* The last event is sent last.
LEMMA SendKeepsEnd ==
  ASSUME Stream!WellFormed, Stream!LastIsLast, NEW e \in 0..Stream!ReadBack, Stream!Sent(e),
         now' = now, connected,
         Stream!Answers(e) => ~connected'
  PROVE Stream!LastIsLast' /\ Stream!EndsOnce'
<1>1. /\ Len(wire') = Len(wire) + 1 /\ Len(wire) \in Nat
      /\ \A i \in 1..Len(wire) : wire'[i] = wire[i]
      /\ wire'[Len(wire) + 1] = <<e, now>>
  BY SendsLast
<1>2. \A i \in 1..Len(wire) : ~Stream!Answers(wire'[i][1])
  BY <1>1 DEF Stream!LastIsLast
<1>3. Stream!Answers(wire'[Len(wire) + 1][1]) => ~connected'
  BY <1>1
<1>4. \A i \in 1..Len(wire') : i = Len(wire') \/ i \in 1..Len(wire)
  BY <1>1
<1>5. QED BY <1>1, <1>2, <1>3, <1>4 DEF Stream!LastIsLast, Stream!EndsOnce, Stream!Answers

\* The queue and the events handed over are of the work.
LEMMA QueueIsTyped == ASSUME Stream!WellFormed
  PROVE /\ Len(queue) \in Nat /\ Len(handed) \in Nat
        /\ queue # <<>> =>
             /\ Head(queue) \in Stream!Outputs \union {Stream!Terminal}
             /\ Head(queue) = queue[1]
             /\ Tail(queue) \in Seq(Stream!Outputs \union {Stream!Terminal})
             /\ Len(Tail(queue)) = Len(queue) - 1 /\ Len(queue) > 0
             /\ \A i \in 1..Len(queue) - 1 : Tail(queue)[i] = queue[i + 1]
        /\ handed # <<>> =>
             /\ Head(handed) \in Stream!Outputs \union {Stream!Terminal}
             /\ Head(handed) = handed[1]
             /\ Tail(handed) \in Seq(Stream!Outputs \union {Stream!Terminal})
             /\ Len(Tail(handed)) = Len(handed) - 1 /\ Len(handed) > 0
             /\ \A i \in 1..Len(handed) - 1 : Tail(handed)[i] = handed[i + 1]
<1> DEFINE Events == Stream!Outputs \union {Stream!Terminal}
<1>1. queue \in Seq(Events) /\ handed \in Seq(Events)
  BY DEF Stream!WellFormed
<1> HIDE DEF Events
<1>2. ASSUME NEW s \in Seq(Events), s # <<>>
      PROVE /\ Head(s) \in Events /\ Head(s) = s[1] /\ Tail(s) \in Seq(Events)
            /\ Len(Tail(s)) = Len(s) - 1 /\ Len(s) > 0
            /\ \A i \in 1..Len(s) - 1 : Tail(s)[i] = s[i + 1]
  BY <1>2, HeadTailProperties, EmptySeq, LenProperties
<1>3. QED BY <1>1, <1>2, LenProperties DEF Events

\* The values of the variables and constants that are numbers.
LEMMA Typed == ASSUME Stream!TimesFit, Stream!WellFormed
  PROVE /\ now \in Nat /\ touched \in 0..now /\ opened \in 0..now /\ lastSent \in 0..now
        /\ finished \in 0..now /\ output \in 0..MaxOutput
        /\ MaxTransit \in Nat /\ MaxOutput \in Nat /\ Stream!Gap \in Nat /\ Idle \in Nat
        /\ MaxLag <= Stream!Gap /\ Keepalive <= Stream!Gap
        /\ MaxLag \in Nat /\ Keepalive \in Nat /\ Cap \in Nat /\ RequestLimit \in Nat
        /\ Ceiling = Cap /\ Cap < RequestLimit
BY TimesAreNatural, SMTT(60) DEF Stream!WellFormed, Stream!TypeOK, Stream!Gap



\* Each action keeps the invariant.
LEMMA StreamStep == ASSUME Stream!TimesFit, Stream!IInv, [Stream!Next]_(Stream!vars)
  PROVE Stream!IInv'
<1>1. ASSUME Stream!Open PROVE Stream!IInv'
  <2> USE <1>1 DEF Stream!Open
  <2>0. /\ wire' \in Seq((0..Stream!ReadBack) \X Stream!Times) /\ wire' # <<>>
        /\ Len(wire') = Len(wire) + 1 /\ Len(wire) \in Nat
        /\ \A i \in 1..Len(wire) : wire'[i] = wire[i]
        /\ wire'[Len(wire) + 1] = <<Stream!Greeting, now>>
        /\ \A x \in Stream!ToSet(wire') : x[2] \in 0..now'
        /\ lastSent' = now /\ Stream!Greeting \in 0..Stream!ReadBack /\ now' = now
    <3>2. Stream!Greeting \in 0..Stream!ReadBack
      BY TimesAreNatural
    <3>3. Stream!WellFormed /\ Stream!Sent(Stream!Greeting) /\ now' = now
      BY DEF Stream!IInv
    <3>. QED BY <3>2, <3>3, SendsLast
  <2>1. /\ Stream!HandedAtOnce' /\ Stream!CompleteIsAll' /\ Stream!FinishedIsDelivered'
        /\ Stream!NeverCut'
    BY DEF Stream!IInv, Stream!HandedAtOnce, Stream!CompleteIsAll, Stream!FinishedIsDelivered,
       Stream!NeverCut
  <2>2. Stream!WellFormed'
    <3>1. Stream!WellFormed /\ Stream!Opened
      BY DEF Stream!IInv
    <3>2. Stream!TypeOK'
      BY <2>0, <3>1, Typed DEF Stream!WellFormed, Stream!TypeOK
    <3>3. QED BY <2>0, <3>1, <3>2 DEF Stream!WellFormed
  <2>3. Stream!Opened'
    BY <2>0, SMTT(60) DEF Stream!IInv, Stream!Opened, Stream!WellFormed, Stream!TypeOK
  <2>4. Stream!QueuedInOrder'
    BY <2>0 DEF Stream!IInv, Stream!QueuedInOrder, Stream!Event, Stream!Framed, Stream!Emitted,
       Stream!WellFormed, Stream!TypeOK, Stream!Opened
  <2>5. Stream!ShownInOrder'
    <3>1. PICK f \in [0..Len(wire) -> 0..output] : Stream!Counts(f)
      BY DEF Stream!IInv, Stream!ShownInOrder
    <3>2. /\ Stream!WellFormed /\ Stream!Opened /\ Stream!ShownInOrder
          /\ Stream!Sent(Stream!Greeting) /\ Stream!Greeting \in 0..Stream!ReadBack /\ now' = now
          /\ UNCHANGED <<told, heard, output, queue, handed>>
      BY <2>0 DEF Stream!IInv
    <3>3. Len(wire) = 0 /\ output \in Nat /\ work = "none" /\ MaxOutput \in Nat /\ connected
      BY <3>2, Typed DEF Stream!Opened, Stream!IInv
    <3> DEFINE g == [i \in 0..1 |-> f[0]]
    <3>4. Len(wire') = 1 /\ wire'[1] = <<Stream!Greeting, now>>
      BY <2>0, <3>3
    <3>5. f[0] \in 0..output
      BY <3>1, <3>3
    <3>6. Stream!Framed' = Stream!Framed
      BY <3>2, <3>3 DEF Stream!Framed, Stream!Emitted
    <3>7. /\ told' = "waiting" => g[0] = Len(heard')
          /\ connected' => g[1] = Stream!Framed'
      BY <3>1, <3>2, <3>3, <3>6 DEF Stream!Counts
    <3>8. g[1] = g[0] /\ Stream!Greeting \notin Stream!Outputs /\ Stream!Greeting # Stream!Terminal
      BY <3>3
    <3>9. g \in [0..Len(wire') -> 0..output'] /\ Stream!Counts(g)'
      <4>1. g \in [0..1 -> 0..output']
        BY <3>2, <3>5
      <4>2. g[0] \in Nat
        BY <3>3, <3>5
      <4> HIDE DEF g
      <4>3. QED BY <3>4, <3>7, <3>8, <4>1, <4>2 DEF Stream!Counts
    <3>10. QED BY <3>2, <3>9 DEF Stream!ShownInOrder, Stream!Opened
  <2>6. Stream!LastIsLast'
    <3>1. Len(wire) = 0 /\ ~Stream!Answers(Stream!Greeting)
      BY TimesAreNatural DEF Stream!IInv, Stream!Opened, Stream!Answers
    <3>2. \A i \in 1..Len(wire') : wire'[i][1] = Stream!Greeting
      BY <2>0, <3>1
    <3>3. QED BY <3>1, <3>2 DEF Stream!LastIsLast, Stream!Answers
  <2>7. Stream!ReadBackIsLate'
    BY <2>0, SMTT(60) DEF Stream!IInv, Stream!ReadBackIsLate, Stream!WellFormed, Stream!TypeOK,
       Stream!Opened
  <2>8. Stream!NotSilent'
    BY <2>0, SMTT(60) DEF Stream!IInv, Stream!NotSilent, Stream!Gap, Stream!WellFormed,
       Stream!TypeOK, Stream!Opened
  <2>9. Stream!WireInTime'
    <3>1. Len(wire) = 0 /\ now \in Nat /\ MaxTransit \in Nat
      BY Typed DEF Stream!IInv, Stream!Opened
    <3>2. \A i \in 1..Len(wire') : i = 1 /\ wire'[i][2] = now
      BY <2>0, <3>1
    <3>3. now' = now /\ lastSent' = now /\ Len(wire') = 1
      BY <2>0, <3>1
    <3>4. QED BY <3>1, <3>2, <3>3 DEF Stream!WireInTime
  <2>10. Stream!InTouch'
    BY <2>0 DEF Stream!IInv, Stream!InTouch, Stream!Gap, Stream!TypeOK, Stream!WellFormed,
       Stream!Opened, Stream!QueuedInOrder, Stream!Event, Stream!Framed, Stream!Emitted,
       Stream!HandedAtOnce, Stream!ShownInOrder, Stream!Counts, Stream!LastIsLast, Stream!Answers,
       Stream!ReadBackIsLate, Stream!NotSilent, Stream!WireInTime, Stream!CompleteIsAll,
       Stream!FinishedIsDelivered, Stream!EndsOnce, Stream!LiveWhilePrompt, Stream!NeverCut
  <2>11. Stream!EndsOnce'
    BY <2>0, SMTT(60) DEF Stream!IInv, Stream!EndsOnce, Stream!Answers, Stream!WellFormed,
       Stream!TypeOK, Stream!Opened
  <2>12. Stream!LiveWhilePrompt'
    BY <2>0, SMTT(60) DEF Stream!IInv, Stream!LiveWhilePrompt, Stream!Gap, Stream!WellFormed,
       Stream!TypeOK, Stream!Opened, Stream!InTouch, Stream!WireInTime, Stream!NotSilent
  <2> QED BY <2>1, <2>2, <2>3, <2>4, <2>5, <2>6, <2>7, <2>8, <2>9, <2>10, <2>11, <2>12 DEF
             Stream!IInv
<1>2. ASSUME Stream!Emit PROVE Stream!IInv'
  <2> USE <1>2 DEF Stream!Emit
  <2>1. /\ Stream!Opened' /\ Stream!HandedAtOnce' /\ Stream!LastIsLast' /\ Stream!ReadBackIsLate'
        /\ Stream!NotSilent' /\ Stream!WireInTime' /\ Stream!InTouch'
        /\ Stream!FinishedIsDelivered' /\ Stream!EndsOnce' /\ Stream!LiveWhilePrompt'
        /\ Stream!NeverCut'
    BY DEF Stream!IInv, Stream!Opened, Stream!HandedAtOnce, Stream!LastIsLast, Stream!Answers,
       Stream!ReadBackIsLate, Stream!NotSilent, Stream!Gap, Stream!WireInTime, Stream!InTouch,
       Stream!FinishedIsDelivered, Stream!EndsOnce, Stream!LiveWhilePrompt, Stream!NeverCut
  <2>2. Stream!WellFormed'
    BY SMTT(60) DEF Stream!IInv, Stream!WellFormed, Stream!TypeOK, Stream!Opened
  <2>3. Stream!QueuedInOrder'
    <3>1. /\ Stream!WellFormed /\ Stream!Opened /\ Stream!QueuedInOrder
          /\ Len(queue) \in Nat /\ Len(handed) \in Nat /\ output \in 0..MaxOutput
          /\ MaxOutput \in Nat
      BY QueueIsTyped, Typed DEF Stream!IInv
    <3>2. CASE ~connected
      BY <3>2 DEF Stream!QueuedInOrder
    <3>3. CASE connected
      <4>1. /\ Len(handed') = Len(handed) + 1
            /\ \A i \in 1..Len(handed) : handed'[i] = handed[i]
            /\ handed'[Len(handed) + 1] = output + 1
        <5>1. output + 1 \in Stream!Outputs \union {Stream!Terminal}
          BY <3>1
        <5>2. QED BY <3>1, <5>1, AppendProperties DEF Stream!WellFormed
      <4>2. Stream!Framed = output - Len(queue) - Len(handed) /\ Stream!Framed' = Stream!Framed
        BY <3>1, <4>1 DEF Stream!Framed, Stream!Emitted
      <4>3. /\ \A n \in Int : n <= output
                 => Stream!Event(n)' = Stream!Event(n) /\ Stream!Event(n) = n
            /\ \A n \in Int : n = output + 1 => Stream!Event(n)' = n
        <5>1. output + 1 <= output' /\ output' = output + 1
          BY <3>1
        <5>2. QED BY <3>1, <5>1 DEF Stream!Event
      <4>4. ASSUME NEW i \in 1..Len(queue) PROVE queue'[i] = Stream!Event(Stream!Framed + i)'
        <5>1. Stream!Framed + i <= output /\ Stream!Framed + i \in Int
          BY <3>1, <4>2, <4>4, SMTT(60)
        <5>2. queue[i] = Stream!Event(Stream!Framed + i)
          BY <3>1, <3>3, <4>4 DEF Stream!QueuedInOrder
        <5>3. QED BY <4>2, <4>3, <5>1, <5>2 DEF Stream!Event
      <4>5. ASSUME NEW i \in 1..Len(handed')
            PROVE handed'[i] = Stream!Event(Stream!Framed + Len(queue) + i)'
        <5>1. CASE i \in 1..Len(handed)
          <6>1. Stream!Framed + Len(queue) + i <= output /\ Stream!Framed + Len(queue) + i \in Int
            BY <3>1, <4>2, <5>1, SMTT(60)
          <6>2. handed[i] = Stream!Event(Stream!Framed + Len(queue) + i)
            BY <3>1, <3>3, <5>1 DEF Stream!QueuedInOrder
          <6>3. QED BY <4>1, <4>2, <4>3, <5>1, <6>1, <6>2 DEF Stream!Event
        <5>2. CASE i = Len(handed) + 1
          <6>1. /\ Stream!Framed + Len(queue) + i = output + 1
                /\ Stream!Framed + Len(queue) + i \in Int
            BY <3>1, <4>2, <5>2, SMTT(60)
          <6>2. QED BY <4>1, <4>2, <4>3, <5>2, <6>1 DEF Stream!Event
        <5>3. QED BY <3>1, <4>1, <4>5, <5>1, <5>2
      <4>6. QED BY <4>4, <4>5 DEF Stream!QueuedInOrder
    <3>4. QED BY <3>2, <3>3
  <2>4. Stream!ShownInOrder'
    <3>1. /\ Stream!WellFormed /\ Stream!Opened /\ Stream!QueuedInOrder
          /\ Len(queue) \in Nat /\ Len(handed) \in Nat /\ output \in 0..MaxOutput
          /\ MaxOutput \in Nat
      BY QueueIsTyped, Typed DEF Stream!IInv
    <3>2. PICK f \in [0..Len(wire) -> 0..output] : Stream!Counts(f)
      BY DEF Stream!IInv, Stream!ShownInOrder
    <3>3. f \in [0..Len(wire') -> 0..output']
      BY <3>1, <3>2, SMTT(60)
    <3>4. ASSUME connected PROVE Stream!Framed' = Stream!Framed
      <4>1. Len(handed') = Len(handed) + 1
        <5>1. output + 1 \in Stream!Outputs \union {Stream!Terminal}
          BY <3>1
        <5>2. QED BY <3>1, <5>1, AppendProperties DEF Stream!WellFormed
      <4>2. QED BY <3>1, <4>1 DEF Stream!Framed, Stream!Emitted
    <3>5. Stream!Counts(f)'
      BY <3>1, <3>2, <3>4 DEF Stream!Counts
    <3>6. Stream!ShownInOrder
      BY DEF Stream!IInv
    <3>7. QED BY <3>3, <3>5, <3>6 DEF Stream!ShownInOrder
  <2>5. Stream!CompleteIsAll'
    BY DEF Stream!IInv, Stream!CompleteIsAll, Stream!WellFormed, Stream!TypeOK, Stream!Opened,
       Stream!ShownInOrder, Stream!Counts, Stream!Framed, Stream!Emitted
  <2> QED BY <2>1, <2>2, <2>3, <2>4, <2>5 DEF Stream!IInv
<1>3. ASSUME Stream!Finish PROVE Stream!IInv'
  <2> USE <1>3 DEF Stream!Finish
  <2>1. /\ Stream!Opened' /\ Stream!HandedAtOnce' /\ Stream!LastIsLast' /\ Stream!ReadBackIsLate'
        /\ Stream!NotSilent' /\ Stream!WireInTime' /\ Stream!InTouch' /\ Stream!CompleteIsAll'
        /\ Stream!EndsOnce' /\ Stream!LiveWhilePrompt' /\ Stream!NeverCut'
    BY DEF Stream!IInv, Stream!Opened, Stream!HandedAtOnce, Stream!LastIsLast, Stream!Answers,
       Stream!ReadBackIsLate, Stream!NotSilent, Stream!Gap, Stream!WireInTime, Stream!InTouch,
       Stream!CompleteIsAll, Stream!EndsOnce, Stream!LiveWhilePrompt, Stream!NeverCut
  <2>2. Stream!WellFormed'
    BY SMTT(60) DEF Stream!IInv, Stream!WellFormed, Stream!TypeOK, Stream!Opened
  <2>3. Stream!QueuedInOrder'
    <3>1. /\ Stream!WellFormed /\ Stream!Opened /\ Stream!QueuedInOrder
          /\ Len(queue) \in Nat /\ Len(handed) \in Nat /\ output \in 0..MaxOutput
          /\ MaxOutput \in Nat
      BY QueueIsTyped, Typed DEF Stream!IInv
    <3>2. CASE ~connected
      BY <3>2 DEF Stream!QueuedInOrder
    <3>3. CASE connected
      <4>1. /\ Len(handed') = Len(handed) + 1
            /\ \A i \in 1..Len(handed) : handed'[i] = handed[i]
            /\ handed'[Len(handed) + 1] = Stream!Terminal
        <5>1. Stream!Terminal \in Stream!Outputs \union {Stream!Terminal}
          BY <3>1
        <5>2. QED BY <3>1, <5>1, AppendProperties DEF Stream!WellFormed
      <4>2. Stream!Framed = output - Len(queue) - Len(handed) /\ Stream!Framed' = Stream!Framed
        BY <3>1, <4>1 DEF Stream!Framed, Stream!Emitted
      <4>3. /\ \A n \in Int : n <= output
                 => Stream!Event(n)' = Stream!Event(n) /\ Stream!Event(n) = n
            /\ \A n \in Int : n = output + 1 => Stream!Event(n)' = Stream!Terminal
        BY <3>1 DEF Stream!Event
      <4>4. ASSUME NEW i \in 1..Len(queue) PROVE queue'[i] = Stream!Event(Stream!Framed + i)'
        <5>1. Stream!Framed + i <= output /\ Stream!Framed + i \in Int
          BY <3>1, <4>2, <4>4, SMTT(60)
        <5>2. queue[i] = Stream!Event(Stream!Framed + i)
          BY <3>1, <3>3, <4>4 DEF Stream!QueuedInOrder
        <5>3. QED BY <4>2, <4>3, <5>1, <5>2 DEF Stream!Event
      <4>5. ASSUME NEW i \in 1..Len(handed')
            PROVE handed'[i] = Stream!Event(Stream!Framed + Len(queue) + i)'
        <5>1. CASE i \in 1..Len(handed)
          <6>1. Stream!Framed + Len(queue) + i <= output /\ Stream!Framed + Len(queue) + i \in Int
            BY <3>1, <4>2, <5>1
          <6>2. handed[i] = Stream!Event(Stream!Framed + Len(queue) + i)
            BY <3>1, <3>3, <5>1 DEF Stream!QueuedInOrder
          <6>3. QED BY <4>1, <4>2, <4>3, <5>1, <6>1, <6>2 DEF Stream!Event
        <5>2. CASE i = Len(handed) + 1
          <6>1. /\ Stream!Framed + Len(queue) + i = output + 1
                /\ Stream!Framed + Len(queue) + i \in Int
            <7>1. output \in Int /\ Stream!Framed = output - Len(queue) - Len(handed)
              BY <3>1, <4>2
            <7> HIDE <1>3 DEF Stream!Finish
            <7>2. QED BY <3>1, <5>2, <7>1
          <6>2. QED BY <4>1, <4>2, <4>3, <5>2, <6>1 DEF Stream!Event
        <5>3. QED BY <3>1, <4>1, <4>5, <5>1, <5>2
      <4>6. QED BY <4>4, <4>5 DEF Stream!QueuedInOrder
    <3>4. QED BY <3>2, <3>3
  <2>4. Stream!ShownInOrder'
    <3>1. /\ Stream!WellFormed /\ Stream!Opened /\ Stream!QueuedInOrder
          /\ Len(queue) \in Nat /\ Len(handed) \in Nat /\ output \in 0..MaxOutput
          /\ MaxOutput \in Nat
      BY QueueIsTyped, Typed DEF Stream!IInv
    <3>2. PICK f \in [0..Len(wire) -> 0..output] : Stream!Counts(f)
      BY DEF Stream!IInv, Stream!ShownInOrder
    <3>3. f \in [0..Len(wire') -> 0..output']
      BY <3>1, <3>2
    <3>4. ASSUME connected PROVE Stream!Framed' = Stream!Framed
      <4>1. Len(handed') = Len(handed) + 1
        <5>1. Stream!Terminal \in Stream!Outputs \union {Stream!Terminal}
          OBVIOUS
        <5>2. QED BY <3>1, <5>1, AppendProperties DEF Stream!WellFormed
      <4>2. QED BY <3>1, <4>1 DEF Stream!Framed, Stream!Emitted
    <3>5. Stream!Counts(f)'
      BY <3>1, <3>2, <3>4 DEF Stream!Counts
    <3>6. Stream!ShownInOrder
      BY DEF Stream!IInv
    <3>7. QED BY <3>3, <3>5, <3>6 DEF Stream!ShownInOrder
  <2>5. Stream!FinishedIsDelivered'
    BY DEF Stream!IInv, Stream!FinishedIsDelivered, Stream!WellFormed, Stream!TypeOK,
       Stream!Opened, Stream!ReadBackIsLate
  <2> QED BY <2>1, <2>2, <2>3, <2>4, <2>5 DEF Stream!IInv
<1>4. ASSUME Stream!Deliver PROVE Stream!IInv'
  <2> USE <1>4 DEF Stream!Deliver
  <2>1. /\ Stream!Opened' /\ Stream!HandedAtOnce' /\ Stream!LastIsLast' /\ Stream!ReadBackIsLate'
        /\ Stream!NotSilent' /\ Stream!WireInTime' /\ Stream!InTouch' /\ Stream!CompleteIsAll'
        /\ Stream!FinishedIsDelivered' /\ Stream!EndsOnce' /\ Stream!LiveWhilePrompt'
        /\ Stream!NeverCut'
    BY DEF Stream!IInv, Stream!Opened, Stream!HandedAtOnce, Stream!LastIsLast, Stream!Answers,
       Stream!ReadBackIsLate, Stream!NotSilent, Stream!Gap, Stream!WireInTime, Stream!InTouch,
       Stream!CompleteIsAll, Stream!FinishedIsDelivered, Stream!EndsOnce, Stream!LiveWhilePrompt,
       Stream!NeverCut
  <2>2. Stream!WellFormed'
    BY SMTT(60) DEF Stream!IInv, Stream!WellFormed, Stream!TypeOK, Stream!Opened
  <2>3. Stream!QueuedInOrder'
    <3>1. /\ Stream!WellFormed /\ Stream!Opened /\ Stream!QueuedInOrder
          /\ Len(queue) \in Nat /\ Len(handed) \in Nat /\ output \in 0..MaxOutput
          /\ MaxOutput \in Nat
      BY QueueIsTyped, Typed DEF Stream!IInv
    <3>2. CASE ~connected
      BY <3>2 DEF Stream!QueuedInOrder
    <3>3. CASE connected
      <4>1. /\ Head(handed) = handed[1] /\ Len(handed) > 0 /\ Len(handed') = Len(handed) - 1
            /\ \A i \in 1..Len(handed') : handed'[i] = handed[i + 1]
            /\ Head(handed) \in Stream!Outputs \union {Stream!Terminal}
        BY <3>1, QueueIsTyped
      <4>2. /\ Len(queue') = Len(queue) + 1
            /\ \A i \in 1..Len(queue) : queue'[i] = queue[i]
            /\ queue'[Len(queue) + 1] = handed[1]
        BY <3>1, <3>3, <4>1, AppendProperties DEF Stream!WellFormed
      <4>3. Stream!Framed' = Stream!Framed /\ Stream!Framed \in Int
        <5>1. Stream!Emitted \in Nat /\ Stream!Emitted' = Stream!Emitted
          BY <3>1 DEF Stream!Emitted
        <5> HIDE <1>4 DEF Stream!Deliver
        <5>2. QED BY <3>1, <4>1, <4>2, <5>1 DEF Stream!Framed
      <4>4. \A n : Stream!Event(n)' = Stream!Event(n)
        BY DEF Stream!Event
      <4>5. ASSUME NEW i \in 1..Len(queue') PROVE queue'[i] = Stream!Event(Stream!Framed + i)
        <5>1. CASE i \in 1..Len(queue)
          BY <3>1, <3>3, <4>2, <5>1 DEF Stream!QueuedInOrder
        <5>2. CASE i = Len(queue) + 1
          <6>1. handed[1] = Stream!Event(Stream!Framed + Len(queue) + 1)
            BY <3>1, <3>3, <4>1 DEF Stream!QueuedInOrder
          <6>2. Stream!Framed + Len(queue) + 1 = Stream!Framed + i
            BY <3>1, <4>3, <5>2
          <6>3. QED BY <4>2, <5>2, <6>1, <6>2
        <5>3. QED BY <3>1, <4>2, <4>5, <5>1, <5>2
      <4>6. ASSUME NEW i \in 1..Len(handed')
            PROVE handed'[i] = Stream!Event(Stream!Framed + Len(queue') + i)
        <5>1. /\ i + 1 \in 1..Len(handed)
              /\ Stream!Framed + Len(queue) + (i + 1) = Stream!Framed + Len(queue') + i
          BY <3>1, <4>1, <4>2, <4>3, <4>6
        <5>2. handed[i + 1] = Stream!Event(Stream!Framed + Len(queue) + (i + 1))
          BY <3>1, <3>3, <5>1 DEF Stream!QueuedInOrder
        <5>3. QED BY <4>1, <5>1, <5>2
      <4>7. QED BY <4>3, <4>4, <4>5, <4>6 DEF Stream!QueuedInOrder
    <3>4. QED BY <3>2, <3>3
  <2>4. Stream!ShownInOrder'
    <3>1. /\ Stream!WellFormed /\ Stream!Opened /\ Stream!QueuedInOrder
          /\ Len(queue) \in Nat /\ Len(handed) \in Nat /\ output \in 0..MaxOutput
          /\ MaxOutput \in Nat
      BY QueueIsTyped, Typed DEF Stream!IInv
    <3>2. PICK f \in [0..Len(wire) -> 0..output] : Stream!Counts(f)
      BY DEF Stream!IInv, Stream!ShownInOrder
    <3>3. f \in [0..Len(wire') -> 0..output']
      BY <3>1, <3>2
    <3>4. ASSUME connected PROVE Stream!Framed' = Stream!Framed
      <4>1. Len(handed') = Len(handed) - 1 /\ Len(queue') = Len(queue) + 1
        <5>1. /\ Head(handed) \in Stream!Outputs \union {Stream!Terminal}
              /\ Len(handed') = Len(handed) - 1
          BY <3>1, QueueIsTyped
        <5>2. QED BY <3>1, <3>4, <5>1, AppendProperties DEF Stream!WellFormed
      <4>2. Stream!Emitted \in Nat /\ Stream!Emitted' = Stream!Emitted
        BY <3>1 DEF Stream!Emitted
      <4> HIDE <1>4 DEF Stream!Deliver
      <4>3. QED BY <3>1, <4>1, <4>2 DEF Stream!Framed
    <3>5. Stream!Counts(f)'
      BY <3>1, <3>2, <3>4 DEF Stream!Counts
    <3>6. Stream!ShownInOrder
      BY DEF Stream!IInv
    <3>7. QED BY <3>3, <3>5, <3>6 DEF Stream!ShownInOrder
  <2> QED BY <2>1, <2>2, <2>3, <2>4 DEF Stream!IInv
<1>5. ASSUME Stream!Frame PROVE Stream!IInv'
  <2> USE <1>5 DEF Stream!Frame, Stream!Listening
  <2>0. /\ wire' \in Seq((0..Stream!ReadBack) \X Stream!Times) /\ wire' # <<>>
        /\ Len(wire') = Len(wire) + 1 /\ Len(wire) \in Nat
        /\ \A i \in 1..Len(wire) : wire'[i] = wire[i]
        /\ wire'[Len(wire) + 1] = <<Head(queue), now>>
        /\ \A x \in Stream!ToSet(wire') : x[2] \in 0..now'
        /\ lastSent' = now /\ Head(queue) \in 0..Stream!ReadBack /\ now' = now
    <3>1. Head(queue) \in Stream!Outputs \union {Stream!Terminal}
      BY QueueIsTyped DEF Stream!IInv
    <3>2. Head(queue) \in 0..Stream!ReadBack
      BY <3>1, TimesAreNatural, SMTT(60)
    <3>3. Stream!WellFormed /\ Stream!Sent(Head(queue)) /\ now' = now
      BY DEF Stream!IInv
    <3>. QED BY <3>2, <3>3, SendsLast
  <2>1. /\ Stream!HandedAtOnce' /\ Stream!CompleteIsAll' /\ Stream!FinishedIsDelivered'
        /\ Stream!LiveWhilePrompt' /\ Stream!NeverCut'
    BY DEF Stream!IInv, Stream!HandedAtOnce, Stream!CompleteIsAll, Stream!FinishedIsDelivered,
       Stream!LiveWhilePrompt, Stream!Gap, Stream!NeverCut
  <2>2. Stream!WellFormed'
    <3>1. Stream!WellFormed /\ Stream!Opened
      BY DEF Stream!IInv
    <3>2. queue' \in Seq(Stream!Outputs \union {Stream!Terminal})
      BY <3>1, QueueIsTyped
    <3>3. Stream!TypeOK'
      <4>1. connected' \in BOOLEAN /\ server' \in {"streaming", "ended"}
        <5>1. CASE Head(queue) = Stream!Terminal
          BY <5>1
        <5>2. CASE Head(queue) # Stream!Terminal
          BY <3>1, <5>2 DEF Stream!WellFormed, Stream!TypeOK
        <5>3. QED BY <5>1, <5>2
      <4>2. now \in Nat /\ now' = now /\ lastSent' = now /\ output' = output /\ heard' = heard
            /\ work' = work /\ touched' = touched /\ opened' = opened /\ finished' = finished
            /\ told' = told
        BY <2>0, <3>1, Typed
      <4>3. Stream!TypeOK /\ \A x \in Stream!ToSet(wire') : x[2] \in 0..now'
        BY <2>0, <3>1 DEF Stream!WellFormed
      <4>4. QED BY <4>1, <4>2, <4>3 DEF Stream!TypeOK
    <3>4. QED BY <2>0, <3>1, <3>2, <3>3 DEF Stream!WellFormed
  <2>3. Stream!Opened'
    <3>1. Stream!Opened /\ opened \in 0..now /\ now \in Nat /\ server = "streaming" /\ connected
      BY Typed DEF Stream!IInv
    <3>2. /\ queue # <<>> /\ lastSent' = now /\ wire' # <<>> /\ work' = work /\ output' = output
          /\ opened' = opened
      BY <2>0
    <3>3. work # "none"
      BY <3>1 DEF Stream!Opened
    <3>4. connected' <=> server' = "streaming"
      BY <3>1 DEF Stream!Opened
    <3>5. server' \in {"streaming", "ended"}
      BY <3>1
    <3>6. QED BY <3>1, <3>2, <3>3, <3>4, <3>5 DEF Stream!Opened
  <2>4. Stream!QueuedInOrder'
    BY <2>0 DEF Stream!IInv, Stream!QueuedInOrder, Stream!Event, Stream!Framed, Stream!Emitted,
       Stream!WellFormed, Stream!TypeOK, Stream!Opened
  <2>5. Stream!ShownInOrder'
    <3>1. PICK f \in [0..Len(wire) -> 0..output] : Stream!Counts(f)
      BY DEF Stream!IInv, Stream!ShownInOrder
    <3>2. /\ Head(queue) = Stream!Event(Stream!Framed + 1)
          /\ Head(queue) \in Stream!Outputs \union {Stream!Terminal}
          /\ Stream!Framed \in 0..output /\ Stream!Framed' = Stream!Framed + 1
          /\ Stream!Framed = output => work = "done"
          /\ Head(queue) = Stream!Terminal <=> Stream!Framed = output
      BY <3>1, FramesNext DEF Stream!IInv
    <3>3. f[Len(wire)] = Stream!Framed
      BY <3>1 DEF Stream!Counts
    <3> DEFINE n == IF Head(queue) = Stream!Terminal THEN Stream!Framed ELSE Stream!Framed + 1
    <3>4. output \in 0..MaxOutput
      BY DEF Stream!IInv, Stream!WellFormed, Stream!TypeOK
    <3>5. /\ n \in 0..output /\ n = f[Len(wire)] + (IF Head(queue) \in Stream!Outputs THEN 1 ELSE 0)
          /\ Head(queue) \in Stream!Outputs => Head(queue) = n
          /\ Head(queue) = Stream!Terminal => work = "done" /\ n = output
          /\ connected' => n = Stream!Framed'
      <4>1. CASE Head(queue) = Stream!Terminal
        BY <3>2, <3>3, <3>4, <4>1, TimesAreNatural
      <4>2. CASE Head(queue) # Stream!Terminal
        BY <3>2, <3>3, <3>4, <4>2, TimesAreNatural DEF Stream!Event
      <4>3. QED BY <4>1, <4>2
    <3>6. \E g \in [0..Len(wire') -> 0..output'] : Stream!Counts(g)'
      <4> HIDE DEF n
      <4>1. /\ Stream!WellFormed /\ Stream!Sent(Head(queue)) /\ Head(queue) \in 0..Stream!ReadBack
            /\ now' = now
            /\ UNCHANGED <<told, heard, work, output>>
        BY <2>0 DEF Stream!IInv
      <4>2. QED BY <3>1, <3>5, <4>1, SendKeepsCount
    <3>7. QED BY <3>6 DEF Stream!IInv, Stream!ShownInOrder
  <2>6. Stream!LastIsLast'
    <3>1. /\ Stream!WellFormed /\ Stream!LastIsLast /\ Head(queue) \in 0..Stream!ReadBack
          /\ now' = now /\ connected
      BY <2>0 DEF Stream!IInv, Stream!Opened
    <3>2. Stream!Answers(Head(queue)) => ~connected'
      <4>1. Head(queue) \in Stream!Outputs \union {Stream!Terminal} /\ MaxOutput \in Nat
        BY <3>1, QueueIsTyped, TimesAreNatural
      <4>2. Stream!Answers(Head(queue)) => Head(queue) = Stream!Terminal
        BY <4>1 DEF Stream!Answers
      <4>3. QED BY <4>2
    <3>3. QED BY <3>1, <3>2, SendKeepsEnd
  <2>7. Stream!ReadBackIsLate'
    <3>1. Stream!ReadBackIsLate
      BY DEF Stream!IInv
    <3>2. Head(queue) # Stream!ReadBack
      BY QueueIsTyped, TimesAreNatural, SMTT(60) DEF Stream!IInv
    <3>3. \A i \in 1..Len(wire') : wire'[i][1] = Stream!ReadBack
            => i \in 1..Len(wire) /\ wire[i][1] = Stream!ReadBack
      <4>1. ASSUME NEW i \in 1..Len(wire'), wire'[i][1] = Stream!ReadBack PROVE i \in 1..Len(wire)
        BY <2>0, <3>2, <4>1, SMTT(60)
      <4>2. QED BY <2>0, <4>1
    <3>4. QED BY <3>1, <3>3 DEF Stream!ReadBackIsLate, Stream!Over
  <2>8. Stream!NotSilent'
    <3>1. lastSent' = now /\ now' = now /\ now \in Nat /\ Stream!Gap \in Nat
      BY <2>0, Typed DEF Stream!IInv
    <3>2. QED BY <3>1 DEF Stream!NotSilent, Stream!Gap
  <2>9. Stream!WireInTime'
    <3>1. Stream!WellFormed /\ Stream!WireInTime /\ Head(queue) \in 0..Stream!ReadBack /\ now' = now
      BY <2>0 DEF Stream!IInv
    <3>2. now <= lastSent + Stream!Gap
      BY DEF Stream!IInv, Stream!NotSilent
    <3>3. QED BY <3>1, <3>2, SendKeepsTime
  <2>10. Stream!InTouch'
    <3>1. Stream!InTouch /\ Stream!NotSilent /\ Stream!TypeOK
      BY DEF Stream!IInv, Stream!WellFormed
    <3>2. /\ now' = now /\ now \in Nat /\ touched \in 0..now /\ Stream!Gap \in Nat
          /\ lastSent \in 0..now
      BY <2>0, Typed DEF Stream!IInv
    <3>3. server = "streaming" /\ wire' # <<>>
      BY <2>0
    <3>4. CASE wire = <<>>
      <4>1. wire'[1][2] = now /\ now <= lastSent + Stream!Gap
        BY <2>0, <3>1, <3>3, <3>4 DEF Stream!NotSilent
      <4>2. QED BY <3>1, <3>2, <3>3, <3>4, <4>1 DEF Stream!InTouch, Stream!Gap
    <3>5. CASE wire # <<>>
      <4>1. wire'[1] = wire[1]
        BY <2>0, <3>5
      <4>2. QED BY <3>1, <3>2, <3>3, <3>5, <4>1 DEF Stream!InTouch, Stream!Gap
    <3>6. QED BY <3>4, <3>5
  <2>11. Stream!EndsOnce'
    <3>1. /\ Stream!WellFormed /\ Stream!LastIsLast /\ Head(queue) \in 0..Stream!ReadBack
          /\ now' = now /\ connected
      BY <2>0 DEF Stream!IInv, Stream!Opened
    <3>2. Stream!Answers(Head(queue)) => ~connected'
      <4>1. Head(queue) \in Stream!Outputs \union {Stream!Terminal} /\ MaxOutput \in Nat
        BY <3>1, QueueIsTyped, TimesAreNatural
      <4>2. Stream!Answers(Head(queue)) => Head(queue) = Stream!Terminal
        BY <4>1 DEF Stream!Answers
      <4>3. QED BY <4>2
    <3>3. QED BY <3>1, <3>2, SendKeepsEnd
  <2> QED BY <2>1, <2>2, <2>3, <2>4, <2>5, <2>6, <2>7, <2>8, <2>9, <2>10, <2>11 DEF Stream!IInv
<1>6. ASSUME Stream!Close PROVE Stream!IInv'
  <2> USE <1>6 DEF Stream!Close, Stream!Listening, Stream!Over
  <2>0. /\ wire' \in Seq((0..Stream!ReadBack) \X Stream!Times) /\ wire' # <<>>
        /\ Len(wire') = Len(wire) + 1 /\ Len(wire) \in Nat
        /\ \A i \in 1..Len(wire) : wire'[i] = wire[i]
        /\ wire'[Len(wire) + 1] = <<Stream!ReadBack, now>>
        /\ \A x \in Stream!ToSet(wire') : x[2] \in 0..now'
        /\ lastSent' = now /\ Stream!ReadBack \in 0..Stream!ReadBack /\ now' = now
    <3>2. Stream!ReadBack \in 0..Stream!ReadBack
      BY TimesAreNatural
    <3>3. Stream!WellFormed /\ Stream!Sent(Stream!ReadBack) /\ now' = now
      BY DEF Stream!IInv
    <3>. QED BY <3>2, <3>3, SendsLast
  <2>1. /\ Stream!Opened' /\ Stream!QueuedInOrder' /\ Stream!HandedAtOnce' /\ Stream!CompleteIsAll'
        /\ Stream!FinishedIsDelivered' /\ Stream!LiveWhilePrompt' /\ Stream!NeverCut'
    BY DEF Stream!IInv, Stream!Opened, Stream!QueuedInOrder, Stream!Event, Stream!Framed,
       Stream!Emitted, Stream!HandedAtOnce, Stream!CompleteIsAll, Stream!FinishedIsDelivered,
       Stream!LiveWhilePrompt, Stream!Gap, Stream!NeverCut
  <2>2. Stream!WellFormed'
    <3>1. Stream!WellFormed /\ Stream!Opened
      BY DEF Stream!IInv
    <3>2. Stream!TypeOK'
      <4>1. connected' \in BOOLEAN /\ server' = "ended"
        OBVIOUS
      <4>2. QED BY <2>0, <3>1, <4>1, Typed DEF Stream!WellFormed, Stream!TypeOK
    <3>3. QED BY <2>0, <3>1, <3>2 DEF Stream!WellFormed
  <2>3. Stream!ShownInOrder'
    <3>1. PICK f \in [0..Len(wire) -> 0..output] : Stream!Counts(f)
      BY DEF Stream!IInv, Stream!ShownInOrder
    <3>2. f[Len(wire)] \in 0..output /\ output \in 0..MaxOutput
      <4>1. output \in 0..MaxOutput
        BY Typed DEF Stream!IInv
      <4>2. Len(wire) \in 0..Len(wire)
        BY <2>0
      <4>3. QED BY <3>1, <4>1, <4>2
    <3>3. /\ f[Len(wire)] = f[Len(wire)] + (IF Stream!ReadBack \in Stream!Outputs THEN 1 ELSE 0)
          /\ Stream!ReadBack \in 0..Stream!ReadBack /\ Stream!ReadBack \notin Stream!Outputs
          /\ Stream!ReadBack # Stream!Terminal
      BY <3>2, TimesAreNatural, SMTT(60)
    <3>4. connected' => f[Len(wire)] = Stream!Framed'
      BY <3>1 DEF Stream!Counts, Stream!Framed, Stream!Emitted
    <3>5. \E g \in [0..Len(wire') -> 0..output'] : Stream!Counts(g)'
      BY <3>1, <3>2, <3>3, <3>4, SendKeepsCount DEF Stream!IInv
    <3>6. QED BY <3>5 DEF Stream!IInv, Stream!ShownInOrder
  <2>4. Stream!LastIsLast'
    <3>1. /\ Stream!WellFormed /\ Stream!LastIsLast /\ Stream!ReadBack \in 0..Stream!ReadBack
          /\ now' = now /\ connected
      BY <2>0 DEF Stream!IInv, Stream!Opened
    <3>2. Stream!Answers(Stream!ReadBack) => ~connected'
      BY TimesAreNatural DEF Stream!Answers, Stream!IInv
    <3>3. QED BY <3>1, <3>2, SendKeepsEnd
  <2>5. Stream!ReadBackIsLate'
    <3>1. /\ Stream!WellFormed /\ Stream!Opened /\ Stream!HandedAtOnce /\ Stream!QueuedInOrder
      BY DEF Stream!IInv
    <3>2. PICK f \in [0..Len(wire) -> 0..output] : Stream!Counts(f)
      BY DEF Stream!IInv, Stream!ShownInOrder
    <3>3. f[Len(wire)] \in 0..output /\ f[Len(wire)] = Stream!Framed
      <4>1. Len(wire) \in 0..Len(wire)
        BY <2>0
      <4>2. f[Len(wire)] \in 0..output
        BY <3>2, <4>1
      <4>3. QED BY <3>2, <4>2 DEF Stream!Counts
    <3>4. ASSUME work = "done" PROVE finished >= opened + Ceiling
      <4>1. Stream!Framed = output + 1 - Len(queue) - Len(handed) /\ output \in Nat
        <5>1. output \in Nat
          BY <3>1, Typed
        <5>2. QED BY <3>4, <5>1 DEF Stream!Framed, Stream!Emitted
      <4>2. Len(queue) = 0 /\ Len(handed) \in Nat
        BY <3>1, QueueIsTyped
      <4>3. handed # <<>>
        BY <3>3, <4>1, <4>2
      <4>4. QED BY <3>1, <3>4, <4>3 DEF Stream!HandedAtOnce
    <3>5. QED BY <3>4 DEF Stream!ReadBackIsLate, Stream!Over
  <2>6. Stream!NotSilent'
    <3>1. lastSent' = now /\ now' = now /\ now \in Nat /\ Stream!Gap \in Nat
      BY <2>0, Typed DEF Stream!IInv
    <3>2. QED BY <3>1 DEF Stream!NotSilent, Stream!Gap
  <2>7. Stream!WireInTime'
    <3>1. /\ Stream!WellFormed /\ Stream!WireInTime /\ Stream!ReadBack \in 0..Stream!ReadBack
          /\ now' = now
      BY <2>0 DEF Stream!IInv
    <3>2. now <= lastSent + Stream!Gap
      BY DEF Stream!IInv, Stream!NotSilent
    <3>3. QED BY <3>1, <3>2, SendKeepsTime
  <2>8. Stream!InTouch'
    <3>1. Stream!InTouch /\ Stream!NotSilent /\ Stream!TypeOK
      BY DEF Stream!IInv, Stream!WellFormed
    <3>2. /\ now' = now /\ now \in Nat /\ touched \in 0..now /\ Stream!Gap \in Nat
          /\ lastSent \in 0..now
      BY <2>0, Typed DEF Stream!IInv
    <3>3. server = "streaming" /\ wire' # <<>>
      BY <2>0
    <3>4. CASE wire = <<>>
      <4>1. wire'[1][2] = now /\ now <= lastSent + Stream!Gap
        BY <2>0, <3>1, <3>3, <3>4 DEF Stream!NotSilent
      <4>2. QED BY <3>1, <3>2, <3>3, <3>4, <4>1 DEF Stream!InTouch, Stream!Gap
    <3>5. CASE wire # <<>>
      <4>1. wire'[1] = wire[1]
        BY <2>0, <3>5
      <4>2. QED BY <3>1, <3>2, <3>3, <3>5, <4>1 DEF Stream!InTouch, Stream!Gap
    <3>6. QED BY <3>4, <3>5
  <2>9. Stream!EndsOnce'
    <3>1. /\ Stream!WellFormed /\ Stream!LastIsLast /\ Stream!ReadBack \in 0..Stream!ReadBack
          /\ now' = now /\ connected
      BY <2>0 DEF Stream!IInv, Stream!Opened
    <3>2. Stream!Answers(Stream!ReadBack) => ~connected'
      BY TimesAreNatural DEF Stream!Answers, Stream!IInv
    <3>3. QED BY <3>1, <3>2, SendKeepsEnd
  <2> QED BY <2>1, <2>2, <2>3, <2>4, <2>5, <2>6, <2>7, <2>8, <2>9 DEF Stream!IInv
<1>7. ASSUME Stream!Beat PROVE Stream!IInv'
  <2> USE <1>7 DEF Stream!Beat, Stream!Silent, Stream!Listening, Stream!Over
  <2>0. /\ wire' \in Seq((0..Stream!ReadBack) \X Stream!Times) /\ wire' # <<>>
        /\ Len(wire') = Len(wire) + 1 /\ Len(wire) \in Nat
        /\ \A i \in 1..Len(wire) : wire'[i] = wire[i]
        /\ wire'[Len(wire) + 1] = <<Stream!Keep, now>>
        /\ \A x \in Stream!ToSet(wire') : x[2] \in 0..now'
        /\ lastSent' = now /\ Stream!Keep \in 0..Stream!ReadBack /\ now' = now
    <3>2. Stream!Keep \in 0..Stream!ReadBack
      BY TimesAreNatural
    <3>3. Stream!WellFormed /\ Stream!Sent(Stream!Keep) /\ now' = now
      BY DEF Stream!IInv
    <3>. QED BY <3>2, <3>3, SendsLast
  <2>1. /\ Stream!QueuedInOrder' /\ Stream!HandedAtOnce' /\ Stream!CompleteIsAll'
        /\ Stream!FinishedIsDelivered' /\ Stream!LiveWhilePrompt' /\ Stream!NeverCut'
    BY DEF Stream!IInv, Stream!QueuedInOrder, Stream!Event, Stream!Framed, Stream!Emitted,
       Stream!HandedAtOnce, Stream!CompleteIsAll, Stream!FinishedIsDelivered,
       Stream!LiveWhilePrompt, Stream!Gap, Stream!NeverCut
  <2>2. Stream!WellFormed'
    <3>1. Stream!WellFormed /\ Stream!Opened
      BY DEF Stream!IInv
    <3>2. Stream!TypeOK'
      BY <2>0, <3>1, Typed DEF Stream!WellFormed, Stream!TypeOK
    <3>3. QED BY <2>0, <3>1, <3>2 DEF Stream!WellFormed
  <2>3. Stream!Opened'
    BY <2>0 DEF Stream!IInv, Stream!Opened, Stream!WellFormed, Stream!TypeOK
  <2>4. Stream!ShownInOrder'
    <3>1. PICK f \in [0..Len(wire) -> 0..output] : Stream!Counts(f)
      BY DEF Stream!IInv, Stream!ShownInOrder
    <3>2. f[Len(wire)] \in 0..output /\ output \in 0..MaxOutput
      <4>1. output \in 0..MaxOutput
        BY Typed DEF Stream!IInv
      <4>2. Len(wire) \in 0..Len(wire)
        BY <2>0
      <4>3. QED BY <3>1, <4>1, <4>2
    <3>3. /\ f[Len(wire)] = f[Len(wire)] + (IF Stream!Keep \in Stream!Outputs THEN 1 ELSE 0)
          /\ Stream!Keep \in 0..Stream!ReadBack /\ Stream!Keep \notin Stream!Outputs
          /\ Stream!Keep # Stream!Terminal
      BY <3>2, TimesAreNatural, SMTT(60)
    <3>4. connected' => f[Len(wire)] = Stream!Framed'
      BY <3>1 DEF Stream!Counts, Stream!Framed, Stream!Emitted
    <3>5. \E g \in [0..Len(wire') -> 0..output'] : Stream!Counts(g)'
      BY <3>1, <3>2, <3>3, <3>4, SendKeepsCount DEF Stream!IInv
    <3>6. QED BY <3>5 DEF Stream!IInv, Stream!ShownInOrder
  <2>5. Stream!LastIsLast'
    <3>1. /\ Stream!WellFormed /\ Stream!LastIsLast /\ Stream!Keep \in 0..Stream!ReadBack
          /\ now' = now /\ connected
      BY <2>0 DEF Stream!IInv, Stream!Opened
    <3>2. Stream!Answers(Stream!Keep) => ~connected'
      BY TimesAreNatural DEF Stream!Answers, Stream!IInv
    <3>3. QED BY <3>1, <3>2, SendKeepsEnd
  <2>6. Stream!ReadBackIsLate'
    <3>1. Stream!ReadBackIsLate
      BY DEF Stream!IInv
    <3>2. Stream!Keep # Stream!ReadBack
      BY TimesAreNatural DEF Stream!IInv
    <3>3. \A i \in 1..Len(wire') : wire'[i][1] = Stream!ReadBack
            => i \in 1..Len(wire) /\ wire[i][1] = Stream!ReadBack
      <4>1. ASSUME NEW i \in 1..Len(wire'), wire'[i][1] = Stream!ReadBack PROVE i \in 1..Len(wire)
        BY <2>0, <3>2, <4>1, SMTT(60)
      <4>2. QED BY <2>0, <4>1
    <3>4. QED BY <3>1, <3>3 DEF Stream!ReadBackIsLate, Stream!Over
  <2>7. Stream!NotSilent'
    <3>1. lastSent' = now /\ now' = now /\ now \in Nat /\ Stream!Gap \in Nat
      BY <2>0, Typed DEF Stream!IInv
    <3>2. QED BY <3>1 DEF Stream!NotSilent, Stream!Gap
  <2>8. Stream!WireInTime'
    <3>1. Stream!WellFormed /\ Stream!WireInTime /\ Stream!Keep \in 0..Stream!ReadBack /\ now' = now
      BY <2>0 DEF Stream!IInv
    <3>2. now <= lastSent + Stream!Gap
      BY DEF Stream!IInv, Stream!NotSilent
    <3>3. QED BY <3>1, <3>2, SendKeepsTime
  <2>9. Stream!InTouch'
    <3>1. Stream!InTouch /\ Stream!NotSilent /\ Stream!TypeOK
      BY DEF Stream!IInv, Stream!WellFormed
    <3>2. /\ now' = now /\ now \in Nat /\ touched \in 0..now /\ Stream!Gap \in Nat
          /\ lastSent \in 0..now
      BY <2>0, Typed DEF Stream!IInv
    <3>3. server = "streaming" /\ wire' # <<>>
      BY <2>0
    <3>4. CASE wire = <<>>
      <4>1. wire'[1][2] = now /\ now <= lastSent + Stream!Gap
        BY <2>0, <3>1, <3>3, <3>4 DEF Stream!NotSilent
      <4>2. QED BY <3>1, <3>2, <3>3, <3>4, <4>1, SMTT(60) DEF Stream!InTouch, Stream!Gap
    <3>5. CASE wire # <<>>
      <4>1. wire'[1] = wire[1]
        BY <2>0, <3>5
      <4>2. QED BY <3>1, <3>2, <3>3, <3>5, <4>1 DEF Stream!InTouch, Stream!Gap
    <3>6. QED BY <3>4, <3>5
  <2>10. Stream!EndsOnce'
    <3>1. /\ Stream!WellFormed /\ Stream!LastIsLast /\ Stream!Keep \in 0..Stream!ReadBack
          /\ now' = now /\ connected
      BY <2>0 DEF Stream!IInv, Stream!Opened
    <3>2. Stream!Answers(Stream!Keep) => ~connected'
      BY TimesAreNatural DEF Stream!Answers, Stream!IInv
    <3>3. QED BY <3>1, <3>2, SendKeepsEnd
  <2> QED BY <2>1, <2>2, <2>3, <2>4, <2>5, <2>6, <2>7, <2>8, <2>9, <2>10 DEF Stream!IInv
<1>8. ASSUME Stream!Notice PROVE Stream!IInv'
  <2> USE <1>8 DEF Stream!Notice, Stream!Listening
  <2>1. /\ Stream!Opened' /\ Stream!HandedAtOnce' /\ Stream!ReadBackIsLate' /\ Stream!NotSilent'
        /\ Stream!InTouch' /\ Stream!CompleteIsAll' /\ Stream!FinishedIsDelivered'
        /\ Stream!LiveWhilePrompt' /\ Stream!NeverCut'
    BY DEF Stream!IInv, Stream!Opened, Stream!HandedAtOnce, Stream!ReadBackIsLate,
       Stream!NotSilent, Stream!Gap, Stream!InTouch, Stream!CompleteIsAll,
       Stream!FinishedIsDelivered, Stream!LiveWhilePrompt, Stream!NeverCut
  <2>2. Stream!WellFormed'
    BY DEF Stream!IInv, Stream!WellFormed, Stream!TypeOK, Stream!Opened
  <2>3. Stream!QueuedInOrder'
    BY DEF Stream!IInv, Stream!QueuedInOrder, Stream!Event, Stream!Framed, Stream!Emitted
  <2>4. Stream!ShownInOrder'
    <3>1. PICK f \in [0..Len(wire) -> 0..output] : Stream!Counts(f)
      BY DEF Stream!IInv, Stream!ShownInOrder
    <3>2. /\ connected' = FALSE /\ told' = told /\ heard' = heard /\ wire' = wire
          /\ output' = output /\ work' = work
      OBVIOUS
    <3>3. Stream!Counts(f)'
      BY <3>1, <3>2 DEF Stream!Counts
    <3>4. QED BY <3>1, <3>2, <3>3 DEF Stream!IInv, Stream!ShownInOrder
  <2>5. Stream!LastIsLast'
    BY DEF Stream!IInv, Stream!LastIsLast, Stream!Answers
  <2>6. Stream!WireInTime'
    BY DEF Stream!IInv, Stream!WireInTime, Stream!Gap
  <2>7. Stream!EndsOnce'
    BY DEF Stream!IInv, Stream!EndsOnce, Stream!Answers
  <2> QED BY <2>1, <2>2, <2>3, <2>4, <2>5, <2>6, <2>7 DEF Stream!IInv
<1>9. ASSUME Stream!Die PROVE Stream!IInv'
  <2> USE <1>9 DEF Stream!Die
  <2>1. /\ Stream!Opened' /\ Stream!HandedAtOnce' /\ Stream!ReadBackIsLate' /\ Stream!NotSilent'
        /\ Stream!InTouch' /\ Stream!CompleteIsAll' /\ Stream!FinishedIsDelivered'
        /\ Stream!LiveWhilePrompt' /\ Stream!NeverCut'
    BY DEF Stream!IInv, Stream!Opened, Stream!HandedAtOnce, Stream!ReadBackIsLate,
       Stream!NotSilent, Stream!Gap, Stream!InTouch, Stream!CompleteIsAll,
       Stream!FinishedIsDelivered, Stream!LiveWhilePrompt, Stream!NeverCut
  <2>2. Stream!WellFormed'
    BY DEF Stream!IInv, Stream!WellFormed, Stream!TypeOK, Stream!Opened
  <2>3. Stream!QueuedInOrder'
    BY DEF Stream!IInv, Stream!QueuedInOrder, Stream!Event, Stream!Framed, Stream!Emitted
  <2>4. Stream!ShownInOrder'
    <3>1. PICK f \in [0..Len(wire) -> 0..output] : Stream!Counts(f)
      BY DEF Stream!IInv, Stream!ShownInOrder
    <3>2. /\ connected' = FALSE /\ told' = told /\ heard' = heard /\ wire' = wire
          /\ output' = output /\ work' = work
      OBVIOUS
    <3>3. Stream!Counts(f)'
      BY <3>1, <3>2 DEF Stream!Counts
    <3>4. QED BY <3>1, <3>2, <3>3 DEF Stream!IInv, Stream!ShownInOrder
  <2>5. Stream!LastIsLast'
    BY DEF Stream!IInv, Stream!LastIsLast, Stream!Answers
  <2>6. Stream!WireInTime'
    BY DEF Stream!IInv, Stream!WireInTime, Stream!Gap
  <2>7. Stream!EndsOnce'
    BY DEF Stream!IInv, Stream!EndsOnce, Stream!Answers
  <2> QED BY <2>1, <2>2, <2>3, <2>4, <2>5, <2>6, <2>7 DEF Stream!IInv
<1>10. ASSUME Stream!Arrive PROVE Stream!IInv'
  <2>0. /\ wire' \in Seq((0..Stream!ReadBack) \X Stream!Times) /\ wire # <<>>
        /\ Len(wire) \in Nat \ {0} /\ Len(wire') = Len(wire) - 1 /\ Len(wire') \in Nat
        /\ \A i \in 1..Len(wire') : wire'[i] = wire[i + 1]
        /\ wire[1][1] \in 0..Stream!ReadBack /\ wire[1][2] \in 0..now
    <3>1. Stream!WellFormed /\ wire # <<>> /\ wire' = Tail(wire) /\ now' = now
      BY <1>10 DEF Stream!IInv, Stream!Arrive
    <3>2. QED BY <3>1, FirstArrives
  <2>y. \A x \in Stream!ToSet(wire') : x[2] \in 0..now'
    BY <1>10, FirstArrives DEF Stream!IInv, Stream!Arrive
  <2>x. /\ told = "waiting" =>
             /\ touched' = now
             /\ told' = CASE wire[1][1] = Stream!Terminal -> "complete"
                          [] wire[1][1] = Stream!ReadBack -> "read_back"
                          [] OTHER -> told
             /\ heard' = IF wire[1][1] \in Stream!Outputs THEN Append(heard, wire[1][1]) ELSE heard
        /\ told # "waiting" => UNCHANGED <<told, touched, heard>>
        /\ now' = now /\ server' = server /\ opened' = opened /\ lastSent' = lastSent
        /\ connected' = connected /\ work' = work /\ finished' = finished /\ output' = output
        /\ handed' = handed /\ queue' = queue
    <3>1. Head(wire) = wire[1]
      BY <1>10, FirstArrives DEF Stream!IInv, Stream!Arrive
    <3>2. QED BY <1>10, <3>1 DEF Stream!Arrive
  <2>1. Stream!WellFormed'
    <3>1. /\ Stream!WellFormed /\ Stream!Opened
          /\ now \in Nat /\ touched \in 0..now /\ output \in 0..MaxOutput /\ MaxOutput \in Nat
          /\ MaxTransit \in Nat /\ Stream!Gap \in Nat /\ opened \in 0..now /\ lastSent \in 0..now
      BY Typed DEF Stream!IInv
    <3>2. /\ touched' \in 0..now
          /\ told' \in {"waiting", "complete", "read_back", "quiet", "too_long", "broken", "left"}
          /\ heard' \in Seq(Stream!Outputs)
      <4>1. CASE told = "waiting"
        <5>1. heard' \in Seq(Stream!Outputs)
          <6>1. CASE wire[1][1] \in Stream!Outputs
            <7>1. heard \in Seq(Stream!Outputs) /\ heard' = Append(heard, wire[1][1])
              BY <2>x, <3>1, <4>1, <6>1 DEF Stream!WellFormed, Stream!TypeOK
            <7>2. QED BY <6>1, <7>1, AppendProperties
          <6>2. CASE wire[1][1] \notin Stream!Outputs
            BY <2>x, <3>1, <4>1, <6>2 DEF Stream!WellFormed, Stream!TypeOK
          <6>3. QED BY <6>1, <6>2
        <5>2. told' \in {"complete", "read_back", told}
          BY <2>x, <4>1
        <5>3. touched' = now /\ touched' \in 0..now
          BY <2>x, <3>1, <4>1
        <5>4. QED BY <4>1, <5>1, <5>2, <5>3
      <4>2. CASE told # "waiting"
        BY <2>x, <3>1, <4>2 DEF Stream!WellFormed, Stream!TypeOK
      <4>3. QED BY <4>1, <4>2
    <3>3. Stream!TypeOK'
      BY <2>0, <2>x, <2>y, <3>1, <3>2 DEF Stream!WellFormed, Stream!TypeOK
    <3>4. QED BY <2>0, <2>x, <3>1, <3>3 DEF Stream!WellFormed
  <2>2. Stream!Opened'
    BY <2>0, <2>x DEF Stream!IInv, Stream!Opened
  <2>3. Stream!QueuedInOrder'
    BY <2>0, <2>x DEF Stream!IInv, Stream!QueuedInOrder, Stream!Event, Stream!Framed,
       Stream!Emitted
  <2>4. Stream!HandedAtOnce'
    BY <2>0, <2>x DEF Stream!IInv, Stream!HandedAtOnce
  <2>5. Stream!ShownInOrder'
    <3>1. /\ Stream!WellFormed /\ Stream!Opened
          /\ now \in Nat /\ touched \in 0..now /\ output \in 0..MaxOutput /\ MaxOutput \in Nat
          /\ MaxTransit \in Nat /\ Stream!Gap \in Nat /\ opened \in 0..now /\ lastSent \in 0..now
      BY Typed DEF Stream!IInv
    <3>2. Stream!ShownInOrder
      BY DEF Stream!IInv
    <3>3. PICK f \in [0..Len(wire) -> 0..output] : Stream!Counts(f)
      BY <3>2 DEF Stream!ShownInOrder
    <3> DEFINE g == [i \in 0..Len(wire) - 1 |-> f[i + 1]]
    <3>4. g \in [0..Len(wire') -> 0..output']
      <4>1. ASSUME NEW i \in 0..Len(wire') PROVE i + 1 \in 0..Len(wire)
        BY <2>0, <4>1
      <4>2. 0..Len(wire') = 0..Len(wire) - 1
        BY <2>0
      <4>3. QED BY <2>x, <3>3, <4>1, <4>2
    <3>5. /\ f[1] = f[0] + (IF wire[1][1] \in Stream!Outputs THEN 1 ELSE 0)
          /\ wire[1][1] \in Stream!Outputs => wire[1][1] = f[1]
          /\ wire[1][1] = Stream!Terminal => work = "done" /\ f[1] = output
          /\ f[0] \in 0..output
      <4>1. 0 \in 0..Len(wire) /\ 1 \in 1..Len(wire) /\ 1 - 1 = 0
        BY <2>0
      <4>2. QED BY <3>3, <4>1 DEF Stream!Counts
    <3>6. /\ heard' = [i \in 1..Len(heard') |-> i]
          /\ told = "waiting" => Len(heard') = f[1]
      <4>1. CASE told = "waiting" /\ wire[1][1] \in Stream!Outputs
        <5>1. f[0] = Len(heard) /\ Len(heard) \in Nat /\ heard = [i \in 1..Len(heard) |-> i]
          BY <3>1, <3>2, <3>3, <4>1, LenProperties DEF Stream!Counts, Stream!WellFormed,
             Stream!TypeOK, Stream!ShownInOrder
        <5>2. wire[1][1] = Len(heard) + 1 /\ f[1] = Len(heard) + 1
          BY <3>5, <4>1, <5>1
        <5>3. heard' = Append(heard, Len(heard) + 1) /\ Len(heard) + 1 \in Stream!Outputs
          BY <2>x, <4>1, <5>2
        <5>4. /\ Len(heard') = Len(heard) + 1 /\ heard' \in Seq(Stream!Outputs)
              /\ \A i \in 1..Len(heard) : heard'[i] = heard[i]
              /\ heard'[Len(heard) + 1] = Len(heard) + 1
          BY <3>1, <5>3, AppendProperties DEF Stream!WellFormed, Stream!TypeOK
        <5>5. ASSUME NEW i \in 1..Len(heard') PROVE heard'[i] = i
          <6>1. CASE i \in 1..Len(heard)
            BY <5>1, <5>4, <6>1
          <6>2. CASE i = Len(heard) + 1
            BY <5>4, <6>2
          <6>3. QED BY <5>1, <5>4, <5>5, <6>1, <6>2
        <5>6. heard' \in [1..Len(heard') -> Stream!Outputs]
          BY <5>4, LenProperties
        <5>7. heard' = [i \in 1..Len(heard') |-> i]
          BY <5>5, <5>6
        <5>8. QED BY <2>x, <4>1, <5>2, <5>4, <5>7
      <4>2. CASE told = "waiting" /\ wire[1][1] \notin Stream!Outputs
        <5>1. heard' = heard /\ f[1] = f[0]
          <6>1. heard' = heard
            BY <2>x, <4>2
          <6>2. f[0] \in Nat /\ f[1] = f[0] + 0
            BY <3>1, <3>5, <4>2
          <6>3. QED BY <6>1, <6>2
        <5>2. QED BY <2>x, <3>2, <3>3, <4>2, <5>1 DEF Stream!ShownInOrder, Stream!Counts
      <4>3. CASE told # "waiting"
        BY <2>x, <3>2, <4>3 DEF Stream!ShownInOrder
      <4>4. QED BY <2>x, <4>1, <4>2, <4>3
    <3>7. told' = "complete" => work = "done"
      BY <2>x, <3>2, <3>5 DEF Stream!ShownInOrder
    <3>8. \E h \in [0..Len(wire') -> 0..output'] : Stream!Counts(h)'
      <4>1. told' = "waiting" => g[0] = Len(heard')
        <5>1. g[0] = f[1]
          BY <2>0
        <5>2. told' = "waiting" => told = "waiting"
          BY <2>x
        <5>3. QED BY <3>6, <5>1, <5>2
      <4>2. ASSUME NEW i \in 1..Len(wire')
            PROVE /\ g[i] = g[i - 1] + (IF wire'[i][1] \in Stream!Outputs THEN 1 ELSE 0)
                  /\ wire'[i][1] \in Stream!Outputs => wire'[i][1] = g[i]
                  /\ wire'[i][1] = Stream!Terminal => work' = "done" /\ g[i] = output'
        <5>1. i + 1 \in 1..Len(wire) /\ wire'[i] = wire[i + 1] /\ (i + 1) - 1 = i
          BY <2>0, <4>2, SMTT(60)
        <5>2. g[i] = f[i + 1] /\ g[i - 1] = f[i]
          <6>1. i \in 0..Len(wire) - 1 /\ i - 1 \in 0..Len(wire) - 1 /\ (i - 1) + 1 = i
            BY <2>0, <4>2
          <6>2. QED BY <6>1
        <5>3. QED BY <2>x, <3>3, <5>1, <5>2 DEF Stream!Counts
      <4>3. connected' => g[Len(wire')] = Stream!Framed'
        <5>1. g[Len(wire')] = f[Len(wire)]
          BY <2>0
        <5>2. Stream!Framed' = Stream!Framed
          BY <2>x DEF Stream!Framed, Stream!Emitted
        <5>3. QED BY <2>x, <3>3, <5>1, <5>2 DEF Stream!Counts
      <4> HIDE DEF g
      <4>4. QED BY <3>4, <4>1, <4>2, <4>3 DEF Stream!Counts
    <3> HIDE DEF g
    <3>9. QED BY <2>x, <3>6, <3>7, <3>8 DEF Stream!ShownInOrder
  <2>6. Stream!LastIsLast'
    <3>1. ASSUME NEW i \in 1..Len(wire') PROVE i + 1 \in 1..Len(wire) /\ wire'[i] = wire[i + 1]
      BY <2>0, <3>1
    <3>2. Stream!LastIsLast
      BY DEF Stream!IInv
    <3>3. QED BY <2>x, <3>1, <3>2 DEF Stream!LastIsLast, Stream!Answers
  <2>7. Stream!ReadBackIsLate'
    <3>1. ASSUME NEW i \in 1..Len(wire') PROVE i + 1 \in 1..Len(wire) /\ wire'[i] = wire[i + 1]
      BY <2>0, <3>1
    <3>2. Stream!ReadBackIsLate
      BY DEF Stream!IInv
    <3>3. told' = "read_back" => told = "read_back" \/ wire[1][1] = Stream!ReadBack
      BY <2>x
    <3>4. 1 \in 1..Len(wire)
      BY <2>0
    <3>5. QED BY <2>x, <3>1, <3>2, <3>3, <3>4 DEF Stream!ReadBackIsLate
  <2>8. Stream!NotSilent'
    BY <2>0, <2>x DEF Stream!IInv, Stream!NotSilent, Stream!Gap
  <2>9. Stream!WireInTime'
    <3>1. /\ Stream!WellFormed /\ Stream!Opened
          /\ now \in Nat /\ touched \in 0..now /\ output \in 0..MaxOutput /\ MaxOutput \in Nat
          /\ MaxTransit \in Nat /\ Stream!Gap \in Nat /\ opened \in 0..now /\ lastSent \in 0..now
      BY Typed DEF Stream!IInv
    <3>2. Stream!WireInTime
      BY DEF Stream!IInv
    <3>3. ASSUME NEW i \in 1..Len(wire')
          PROVE /\ now' <= wire'[i][2] + MaxTransit
                /\ wire'[i][2] <= lastSent'
                /\ \A j \in i..Len(wire') : wire'[i][2] <= wire'[j][2]
                /\ i < Len(wire') => wire'[i + 1][2] <= wire'[i][2] + Stream!Gap
                /\ i = Len(wire') => wire'[i][2] = lastSent'
      <4>1. /\ i + 1 \in 1..Len(wire) /\ wire'[i] = wire[i + 1]
            /\ i = Len(wire') <=> i + 1 = Len(wire)
            /\ i < Len(wire') <=> i + 1 < Len(wire)
        <5>1. /\ i \in Nat /\ i >= 1 /\ i <= Len(wire) - 1 /\ Len(wire) \in Nat
              /\ Len(wire') = Len(wire) - 1
          BY <2>0, <3>3
        <5>2. wire'[i] = wire[i + 1]
          BY <2>0, <3>3
        <5>3. QED BY <5>1, <5>2, SMTT(60)
      <4>2. ASSUME NEW j \in i..Len(wire') PROVE wire'[i][2] <= wire'[j][2]
        <5>1. j + 1 \in i + 1..Len(wire) /\ wire'[j] = wire[j + 1]
          BY <2>0, <3>3, <4>2
        <5>2. QED BY <3>2, <4>1, <5>1 DEF Stream!WireInTime
      <4>3. ASSUME i < Len(wire') PROVE wire'[i + 1][2] <= wire'[i][2] + Stream!Gap
        <5>1. wire'[i + 1] = wire[(i + 1) + 1]
          <6>1. i + 1 \in 1..Len(wire')
            BY <2>0, <3>3, <4>3
          <6>2. QED BY <2>0, <6>1
        <5>2. QED BY <3>2, <4>1, <4>3, <5>1 DEF Stream!WireInTime
      <4>4. QED BY <2>x, <3>2, <4>1, <4>2, <4>3 DEF Stream!WireInTime
    <3>4. QED BY <2>x, <3>3 DEF Stream!WireInTime, Stream!Gap
  <2>10. Stream!InTouch'
    <3>1. /\ Stream!WellFormed /\ Stream!Opened
          /\ now \in Nat /\ touched \in 0..now /\ output \in 0..MaxOutput /\ MaxOutput \in Nat
          /\ MaxTransit \in Nat /\ Stream!Gap \in Nat /\ opened \in 0..now /\ lastSent \in 0..now
      BY Typed DEF Stream!IInv
    <3>2. Stream!InTouch /\ Stream!WireInTime
      BY DEF Stream!IInv
    <3>3. told' = "quiet" => told = "quiet"
      BY <2>x
    <3>4. told' = "waiting" => told = "waiting" /\ touched' = now
      BY <2>x
    <3>5. ASSUME wire' # <<>> PROVE wire'[1][2] <= now + Stream!Gap
      <4>1. 1 \in 1..Len(wire') /\ 2 \in 1..Len(wire) /\ wire'[1] = wire[2]
        <5>1. Len(wire') \in Nat \ {0}
          BY <2>0, <3>5, EmptySeq
        <5>2. 1 \in 1..Len(wire') /\ 2 \in 1..Len(wire)
          BY <2>0, <5>1
        <5>3. QED BY <2>0, <5>2
      <4>2. wire[2][2] \in 0..now
        BY <3>1, <4>1, WireIsTimed
      <4>3. QED BY <3>1, <4>1, <4>2, SMTT(60)
    <3>6. told' = "waiting" /\ server' = "streaming" =>
            IF wire' = <<>> THEN lastSent' <= touched'
            ELSE wire'[1][2] <= touched' + Stream!Gap \/ wire'[1][2] = opened'
      BY <2>x, <3>1, <3>4, <3>5
    <3>7. told' = "quiet" => now' >= Idle
      BY <2>x, <3>2, <3>3 DEF Stream!InTouch
    <3>8. told' = "waiting" => now' <= Cap
      BY <2>x, <3>2, <3>4 DEF Stream!InTouch
    <3>9. QED BY <3>6, <3>7, <3>8 DEF Stream!InTouch, Stream!Gap
  <2>11. Stream!CompleteIsAll'
    <3>1. CASE told = "complete"
      BY <2>x, <3>1 DEF Stream!IInv, Stream!CompleteIsAll
    <3>2. CASE told # "complete" /\ told' = "complete"
      <4>1. told = "waiting" /\ wire[1][1] = Stream!Terminal
        BY <2>x, <3>2
      <4>2. PICK f \in [0..Len(wire) -> 0..output] : Stream!Counts(f)
        BY DEF Stream!IInv, Stream!ShownInOrder
      <4>3. f[0] = Len(heard) /\ f[1] = f[0] /\ f[1] = output
        <5>1. Stream!Terminal \notin Stream!Outputs /\ MaxOutput \in Nat
          BY TimesAreNatural
        <5>2. f[0] \in 0..output /\ output \in 0..MaxOutput
          <6>1. 0 \in 0..Len(wire)
            BY <2>0
          <6>2. QED BY <4>2, <6>1, Typed DEF Stream!IInv
        <5>3. 1 \in 1..Len(wire)
          BY <2>0
        <5>4. f[1] = f[1 - 1] + 0 /\ f[1] = output
          BY <4>1, <4>2, <5>1, <5>3 DEF Stream!Counts
        <5>5. QED BY <4>1, <4>2, <5>2, <5>4 DEF Stream!Counts
      <4>4. heard' = heard /\ heard = [i \in 1..Len(heard) |-> i] /\ output' = output
        <5>1. Stream!Terminal \notin Stream!Outputs
          BY TimesAreNatural
        <5>2. QED BY <2>x, <4>1, <5>1 DEF Stream!IInv, Stream!ShownInOrder
      <4>5. QED BY <4>3, <4>4 DEF Stream!CompleteIsAll
    <3>3. QED BY <3>1, <3>2 DEF Stream!CompleteIsAll
  <2>12. Stream!FinishedIsDelivered'
    <3>1. told' = "read_back" => told = "read_back" \/ wire[1][1] = Stream!ReadBack
      BY <2>x
    <3>2. 1 \in 1..Len(wire)
      BY <2>0
    <3>3. QED BY <2>x, <3>1, <3>2 DEF Stream!IInv, Stream!ReadBackIsLate,
                 Stream!FinishedIsDelivered
  <2>13. Stream!EndsOnce'
    <3>1. ASSUME NEW i \in 1..Len(wire')
          PROVE /\ i + 1 \in 1..Len(wire) /\ wire'[i] = wire[i + 1]
                /\ (i = Len(wire') <=> i + 1 = Len(wire))
      BY <2>0, <3>1
    <3>2. Stream!EndsOnce
      BY DEF Stream!IInv
    <3>3. QED BY <2>x, <3>1, <3>2 DEF Stream!EndsOnce, Stream!Answers
  <2>14. Stream!LiveWhilePrompt'
    BY <2>0, <2>x DEF Stream!IInv, Stream!LiveWhilePrompt, Stream!Gap
  <2>15. Stream!NeverCut'
    BY <2>0, <2>x DEF Stream!IInv, Stream!NeverCut
  <2> QED BY <2>1, <2>2, <2>3, <2>4, <2>5, <2>6, <2>7, <2>8, <2>9, <2>10, <2>11, <2>12, <2>13,
             <2>14, <2>15 DEF Stream!IInv
<1>11. ASSUME Stream!Quiet PROVE Stream!IInv'
  <2> USE <1>11 DEF Stream!Quiet
  <2>1. /\ Stream!Opened' /\ Stream!HandedAtOnce' /\ Stream!ReadBackIsLate' /\ Stream!NotSilent'
        /\ Stream!CompleteIsAll' /\ Stream!FinishedIsDelivered' /\ Stream!NeverCut'
    BY DEF Stream!IInv, Stream!Opened, Stream!HandedAtOnce, Stream!ReadBackIsLate,
       Stream!NotSilent, Stream!Gap, Stream!CompleteIsAll, Stream!FinishedIsDelivered,
       Stream!NeverCut
  <2>2. Stream!WellFormed'
    BY DEF Stream!IInv, Stream!WellFormed, Stream!TypeOK, Stream!Opened
  <2>3. Stream!QueuedInOrder'
    BY DEF Stream!IInv, Stream!QueuedInOrder, Stream!Event, Stream!Framed, Stream!Emitted
  <2>4. Stream!ShownInOrder'
    BY DEF Stream!IInv, Stream!ShownInOrder, Stream!Counts, Stream!Framed, Stream!Emitted
  <2>5. Stream!LastIsLast'
    BY DEF Stream!IInv, Stream!LastIsLast, Stream!Answers
  <2>6. Stream!WireInTime'
    BY DEF Stream!IInv, Stream!WireInTime, Stream!Gap
  <2>7. Stream!InTouch'
    BY SMTT(60) DEF Stream!IInv, Stream!InTouch, Stream!Gap, Stream!WellFormed, Stream!TypeOK,
       Stream!Opened
  <2>8. Stream!EndsOnce'
    BY DEF Stream!IInv, Stream!EndsOnce, Stream!Answers
  <2>9. Stream!LiveWhilePrompt'
    <3>1. /\ now \in Nat /\ touched \in 0..now /\ opened \in 0..now /\ lastSent \in 0..now
          /\ MaxTransit \in Nat /\ Stream!Gap \in Nat /\ Idle \in Nat
      BY Typed DEF Stream!IInv
    <3>2. Stream!InTouch /\ Stream!NotSilent /\ Stream!WireInTime /\ Stream!WellFormed
      BY DEF Stream!IInv
    <3>3. ASSUME Stream!Gap + MaxTransit < Idle, server = "streaming"
          PROVE opened + MaxTransit >= Idle
      <4>1. CASE wire = <<>>
        BY <3>1, <3>2, <3>3, <4>1 DEF Stream!InTouch, Stream!NotSilent
      <4>2. CASE wire # <<>>
        <5>1. 1 \in 1..Len(wire)
          BY <3>2, <4>2, EmptySeq DEF Stream!WellFormed
        <5>2. now <= wire[1][2] + MaxTransit /\ wire[1][2] \in 0..now
          BY <3>2, <5>1, WireIsTimed DEF Stream!WireInTime
        <5>3. wire[1][2] <= touched + Stream!Gap \/ wire[1][2] = opened
          BY <3>2, <3>3, <4>2 DEF Stream!InTouch
        <5>4. QED BY <3>1, <3>3, <5>2, <5>3
      <4>3. QED BY <4>1, <4>2
    <3>4. QED BY <3>3 DEF Stream!LiveWhilePrompt
  <2> QED BY <2>1, <2>2, <2>3, <2>4, <2>5, <2>6, <2>7, <2>8, <2>9 DEF Stream!IInv
<1>12. ASSUME Stream!TooLong PROVE Stream!IInv'
  <2> USE <1>12 DEF Stream!TooLong, Stream!WaitedEnough
  <2>1. /\ Stream!Opened' /\ Stream!HandedAtOnce' /\ Stream!ReadBackIsLate' /\ Stream!NotSilent'
        /\ Stream!InTouch' /\ Stream!CompleteIsAll' /\ Stream!FinishedIsDelivered'
        /\ Stream!LiveWhilePrompt' /\ Stream!NeverCut'
    BY DEF Stream!IInv, Stream!Opened, Stream!HandedAtOnce, Stream!ReadBackIsLate,
       Stream!NotSilent, Stream!Gap, Stream!InTouch, Stream!CompleteIsAll,
       Stream!FinishedIsDelivered, Stream!LiveWhilePrompt, Stream!NeverCut
  <2>2. Stream!WellFormed'
    BY DEF Stream!IInv, Stream!WellFormed, Stream!TypeOK, Stream!Opened
  <2>3. Stream!QueuedInOrder'
    BY DEF Stream!IInv, Stream!QueuedInOrder, Stream!Event, Stream!Framed, Stream!Emitted
  <2>4. Stream!ShownInOrder'
    BY DEF Stream!IInv, Stream!ShownInOrder, Stream!Counts, Stream!Framed, Stream!Emitted
  <2>5. Stream!LastIsLast'
    BY DEF Stream!IInv, Stream!LastIsLast, Stream!Answers
  <2>6. Stream!WireInTime'
    BY DEF Stream!IInv, Stream!WireInTime, Stream!Gap
  <2>7. Stream!EndsOnce'
    BY DEF Stream!IInv, Stream!EndsOnce, Stream!Answers
  <2> QED BY <2>1, <2>2, <2>3, <2>4, <2>5, <2>6, <2>7 DEF Stream!IInv
<1>13. ASSUME Stream!Broken PROVE Stream!IInv'
  <2> USE <1>13 DEF Stream!Broken
  <2>1. /\ Stream!Opened' /\ Stream!QueuedInOrder' /\ Stream!HandedAtOnce' /\ Stream!ShownInOrder'
        /\ Stream!LastIsLast' /\ Stream!ReadBackIsLate' /\ Stream!NotSilent' /\ Stream!WireInTime'
        /\ Stream!InTouch' /\ Stream!CompleteIsAll' /\ Stream!FinishedIsDelivered'
        /\ Stream!EndsOnce' /\ Stream!LiveWhilePrompt' /\ Stream!NeverCut'
    BY DEF Stream!IInv, Stream!Opened, Stream!QueuedInOrder, Stream!Event, Stream!Framed,
       Stream!Emitted, Stream!HandedAtOnce, Stream!ShownInOrder, Stream!Counts, Stream!LastIsLast,
       Stream!Answers, Stream!ReadBackIsLate, Stream!NotSilent, Stream!Gap, Stream!WireInTime,
       Stream!InTouch, Stream!CompleteIsAll, Stream!FinishedIsDelivered, Stream!EndsOnce,
       Stream!LiveWhilePrompt, Stream!NeverCut
  <2>2. Stream!WellFormed'
    BY DEF Stream!IInv, Stream!WellFormed, Stream!TypeOK, Stream!Opened
  <2> QED BY <2>1, <2>2 DEF Stream!IInv
<1>14. ASSUME Stream!Leave PROVE Stream!IInv'
  <2> USE <1>14 DEF Stream!Leave
  <2>1. /\ Stream!Opened' /\ Stream!HandedAtOnce' /\ Stream!ReadBackIsLate' /\ Stream!NotSilent'
        /\ Stream!InTouch' /\ Stream!CompleteIsAll' /\ Stream!FinishedIsDelivered'
        /\ Stream!LiveWhilePrompt' /\ Stream!NeverCut'
    BY DEF Stream!IInv, Stream!Opened, Stream!HandedAtOnce, Stream!ReadBackIsLate,
       Stream!NotSilent, Stream!Gap, Stream!InTouch, Stream!CompleteIsAll,
       Stream!FinishedIsDelivered, Stream!LiveWhilePrompt, Stream!NeverCut
  <2>2. Stream!WellFormed'
    BY DEF Stream!IInv, Stream!WellFormed, Stream!TypeOK, Stream!Opened
  <2>3. Stream!QueuedInOrder'
    BY DEF Stream!IInv, Stream!QueuedInOrder, Stream!Event, Stream!Framed, Stream!Emitted
  <2>4. Stream!ShownInOrder'
    BY DEF Stream!IInv, Stream!ShownInOrder, Stream!Counts, Stream!Framed, Stream!Emitted
  <2>5. Stream!LastIsLast'
    BY DEF Stream!IInv, Stream!LastIsLast, Stream!Answers
  <2>6. Stream!WireInTime'
    BY DEF Stream!IInv, Stream!WireInTime, Stream!Gap
  <2>7. Stream!EndsOnce'
    BY DEF Stream!IInv, Stream!EndsOnce, Stream!Answers
  <2> QED BY <2>1, <2>2, <2>3, <2>4, <2>5, <2>6, <2>7 DEF Stream!IInv
<1>15. ASSUME Stream!Pass PROVE Stream!IInv'
  <2> USE <1>15 DEF Stream!Pass, Stream!Due, Stream!Silent, Stream!Listening, Stream!Over,
                    Stream!WaitedEnough
  <2>1. /\ Stream!Opened' /\ Stream!HandedAtOnce' /\ Stream!CompleteIsAll'
        /\ Stream!FinishedIsDelivered' /\ Stream!LiveWhilePrompt'
    BY DEF Stream!IInv, Stream!Opened, Stream!HandedAtOnce, Stream!CompleteIsAll,
       Stream!FinishedIsDelivered, Stream!LiveWhilePrompt, Stream!Gap
  <2>2. Stream!WellFormed'
    <3>1. /\ Stream!WellFormed /\ now \in Nat /\ touched \in 0..now /\ opened \in 0..now
          /\ lastSent \in 0..now
          /\ finished \in 0..now /\ MaxTransit \in Nat /\ Stream!Gap \in Nat /\ Idle \in Nat
          /\ MaxLag <= Stream!Gap /\ Keepalive <= Stream!Gap /\ MaxLag \in Nat /\ Keepalive \in Nat
          /\ Cap \in Nat /\ RequestLimit \in Nat
      BY Typed DEF Stream!IInv
    <3>2. \A x \in Stream!ToSet(wire) : x[2] \in 0..now'
      BY <3>1 DEF Stream!WellFormed, Stream!TypeOK
    <3>3. Stream!TypeOK'
      BY <3>1, <3>2 DEF Stream!WellFormed, Stream!TypeOK
    <3>4. QED BY <3>1, <3>3 DEF Stream!WellFormed
  <2>3. Stream!QueuedInOrder'
    BY DEF Stream!IInv, Stream!QueuedInOrder, Stream!Event, Stream!Framed, Stream!Emitted
  <2>4. Stream!ShownInOrder'
    BY DEF Stream!IInv, Stream!ShownInOrder, Stream!Counts, Stream!Framed, Stream!Emitted
  <2>5. Stream!LastIsLast'
    BY DEF Stream!IInv, Stream!LastIsLast, Stream!Answers
  <2>6. Stream!ReadBackIsLate'
    BY SMTT(60) DEF Stream!IInv, Stream!ReadBackIsLate, Stream!WellFormed, Stream!TypeOK,
       Stream!Opened
  <2>7. Stream!NotSilent'
    <3>1. /\ Stream!WellFormed /\ now \in Nat /\ touched \in 0..now /\ opened \in 0..now
          /\ lastSent \in 0..now
          /\ finished \in 0..now /\ MaxTransit \in Nat /\ Stream!Gap \in Nat /\ Idle \in Nat
          /\ MaxLag <= Stream!Gap /\ Keepalive <= Stream!Gap /\ MaxLag \in Nat /\ Keepalive \in Nat
          /\ Cap \in Nat /\ RequestLimit \in Nat
      BY Typed DEF Stream!IInv
    <3>2. ASSUME server = "streaming" PROVE now < lastSent + MaxLag \/ now < lastSent + Keepalive
      <4>1. Stream!Listening
        BY <3>2 DEF Stream!IInv, Stream!Opened
      <4>2. QED BY <3>1, <4>1
    <3>3. QED BY <3>1, <3>2, SMTT(60) DEF Stream!NotSilent, Stream!Gap
  <2>8. Stream!WireInTime'
    <3>1. /\ Stream!WellFormed /\ now \in Nat /\ touched \in 0..now /\ opened \in 0..now
          /\ lastSent \in 0..now
          /\ finished \in 0..now /\ MaxTransit \in Nat /\ Stream!Gap \in Nat /\ Idle \in Nat
          /\ MaxLag <= Stream!Gap /\ Keepalive <= Stream!Gap /\ MaxLag \in Nat /\ Keepalive \in Nat
          /\ Cap \in Nat /\ RequestLimit \in Nat
      BY Typed DEF Stream!IInv
    <3>2. ASSUME NEW i \in 1..Len(wire) PROVE now + 1 <= wire[i][2] + MaxTransit
      <4>1. wire # <<>> /\ 1 \in 1..Len(wire) /\ i \in 1..Len(wire)
        BY <3>1, <3>2, EmptySeq, LenProperties DEF Stream!WellFormed
      <4>2. now < wire[1][2] + MaxTransit /\ wire[1][2] \in 0..now /\ wire[i][2] \in 0..now
        BY <3>1, <4>1, WireIsTimed
      <4>3. wire[1][2] <= wire[i][2]
        BY <4>1 DEF Stream!IInv, Stream!WireInTime
      <4>4. QED BY <3>1, <4>2, <4>3
    <3>3. Stream!WireInTime /\ now' = now + 1
      BY DEF Stream!IInv
    <3>4. QED BY <3>2, <3>3 DEF Stream!WireInTime, Stream!Gap
  <2>9. Stream!InTouch'
    <3>1. /\ Stream!WellFormed /\ now \in Nat /\ touched \in 0..now /\ opened \in 0..now
          /\ lastSent \in 0..now
          /\ finished \in 0..now /\ MaxTransit \in Nat /\ Stream!Gap \in Nat /\ Idle \in Nat
          /\ MaxLag <= Stream!Gap /\ Keepalive <= Stream!Gap /\ MaxLag \in Nat /\ Keepalive \in Nat
          /\ Cap \in Nat /\ RequestLimit \in Nat
      BY Typed DEF Stream!IInv
    <3>2. Stream!InTouch /\ now' = now + 1
      BY DEF Stream!IInv
    <3>3. told = "waiting" => now < Cap
      BY <3>1 DEF Stream!WaitedEnough
    <3>4. QED BY <3>1, <3>2, <3>3 DEF Stream!InTouch, Stream!Gap
  <2>10. Stream!EndsOnce'
    BY DEF Stream!IInv, Stream!EndsOnce, Stream!Answers
  <2>11. Stream!NeverCut'
    BY DEF Stream!IInv, Stream!NeverCut, Stream!WellFormed, Stream!TypeOK, Stream!Opened
  <2> QED BY <2>1, <2>2, <2>3, <2>4, <2>5, <2>6, <2>7, <2>8, <2>9, <2>10, <2>11 DEF Stream!IInv
<1>16. ASSUME UNCHANGED Stream!vars PROVE Stream!IInv'
  <2> USE <1>16 DEF Stream!vars
  <2>1. /\ Stream!Opened' /\ Stream!HandedAtOnce' /\ Stream!ReadBackIsLate' /\ Stream!NotSilent'
        /\ Stream!InTouch' /\ Stream!CompleteIsAll' /\ Stream!FinishedIsDelivered'
        /\ Stream!LiveWhilePrompt' /\ Stream!NeverCut'
    BY DEF Stream!IInv, Stream!Opened, Stream!HandedAtOnce, Stream!ReadBackIsLate,
       Stream!NotSilent, Stream!Gap, Stream!InTouch, Stream!CompleteIsAll,
       Stream!FinishedIsDelivered, Stream!LiveWhilePrompt, Stream!NeverCut
  <2>2. Stream!WellFormed'
    BY DEF Stream!IInv, Stream!WellFormed, Stream!TypeOK, Stream!Opened
  <2>3. Stream!QueuedInOrder'
    BY DEF Stream!IInv, Stream!QueuedInOrder, Stream!Event, Stream!Framed, Stream!Emitted
  <2>4. Stream!ShownInOrder'
    BY DEF Stream!IInv, Stream!ShownInOrder, Stream!Counts, Stream!Framed, Stream!Emitted
  <2>5. Stream!LastIsLast'
    BY DEF Stream!IInv, Stream!LastIsLast, Stream!Answers
  <2>6. Stream!WireInTime'
    BY DEF Stream!IInv, Stream!WireInTime, Stream!Gap
  <2>7. Stream!EndsOnce'
    BY DEF Stream!IInv, Stream!EndsOnce, Stream!Answers
  <2> QED BY <2>1, <2>2, <2>3, <2>4, <2>5, <2>6, <2>7 DEF Stream!IInv
<1> QED BY <1>1, <1>2, <1>3, <1>4, <1>5, <1>6, <1>7, <1>8, <1>9, <1>10, <1>11, <1>12, <1>13, <1>14,
           <1>15, <1>16 DEF Stream!Next

LEMMA StreamInit == ASSUME Stream!TimesFit, Stream!Init
  PROVE Stream!IInv
<1> USE TimesAreNatural DEF Stream!Init
<1>1. Stream!WellFormed /\ Stream!Opened /\ Stream!QueuedInOrder /\ Stream!HandedAtOnce
  <2>1. Stream!TypeOK
    BY EmptySeq DEF Stream!TypeOK, Stream!ToSet
  <2>2. QED BY <2>1, EmptySeq DEF Stream!WellFormed, Stream!Opened, Stream!QueuedInOrder,
               Stream!HandedAtOnce
<1>2. Stream!ShownInOrder
  <2> DEFINE f == [i \in 0..0 |-> 0]
  <2>1. f \in [0..Len(wire) -> 0..output] /\ Stream!Counts(f)
    <3>1. Len(wire) = 0 /\ Len(queue) = 0 /\ Len(handed) = 0 /\ Len(heard) = 0 /\ output = 0
      OBVIOUS
    <3>2. Stream!Framed = 0
      <4>1. work # "done"
        OBVIOUS
      <4>2. Stream!Emitted = 0
        BY <3>1, <4>1 DEF Stream!Emitted
      <4> HIDE DEF Stream!Init
      <4>3. QED BY <3>1, <4>2 DEF Stream!Framed
    <3>3. f \in [0..0 -> 0..0] /\ f[0] = 0
      OBVIOUS
    <3> HIDE DEF f
    <3>4. QED BY <3>1, <3>2, <3>3 DEF Stream!Counts
  <2>2. heard = [i \in 1..Len(heard) |-> i] /\ told # "complete"
    OBVIOUS
  <2>3. QED BY <2>1, <2>2 DEF Stream!ShownInOrder
<1>3. /\ Stream!LastIsLast /\ Stream!ReadBackIsLate /\ Stream!NotSilent /\ Stream!WireInTime
      /\ Stream!InTouch
  BY DEF Stream!LastIsLast, Stream!ReadBackIsLate, Stream!NotSilent, Stream!WireInTime,
     Stream!InTouch
<1>4. /\ Stream!CompleteIsAll /\ Stream!FinishedIsDelivered /\ Stream!EndsOnce
      /\ Stream!LiveWhilePrompt /\ Stream!NeverCut
  BY DEF Stream!CompleteIsAll, Stream!FinishedIsDelivered, Stream!EndsOnce, Stream!LiveWhilePrompt,
     Stream!NeverCut
<1>5. QED BY <1>1, <1>2, <1>3, <1>4 DEF Stream!IInv

StreamPromise == /\ Stream!TypeOK /\ Stream!CompleteIsAll /\ Stream!FinishedIsDelivered
                 /\ Stream!EndsOnce /\ Stream!LiveWhilePrompt /\ Stream!NeverCut

LEMMA StreamSays == ASSUME Stream!TimesFit, Stream!IInv
  PROVE StreamPromise
BY DEF Stream!IInv, StreamPromise, Stream!WellFormed

\* A page that shows a completed answer was shown all of it, in order, and no stream that is
\* alive is cut off: not by the ceiling when the reply is finished, not by the platform, and not
\* by the page's timer for silence, as long as the connection holds no frame back for longer
\* than the page bears (routers/chat.py and frontend/src/api/request.ts).
THEOREM StreamKept == ASSUME Stream!TimesFit
  PROVE Stream!Spec => []StreamPromise
<1>1. Stream!Init => Stream!IInv
  BY StreamInit
<1>2. Stream!IInv /\ [Stream!Next]_(Stream!vars) => Stream!IInv'
  BY StreamStep
<1>3. Stream!IInv => StreamPromise
  BY StreamSays
<1>4. QED BY <1>1, <1>2, <1>3, PTL DEF Stream!Spec

-----------------------------------------------------------------------------
(* The page over a traveler's turns and recoveries. *)

CONSTANTS Views, MaxTurns, MaxMoves
VARIABLES page, url, turns, saved, live, read, moves
Desk == INSTANCE RecoveryDesk

USE DEF Desk!DeskAssumption, Desk!None, Desk!Turns, Desk!Concierge, Desk!NoDoc, Desk!server,
        Desk!Saves, Desk!Rows, Desk!Documents, Desk!Pages

\* What the steps below write into a page leaves it a page.
LEMMA BegunIsPage ==
  ASSUME Desk!DeskAssumption, NEW p \in Desk!Pages, NEW phase \in {4, 5}, NEW g \in Nat, NEW q,
         q = [p EXCEPT !.gen = g, !.last = phase, !.error = FALSE,
                       !.wiped = g, !.said = Desk!None, !.conv = Desk!None]
  PROVE q \in Desk!Pages
OBVIOUS
LEMMA ClearedIsPage ==
  ASSUME Desk!DeskAssumption, NEW p \in Desk!Pages, NEW s \in {4, 5}, NEW g \in Nat,
         NEW b \in BOOLEAN, NEW q,
         q = [p EXCEPT !.gen = g, !.wiped = g, !.said = Desk!None, !.chat = Desk!None,
                       !.unresolved = Desk!None, !.awaiting = FALSE, !.loading = b,
                       !.last = Desk!None, !.conv = Desk!None, !.error = FALSE, !.sel = s]
  PROVE q \in Desk!Pages
OBVIOUS
LEMMA RestoredIsPage ==
  ASSUME Desk!DeskAssumption, NEW p \in Desk!Pages, NEW g \in Nat, NEW c \in Desk!Turns, NEW q,
         q = [p EXCEPT !.unresolved = Desk!None, !.awaiting = FALSE, !.error = FALSE, !.sel = 5,
                       !.last = 5, !.kind = 5, !.conv = c, !.wiped = g, !.said = Desk!None]
  PROVE q \in Desk!Pages
OBVIOUS

\* A turn begins the next generation; another phase's transcript is put away.
LEMMA Begins == ASSUME Desk!DeskAssumption, Desk!PageTyped, NEW phase \in {4, 5}
  PROVE /\ Desk!Begin(phase) \in Desk!Pages
        /\ Desk!Begin(phase).gen = page.gen + 1 /\ Desk!Begin(phase).kind = page.kind
        /\ Desk!Begin(phase).chat = page.chat /\ Desk!Begin(phase).write = page.write
        /\ Desk!Begin(phase).loading = page.loading
        /\ Desk!Begin(phase).conv \in {page.conv, Desk!None}
        /\ \/ Desk!Begin(phase).wiped = page.gen + 1 /\ Desk!Begin(phase).said = Desk!None
           \/ Desk!Begin(phase).wiped = page.wiped /\ Desk!Begin(phase).said = page.said
<1>1. page \in Desk!Pages
  BY DEF Desk!PageTyped
<1> DEFINE g == page.gen + 1
<1>2. g \in Nat
  BY <1>1
<1>3. CASE page.kind \notin {Desk!None, phase}
  <2>1. Desk!Begin(phase) = [page EXCEPT !.gen = g, !.last = phase, !.error = FALSE,
                                    !.wiped = g, !.said = Desk!None, !.conv = Desk!None]
    BY <1>1, <1>3 DEF Desk!Begin
  <2> HIDE DEF g
  <2>2. /\ Desk!Begin(phase) \in Desk!Pages
        /\ Desk!Begin(phase).gen = g /\ Desk!Begin(phase).kind = page.kind
        /\ Desk!Begin(phase).chat = page.chat /\ Desk!Begin(phase).write = page.write
        /\ Desk!Begin(phase).loading = page.loading /\ Desk!Begin(phase).conv = Desk!None
        /\ Desk!Begin(phase).wiped = g /\ Desk!Begin(phase).said = Desk!None
    <3> HIDE DEF Desk!Pages
    <3>1. Desk!Begin(phase) \in Desk!Pages
      BY <1>1, <1>2, <2>1, BegunIsPage
    <3>2. QED BY <1>1, <2>1, <3>1 DEF Desk!Pages
  <2>3. QED BY <2>2 DEF g
<1>4. CASE page.kind \in {Desk!None, phase}
  <2>1. Desk!Begin(phase) = [page EXCEPT !.gen = g, !.last = phase, !.error = FALSE]
    BY <1>1, <1>4 DEF Desk!Begin
  <2> HIDE DEF g
  <2>2. /\ Desk!Begin(phase) \in Desk!Pages
        /\ Desk!Begin(phase).gen = g /\ Desk!Begin(phase).kind = page.kind
        /\ Desk!Begin(phase).chat = page.chat /\ Desk!Begin(phase).write = page.write
        /\ Desk!Begin(phase).loading = page.loading /\ Desk!Begin(phase).conv = page.conv
        /\ Desk!Begin(phase).wiped = page.wiped /\ Desk!Begin(phase).said = page.said
    BY <1>1, <1>2, <2>1
  <2>3. QED BY <2>2 DEF g
<1>5. QED BY <1>3, <1>4

\* No turn that is waited for is of a later generation than the page.
LEMMA NoneIsLater == ASSUME Desk!OneIsAwaited, NEW m \in Desk!Turns, turns[m].waits
  PROVE turns[m].gen <= page.gen
BY DEF Desk!OneIsAwaited

\* A page that is not busy sends a turn of a new generation, and waits for it.
LEMMA Sends ==
  ASSUME Desk!DeskAssumption, Desk!IInv, NEW n \in Desk!Turns, NEW phase \in {4, 5},
         NEW to \in Desk!Turns \cup {Desk!None}, NEW b \in Desk!Pages,
         phase = 5 => to \in Desk!Turns, ~Desk!Busy, Desk!Send(n, phase, to, b),
         b.gen = page.gen + 1, ~b.write, b.kind = 5 => b.conv # Desk!Concierge, b.wiped <= b.gen,
         b.said = Desk!None \/ b.said >= b.wiped, url' \in Desk!Turns \cup {Desk!None},
         UNCHANGED <<Desk!server, read>>
  PROVE Desk!IInv'
<1>1. page \in Desk!Pages /\ page.chat = Desk!None /\ turns \in [Desk!Turns -> Desk!Rows]
  BY DEF Desk!IInv, Desk!PageTyped, Desk!TurnsTyped, Desk!Busy
<1>2. /\ page' \in Desk!Pages /\ page'.gen = page.gen + 1 /\ page'.chat = n /\ page'.loading = TRUE
      /\ page'.write = FALSE /\ page'.kind = b.kind /\ page'.conv = b.conv
      /\ page'.wiped = b.wiped /\ page'.said = b.said
  BY DEF Desk!Send
<1>3. /\ turns' \in [Desk!Turns -> Desk!Rows]
      /\ turns'[n] = [phase |-> phase, thread |-> to, at |-> "sent", waits |-> TRUE,
                      gen |-> page.gen + 1]
      /\ \A m \in Desk!Turns : m # n => turns'[m] = turns[m]
  <2>1. [phase |-> phase, thread |-> to, at |-> "sent", waits |-> TRUE, gen |-> b.gen] \in Desk!Rows
    OBVIOUS
  <2>2. QED BY <1>1, <2>1 DEF Desk!Send
<1> HIDE DEF Desk!Pages, Desk!Rows
<1>4. n # Desk!None /\ page.gen \in Nat /\ page.gen + 1 \in Nat
  BY <1>1 DEF Desk!Pages
<1>5. Desk!PageTyped' /\ Desk!ServerTyped' /\ Desk!ReadTyped'
  BY <1>2 DEF Desk!IInv, Desk!PageTyped, Desk!ServerTyped, Desk!ReadTyped, Desk!Finished
<1>6. Desk!TurnsTyped'
  BY <1>3 DEF Desk!IInv, Desk!TurnsTyped
<1>7. Desk!RecoveryIsNamed' /\ Desk!LoadingIsWaiting' /\ Desk!NoStrayAnswer' /\ Desk!WipedBefore'
  BY <1>2, <1>4 DEF Desk!RecoveryIsNamed, Desk!LoadingIsWaiting, Desk!NoStrayAnswer,
     Desk!WipedBefore, Desk!Pages
<1>8. Desk!OneIsAwaited'
  <2>1. ASSUME NEW m \in Desk!Turns, turns'[m].waits
        PROVE turns'[m].gen <= page'.gen /\ (turns'[m].gen = page'.gen => page'.chat = m)
    <3>1. CASE m = n
      BY <1>2, <1>3, <1>4, <3>1
    <3>2. CASE m # n
      <4>1. turns'[m] = turns[m] /\ turns[m] \in Desk!Rows
        BY <1>1, <1>3, <3>2
      <4>2. turns[m].gen <= page.gen
        BY <2>1, <4>1, NoneIsLater DEF Desk!IInv
      <4>3. turns[m].gen \in Nat
        BY <4>1 DEF Desk!Rows
      <4>4. QED BY <1>2, <1>4, <4>1, <4>2, <4>3
    <3>3. QED BY <3>1, <3>2
  <2>2. QED BY <1>2, <1>3, <2>1 DEF Desk!OneIsAwaited
<1>9. QED BY <1>5, <1>6, <1>7, <1>8 DEF Desk!IInv

\* A clean page: the turn that is left behind is of an earlier generation.
LEMMA Clears ==
  ASSUME Desk!DeskAssumption, Desk!IInv, NEW s \in {4, 5}, page' = [Desk!Cleared EXCEPT !.sel = s],
         url' = Desk!None, UNCHANGED <<turns, Desk!server, read>>
  PROVE Desk!IInv'
<1>1. page \in Desk!Pages /\ turns \in [Desk!Turns -> Desk!Rows]
  BY DEF Desk!IInv, Desk!PageTyped, Desk!TurnsTyped
<1>2. /\ page' \in Desk!Pages /\ page'.gen = page.gen + 1 /\ page'.chat = Desk!None
      /\ page'.loading = page.write
      /\ page'.write = page.write /\ page'.conv = Desk!None
      /\ page'.wiped = page.gen + 1 /\ page'.said = Desk!None
  <2> DEFINE g == page.gen + 1
  <2>1. g \in Nat /\ page.write \in BOOLEAN
    BY <1>1
  <2>2. page' = [page EXCEPT !.gen = g, !.wiped = g, !.said = Desk!None, !.chat = Desk!None,
                             !.unresolved = Desk!None, !.awaiting = FALSE, !.loading = page.write,
                             !.last = Desk!None, !.conv = Desk!None, !.error = FALSE, !.sel = s]
    BY <1>1 DEF Desk!Cleared, Desk!StillLoading
  <2> HIDE DEF g
  <2>3. /\ page' \in Desk!Pages /\ page'.gen = g /\ page'.chat = Desk!None
        /\ page'.loading = page.write
        /\ page'.write = page.write /\ page'.conv = Desk!None
        /\ page'.wiped = g /\ page'.said = Desk!None
    <3> DEFINE q == page'
    <3>1. q = [page EXCEPT !.gen = g, !.wiped = g, !.said = Desk!None, !.chat = Desk!None,
                           !.unresolved = Desk!None, !.awaiting = FALSE, !.loading = page.write,
                           !.last = Desk!None, !.conv = Desk!None, !.error = FALSE, !.sel = s]
      BY <2>2
    <3> HIDE DEF q, Desk!Pages, Desk!None, Desk!Turns, Desk!Concierge, Desk!DeskAssumption
    <3>2. q \in Desk!Pages
      BY <1>1, <2>1, <3>1, ClearedIsPage
    <3>3. QED BY <1>1, <2>2, <3>2 DEF q, Desk!Pages, Desk!None, Desk!Turns, Desk!Concierge,
                 Desk!DeskAssumption
  <2>4. QED BY <2>3 DEF g
<1> HIDE DEF Desk!Pages, Desk!Rows
<1>3. page.gen \in Nat /\ page'.gen \in Nat
  BY <1>1, <1>2 DEF Desk!Pages
<1>4. Desk!PageTyped' /\ Desk!TurnsTyped' /\ Desk!ServerTyped' /\ Desk!ReadTyped'
  BY <1>2 DEF Desk!IInv, Desk!PageTyped, Desk!TurnsTyped, Desk!ServerTyped, Desk!ReadTyped,
     Desk!Finished
<1>5. Desk!RecoveryIsNamed' /\ Desk!LoadingIsWaiting' /\ Desk!NoStrayAnswer' /\ Desk!WipedBefore'
  <2>1. page'.write \in BOOLEAN
    BY <1>2 DEF Desk!Pages
  <2>2. Desk!LoadingIsWaiting'
    BY <1>2, <2>1 DEF Desk!LoadingIsWaiting
  <2>3. Desk!Concierge # Desk!None
    OBVIOUS
  <2>4. QED BY <1>2, <1>3, <2>2, <2>3 DEF Desk!RecoveryIsNamed, Desk!NoStrayAnswer,
               Desk!WipedBefore
<1>6. Desk!OneIsAwaited'
  <2>1. ASSUME NEW m \in Desk!Turns, turns[m].waits
        PROVE turns[m].gen <= page'.gen /\ turns[m].gen # page'.gen
    <3>1. turns[m] \in Desk!Rows
      BY <1>1
    <3>2. turns[m].gen <= page.gen
      <4>1. Desk!OneIsAwaited
        BY DEF Desk!IInv
      <4>2. QED BY <2>1, <4>1, NoneIsLater
    <3>3. turns[m].gen \in Nat
      BY <3>1 DEF Desk!Rows
    <3>4. QED BY <1>2, <1>3, <3>2, <3>3
  <2>2. QED BY <1>2, <2>1 DEF Desk!OneIsAwaited
<1>7. QED BY <1>4, <1>5, <1>6 DEF Desk!IInv

\* The saved outcome takes the place of the conversation of a page that waits for nothing.
LEMMA Restores ==
  ASSUME Desk!DeskAssumption, Desk!IInv, NEW p \in {page, [page EXCEPT !.awaiting = FALSE]},
         NEW d \in Desk!Documents, Desk!Finished(d), page' = Desk!Restored(p, d),
         UNCHANGED <<url, turns, Desk!server>>, Desk!ReadTyped'
  PROVE Desk!IInv'
<1>1. page \in Desk!Pages
  BY DEF Desk!IInv, Desk!PageTyped
<1>2. /\ page' \in Desk!Pages /\ page'.gen = page.gen /\ page'.chat = page.chat
      /\ page'.write = page.write /\ page'.loading = page.loading
      /\ \/ /\ page'.wiped = page.wiped /\ page'.said = page.said
            /\ page'.conv = page.conv /\ page'.kind = page.kind
         \/ ~page.loading /\ page'.wiped = page.gen + 1 /\ page'.said = Desk!None /\ page'.conv \in Desk!Turns
  <2>1. /\ p \in Desk!Pages /\ p.gen = page.gen /\ p.chat = page.chat /\ p.write = page.write
        /\ p.loading = page.loading /\ p.wiped = page.wiped /\ p.said = page.said
        /\ p.conv = page.conv /\ p.kind = page.kind
    <3>1. CASE p = page
      BY <1>1, <3>1
    <3>2. CASE p = [page EXCEPT !.awaiting = FALSE]
      BY <1>1, <3>2
    <3>3. QED BY <3>1, <3>2
  <2>2. CASE p.loading \/ d.saved \notin {"paused", "done"}
    BY <2>1, <2>2 DEF Desk!Restored
  <2>3. CASE ~p.loading /\ d.saved \in {"paused", "done"}
    <3>1. d.thread \in Desk!Turns
      BY <2>3 DEF Desk!Finished
    <3> DEFINE g == p.gen + 1
    <3>2. page' = [p EXCEPT !.unresolved = Desk!None, !.awaiting = FALSE, !.error = FALSE, !.sel = 5,
                            !.last = 5, !.kind = 5, !.conv = d.thread, !.wiped = g,
                            !.said = Desk!None]
      BY <2>3 DEF Desk!Restored
    <3>3. g \in Nat
      BY <2>1
    <3> HIDE DEF g
    <3>4. /\ page' \in Desk!Pages /\ page'.gen = p.gen /\ page'.chat = p.chat
          /\ page'.write = p.write /\ page'.loading = p.loading
          /\ page'.wiped = g /\ page'.said = Desk!None /\ page'.conv = d.thread
      <4> DEFINE q == page'
      <4>1. q = [p EXCEPT !.unresolved = Desk!None, !.awaiting = FALSE, !.error = FALSE, !.sel = 5,
                          !.last = 5, !.kind = 5, !.conv = d.thread, !.wiped = g, !.said = Desk!None]
        BY <3>2
      <4> HIDE DEF q, Desk!Pages, Desk!None, Desk!Turns, Desk!Concierge, Desk!DeskAssumption
      <4>2. q \in Desk!Pages
        BY <2>1, <3>1, <3>3, <4>1, RestoredIsPage
      <4>3. QED BY <2>1, <3>2, <4>2 DEF q, Desk!Pages, Desk!None, Desk!Turns, Desk!Concierge,
                   Desk!DeskAssumption
    <3>5. QED BY <2>1, <2>3, <3>1, <3>4 DEF g
  <2>4. QED BY <2>2, <2>3
<1> HIDE DEF Desk!Pages, Desk!Rows
<1>3. page.gen \in Nat /\ Desk!Concierge \notin Desk!Turns
  <2>1. page.gen \in Nat
    BY <1>1 DEF Desk!Pages
  <2>2. MaxTurns + 1 \notin 1..MaxTurns
    OBVIOUS
  <2>3. QED BY <2>1, <2>2
<1>4. Desk!PageTyped' /\ Desk!TurnsTyped' /\ Desk!ServerTyped'
  BY <1>2 DEF Desk!IInv, Desk!PageTyped, Desk!TurnsTyped, Desk!ServerTyped
<1>5. Desk!RecoveryIsNamed' /\ Desk!LoadingIsWaiting' /\ Desk!NoStrayAnswer'
  BY <1>2, <1>3 DEF Desk!IInv, Desk!RecoveryIsNamed, Desk!LoadingIsWaiting, Desk!NoStrayAnswer
<1>6. Desk!WipedBefore' /\ Desk!OneIsAwaited'
  BY <1>2, <1>3 DEF Desk!IInv, Desk!WipedBefore, Desk!OneIsAwaited, Desk!LoadingIsWaiting
<1>7. QED BY <1>4, <1>5, <1>6 DEF Desk!IInv

\* A turn whose answer moves on at the server is still a turn of its type.
LEMMA MovesOn ==
  ASSUME Desk!TurnsTyped, NEW n \in Desk!Turns,
         NEW a \in {"unsent", "sent", "running", "busy", "answered", "refused"},
         turns' = [turns EXCEPT ![n].at = a]
  PROVE Desk!TurnsTyped'
<1>1. turns[n] \in Desk!Rows
  BY DEF Desk!TurnsTyped
<1> DEFINE r == [turns[n] EXCEPT !.at = a]
<1>2. r \in Desk!Rows /\ r.phase = turns[n].phase /\ r.thread = turns[n].thread
  BY <1>1 DEF Desk!Rows
<1>3. turns' = [turns EXCEPT ![n] = r]
  OBVIOUS
<1> HIDE DEF r, Desk!Rows, Desk!Turns
<1>4. QED BY <1>2, <1>3 DEF Desk!TurnsTyped

\* A page that begins a turn is as sound as the one before.
LEMMA Starts == ASSUME Desk!DeskAssumption, Desk!IInv, NEW phase \in {4, 5}
  PROVE /\ Desk!Begin(phase) \in Desk!Pages /\ Desk!Begin(phase).gen = page.gen + 1
        /\ Desk!Begin(phase).gen \in Nat
        /\ Desk!Begin(phase).write = page.write /\ Desk!Begin(phase).chat = page.chat
        /\ Desk!Begin(phase).loading = page.loading
        /\ Desk!Begin(phase).kind = 5 => Desk!Begin(phase).conv # Desk!Concierge
        /\ Desk!Begin(phase).wiped <= Desk!Begin(phase).gen
        /\ Desk!Begin(phase).said = Desk!None \/ Desk!Begin(phase).said >= Desk!Begin(phase).wiped
<1>1. /\ Desk!PageTyped /\ page \in Desk!Pages /\ Desk!RecoveryIsNamed /\ Desk!WipedBefore
      /\ Desk!NoStrayAnswer
  BY DEF Desk!IInv, Desk!PageTyped
<1>2. page.gen \in Nat /\ page.wiped \in Nat /\ page.wiped <= page.gen + 1
  BY <1>1 DEF Desk!WipedBefore
<1> DEFINE b == Desk!Begin(phase)
<1>3. /\ b \in Desk!Pages /\ b.gen = page.gen + 1 /\ b.kind = page.kind
      /\ b.chat = page.chat /\ b.write = page.write /\ b.loading = page.loading
      /\ b.conv \in {page.conv, Desk!None}
      /\ \/ b.wiped = page.gen + 1 /\ b.said = Desk!None
         \/ b.wiped = page.wiped /\ b.said = page.said
  BY <1>1, Begins
<1> HIDE DEF b, Desk!Pages
<1>4. b.wiped <= b.gen /\ (b.said = Desk!None \/ b.said >= b.wiped)
  BY <1>1, <1>2, <1>3 DEF Desk!NoStrayAnswer
<1>5. Desk!Concierge # Desk!None
  OBVIOUS
<1>6. b.kind = 5 => b.conv # Desk!Concierge
  BY <1>1, <1>3, <1>5 DEF Desk!RecoveryIsNamed
<1>7. QED BY <1>2, <1>3, <1>4, <1>6 DEF b

\* What a recovery, a failed turn and a read write leaves them what they are.
LEMMA RecoveringIsPage ==
  ASSUME Desk!DeskAssumption, NEW p \in Desk!Pages, NEW g \in Nat, NEW c \in Desk!Turns, NEW q,
         q = [p EXCEPT !.sel = 5, !.conv = c, !.kind = 5, !.wiped = g, !.said = Desk!None]
  PROVE q \in Desk!Pages
OBVIOUS
LEMMA FailedIsPage ==
  ASSUME Desk!DeskAssumption, NEW p \in Desk!Pages, NEW g \in Nat,
         NEW u \in Desk!Turns \cup {Desk!None}, NEW b \in BOOLEAN, NEW q,
         q = [p EXCEPT !.chat = Desk!None, !.loading = FALSE, !.error = TRUE, !.said = g,
                       !.unresolved = u, !.awaiting = b]
  PROVE q \in Desk!Pages
OBVIOUS
\* The key of a read is the number of a recovery, or none.
LEMMA KeyTyped == ASSUME Desk!DeskAssumption, Desk!PageTyped
  PROVE Desk!Key \in Desk!Turns \cup {Desk!None} /\ Desk!Poll \in BOOLEAN
<1>1. page \in Desk!Pages /\ url \in Desk!Turns \cup {Desk!None}
  BY DEF Desk!PageTyped
<1>2. Desk!Key \in Desk!Turns \cup {Desk!None}
  BY <1>1 DEF Desk!Key
<1>3. Desk!Watching \in BOOLEAN /\ Desk!ReadingBack \in BOOLEAN
  BY DEF Desk!Watching, Desk!ReadingBack
<1>4. Desk!Poll \in BOOLEAN
  BY <1>3 DEF Desk!Poll
<1>5. QED BY <1>2, <1>4

\* The document the page shows is none, or one that was read.
LEMMA DocIsRead == ASSUME Desk!DeskAssumption, Desk!ReadTyped
  PROVE Desk!Doc \in Desk!Documents /\ Desk!Finished(Desk!Doc)
<1>1. Desk!NoDoc \in Desk!Documents /\ Desk!Finished(Desk!NoDoc)
  BY DEF Desk!Finished
<1>2. read.doc \in Desk!Documents /\ Desk!Finished(read.doc)
  BY DEF Desk!ReadTyped
<1>3. QED BY <1>1, <1>2 DEF Desk!Doc

\* A page that is not busy may pass to the next generation without a turn.
LEMMA Passes ==
  ASSUME Desk!DeskAssumption, Desk!IInv, page' \in Desk!Pages, page'.gen = page.gen + 1,
         page'.chat = Desk!None, page'.write = FALSE, page'.loading = FALSE,
         page'.kind = 5 => page'.conv # Desk!Concierge, page'.wiped <= page'.gen,
         page'.said = Desk!None \/ page'.said >= page'.wiped,
         UNCHANGED <<url, turns, Desk!server, read>>
  PROVE Desk!IInv'
<1>1. /\ turns \in [Desk!Turns -> Desk!Rows] /\ page.gen \in Nat /\ page'.gen \in Nat
      /\ page'.wiped \in Nat
  BY DEF Desk!IInv, Desk!PageTyped, Desk!TurnsTyped
<1> HIDE DEF Desk!Pages, Desk!Rows
<1>2. Desk!PageTyped' /\ Desk!TurnsTyped' /\ Desk!ServerTyped' /\ Desk!ReadTyped'
  BY DEF Desk!IInv, Desk!PageTyped, Desk!TurnsTyped, Desk!ServerTyped, Desk!ReadTyped,
     Desk!Finished
<1>3. Desk!RecoveryIsNamed' /\ Desk!LoadingIsWaiting' /\ Desk!NoStrayAnswer' /\ Desk!WipedBefore'
  BY <1>1 DEF Desk!RecoveryIsNamed, Desk!LoadingIsWaiting, Desk!NoStrayAnswer, Desk!WipedBefore
<1>4. Desk!OneIsAwaited'
  <2>1. ASSUME NEW m \in Desk!Turns, turns[m].waits
        PROVE turns[m].gen <= page'.gen /\ turns[m].gen # page'.gen
    <3>1. turns[m].gen \in Nat
      BY <1>1 DEF Desk!Rows
    <3>2. turns[m].gen <= page.gen
      BY <2>1, NoneIsLater DEF Desk!IInv
    <3>3. QED BY <1>1, <3>1, <3>2
  <2>2. QED BY <2>1 DEF Desk!OneIsAwaited
<1>5. QED BY <1>2, <1>3, <1>4 DEF Desk!IInv


\* Each action keeps the invariant.
LEMMA DeskStep == ASSUME Desk!DeskAssumption, Desk!IInv, [Desk!Next]_(Desk!vars)
  PROVE Desk!IInv'
<1>1. ASSUME NEW n \in Desk!Turns, Desk!Ask(n) PROVE Desk!IInv'
  <2> DEFINE b == Desk!Begin(4)
  <2>1. ~Desk!Busy /\ Desk!Send(n, 4, Desk!None, b) /\ UNCHANGED <<Desk!server, read>>
    BY <1>1 DEF Desk!Ask
  <2>2. url' \in Desk!Turns \cup {Desk!None}
    BY <1>1 DEF Desk!Ask, Desk!IInv, Desk!PageTyped
  <2>3. /\ b \in Desk!Pages /\ b.gen = page.gen + 1 /\ b.write = page.write
        /\ b.kind = 5 => b.conv # Desk!Concierge
        /\ b.wiped <= b.gen /\ (b.said = Desk!None \/ b.said >= b.wiped)
    BY Starts
  <2>4. ~page.write
    BY <2>1 DEF Desk!Busy
  <2> HIDE DEF b, Desk!Pages
  <2>5. QED BY <2>1, <2>2, <2>3, <2>4, Sends
<1>2. ASSUME NEW n \in Desk!Turns, Desk!Recover(n) PROVE Desk!IInv'
  <2> DEFINE a == Desk!Begin(5)
             g == page.gen + 1
             b == [a EXCEPT !.sel = 5, !.conv = n, !.kind = 5, !.wiped = g, !.said = Desk!None]
  <2>1. ~Desk!Busy /\ Desk!Send(n, 5, n, b) /\ UNCHANGED <<Desk!server, read>> /\ url' = n
    BY <1>2 DEF Desk!Recover
  <2>2. a \in Desk!Pages /\ a.gen = g /\ a.gen \in Nat /\ a.write = page.write
    BY Starts
  <2>3. ~page.write
    BY <2>1 DEF Desk!Busy
  <2>4. n # Desk!Concierge
    OBVIOUS
  <2> HIDE DEF a, g
  <2>5. /\ b.gen = g /\ b.write = a.write /\ b.conv = n /\ b.wiped = g /\ b.said = Desk!None
    BY <2>2
  <2>6. b \in Desk!Pages
    BY <2>2, RecoveringIsPage
  <2> HIDE DEF b, Desk!Pages
  <2>7. b.gen = page.gen + 1
    BY <2>5 DEF g
  <2>8. b.wiped <= b.gen
    BY <2>2, <2>5
  <2>9. QED BY <2>1, <2>2, <2>3, <2>4, <2>5, <2>6, <2>7, <2>8, Sends
<1>3. ASSUME NEW n \in Desk!Turns, Desk!Resume(n) PROVE Desk!IInv'
  <2> DEFINE a == Desk!Begin(5)
  <2>1. /\ a \in Desk!Pages /\ a.gen = page.gen + 1 /\ a.gen \in Nat /\ a.write = page.write
        /\ a.chat = page.chat /\ a.loading = page.loading
        /\ a.kind = 5 => a.conv # Desk!Concierge
        /\ a.wiped <= a.gen /\ (a.said = Desk!None \/ a.said >= a.wiped)
    BY Starts
  <2>2. ~Desk!Busy /\ UNCHANGED <<Desk!server, read>>
    BY <1>3 DEF Desk!Resume
  <2>3. page \in Desk!Pages /\ page.chat = Desk!None /\ page.write = FALSE /\ page.loading = FALSE
    BY <2>2 DEF Desk!IInv, Desk!PageTyped, Desk!Busy
  <2>4. page.conv \in Desk!Turns \cup {Desk!None, Desk!Concierge} /\ Desk!Concierge # Desk!None
    BY <2>3
  <2>5. CASE page.kind = 5 /\ page.conv # Desk!None
    <3> DEFINE b == [a EXCEPT !.sel = 5, !.kind = 5]
    <3>1. Desk!Send(n, 5, page.conv, b) /\ url' = page.conv
      BY <1>3, <2>5 DEF Desk!Resume
    <3>2. page.conv \in Desk!Turns
      BY <2>4, <2>5 DEF Desk!IInv, Desk!RecoveryIsNamed
    <3>3. a.conv \in {page.conv, Desk!None}
      BY Begins DEF Desk!IInv
    <3>4. a.conv # Desk!Concierge
      <4>1. page.conv # Desk!Concierge
        BY <2>5 DEF Desk!IInv, Desk!RecoveryIsNamed
      <4> HIDE DEF a
      <4>2. QED BY <2>4, <3>3, <4>1
    <3> HIDE DEF a
    <3>5. /\ b \in Desk!Pages
      BY <2>1
    <3>6. /\ b.gen = a.gen /\ b.write = a.write /\ b.conv = a.conv /\ b.wiped = a.wiped
          /\ b.said = a.said
      BY <2>1
    <3> HIDE DEF b, Desk!Pages
    <3>7. QED BY <2>1, <2>2, <2>3, <3>1, <3>2, <3>4, <3>5, <3>6, Sends
  <2>6. CASE ~(page.kind = 5 /\ page.conv # Desk!None)
    <3>1. page' = [a EXCEPT !.error = TRUE] /\ UNCHANGED <<turns, url>>
      BY <1>3, <2>6 DEF Desk!Resume
    <3> HIDE DEF a
    <3>2. /\ page' \in Desk!Pages /\ page'.gen = a.gen /\ page'.chat = a.chat
          /\ page'.write = a.write
          /\ page'.loading = a.loading /\ page'.conv = a.conv /\ page'.kind = a.kind
          /\ page'.wiped = a.wiped /\ page'.said = a.said
      BY <2>1, <3>1
    <3> HIDE DEF Desk!Pages
    <3>3. QED BY <2>1, <2>2, <2>3, <3>1, <3>2, Passes
  <2>7. QED BY <2>5, <2>6
<1>4. ASSUME NEW n \in Desk!Turns, Desk!Stream(n) PROVE Desk!IInv'
  <2> USE <1>4 DEF Desk!Stream, Desk!IsCurrent
  <2>1. Desk!PageTyped'
    BY DEF Desk!IInv, Desk!PageTyped
  <2>2. Desk!TurnsTyped'
    BY DEF Desk!IInv, Desk!TurnsTyped
  <2>3. Desk!ServerTyped'
    BY DEF Desk!IInv, Desk!ServerTyped
  <2>4. Desk!ReadTyped'
    BY DEF Desk!IInv, Desk!ReadTyped, Desk!Finished
  <2>5. Desk!RecoveryIsNamed' /\ Desk!OneIsAwaited'
    BY DEF Desk!IInv, Desk!RecoveryIsNamed, Desk!OneIsAwaited
  <2>6. Desk!WipedBefore' /\ Desk!LoadingIsWaiting'
    BY DEF Desk!IInv, Desk!WipedBefore, Desk!LoadingIsWaiting
  <2>7. Desk!NoStrayAnswer'
    BY DEF Desk!IInv, Desk!PageTyped, Desk!TurnsTyped, Desk!ServerTyped, Desk!ReadTyped,
       Desk!Finished, Desk!RecoveryIsNamed, Desk!OneIsAwaited, Desk!WipedBefore,
       Desk!LoadingIsWaiting, Desk!NoStrayAnswer
  <2> QED BY <2>1, <2>2, <2>3, <2>4, <2>5, <2>6, <2>7 DEF Desk!IInv
<1>5. ASSUME NEW n \in Desk!Turns, Desk!Reply(n) PROVE Desk!IInv'
  <2> USE <1>5 DEF Desk!Reply, Desk!Settled, Desk!IsCurrent
  <2>1. Desk!TurnsTyped'
    BY DEF Desk!IInv, Desk!TurnsTyped
  <2>2. Desk!ServerTyped'
    BY DEF Desk!IInv, Desk!ServerTyped
  <2>3. Desk!ReadTyped'
    BY DEF Desk!IInv, Desk!ReadTyped, Desk!Finished
  <2>4. Desk!WipedBefore'
    BY DEF Desk!IInv, Desk!WipedBefore
  <2>5. Desk!PageTyped'
    BY DEF Desk!IInv, Desk!PageTyped, Desk!TurnsTyped
  <2>6. Desk!RecoveryIsNamed'
    BY DEF Desk!IInv, Desk!RecoveryIsNamed, Desk!PageTyped, Desk!TurnsTyped
  <2>7. Desk!OneIsAwaited'
    BY DEF Desk!IInv, Desk!OneIsAwaited, Desk!PageTyped, Desk!TurnsTyped
  <2>8. Desk!LoadingIsWaiting'
    BY DEF Desk!IInv, Desk!PageTyped, Desk!TurnsTyped, Desk!ServerTyped, Desk!ReadTyped,
       Desk!Finished, Desk!RecoveryIsNamed, Desk!OneIsAwaited, Desk!WipedBefore,
       Desk!LoadingIsWaiting, Desk!NoStrayAnswer
  <2>9. Desk!NoStrayAnswer'
    BY DEF Desk!IInv, Desk!PageTyped, Desk!TurnsTyped, Desk!ServerTyped, Desk!ReadTyped,
       Desk!Finished, Desk!RecoveryIsNamed, Desk!OneIsAwaited, Desk!WipedBefore,
       Desk!LoadingIsWaiting, Desk!NoStrayAnswer
  <2> QED BY <2>1, <2>2, <2>3, <2>4, <2>5, <2>6, <2>7, <2>8, <2>9 DEF Desk!IInv
<1>6. ASSUME NEW n \in Desk!Turns, Desk!Fails(n) PROVE Desk!IInv'
  <2> USE <1>6 DEF Desk!Fails, Desk!Settled, Desk!IsCurrent, Desk!Fault
  <2>1. Desk!TurnsTyped'
    BY DEF Desk!IInv, Desk!TurnsTyped
  <2>2. Desk!ServerTyped'
    BY DEF Desk!IInv, Desk!ServerTyped
  <2>3. Desk!ReadTyped'
    BY DEF Desk!IInv, Desk!ReadTyped, Desk!Finished
  <2>4. Desk!RecoveryIsNamed'
    BY DEF Desk!IInv, Desk!RecoveryIsNamed
  <2>5. Desk!WipedBefore'
    BY DEF Desk!IInv, Desk!WipedBefore
  <2>6. Desk!PageTyped'
    <3>1. /\ page \in Desk!Pages /\ turns[n] \in Desk!Rows
          /\ (turns[n].phase = 5 => turns[n].thread \in Desk!Turns)
      BY DEF Desk!IInv, Desk!PageTyped, Desk!TurnsTyped
    <3> DEFINE q == page'
               s == turns[n].gen
               u == IF turns[n].phase = 5 THEN turns[n].thread ELSE page.unresolved
               b == page.awaiting \/ (turns[n].phase = 5 /\ turns[n].at # "refused")
    <3>2. \/ q = page
          \/ q = [page EXCEPT !.chat = Desk!None, !.loading = FALSE, !.error = TRUE,
                              !.said = s, !.unresolved = u, !.awaiting = b]
      BY <3>1
    <3>3. s \in Nat /\ u \in Desk!Turns \cup {Desk!None} /\ b \in BOOLEAN
      BY <3>1
    <3>4. url' \in Desk!Turns \cup {Desk!None}
      BY DEF Desk!IInv, Desk!PageTyped
    <3> HIDE DEF q, u, b, s, Desk!Fails, Desk!Pages, Desk!None, Desk!Turns, Desk!Concierge,
                 Desk!DeskAssumption
    <3>5. q \in Desk!Pages
      <4>1. CASE q = page
        BY <3>1, <4>1
      <4>2. CASE q # page
        <5>1. page \in Desk!Pages
          BY <3>1
        <5>2. QED BY <3>2, <3>3, <4>2, <5>1, FailedIsPage
      <4>3. QED BY <4>1, <4>2
    <3>6. QED BY <3>4, <3>5 DEF q, Desk!PageTyped
  <2>7. Desk!OneIsAwaited'
    BY DEF Desk!IInv, Desk!OneIsAwaited, Desk!PageTyped, Desk!TurnsTyped
  <2>8. Desk!LoadingIsWaiting'
    BY DEF Desk!IInv, Desk!PageTyped, Desk!TurnsTyped, Desk!ServerTyped, Desk!ReadTyped,
       Desk!Finished, Desk!RecoveryIsNamed, Desk!OneIsAwaited, Desk!WipedBefore,
       Desk!LoadingIsWaiting, Desk!NoStrayAnswer
  <2>9. Desk!NoStrayAnswer'
    BY DEF Desk!IInv, Desk!PageTyped, Desk!TurnsTyped, Desk!ServerTyped, Desk!ReadTyped,
       Desk!Finished, Desk!RecoveryIsNamed, Desk!OneIsAwaited, Desk!WipedBefore,
       Desk!LoadingIsWaiting, Desk!NoStrayAnswer
  <2> QED BY <2>1, <2>2, <2>3, <2>4, <2>5, <2>6, <2>7, <2>8, <2>9 DEF Desk!IInv
<1>7. ASSUME NEW n \in Desk!Turns, Desk!Claim(n) PROVE Desk!IInv'
  <2> USE <1>7 DEF Desk!Claim
  <2>1. Desk!PageTyped'
    BY DEF Desk!IInv, Desk!PageTyped
  <2>2. Desk!TurnsTyped'
    <3>1. \/ turns' = [turns EXCEPT ![n].at = "running"]
          \/ turns' = [turns EXCEPT ![n].at = "busy"]
      OBVIOUS
    <3>2. Desk!TurnsTyped
      BY DEF Desk!IInv
    <3> HIDE <1>7 DEF Desk!Claim
    <3>3. QED BY <3>1, <3>2, MovesOn
  <2>3. Desk!ServerTyped'
    BY DEF Desk!IInv, Desk!ServerTyped
  <2>4. Desk!ReadTyped'
    BY DEF Desk!IInv, Desk!ReadTyped, Desk!Finished
  <2>5. Desk!RecoveryIsNamed'
    BY DEF Desk!IInv, Desk!RecoveryIsNamed
  <2>6. Desk!WipedBefore' /\ Desk!LoadingIsWaiting' /\ Desk!NoStrayAnswer'
    BY DEF Desk!IInv, Desk!WipedBefore, Desk!LoadingIsWaiting, Desk!NoStrayAnswer
  <2>7. Desk!OneIsAwaited'
    <3>1. page' = page /\ (page.chat # Desk!None => page.chat \in Desk!Turns)
      BY DEF Desk!IInv, Desk!PageTyped
    <3>2. \A m \in Desk!Turns : turns'[m].waits = turns[m].waits /\ turns'[m].gen = turns[m].gen
      BY DEF Desk!IInv, Desk!TurnsTyped
    <3>3. Desk!OneIsAwaited
      BY DEF Desk!IInv
    <3> HIDE <1>7 DEF Desk!Claim
    <3>4. QED BY <3>1, <3>2, <3>3 DEF Desk!OneIsAwaited
  <2> QED BY <2>1, <2>2, <2>3, <2>4, <2>5, <2>6, <2>7 DEF Desk!IInv
<1>8. ASSUME NEW n \in Desk!Turns, Desk!SaveStep(n) PROVE Desk!IInv'
  <2> USE <1>8 DEF Desk!SaveStep
  <2>1. Desk!PageTyped'
    BY DEF Desk!IInv, Desk!PageTyped
  <2>2. Desk!TurnsTyped'
    BY DEF Desk!IInv, Desk!TurnsTyped
  <2>3. Desk!ServerTyped'
    BY DEF Desk!IInv, Desk!ServerTyped
  <2>4. Desk!ReadTyped'
    BY DEF Desk!IInv, Desk!ReadTyped, Desk!Finished
  <2>5. Desk!RecoveryIsNamed' /\ Desk!OneIsAwaited'
    BY DEF Desk!IInv, Desk!RecoveryIsNamed, Desk!OneIsAwaited
  <2>6. Desk!WipedBefore' /\ Desk!LoadingIsWaiting' /\ Desk!NoStrayAnswer'
    BY DEF Desk!IInv, Desk!WipedBefore, Desk!LoadingIsWaiting, Desk!NoStrayAnswer
  <2> QED BY <2>1, <2>2, <2>3, <2>4, <2>5, <2>6 DEF Desk!IInv
<1>9. ASSUME NEW n \in Desk!Turns, Desk!Answer(n) PROVE Desk!IInv'
  <2> USE <1>9 DEF Desk!Answer, Desk!Ends
  <2>1. Desk!PageTyped'
    BY DEF Desk!IInv, Desk!PageTyped
  <2>2. Desk!TurnsTyped'
    BY DEF Desk!IInv, Desk!TurnsTyped
  <2>3. Desk!ServerTyped'
    BY DEF Desk!IInv, Desk!ServerTyped
  <2>4. Desk!ReadTyped'
    BY DEF Desk!IInv, Desk!ReadTyped, Desk!Finished
  <2>5. Desk!RecoveryIsNamed' /\ Desk!OneIsAwaited'
    BY DEF Desk!IInv, Desk!RecoveryIsNamed, Desk!OneIsAwaited
  <2>6. Desk!WipedBefore' /\ Desk!LoadingIsWaiting' /\ Desk!NoStrayAnswer'
    BY DEF Desk!IInv, Desk!WipedBefore, Desk!LoadingIsWaiting, Desk!NoStrayAnswer
  <2> QED BY <2>1, <2>2, <2>3, <2>4, <2>5, <2>6 DEF Desk!IInv
<1>10. ASSUME NEW n \in Desk!Turns, Desk!Refuse(n) PROVE Desk!IInv'
  <2> USE <1>10 DEF Desk!Refuse, Desk!Fault, Desk!Ends
  <2>1. Desk!PageTyped'
    BY DEF Desk!IInv, Desk!PageTyped
  <2>2. Desk!TurnsTyped'
    BY DEF Desk!IInv, Desk!TurnsTyped
  <2>3. Desk!ServerTyped'
    BY DEF Desk!IInv, Desk!ServerTyped
  <2>4. Desk!ReadTyped'
    BY DEF Desk!IInv, Desk!ReadTyped, Desk!Finished
  <2>5. Desk!RecoveryIsNamed' /\ Desk!OneIsAwaited'
    BY DEF Desk!IInv, Desk!RecoveryIsNamed, Desk!OneIsAwaited
  <2>6. Desk!WipedBefore' /\ Desk!LoadingIsWaiting' /\ Desk!NoStrayAnswer'
    BY DEF Desk!IInv, Desk!WipedBefore, Desk!LoadingIsWaiting, Desk!NoStrayAnswer
  <2> QED BY <2>1, <2>2, <2>3, <2>4, <2>5, <2>6 DEF Desk!IInv
<1>11. ASSUME Desk!Blocked PROVE Desk!IInv'
  <2> USE <1>11 DEF Desk!Blocked
  <2>1. Desk!PageTyped'
    BY DEF Desk!IInv, Desk!PageTyped
  <2>2. Desk!TurnsTyped'
    BY DEF Desk!IInv, Desk!TurnsTyped
  <2>3. Desk!ServerTyped'
    BY DEF Desk!IInv, Desk!ServerTyped
  <2>4. Desk!ReadTyped'
    BY DEF Desk!IInv, Desk!ReadTyped, Desk!Finished
  <2>5. Desk!RecoveryIsNamed' /\ Desk!OneIsAwaited'
    BY DEF Desk!IInv, Desk!RecoveryIsNamed, Desk!OneIsAwaited
  <2>6. Desk!WipedBefore' /\ Desk!LoadingIsWaiting' /\ Desk!NoStrayAnswer'
    BY DEF Desk!IInv, Desk!WipedBefore, Desk!LoadingIsWaiting, Desk!NoStrayAnswer
  <2> QED BY <2>1, <2>2, <2>3, <2>4, <2>5, <2>6 DEF Desk!IInv
<1>12. ASSUME Desk!Write PROVE Desk!IInv'
  <2> USE <1>12 DEF Desk!Write, Desk!Busy, Desk!Move
  <2>1. Desk!PageTyped'
    BY DEF Desk!IInv, Desk!PageTyped
  <2>2. Desk!TurnsTyped'
    BY DEF Desk!IInv, Desk!TurnsTyped
  <2>3. Desk!ServerTyped'
    BY DEF Desk!IInv, Desk!ServerTyped
  <2>4. Desk!ReadTyped'
    BY DEF Desk!IInv, Desk!ReadTyped, Desk!Finished
  <2>5. Desk!RecoveryIsNamed' /\ Desk!OneIsAwaited'
    BY DEF Desk!IInv, Desk!RecoveryIsNamed, Desk!OneIsAwaited
  <2>6. Desk!WipedBefore' /\ Desk!LoadingIsWaiting' /\ Desk!NoStrayAnswer'
    BY DEF Desk!IInv, Desk!WipedBefore, Desk!LoadingIsWaiting, Desk!NoStrayAnswer
  <2> QED BY <2>1, <2>2, <2>3, <2>4, <2>5, <2>6 DEF Desk!IInv
<1>13. ASSUME Desk!WriteEnds PROVE Desk!IInv'
  <2> USE <1>13 DEF Desk!WriteEnds
  <2>1. Desk!PageTyped'
    BY DEF Desk!IInv, Desk!PageTyped
  <2>2. Desk!TurnsTyped'
    BY DEF Desk!IInv, Desk!TurnsTyped
  <2>3. Desk!ServerTyped'
    BY DEF Desk!IInv, Desk!ServerTyped
  <2>4. Desk!ReadTyped'
    BY DEF Desk!IInv, Desk!ReadTyped, Desk!Finished
  <2>5. Desk!RecoveryIsNamed' /\ Desk!OneIsAwaited'
    BY DEF Desk!IInv, Desk!RecoveryIsNamed, Desk!OneIsAwaited
  <2>6. Desk!WipedBefore' /\ Desk!NoStrayAnswer'
    BY DEF Desk!IInv, Desk!WipedBefore, Desk!NoStrayAnswer
  <2>7. Desk!LoadingIsWaiting'
    BY DEF Desk!IInv, Desk!PageTyped, Desk!TurnsTyped, Desk!ServerTyped, Desk!ReadTyped,
       Desk!Finished, Desk!RecoveryIsNamed, Desk!OneIsAwaited, Desk!WipedBefore,
       Desk!LoadingIsWaiting, Desk!NoStrayAnswer
  <2> QED BY <2>1, <2>2, <2>3, <2>4, <2>5, <2>6, <2>7 DEF Desk!IInv
<1>14. ASSUME Desk!ClearChat PROVE Desk!IInv'
  <2>1. /\ page' = Desk!Cleared /\ url' = Desk!None /\ UNCHANGED <<turns, Desk!server, read>>
        /\ page \in Desk!Pages
    BY <1>14 DEF Desk!ClearChat, Desk!IInv, Desk!PageTyped
  <2>2. page' = [Desk!Cleared EXCEPT !.sel = page.sel] /\ page.sel \in {4, 5}
    BY <2>1 DEF Desk!Cleared
  <2>3. QED BY <2>1, <2>2, Clears
<1>15. ASSUME Desk!ClearError PROVE Desk!IInv'
  <2> USE <1>15 DEF Desk!ClearError, Desk!Move
  <2>1. Desk!PageTyped'
    BY DEF Desk!IInv, Desk!PageTyped
  <2>2. Desk!TurnsTyped'
    BY DEF Desk!IInv, Desk!TurnsTyped
  <2>3. Desk!ServerTyped'
    BY DEF Desk!IInv, Desk!ServerTyped
  <2>4. Desk!ReadTyped'
    BY DEF Desk!IInv, Desk!ReadTyped, Desk!Finished
  <2>5. Desk!RecoveryIsNamed' /\ Desk!OneIsAwaited'
    BY DEF Desk!IInv, Desk!RecoveryIsNamed, Desk!OneIsAwaited
  <2>6. Desk!WipedBefore' /\ Desk!LoadingIsWaiting' /\ Desk!NoStrayAnswer'
    BY DEF Desk!IInv, Desk!WipedBefore, Desk!LoadingIsWaiting, Desk!NoStrayAnswer
  <2> QED BY <2>1, <2>2, <2>3, <2>4, <2>5, <2>6 DEF Desk!IInv
<1>16. ASSUME Desk!Reload PROVE Desk!IInv'
  <2> USE <1>16 DEF Desk!Reload, Desk!Move, Desk!Opened, Desk!NotRead
  <2>1. Desk!PageTyped'
    BY DEF Desk!IInv, Desk!PageTyped
  <2>2. Desk!ServerTyped'
    BY DEF Desk!IInv, Desk!ServerTyped
  <2>3. Desk!ReadTyped'
    BY DEF Desk!IInv, Desk!ReadTyped, Desk!Finished
  <2>4. Desk!RecoveryIsNamed'
    BY DEF Desk!IInv, Desk!RecoveryIsNamed
  <2>5. Desk!WipedBefore' /\ Desk!LoadingIsWaiting' /\ Desk!NoStrayAnswer'
    BY DEF Desk!IInv, Desk!WipedBefore, Desk!LoadingIsWaiting, Desk!NoStrayAnswer
  <2>6. Desk!TurnsTyped'
    <3> DEFINE R(n) == [turns[n] EXCEPT !.waits = FALSE]
    <3>1. turns' = [n \in Desk!Turns |-> R(n)]
      OBVIOUS
    <3>2. ASSUME NEW n \in Desk!Turns
          PROVE R(n) \in Desk!Rows /\ (R(n).phase = 5 => R(n).thread \in Desk!Turns)
      <4>1. turns[n] \in Desk!Rows /\ (turns[n].phase = 5 => turns[n].thread \in Desk!Turns)
        BY DEF Desk!IInv, Desk!TurnsTyped
      <4>2. QED BY <4>1
    <3> HIDE DEF R, Desk!Rows
    <3>3. QED BY <3>1, <3>2 DEF Desk!TurnsTyped
  <2>7. Desk!OneIsAwaited'
    BY DEF Desk!IInv, Desk!OneIsAwaited, Desk!PageTyped, Desk!TurnsTyped
  <2> QED BY <2>1, <2>2, <2>3, <2>4, <2>5, <2>6, <2>7 DEF Desk!IInv
<1>17. ASSUME Desk!Limit PROVE Desk!IInv'
  <2> USE <1>17 DEF Desk!Limit
  <2>1. Desk!PageTyped'
    BY DEF Desk!IInv, Desk!PageTyped
  <2>2. Desk!TurnsTyped'
    BY DEF Desk!IInv, Desk!TurnsTyped
  <2>3. Desk!ServerTyped'
    BY DEF Desk!IInv, Desk!ServerTyped
  <2>4. Desk!ReadTyped'
    BY DEF Desk!IInv, Desk!ReadTyped, Desk!Finished
  <2>5. Desk!RecoveryIsNamed' /\ Desk!OneIsAwaited'
    BY DEF Desk!IInv, Desk!RecoveryIsNamed, Desk!OneIsAwaited
  <2>6. Desk!WipedBefore' /\ Desk!LoadingIsWaiting' /\ Desk!NoStrayAnswer'
    BY DEF Desk!IInv, Desk!WipedBefore, Desk!LoadingIsWaiting, Desk!NoStrayAnswer
  <2> QED BY <2>1, <2>2, <2>3, <2>4, <2>5, <2>6 DEF Desk!IInv
<1>18. ASSUME NEW p \in {4, 5}, Desk!SetSelectedPhase(p) PROVE Desk!IInv'
  BY <1>18, Clears DEF Desk!SetSelectedPhase
<1>19. ASSUME NEW v \in Views, Desk!SetView(v) PROVE Desk!IInv'
  <2> USE <1>19 DEF Desk!SetView, Desk!Move
  <2>1. Desk!PageTyped'
    BY DEF Desk!IInv, Desk!PageTyped
  <2>2. Desk!TurnsTyped'
    BY DEF Desk!IInv, Desk!TurnsTyped
  <2>3. Desk!ServerTyped'
    BY DEF Desk!IInv, Desk!ServerTyped
  <2>4. Desk!ReadTyped'
    BY DEF Desk!IInv, Desk!ReadTyped, Desk!Finished
  <2>5. Desk!RecoveryIsNamed' /\ Desk!OneIsAwaited'
    BY DEF Desk!IInv, Desk!RecoveryIsNamed, Desk!OneIsAwaited
  <2>6. Desk!WipedBefore' /\ Desk!LoadingIsWaiting' /\ Desk!NoStrayAnswer'
    BY DEF Desk!IInv, Desk!WipedBefore, Desk!LoadingIsWaiting, Desk!NoStrayAnswer
  <2> QED BY <2>1, <2>2, <2>3, <2>4, <2>5, <2>6 DEF Desk!IInv
<1>20. ASSUME Desk!Restart PROVE Desk!IInv'
  <2> USE <1>20 DEF Desk!Restart, Desk!Key, Desk!Poll, Desk!NotRead, Desk!Doc, Desk!OnDesk,
                    Desk!RunPhase, Desk!Watching, Desk!ReadingBack
  <2>1. Desk!PageTyped'
    BY DEF Desk!IInv, Desk!PageTyped
  <2>2. Desk!TurnsTyped'
    BY DEF Desk!IInv, Desk!TurnsTyped
  <2>3. Desk!ServerTyped'
    BY DEF Desk!IInv, Desk!ServerTyped
  <2>4. Desk!RecoveryIsNamed' /\ Desk!OneIsAwaited'
    BY DEF Desk!IInv, Desk!RecoveryIsNamed, Desk!OneIsAwaited
  <2>5. Desk!WipedBefore' /\ Desk!LoadingIsWaiting' /\ Desk!NoStrayAnswer'
    BY DEF Desk!IInv, Desk!WipedBefore, Desk!LoadingIsWaiting, Desk!NoStrayAnswer
  <2>6. Desk!ReadTyped'
    <3>1. Desk!Key \in Desk!Turns \cup {Desk!None} /\ Desk!Poll \in BOOLEAN
      BY KeyTyped DEF Desk!IInv
    <3>2. /\ Desk!ReadTyped /\ Desk!NoDoc \in Desk!Documents /\ Desk!Finished(Desk!NoDoc)
          /\ Desk!Doc \in Desk!Documents /\ Desk!Finished(Desk!Doc)
      BY DocIsRead DEF Desk!IInv, Desk!Finished
    <3> DEFINE k == Desk!Key
               b == Desk!Poll
               d == Desk!Doc
               f == read.key = Desk!Key /\ read.fresh
               a == IF Desk!Key = Desk!None THEN "done" ELSE "asked"
    <3>3. d \in Desk!Documents /\ Desk!Finished(d) /\ f \in BOOLEAN /\ a \in {"done", "asked"}
      BY <3>2 DEF Desk!ReadTyped
    <3>4. k \in Desk!Turns \cup {Desk!None} /\ b \in BOOLEAN
      BY <3>1
    <3>5. read' = [Desk!NotRead EXCEPT !.key = k, !.poll = b, !.doc = d, !.fresh = f, !.at = a]
      OBVIOUS
    <3> HIDE DEF k, b, d, f, a
    <3>6. read' = [key |-> k, poll |-> b, at |-> a, val |-> Desk!NoDoc, doc |-> d, fresh |-> f]
      BY <3>5 DEF Desk!NotRead
    <3> HIDE DEF Desk!Restart
    <3> DEFINE r == read'
    <3>7. r = [key |-> k, poll |-> b, at |-> a, val |-> Desk!NoDoc, doc |-> d, fresh |-> f]
      BY <3>6
    <3> HIDE DEF r, Desk!NoDoc, Desk!Documents, Desk!Finished
    <3>8. /\ r \in [key : Desk!Turns \cup {Desk!None}, poll : BOOLEAN, at : {"asked", "sampled",
                                  "done"},
                    val : Desk!Documents, doc : Desk!Documents, fresh : BOOLEAN]
          /\ Desk!Finished(r.val) /\ Desk!Finished(r.doc)
      BY <3>2, <3>3, <3>4, <3>7
    <3>9. QED BY <3>8 DEF Desk!ReadTyped, r
  <2> QED BY <2>1, <2>2, <2>3, <2>4, <2>5, <2>6 DEF Desk!IInv
<1>21. ASSUME Desk!Again PROVE Desk!IInv'
  <2> USE <1>21 DEF Desk!Again, Desk!Same, Desk!Key, Desk!Poll, Desk!OnDesk, Desk!RunPhase,
                    Desk!Watching, Desk!ReadingBack
  <2>1. Desk!PageTyped'
    BY DEF Desk!IInv, Desk!PageTyped
  <2>2. Desk!TurnsTyped'
    BY DEF Desk!IInv, Desk!TurnsTyped
  <2>3. Desk!ServerTyped'
    BY DEF Desk!IInv, Desk!ServerTyped
  <2>4. Desk!ReadTyped'
    BY DEF Desk!IInv, Desk!ReadTyped, Desk!Finished
  <2>5. Desk!RecoveryIsNamed' /\ Desk!OneIsAwaited'
    BY DEF Desk!IInv, Desk!RecoveryIsNamed, Desk!OneIsAwaited
  <2>6. Desk!WipedBefore' /\ Desk!LoadingIsWaiting' /\ Desk!NoStrayAnswer'
    BY DEF Desk!IInv, Desk!WipedBefore, Desk!LoadingIsWaiting, Desk!NoStrayAnswer
  <2> QED BY <2>1, <2>2, <2>3, <2>4, <2>5, <2>6 DEF Desk!IInv
<1>22. ASSUME Desk!Sample PROVE Desk!IInv'
  <2> USE <1>22 DEF Desk!Sample, Desk!Same, Desk!Key, Desk!Poll, Desk!OnDesk, Desk!RunPhase,
                    Desk!Watching, Desk!ReadingBack
  <2>1. Desk!PageTyped'
    BY DEF Desk!IInv, Desk!PageTyped
  <2>2. Desk!TurnsTyped'
    BY DEF Desk!IInv, Desk!TurnsTyped
  <2>3. Desk!ServerTyped'
    BY DEF Desk!IInv, Desk!ServerTyped
  <2>4. Desk!RecoveryIsNamed' /\ Desk!OneIsAwaited'
    BY DEF Desk!IInv, Desk!RecoveryIsNamed, Desk!OneIsAwaited
  <2>5. Desk!WipedBefore' /\ Desk!LoadingIsWaiting' /\ Desk!NoStrayAnswer'
    BY DEF Desk!IInv, Desk!WipedBefore, Desk!LoadingIsWaiting, Desk!NoStrayAnswer
  <2>6. Desk!ReadTyped'
    <3>1. Desk!Key \in Desk!Turns
      BY KeyTyped DEF Desk!IInv
    <3>2. /\ Desk!ReadTyped /\ Desk!NoDoc \in Desk!Documents /\ Desk!Finished(Desk!NoDoc)
          /\ Desk!ServerTyped
      BY DEF Desk!IInv, Desk!Finished
    <3> HIDE DEF Desk!Key, Desk!Poll
    <3> DEFINE d == IF saved[Desk!Key] = "none" THEN Desk!NoDoc
                    ELSE [thread |-> Desk!Key, saved |-> saved[Desk!Key], live |-> live[Desk!Key]]
    <3>3. d \in Desk!Documents /\ Desk!Finished(d)
      BY <3>1, <3>2 DEF Desk!ServerTyped, Desk!Finished
    <3>4. read' = [read EXCEPT !.at = "sampled", !.val = d]
      OBVIOUS
    <3> HIDE DEF d
    <3>5. QED BY <3>2, <3>3, <3>4 DEF Desk!ReadTyped
  <2> QED BY <2>1, <2>2, <2>3, <2>4, <2>5, <2>6 DEF Desk!IInv
<1>23. ASSUME Desk!Apply PROVE Desk!IInv'
  <2> USE <1>23 DEF Desk!Apply, Desk!Same, Desk!Key, Desk!Poll, Desk!OnDesk, Desk!RunPhase,
                    Desk!Watching, Desk!ReadingBack
  <2>1. Desk!PageTyped'
    BY DEF Desk!IInv, Desk!PageTyped
  <2>2. Desk!TurnsTyped'
    BY DEF Desk!IInv, Desk!TurnsTyped
  <2>3. Desk!ServerTyped'
    BY DEF Desk!IInv, Desk!ServerTyped
  <2>4. Desk!ReadTyped'
    BY DEF Desk!IInv, Desk!ReadTyped, Desk!Finished
  <2>5. Desk!RecoveryIsNamed' /\ Desk!OneIsAwaited'
    BY DEF Desk!IInv, Desk!RecoveryIsNamed, Desk!OneIsAwaited
  <2>6. Desk!WipedBefore' /\ Desk!LoadingIsWaiting' /\ Desk!NoStrayAnswer'
    BY DEF Desk!IInv, Desk!WipedBefore, Desk!LoadingIsWaiting, Desk!NoStrayAnswer
  <2> QED BY <2>1, <2>2, <2>3, <2>4, <2>5, <2>6 DEF Desk!IInv
<1>24. ASSUME Desk!ReadFails PROVE Desk!IInv'
  <2> USE <1>24 DEF Desk!ReadFails, Desk!Same, Desk!Fault, Desk!Key, Desk!Poll, Desk!OnDesk,
                    Desk!RunPhase, Desk!Watching, Desk!ReadingBack
  <2>1. Desk!PageTyped'
    BY DEF Desk!IInv, Desk!PageTyped
  <2>2. Desk!TurnsTyped'
    BY DEF Desk!IInv, Desk!TurnsTyped
  <2>3. Desk!ServerTyped'
    BY DEF Desk!IInv, Desk!ServerTyped
  <2>4. Desk!ReadTyped'
    BY DEF Desk!IInv, Desk!ReadTyped, Desk!Finished
  <2>5. Desk!RecoveryIsNamed' /\ Desk!OneIsAwaited'
    BY DEF Desk!IInv, Desk!RecoveryIsNamed, Desk!OneIsAwaited
  <2>6. Desk!WipedBefore' /\ Desk!LoadingIsWaiting' /\ Desk!NoStrayAnswer'
    BY DEF Desk!IInv, Desk!WipedBefore, Desk!LoadingIsWaiting, Desk!NoStrayAnswer
  <2> QED BY <2>1, <2>2, <2>3, <2>4, <2>5, <2>6 DEF Desk!IInv
<1>25. ASSUME Desk!Settle PROVE Desk!IInv'
  <2>1. Desk!Doc \in Desk!Documents /\ Desk!Finished(Desk!Doc)
    BY DocIsRead DEF Desk!IInv
  <2>2. Desk!ReadTyped'
    BY <1>25 DEF Desk!Settle, Desk!IInv, Desk!ReadTyped, Desk!Finished
  <2>3. /\ page' = Desk!Restored([page EXCEPT !.awaiting = FALSE], Desk!Doc)
        /\ UNCHANGED <<url, turns, Desk!server>>
    BY <1>25 DEF Desk!Settle
  <2>4. QED BY <2>1, <2>2, <2>3, Restores
<1>26. ASSUME Desk!RestoreJourney PROVE Desk!IInv'
  <2>1. Desk!Doc \in Desk!Documents /\ Desk!Finished(Desk!Doc)
    BY DocIsRead DEF Desk!IInv
  <2>2. Desk!ReadTyped'
    BY <1>26 DEF Desk!RestoreJourney, Desk!IInv, Desk!ReadTyped, Desk!Finished
  <2>3. page' = Desk!Restored(page, Desk!Doc) /\ UNCHANGED <<url, turns, Desk!server>>
    BY <1>26 DEF Desk!RestoreJourney
  <2>4. QED BY <2>1, <2>2, <2>3, Restores
<1>27. ASSUME UNCHANGED Desk!vars PROVE Desk!IInv'
  <2> USE <1>27 DEF Desk!vars
  <2>1. Desk!PageTyped'
    BY DEF Desk!IInv, Desk!PageTyped
  <2>2. Desk!TurnsTyped'
    BY DEF Desk!IInv, Desk!TurnsTyped
  <2>3. Desk!ServerTyped'
    BY DEF Desk!IInv, Desk!ServerTyped
  <2>4. Desk!ReadTyped'
    BY DEF Desk!IInv, Desk!ReadTyped, Desk!Finished
  <2>5. Desk!RecoveryIsNamed' /\ Desk!OneIsAwaited'
    BY DEF Desk!IInv, Desk!RecoveryIsNamed, Desk!OneIsAwaited
  <2>6. Desk!WipedBefore' /\ Desk!LoadingIsWaiting' /\ Desk!NoStrayAnswer'
    BY DEF Desk!IInv, Desk!WipedBefore, Desk!LoadingIsWaiting, Desk!NoStrayAnswer
  <2> QED BY <2>1, <2>2, <2>3, <2>4, <2>5, <2>6 DEF Desk!IInv
<1> QED BY <1>1, <1>2, <1>3, <1>4, <1>5, <1>6, <1>7, <1>8, <1>9, <1>10, <1>11, <1>12, <1>13, <1>14,
   <1>15, <1>16, <1>17, <1>18, <1>19, <1>20, <1>21, <1>22, <1>23, <1>24, <1>25, <1>26,
   <1>27 DEF Desk!Next, Desk!Turn, Desk!Serve, Desk!Reads

LEMMA DeskInit == ASSUME Desk!DeskAssumption, Desk!Init
  PROVE Desk!IInv
<1>1. PICK v \in Views : page = Desk!Opened(v)
  BY DEF Desk!Init
<1>2. Desk!PageTyped
  BY <1>1 DEF Desk!Init, Desk!Opened, Desk!PageTyped
<1>3. Desk!TurnsTyped /\ Desk!ServerTyped
  BY DEF Desk!Init, Desk!TurnsTyped, Desk!ServerTyped, Desk!NoTurn
<1>4. Desk!ReadTyped
  BY DEF Desk!Init, Desk!ReadTyped, Desk!NotRead, Desk!Finished
<1>5. Desk!OneIsAwaited
  BY <1>1 DEF Desk!Init, Desk!Opened, Desk!OneIsAwaited, Desk!NoTurn
<1>6. Desk!RecoveryIsNamed /\ Desk!WipedBefore /\ Desk!LoadingIsWaiting /\ Desk!NoStrayAnswer
  BY <1>1 DEF Desk!Opened, Desk!RecoveryIsNamed, Desk!WipedBefore, Desk!LoadingIsWaiting,
     Desk!NoStrayAnswer
<1>7. QED BY <1>2, <1>3, <1>4, <1>5, <1>6 DEF Desk!IInv

DeskPromise == Desk!TypeOK /\ Desk!NoStrayAnswer /\ Desk!LoadingIsWaiting

LEMMA DeskSays == ASSUME Desk!DeskAssumption, Desk!IInv
  PROVE DeskPromise
<1>1. Desk!NoStrayAnswer /\ Desk!LoadingIsWaiting
  BY DEF Desk!IInv
<1>2. Desk!TypeOK
  BY DEF Desk!IInv, Desk!PageTyped, Desk!ServerTyped, Desk!ReadTyped, Desk!OneIsAwaited,
     Desk!TypeOK
<1>3. QED BY <1>1, <1>2 DEF DeskPromise

\* Nothing of a turn that was left behind appears in the conversation that took its place,
\* and the page is busy exactly while it waits (useMeridianShowcase, DesktopMeridianApp).
THEOREM DeskKept == ASSUME Desk!DeskAssumption
  PROVE Desk!Spec => []DeskPromise
<1>1. Desk!Init => Desk!IInv
  BY DeskInit
<1>2. Desk!IInv /\ [Desk!Next]_(Desk!vars) => Desk!IInv'
  BY DeskStep
<1>3. Desk!IInv => DeskPromise
  BY DeskSays
<1>4. QED BY <1>1, <1>2, <1>3, PTL DEF Desk!Spec

-----------------------------------------------------------------------------
(* The holds and bookings clicked on a page. *)

CONSTANTS Tabs, Products, MaxIntents
VARIABLES device, hold, product, tab, shown, restore
Trips == INSTANCE TripWrites

USE DEF Trips!None, Trips!Intents

\* The next identity is one that nobody has drawn.
LEMMA NextIsNew == ASSUME Trips!WritesAssumption, Trips!Drawn # Trips!Intents
  PROVE /\ Trips!NextIntent \in Trips!Intents /\ Trips!NextIntent \notin Trips!Drawn
        /\ Trips!NextIntent # Trips!None
<1>1. Trips!Intents \ Trips!Drawn # {}
  BY DEF Trips!Drawn
<1>2. Trips!NextIntent \in Trips!Intents \ Trips!Drawn
  BY <1>1 DEF Trips!NextIntent
<1>3. QED BY <1>2

\* Drawing an identity for a product whose last one expired.
LEMMA DrawKeeps ==
  ASSUME Trips!WritesAssumption, Trips!OneTab, Trips!IInv, NEW t \in Tabs, NEW p \in Products,
         NEW store \in Trips!Stores, store.intents = device.intents, Trips!Draw(t, p, store),
         device.intents[p] # Trips!None => hold[device.intents[p]] = "expired",
         UNCHANGED <<hold, shown, restore, faults>>
  PROVE Trips!IInv'
<1> DEFINE j == Trips!NextIntent
<1>1. /\ Trips!Drawn # Trips!Intents
      /\ product' = [product EXCEPT ![j] = p]
      /\ device' = [store EXCEPT !.intents[p] = j]
      /\ tab' = [tab EXCEPT ![t] = [Trips!Free EXCEPT !.at = "hold", !.p = p, !.id = j]]
      /\ work' = work \cup {<<t, j, "hold">>}
  BY DEF Trips!Draw
<1>2. j \in Trips!Intents /\ j \notin Trips!Drawn /\ j # Trips!None
  BY <1>1, NextIsNew
<1> HIDE DEF j, Trips!Draw
<1>3. p # "none" /\ product \in [Trips!Intents -> Products \cup {"none"}]
  BY DEF Trips!WritesAssumption, Trips!IInv, Trips!ServerTyped
<1>4. Trips!Drawn' = Trips!Drawn \cup {j} /\ Trips!Known' = Trips!Known \cup {j}
  BY <1>1, <1>2, <1>3 DEF Trips!Drawn, Trips!Known
<1> HIDE DEF Trips!Intents
<1>5. Trips!ServerTyped'
  BY <1>1, <1>2, <1>3, <1>4 DEF Trips!IInv, Trips!ServerTyped, Trips!Drawn
<1>6. device.intents \in [Products -> Trips!Known] /\ device.bookings \in [Products -> Trips!Known]
  BY DEF Trips!IInv, Trips!DeviceKnown, Trips!Stores
<1>7. /\ device' = [intents |-> [device.intents EXCEPT ![p] = j], bookings |-> store.bookings]
      /\ store.bookings \in [Products -> Trips!Known]
  BY <1>1 DEF Trips!Stores
<1>8. Trips!DeviceKnown'
  BY <1>4, <1>6, <1>7 DEF Trips!DeviceKnown, Trips!Stores
<1>9. /\ Trips!Stores \subseteq Trips!Stores' /\ Trips!Receipts \subseteq Trips!Receipts'
      /\ Trips!Waitings \subseteq Trips!Waitings'
  <2>1. [Products -> Trips!Known] \subseteq [Products -> Trips!Known']
    BY <1>4
  <2>2. Trips!Stores \subseteq Trips!Stores'
    BY <2>1 DEF Trips!Stores
  <2>3. Trips!Receipts \subseteq Trips!Receipts'
    BY <1>4 DEF Trips!Receipts
  <2>4. Trips!Waitings \subseteq Trips!Waitings'
    BY <1>4, <2>2 DEF Trips!Waitings
  <2>5. QED BY <2>2, <2>3, <2>4
<1>10. [Trips!Free EXCEPT !.at = "hold", !.p = p, !.id = j] \in Trips!Waitings'
  <2>1. Trips!Empty \in Trips!Stores'
    BY DEF Trips!Empty, Trips!Nothing, Trips!Stores, Trips!Known
  <2>2. Trips!None \in Trips!Known' /\ j \in Trips!Known'
    BY <1>4 DEF Trips!Known
  <2> HIDE DEF Trips!Known, Trips!Stores, Trips!Empty
  <2>3. QED BY <2>1, <2>2 DEF Trips!Free, Trips!Waitings
<1>11. /\ tab \in [Tabs -> Trips!Waitings] /\ tab' \in [Tabs -> Trips!Waitings']
       /\ tab'[t].at = "hold" /\ tab'[t].id = j /\ tab'[t].p = p
  BY <1>1, <1>9, <1>10 DEF Trips!IInv, Trips!TabKnown, Trips!Free
<1>12. \A u \in Tabs : u = t
  BY DEF Trips!OneTab
<1>13. Trips!TabKnown'
  BY <1>2, <1>11, <1>12 DEF Trips!TabKnown
<1>14. Trips!ShownKnown'
  <2>1. shown' = shown /\ shown \in [Tabs -> [Products -> Trips!Receipts]]
    BY DEF Trips!IInv, Trips!ShownKnown
  <2>2. shown \in [Tabs -> [Products -> Trips!Receipts']]
    BY <1>9, <2>1
  <2>3. QED BY <2>1, <2>2 DEF Trips!IInv, Trips!ShownKnown
<1>15. Trips!ReadIsCurrent'
  BY <1>11, <1>12 DEF Trips!ReadIsCurrent
<1>16. Trips!UnexpiredIsKept'
  <2>1. ASSUME NEW i \in Trips!Drawn', hold'[i] # "expired" PROVE device'.intents[product'[i]] = i
    <3>1. CASE i = j
      BY <1>1, <1>2, <1>3, <1>6, <1>7, <3>1
    <3>2. CASE i # j
      <4>1. /\ i \in Trips!Drawn /\ i \in Trips!Intents /\ product'[i] = product[i]
            /\ product[i] \in Products
        BY <1>1, <1>3, <1>4, <3>2 DEF Trips!Drawn
      <4>2. device.intents[product[i]] = i
        BY <2>1, <4>1 DEF Trips!IInv, Trips!UnexpiredIsKept
      <4>3. product[i] # p
        <5>1. i # Trips!None
          BY <4>1 DEF Trips!Intents, Trips!WritesAssumption
        <5>2. QED BY <2>1, <4>2, <5>1
      <4>4. QED BY <1>6, <1>7, <4>1, <4>2, <4>3
    <3>3. QED BY <3>1, <3>2
  <2>2. QED BY <2>1 DEF Trips!UnexpiredIsKept
<1>17. QED BY <1>5, <1>8, <1>13, <1>14, <1>15, <1>16 DEF Trips!IInv

\* While nothing is drawn, what is known stays known.
LEMMA KnownStays == ASSUME UNCHANGED product
  PROVE /\ Trips!Drawn' = Trips!Drawn /\ Trips!Known' = Trips!Known /\ Trips!Stores' = Trips!Stores
        /\ Trips!Receipts' = Trips!Receipts
        /\ Trips!Waitings' = Trips!Waitings
BY DEF Trips!Drawn, Trips!Known, Trips!Stores, Trips!Receipts, Trips!Waitings

\* The faults stay within their bound.
LEMMA FaultsFit == ASSUME Trips!WritesAssumption, Trips!ServerTyped, Trips!Fault \/ UNCHANGED faults
  PROVE faults' \in 0..MaxFaults
BY DEF Trips!WritesAssumption, Trips!ServerTyped, Trips!Fault

\* A tab that waits for nothing.
LEMMA FreeIsWaiting ==
  Trips!Free \in Trips!Waitings /\ Trips!Free.at = "idle" /\ Trips!Free.id = Trips!None
<1>1. Trips!Empty \in Trips!Stores /\ Trips!None \in Trips!Known
  BY DEF Trips!Empty, Trips!Nothing, Trips!Stores, Trips!Known
<1> HIDE DEF Trips!Empty, Trips!Stores, Trips!Known
<1>2. QED BY <1>1 DEF Trips!Free, Trips!Waitings

\* The record of one tab is replaced.
LEMMA TabTakes ==
  ASSUME Trips!TabKnown, UNCHANGED product, NEW t \in Tabs, NEW r \in Trips!Waitings,
         r.at = "idle" <=> r.id = Trips!None, r.at # "idle" => r.p \in Products,
         tab' = [tab EXCEPT ![t] = r]
  PROVE Trips!TabKnown' /\ tab'[t] = r /\ \A u \in Tabs : u # t => tab'[u] = tab[u]
<1>1. tab \in [Tabs -> Trips!Waitings] /\ Trips!Waitings' = Trips!Waitings
  BY KnownStays DEF Trips!TabKnown
<1> HIDE DEF Trips!Waitings
<1>2. tab' \in [Tabs -> Trips!Waitings] /\ tab'[t] = r /\ \A u \in Tabs : u # t => tab'[u] = tab[u]
  BY <1>1
<1>3. ASSUME NEW u \in Tabs
      PROVE /\ (tab'[u].at = "idle") <=> (tab'[u].id = Trips!None)
            /\ tab'[u].at # "idle" => tab'[u].p \in Products
  <2>1. CASE u = t
    BY <1>2, <2>1
  <2>2. CASE u # t
    BY <1>2, <2>2 DEF Trips!TabKnown
  <2>3. QED BY <2>1, <2>2
<1>4. QED BY <1>1, <1>2, <1>3 DEF Trips!TabKnown

\* A write that is settled, or moves on: no read of a hold is begun.
LEMMA TabSettles == ASSUME Trips!TabKnown, UNCHANGED product, NEW t \in Tabs, Trips!Settle(t)
  PROVE Trips!TabKnown' /\ \A u \in Tabs : tab'[u].at = "read hold" => tab'[u] = tab[u]
<1>1. tab' = [tab EXCEPT ![t] = Trips!Free]
  BY DEF Trips!Settle
<1>2. Trips!Free \in Trips!Waitings /\ Trips!Free.at = "idle" /\ Trips!Free.id = Trips!None
  BY FreeIsWaiting
<1> HIDE DEF Trips!Free, Trips!Waitings, Trips!Settle
<1>3. Trips!TabKnown' /\ tab'[t] = Trips!Free /\ \A u \in Tabs : u # t => tab'[u] = tab[u]
  BY <1>1, <1>2, TabTakes
<1>4. QED BY <1>2, <1>3

LEMMA TabGoes ==
  ASSUME Trips!TabKnown, UNCHANGED product, NEW t \in Tabs, tab[t].at # "idle",
         NEW a \in {"hold", "book", "read back"}, tab' = [tab EXCEPT ![t].at = a]
  PROVE Trips!TabKnown' /\ \A u \in Tabs : tab'[u].at = "read hold" => tab'[u] = tab[u]
<1> DEFINE r == [tab[t] EXCEPT !.at = a]
<1>1. tab[t] \in Trips!Waitings /\ tab[t].id # Trips!None /\ tab[t].p \in Products
  BY DEF Trips!TabKnown
<1>2. r \in Trips!Waitings /\ r.at = a /\ r.id = tab[t].id /\ r.p = tab[t].p
  <2> HIDE DEF Trips!Known, Trips!Stores
  <2>1. QED BY <1>1 DEF Trips!Waitings
<1>3. tab' = [tab EXCEPT ![t] = r]
  BY DEF Trips!TabKnown
<1> HIDE DEF r, Trips!Waitings
<1>4. Trips!TabKnown' /\ tab'[t] = r /\ \A u \in Tabs : u # t => tab'[u] = tab[u]
  BY <1>1, <1>2, <1>3, TabTakes
<1>5. QED BY <1>2, <1>4

\* A receipt that is shown and kept.
LEMMA Remembers ==
  ASSUME Trips!WritesAssumption, Trips!DeviceKnown, Trips!ShownKnown, UNCHANGED product,
         NEW t \in Tabs, NEW p \in Products, NEW i \in Trips!Drawn,
         hold' \in [Trips!Intents -> Trips!Statuses], Trips!Remember(t, p, i)
  PROVE Trips!DeviceKnown' /\ Trips!ShownKnown' /\ device'.intents = device.intents
<1>1. /\ Trips!Stores' = Trips!Stores /\ Trips!Receipts' = Trips!Receipts /\ i \in Trips!Known
      /\ i \in Trips!Intents /\ i # Trips!None
  BY KnownStays DEF Trips!Known, Trips!Drawn, Trips!WritesAssumption
<1> DEFINE r == [id |-> i, status |-> hold'[i]]
<1>2. r \in Trips!Receipts /\ r.id = i
  <2> HIDE DEF Trips!Known, Trips!Intents, Trips!Statuses
  <2>1. QED BY <1>1 DEF Trips!Receipts
<1>3. /\ shown' = [shown EXCEPT ![t][p] = r]
      /\ device' = [device EXCEPT !.bookings[p] = i]
  BY DEF Trips!Remember
<1> HIDE DEF r, Trips!Known, Trips!Receipts, Trips!Remember, Trips!Statuses, Trips!None,
             Trips!Intents, Trips!Drawn
<1>4. Trips!DeviceKnown' /\ device'.intents = device.intents
  BY <1>1, <1>3 DEF Trips!DeviceKnown, Trips!Stores
<1>5. shown' \in [Tabs -> [Products -> Trips!Receipts]]
  BY <1>2, <1>3 DEF Trips!ShownKnown
<1>6. ASSUME NEW u \in Tabs, NEW q \in Products
      PROVE shown'[u][q].id = Trips!None => shown'[u][q].status = "none"
  <2>1. CASE u = t /\ q = p
    BY <1>1, <1>2, <1>3, <2>1 DEF Trips!ShownKnown
  <2>2. CASE ~(u = t /\ q = p)
    <3>1. shown'[u][q] = shown[u][q]
      BY <1>3, <2>2 DEF Trips!ShownKnown
    <3>2. QED BY <3>1 DEF Trips!ShownKnown
  <2>3. QED BY <2>1, <2>2
<1>7. QED BY <1>1, <1>4, <1>5, <1>6 DEF Trips!ShownKnown

\* A step that draws nothing keeps what the storage holds of each hold.
LEMMA StorageStays ==
  ASSUME Trips!IInv, UNCHANGED product, device'.intents = device.intents, Trips!ServerTyped',
         Trips!DeviceKnown', Trips!TabKnown', Trips!ShownKnown',
         \A u \in Tabs : tab'[u].at = "read hold" => tab'[u] = tab[u],
         \A i \in Trips!Intents : hold[i] = "expired" => hold'[i] = "expired"
  PROVE Trips!IInv'
<1>1. Trips!ReadIsCurrent'
  BY DEF Trips!IInv, Trips!ReadIsCurrent
<1>2. Trips!UnexpiredIsKept'
  BY KnownStays DEF Trips!IInv, Trips!UnexpiredIsKept, Trips!Drawn
<1>3. QED BY <1>1, <1>2 DEF Trips!IInv

\* Each action keeps the invariant.
LEMMA TripsStep ==
  ASSUME Trips!WritesAssumption, Trips!OneTab, Trips!IInv, [Trips!Next]_(Trips!vars)
  PROVE Trips!IInv'
<1> HIDE DEF Trips!Intents
<1>0. Trips!ServerTyped /\ Trips!DeviceKnown /\ Trips!TabKnown /\ Trips!ShownKnown
  BY DEF Trips!IInv
<1>1. ASSUME NEW t \in Tabs, NEW p \in Products, Trips!HoldClick(t, p) PROVE Trips!IInv'
  <2>1. CASE Trips!ReadFirst(p)
    <3> DEFINE r == [at |-> "read hold", p |-> p, id |-> device.intents[p], saved |-> device,
                     saw |-> shown[t][p].id]
    <3>1. /\ tab' = [tab EXCEPT ![t] = r]
          /\ UNCHANGED <<device, product, work, hold, shown, restore, faults>>
      <4>1. tab' = [tab EXCEPT ![t] = r] /\ UNCHANGED <<device, product, work>>
        BY <1>1, <2>1, Zenon DEF Trips!HoldClick
      <4>2. UNCHANGED <<hold, shown, restore, faults>>
        BY <1>1, Zenon DEF Trips!HoldClick
      <4>3. QED BY <4>1, <4>2
    <3>2. r \in Trips!Waitings /\ r.at = "read hold" /\ r.id # Trips!None /\ r.p \in Products
      <4>1. /\ device.intents[p] \in Trips!Known /\ device.intents[p] # Trips!None
            /\ device \in Trips!Stores
        BY <1>0, <2>1 DEF Trips!ReadFirst, Trips!DeviceKnown, Trips!Stores
      <4>2. shown[t][p].id \in Trips!Known
        BY <1>0 DEF Trips!ShownKnown, Trips!Receipts
      <4> HIDE DEF Trips!Known, Trips!Stores
      <4>3. QED BY <4>1, <4>2 DEF Trips!Waitings
    <3>3. r.saved.intents = device.intents /\ r.id = device.intents[r.p]
      OBVIOUS
    <3> HIDE DEF r, Trips!Waitings
    <3>4. Trips!TabKnown' /\ tab'[t] = r /\ \A u \in Tabs : u # t => tab'[u] = tab[u]
      BY <1>0, <3>1, <3>2, TabTakes
    <3>5. Trips!ServerTyped' /\ Trips!DeviceKnown' /\ Trips!ShownKnown'
      BY <1>0, <3>1, KnownStays DEF Trips!ServerTyped, Trips!DeviceKnown, Trips!ShownKnown
    <3>6. Trips!ReadIsCurrent'
      <4>1. Trips!ReadIsCurrent
        BY DEF Trips!IInv
      <4>2. QED BY <3>1, <3>3, <3>4, <4>1 DEF Trips!ReadIsCurrent
    <3>7. Trips!UnexpiredIsKept'
      BY <3>1, KnownStays DEF Trips!IInv, Trips!UnexpiredIsKept
    <3>8. QED BY <3>4, <3>5, <3>6, <3>7 DEF Trips!IInv
  <2>2. CASE ~Trips!ReadFirst(p)
    <3>1. Trips!Draw(t, p, device) /\ UNCHANGED <<hold, shown, restore, faults>>
      BY <1>1, <2>2 DEF Trips!HoldClick
    <3>2. device \in Trips!Stores /\ device.intents[p] = Trips!None
      BY <1>0, <2>2 DEF Trips!DeviceKnown, Trips!ReadFirst
    <3>3. QED BY <3>1, <3>2, DrawKeeps
  <2>3. QED BY <2>1, <2>2
<1>2. ASSUME NEW t \in Tabs, NEW p \in Products, Trips!ConfirmClick(t, p) PROVE Trips!IInv'
  <2> DEFINE r == [Trips!Free EXCEPT !.at = "read booking", !.p = p, !.id = shown[t][p].id]
  <2>1. /\ shown[t][p].status = "held" /\ tab' = [tab EXCEPT ![t] = r]
        /\ UNCHANGED <<device, hold, product, work, shown, restore, faults>>
    BY <1>2 DEF Trips!ConfirmClick
  <2>2. shown[t][p].id \in Trips!Known /\ shown[t][p].id # Trips!None
    BY <1>0, <2>1 DEF Trips!ShownKnown, Trips!Receipts
  <2>3. r \in Trips!Waitings /\ r.at = "read booking" /\ r.id = shown[t][p].id /\ r.p = p
    <3> HIDE DEF Trips!Known, Trips!Stores
    <3>1. Trips!Free \in Trips!Waitings
      BY FreeIsWaiting
    <3> HIDE DEF Trips!Free
    <3>2. QED BY <2>2, <3>1 DEF Trips!Waitings
  <2> HIDE DEF r, Trips!Waitings
  <2>4. Trips!TabKnown' /\ tab'[t] = r /\ \A u \in Tabs : u # t => tab'[u] = tab[u]
    BY <1>0, <2>1, <2>2, <2>3, TabTakes
  <2>5. Trips!ServerTyped' /\ Trips!DeviceKnown' /\ Trips!ShownKnown'
    BY <1>0, <2>1, KnownStays DEF Trips!ServerTyped, Trips!DeviceKnown, Trips!ShownKnown
  <2>6. \A u \in Tabs : tab'[u].at = "read hold" => tab'[u] = tab[u]
    BY <2>3, <2>4
  <2>7. QED BY <2>1, <2>4, <2>5, <2>6, StorageStays
<1>3. ASSUME NEW t \in Tabs, Trips!HoldRead(t) PROVE Trips!IInv'
  <2> DEFINE p == tab[t].p
             i == tab[t].id
             s == tab[t].saved
  <2>1. /\ tab[t].at = "read hold" /\ p \in Products /\ i \in Trips!Known /\ i # Trips!None
        /\ s \in Trips!Stores /\ i \in Trips!Drawn
    BY <1>0, <1>3 DEF Trips!HoldRead, Trips!TabKnown, Trips!Waitings, Trips!Known
  <2>2. s.intents = device.intents /\ i = device.intents[p]
    BY <2>1 DEF Trips!IInv, Trips!ReadIsCurrent
  <2>3. UNCHANGED <<hold, restore, faults>>
    BY <1>3 DEF Trips!HoldRead
  <2>4. /\ i \in Trips!Intents
        /\ \/ /\ hold[i] = "none" /\ tab' = [tab EXCEPT ![t].at = "hold"]
              /\ work' = work \cup {<<t, i, "hold">>}
              /\ UNCHANGED <<device, product, shown>>
           \/ /\ hold[i] = "expired" /\ Trips!Draw(t, p, s) /\ UNCHANGED shown
           \/ /\ Trips!Remember(t, p, i) /\ Trips!Settle(t) /\ UNCHANGED <<product, work>>
    BY <1>3, <2>1 DEF Trips!HoldRead, Trips!SawItExpire, Trips!Drawn
  <2> HIDE DEF p, i, s
  <2>5. CASE /\ hold[i] = "none" /\ tab' = [tab EXCEPT ![t].at = "hold"]
             /\ work' = work \cup {<<t, i, "hold">>}
             /\ UNCHANGED <<device, product, shown>>
    <3>1. Trips!TabKnown' /\ \A u \in Tabs : tab'[u].at = "read hold" => tab'[u] = tab[u]
      BY <1>0, <2>1, <2>5, TabGoes
    <3>2. Trips!ServerTyped' /\ Trips!DeviceKnown' /\ Trips!ShownKnown'
      <4>1. <<t, i, "hold">> \in Tabs \X Trips!Drawn \X {"hold", "book"}
        BY <2>1
      <4>2. work' \subseteq Tabs \X Trips!Drawn \X {"hold", "book"}
        BY <1>0, <2>5, <4>1 DEF Trips!ServerTyped
      <4>3. Trips!ServerTyped'
        BY <1>0, <2>3, <2>5, <4>2, KnownStays DEF Trips!ServerTyped
      <4>4. QED BY <1>0, <2>5, <4>3, KnownStays DEF Trips!DeviceKnown, Trips!ShownKnown
    <3>3. QED BY <2>3, <2>5, <3>1, <3>2, StorageStays
  <2>6. CASE hold[i] = "expired" /\ Trips!Draw(t, p, s) /\ UNCHANGED shown
    BY <2>1, <2>2, <2>3, <2>6, DrawKeeps
  <2>7. CASE Trips!Remember(t, p, i) /\ Trips!Settle(t) /\ UNCHANGED <<product, work>>
    <3>1. hold' \in [Trips!Intents -> Trips!Statuses]
      BY <1>0, <2>3 DEF Trips!ServerTyped
    <3>2. Trips!DeviceKnown' /\ Trips!ShownKnown' /\ device'.intents = device.intents
      BY <1>0, <2>1, <2>7, <3>1, Remembers
    <3>3. Trips!TabKnown' /\ \A u \in Tabs : tab'[u].at = "read hold" => tab'[u] = tab[u]
      BY <1>0, <2>7, TabSettles
    <3>4. Trips!ServerTyped'
      BY <1>0, <2>3, <2>7, KnownStays DEF Trips!ServerTyped
    <3>5. QED BY <2>3, <2>7, <3>2, <3>3, <3>4, StorageStays
  <2>8. QED BY <2>4, <2>5, <2>6, <2>7
<1>4. ASSUME NEW t \in Tabs, Trips!BookingRead(t) PROVE Trips!IInv'
  <2> DEFINE i == tab[t].id
             p == tab[t].p
  <2>1. /\ tab[t].at = "read booking" /\ p \in Products /\ i \in Trips!Drawn
    BY <1>0, <1>4 DEF Trips!BookingRead, Trips!TabKnown, Trips!Waitings, Trips!Known
  <2>2. UNCHANGED <<hold, product, restore, faults>> /\ Trips!Remember(t, p, i)
    BY <1>4 DEF Trips!BookingRead
  <2>3. \/ tab' = [tab EXCEPT ![t].at = "book"] /\ work' = work \cup {<<t, i, "book">>}
        \/ Trips!Settle(t) /\ UNCHANGED work
    BY <1>4 DEF Trips!BookingRead
  <2> HIDE DEF p, i
  <2>4. Trips!DeviceKnown' /\ Trips!ShownKnown' /\ device'.intents = device.intents
    <3>1. hold' \in [Trips!Intents -> Trips!Statuses]
      BY <1>0, <2>2 DEF Trips!ServerTyped
    <3>2. QED BY <1>0, <2>1, <2>2, <3>1, Remembers
  <2>5. Trips!TabKnown' /\ \A u \in Tabs : tab'[u].at = "read hold" => tab'[u] = tab[u]
    BY <1>0, <2>1, <2>2, <2>3, TabSettles, TabGoes
  <2>6. Trips!ServerTyped'
    <3>1. <<t, i, "book">> \in Tabs \X Trips!Drawn \X {"hold", "book"}
      BY <2>1
    <3>2. work' \subseteq Tabs \X Trips!Drawn \X {"hold", "book"}
      BY <1>0, <2>3, <3>1 DEF Trips!ServerTyped
    <3>3. QED BY <1>0, <2>2, <3>2, KnownStays DEF Trips!ServerTyped
  <2>7. QED BY <2>2, <2>4, <2>5, <2>6, StorageStays
<1>5. ASSUME NEW t \in Tabs, Trips!ReadFails(t) PROVE Trips!IInv'
  <2>1. Trips!Settle(t) /\ Trips!Fault /\ UNCHANGED <<device, hold, product, work, shown, restore>>
    BY <1>5 DEF Trips!ReadFails
  <2>2. Trips!TabKnown' /\ \A u \in Tabs : tab'[u].at = "read hold" => tab'[u] = tab[u]
    BY <1>0, <2>1, TabSettles
  <2>3. Trips!ServerTyped' /\ Trips!DeviceKnown' /\ Trips!ShownKnown'
    BY <1>0, <2>1, KnownStays, FaultsFit DEF Trips!ServerTyped, Trips!DeviceKnown, Trips!ShownKnown
  <2>4. QED BY <2>1, <2>2, <2>3, StorageStays
<1>6. ASSUME NEW t \in Tabs, Trips!StopWaiting(t) PROVE Trips!IInv'
  <2>1. /\ tab[t].at # "idle" /\ tab' = [tab EXCEPT ![t].at = "read back"] /\ Trips!Fault
        /\ UNCHANGED <<device, hold, product, work, shown, restore>>
    BY <1>6 DEF Trips!StopWaiting
  <2>2. Trips!TabKnown' /\ \A u \in Tabs : tab'[u].at = "read hold" => tab'[u] = tab[u]
    BY <1>0, <2>1, TabGoes
  <2>3. Trips!ServerTyped' /\ Trips!DeviceKnown' /\ Trips!ShownKnown'
    BY <1>0, <2>1, KnownStays, FaultsFit DEF Trips!ServerTyped, Trips!DeviceKnown, Trips!ShownKnown
  <2>4. QED BY <2>1, <2>2, <2>3, StorageStays
<1>7. ASSUME NEW t \in Tabs, Trips!ReadBack(t) PROVE Trips!IInv'
  <2>1. /\ tab[t].p \in Products /\ tab[t].id \in Trips!Drawn
    BY <1>0, <1>7 DEF Trips!ReadBack, Trips!TabKnown, Trips!Waitings, Trips!Known
  <2>2. /\ UNCHANGED <<hold, product, work, restore, faults>> /\ Trips!Settle(t)
        /\ UNCHANGED <<shown, device>> \/ Trips!Remember(t, tab[t].p, tab[t].id)
    BY <1>7 DEF Trips!ReadBack
  <2>3. Trips!TabKnown' /\ \A u \in Tabs : tab'[u].at = "read hold" => tab'[u] = tab[u]
    BY <1>0, <2>2, TabSettles
  <2>4. Trips!DeviceKnown' /\ Trips!ShownKnown' /\ device'.intents = device.intents
    <3>1. hold' \in [Trips!Intents -> Trips!Statuses]
      BY <1>0, <2>2 DEF Trips!ServerTyped
    <3>2. CASE UNCHANGED <<shown, device>>
      BY <1>0, <2>2, <3>2, KnownStays DEF Trips!DeviceKnown, Trips!ShownKnown
    <3>3. CASE Trips!Remember(t, tab[t].p, tab[t].id)
      BY <1>0, <2>1, <2>2, <3>1, <3>3, Remembers
    <3>4. QED BY <2>2, <3>2, <3>3
  <2>5. Trips!ServerTyped'
    BY <1>0, <2>2, KnownStays DEF Trips!ServerTyped
  <2>6. QED BY <2>2, <2>3, <2>4, <2>5, StorageStays
<1>8. ASSUME NEW t \in Tabs, Trips!Reload(t) PROVE Trips!IInv'
  <2>1. /\ Trips!Settle(t) /\ shown' = [shown EXCEPT ![t] = [p \in Products |-> Trips!Blank]]
        /\ Trips!Fault /\ UNCHANGED <<device, hold, product, work>>
    BY <1>8 DEF Trips!Reload, Trips!Settle
  <2>2. Trips!TabKnown' /\ \A u \in Tabs : tab'[u].at = "read hold" => tab'[u] = tab[u]
    BY <1>0, <2>1, TabSettles
  <2>3. Trips!ServerTyped' /\ Trips!DeviceKnown'
    BY <1>0, <2>1, KnownStays, FaultsFit DEF Trips!ServerTyped, Trips!DeviceKnown
  <2>4. Trips!ShownKnown'
    <3>1. [p \in Products |-> Trips!Blank] \in [Products -> Trips!Receipts]
      BY DEF Trips!Blank, Trips!Receipts, Trips!Known, Trips!Statuses
    <3>2. Trips!Blank.status = "none"
      BY DEF Trips!Blank
    <3>3. Trips!Receipts' = Trips!Receipts
      BY <2>1, KnownStays
    <3> HIDE DEF Trips!Receipts, Trips!Blank
    <3>4. QED BY <1>0, <2>1, <3>1, <3>2, <3>3 DEF Trips!ShownKnown
  <2>5. QED BY <2>1, <2>2, <2>3, <2>4, StorageStays
<1>9. ASSUME NEW t \in Tabs, Trips!Restored(t) PROVE Trips!IInv'
  <2> DEFINE found == {p \in Products : Trips!Kept(p) # Trips!None /\ hold[Trips!Kept(p)] # "none"}
             receipts == [p \in Products |-> IF p \in found THEN Trips!Receipt(Trips!Kept(p)) ELSE shown[t][p]]
             books == [p \in Products |-> IF p \in found THEN Trips!Kept(p) ELSE device.bookings[p]]
  <2>1. UNCHANGED <<hold, product, work, tab, faults>>
    BY <1>9 DEF Trips!Restored
  <2>2. shown' = [shown EXCEPT ![t] = receipts] /\ device' = [device EXCEPT !.bookings = books]
    BY <1>9 DEF Trips!Restored
  <2>3. /\ device \in Trips!Stores /\ shown \in [Tabs -> [Products -> Trips!Receipts]]
        /\ hold \in [Trips!Intents -> Trips!Statuses]
    BY <1>0 DEF Trips!DeviceKnown, Trips!ShownKnown, Trips!ServerTyped
  <2>4. ASSUME NEW p \in Products PROVE Trips!Kept(p) \in Trips!Known
    BY <2>3 DEF Trips!Kept, Trips!Stores
  <2>5. ASSUME NEW p \in Products
        PROVE /\ receipts[p] \in Trips!Receipts
              /\ (receipts[p].id = Trips!None => receipts[p].status = "none")
    <3>1. CASE p \in found
      <4>1. /\ Trips!Kept(p) \in Trips!Known /\ Trips!Kept(p) # Trips!None
            /\ receipts[p] = Trips!Receipt(Trips!Kept(p))
        BY <2>4, <3>1
      <4>2. hold[Trips!Kept(p)] \in Trips!Statuses
        BY <2>3, <4>1 DEF Trips!Known, Trips!Drawn
      <4> HIDE DEF Trips!Known, Trips!Statuses, receipts, found, Trips!Kept
      <4>3. QED BY <4>1, <4>2 DEF Trips!Receipt, Trips!Receipts
    <3>2. CASE p \notin found
      <4>1. receipts[p] = shown[t][p]
        BY <3>2
      <4> HIDE DEF receipts, found, Trips!Receipts
      <4>2. QED BY <1>0, <2>3, <4>1 DEF Trips!ShownKnown
    <3>3. QED BY <3>1, <3>2
  <2>6. books \in [Products -> Trips!Known]
    BY <2>3, <2>4 DEF Trips!Stores
  <2>7. receipts = [p \in Products |-> receipts[p]]
    OBVIOUS
  <2> HIDE DEF receipts, books, found, Trips!Receipts, Trips!Known
  <2>8. Trips!DeviceKnown' /\ device'.intents = device.intents
    BY <2>1, <2>2, <2>3, <2>6, KnownStays DEF Trips!DeviceKnown, Trips!Stores
  <2>9. Trips!ShownKnown'
    BY <1>0, <2>1, <2>2, <2>3, <2>5, <2>7, KnownStays DEF Trips!ShownKnown
  <2>10. Trips!ServerTyped' /\ Trips!TabKnown'
    BY <1>0, <2>1, KnownStays DEF Trips!ServerTyped, Trips!TabKnown
  <2>11. QED BY <2>1, <2>8, <2>9, <2>10, StorageStays
<1>10. ASSUME NEW t \in Tabs, Trips!RestoreFails(t) PROVE Trips!IInv'
  <2>1. Trips!Fault /\ UNCHANGED <<device, hold, product, work, tab, shown>>
    BY <1>10 DEF Trips!RestoreFails
  <2>2. Trips!ServerTyped' /\ Trips!DeviceKnown' /\ Trips!TabKnown' /\ Trips!ShownKnown'
    BY <1>0, <2>1, KnownStays, FaultsFit DEF Trips!ServerTyped, Trips!DeviceKnown, Trips!TabKnown,
       Trips!ShownKnown
  <2>3. QED BY <2>1, <2>2, StorageStays
<1>11. ASSUME NEW w \in work, Trips!Serve(w) PROVE Trips!IInv'
  <2>1. w[1] \in Tabs /\ w[2] \in Trips!Drawn /\ w[2] \in Trips!Intents /\ w[3] \in {"hold", "book"}
    BY <1>0, <1>11 DEF Trips!ServerTyped, Trips!Drawn
  <2>2. work' = work \ {w} /\ hold' = Trips!Written(w) /\ UNCHANGED <<product, restore>>
    BY <1>11 DEF Trips!Serve
  <2>3. /\ hold' \in [Trips!Intents -> Trips!Statuses]
        /\ \A i \in Trips!Intents : hold[i] = "expired" => hold'[i] = "expired"
    BY <1>0, <2>1, <2>2 DEF Trips!Written, Trips!ServerTyped, Trips!Statuses
  <2>4. CASE ~Trips!Waits(w)
    <3>1. UNCHANGED <<tab, shown, device, faults>>
      BY <1>11, <2>4 DEF Trips!Serve
    <3>2. Trips!ServerTyped' /\ Trips!DeviceKnown' /\ Trips!TabKnown' /\ Trips!ShownKnown'
      BY <1>0, <2>2, <2>3, <3>1, KnownStays DEF Trips!ServerTyped, Trips!DeviceKnown,
         Trips!TabKnown, Trips!ShownKnown
    <3>3. QED BY <2>2, <2>3, <3>1, <3>2, StorageStays
  <2>5. CASE Trips!Waits(w)
    <3> DEFINE t == w[1]
               p == tab[t].p
    <3>1. /\ tab[t].at # "idle" /\ p \in Products /\ t \in Tabs
      BY <1>0, <2>1, <2>5 DEF Trips!Waits, Trips!TabKnown
    <3>2. \/ Trips!Remember(t, p, w[2]) /\ Trips!Settle(t) /\ UNCHANGED faults
          \/ tab' = [tab EXCEPT ![t].at = "read back"] /\ Trips!Fault /\ UNCHANGED <<shown, device>>
      BY <1>11, <2>5 DEF Trips!Serve
    <3> HIDE DEF t, p
    <3>3. Trips!TabKnown' /\ \A u \in Tabs : tab'[u].at = "read hold" => tab'[u] = tab[u]
      BY <1>0, <2>2, <3>1, <3>2, TabSettles, TabGoes
    <3>4. Trips!DeviceKnown' /\ Trips!ShownKnown' /\ device'.intents = device.intents
      <4>1. CASE Trips!Remember(t, p, w[2])
        BY <1>0, <2>1, <2>2, <2>3, <3>1, <4>1, Remembers
      <4>2. CASE UNCHANGED <<shown, device>>
        BY <1>0, <2>2, <4>2, KnownStays DEF Trips!DeviceKnown, Trips!ShownKnown
      <4>3. QED BY <3>2, <4>1, <4>2
    <3>5. Trips!ServerTyped'
      BY <1>0, <2>2, <2>3, <3>2, KnownStays, FaultsFit DEF Trips!ServerTyped
    <3>6. QED BY <2>2, <2>3, <3>3, <3>4, <3>5, StorageStays
  <2>6. QED BY <2>4, <2>5
<1>12. ASSUME NEW w \in work, Trips!Refuse(w) PROVE Trips!IInv'
  <2>1. /\ work' = work \ {w} /\ Trips!Fault /\ UNCHANGED <<device, hold, product, shown, restore>>
        /\ Trips!Settle(w[1]) \/ UNCHANGED tab
    BY <1>12 DEF Trips!Refuse
  <2>2. w[1] \in Tabs
    BY <1>0, <1>12 DEF Trips!ServerTyped
  <2>3. Trips!TabKnown' /\ \A u \in Tabs : tab'[u].at = "read hold" => tab'[u] = tab[u]
    <3>1. CASE Trips!Settle(w[1])
      BY <1>0, <2>1, <2>2, <3>1, TabSettles
    <3>2. CASE UNCHANGED tab
      BY <1>0, <2>1, <3>2, KnownStays DEF Trips!TabKnown
    <3>3. QED BY <2>1, <3>1, <3>2
  <2>4. Trips!ServerTyped' /\ Trips!DeviceKnown' /\ Trips!ShownKnown'
    BY <1>0, <2>1, KnownStays, FaultsFit DEF Trips!ServerTyped, Trips!DeviceKnown, Trips!ShownKnown
  <2>5. QED BY <2>1, <2>3, <2>4, StorageStays
<1>13. ASSUME NEW i \in Trips!Intents, Trips!Expire(i) PROVE Trips!IInv'
  <2>1. /\ hold' = [hold EXCEPT ![i] = "expired"]
        /\ UNCHANGED <<device, product, work, tab, shown, restore, faults>>
    BY <1>13 DEF Trips!Expire
  <2>2. Trips!ServerTyped' /\ Trips!DeviceKnown' /\ Trips!TabKnown' /\ Trips!ShownKnown'
    BY <1>0, <2>1, KnownStays DEF Trips!ServerTyped, Trips!Statuses, Trips!DeviceKnown,
       Trips!TabKnown, Trips!ShownKnown
  <2>3. \A k \in Trips!Intents : hold[k] = "expired" => hold'[k] = "expired"
    BY <1>0, <2>1 DEF Trips!ServerTyped
  <2>4. QED BY <2>1, <2>2, <2>3, StorageStays
<1>14. ASSUME UNCHANGED Trips!vars PROVE Trips!IInv'
  <2>1. UNCHANGED <<device, hold, product, work, tab, shown, faults>>
    BY <1>14 DEF Trips!vars
  <2>2. Trips!ServerTyped' /\ Trips!DeviceKnown' /\ Trips!TabKnown' /\ Trips!ShownKnown'
    BY <1>0, <2>1, KnownStays DEF Trips!ServerTyped, Trips!DeviceKnown, Trips!TabKnown,
       Trips!ShownKnown
  <2>3. QED BY <2>1, <2>2, StorageStays
<1>15. QED
  BY <1>1, <1>2, <1>3, <1>4, <1>5, <1>6, <1>7, <1>8, <1>9, <1>10, <1>11, <1>12, <1>13, <1>14 DEF
     Trips!Next, Trips!Clicks, Trips!Steps

LEMMA TripsInit == ASSUME Trips!WritesAssumption, Trips!Init
  PROVE Trips!IInv
<1>1. Trips!Empty \in Trips!Stores /\ Trips!Drawn = {} /\ Trips!None \in Trips!Known
  BY DEF Trips!Init, Trips!Empty, Trips!Nothing, Trips!Stores, Trips!Known, Trips!Drawn
<1>2. Trips!ServerTyped /\ Trips!DeviceKnown
  BY <1>1 DEF Trips!Init, Trips!ServerTyped, Trips!DeviceKnown, Trips!Statuses,
     Trips!WritesAssumption
<1>3. Trips!TabKnown /\ Trips!ReadIsCurrent
  <2>1. tab = [t \in Tabs |-> Trips!Free]
    BY DEF Trips!Init
  <2>2. Trips!Free \in Trips!Waitings /\ Trips!Free.at = "idle" /\ Trips!Free.id = Trips!None
    BY FreeIsWaiting
  <2> HIDE DEF Trips!Free, Trips!Waitings
  <2>3. QED BY <2>1, <2>2 DEF Trips!TabKnown, Trips!ReadIsCurrent
<1>4. Trips!ShownKnown
  <2>1. Trips!Blank \in Trips!Receipts /\ Trips!Blank.status = "none"
    BY <1>1 DEF Trips!Blank, Trips!Receipts, Trips!Statuses
  <2> HIDE DEF Trips!Blank, Trips!Receipts
  <2>2. QED BY <2>1 DEF Trips!Init, Trips!ShownKnown
<1>5. Trips!UnexpiredIsKept
  BY <1>1 DEF Trips!UnexpiredIsKept
<1>6. QED BY <1>2, <1>3, <1>4, <1>5 DEF Trips!IInv

TripsPromise == Trips!TypeOK /\ Trips!NoSecondHold /\ Trips!NothingForgotten

LEMMA TripsSays == ASSUME Trips!WritesAssumption, Trips!IInv
  PROVE TripsPromise
<1>1. Trips!TypeOK
  <2>1. Trips!Known \subseteq Trips!Intents \cup {Trips!None}
    BY DEF Trips!Known, Trips!Drawn
  <2>2. device \in [intents : [Products -> Trips!Intents \cup {Trips!None}],
                    bookings : [Products -> Trips!Intents \cup {Trips!None}]]
    <3>1. [Products -> Trips!Known] \subseteq [Products -> Trips!Intents \cup {Trips!None}]
      BY <2>1
    <3>2. QED BY <3>1 DEF Trips!IInv, Trips!DeviceKnown, Trips!Stores
  <2>3. QED BY <2>2 DEF Trips!IInv, Trips!TypeOK, Trips!ServerTyped, Trips!Statuses,
               Trips!TabKnown, Trips!Waitings
<1>2. ASSUME NEW p \in Products, NEW i \in Trips!Live(p) PROVE device.intents[p] = i
  <2>1. i \in Trips!Drawn /\ product[i] = p /\ hold[i] # "expired"
    BY <1>2 DEF Trips!Live
  <2>2. QED BY <2>1 DEF Trips!IInv, Trips!UnexpiredIsKept
<1>3. Trips!NothingForgotten
  BY <1>2 DEF Trips!NothingForgotten
<1>4. Trips!NoSecondHold
  <2>1. ASSUME NEW p \in Products PROVE Cardinality(Trips!Live(p)) <= 1
    <3>1. CASE Trips!Live(p) = {}
      BY <3>1, FS_EmptySet
    <3>2. CASE Trips!Live(p) # {}
      <4>1. PICK i \in Trips!Live(p) : TRUE
        BY <3>2
      <4>2. Trips!Live(p) = {i}
        BY <1>2, <4>1
      <4>3. Cardinality({i}) = 1
        BY FS_Singleton
      <4>4. QED BY <4>2, <4>3
    <3>3. QED BY <3>1, <3>2
  <2>2. \A p \in Products : Trips!Cardinality(Trips!Live(p)) = Cardinality(Trips!Live(p))
    BY DEF Trips!Cardinality, Cardinality
  <2>3. QED BY <2>1, <2>2 DEF Trips!NoSecondHold
<1>5. QED BY <1>1, <1>3, <1>4 DEF TripsPromise

\* For a person with one tab: one product never has two holds, however often it is clicked and
\* whatever answers are lost, and a reload finds what the server holds or may still hold
\* (holdTrip, confirmTrip and the restore at load of useMeridianShowcase).
THEOREM TripsKept == ASSUME Trips!WritesAssumption, Trips!OneTab
  PROVE Trips!Spec => []TripsPromise
<1>1. Trips!Init => Trips!IInv
  BY TripsInit
<1>2. Trips!IInv /\ [Trips!Next]_(Trips!vars) => Trips!IInv'
  BY TripsStep
<1>3. Trips!IInv => TripsPromise
  BY TripsSays
<1>4. QED BY <1>1, <1>2, <1>3, PTL DEF Trips!Spec

-----------------------------------------------------------------------------
(* The signed-in page: its tokens and its requests. *)

CONSTANTS Requests, Streams, Greets, MaxTokens
VARIABLES status, tokens, gen, inflight, timer, calls, refreshing, signedOut, req, dead, left
Session == INSTANCE BrowserSession

USE DEF Session!None, Session!Tokens, Session!Wire, Session!Waits, Session!Ends, Session!session

\* Whatever a step does to the row of a request, it is a row.
LEMMA IdleIsRow == ASSUME Session!SessionAssumption PROVE Session!Idle \in Session!Rows
BY DEF Session!Idle, Session!Rows, Session!SessionAssumption
LEMMA RowSends ==
  ASSUME NEW q \in Session!Rows, NEW x, NEW t \in Session!Tokens \cup {Session!None},
         \/ x = [q EXCEPT !.at = "sent", !.tok = t, !.first = t]
         \/ x = [q EXCEPT !.at = "resent", !.tok = t]
         \/ x = [q EXCEPT !.at = "sent", !.tok = t, !.attempt = 1]
  PROVE x \in Session!Rows
<1>1. CASE x = [q EXCEPT !.at = "sent", !.tok = t, !.first = t]
  BY <1>1 DEF Session!Rows
<1>2. CASE x = [q EXCEPT !.at = "resent", !.tok = t]
  BY <1>2 DEF Session!Rows
<1>3. CASE x = [q EXCEPT !.at = "sent", !.tok = t, !.attempt = 1]
  BY <1>3 DEF Session!Rows
<1>4. QED BY <1>1, <1>2, <1>3
LEMMA RowReads ==
  ASSUME NEW q \in Session!Rows, NEW x, NEW t \in Session!Tokens \cup {Session!None},
         NEW n \in 0..2, NEW u \in Session!Tokens \cup {Session!None},
         x = [q EXCEPT !.at = "reading", !.runs = n, !.used = u, !.tok = t]
  PROVE x \in Session!Rows
BY DEF Session!Rows
LEMMA RowStays == ASSUME NEW q \in Session!Rows, NEW x,
                         \/ x = [q EXCEPT !.heard = TRUE]
                         \/ x = [q EXCEPT !.heard = TRUE, !.spoke = TRUE]
                         \/ x = [q EXCEPT !.over = TRUE]
  PROVE x \in Session!Rows
BY DEF Session!Rows
LEMMA RowEnds ==
  ASSUME NEW q \in Session!Rows, NEW x,
         NEW a \in {"idle"} \cup Session!Wire \cup Session!Waits \cup Session!Ends,
         x = [q EXCEPT !.at = a]
  PROVE x \in Session!Rows
BY DEF Session!Rows
LEMMA RowWaits ==
  ASSUME NEW q \in Session!Rows, NEW x, NEW a \in Session!Waits, NEW f \in {"http", "stream"},
         NEW c \in {"expired", "required"}, x = [q EXCEPT !.at = a, !.from = f, !.code = c]
  PROVE x \in Session!Rows
BY DEF Session!Rows

\* What a step may do to the session beside the requests it moves on.
TokensLater == /\ dead' = dead /\ (faults > 0 => faults' > 0) /\ (left => left')
               /\ \/ tokens' = tokens
                  \/ tokens' = Session!None /\ (left' \/ faults' > 0)
                  \/ tokens # Session!None /\ tokens' > tokens
SessionLater == TokensLater /\ (refreshing => refreshing')

\* A request that a step leaves alone still fits.
LEMMA FitStays ==
  ASSUME Session!SessionTyped, Session!SessionTyped', TokensLater, NEW q \in Session!Rows,
         Session!TokensFit(q), q.at = "waiting" /\ refreshing => refreshing'
  PROVE Session!TokensFit(q)'
BY DEF Session!SessionTyped, TokensLater, Session!TokensFit, Session!Rows, Session!Blame

\* A step that moves one request on keeps them all in order.
LEMMA OneMovesOn ==
  ASSUME Session!SessionTyped, Session!SessionTyped', SessionLater, Session!RequestsTyped,
         Session!AllFit, NEW r \in Requests, NEW x \in Session!Rows, Session!RunsFit(x),
         Session!TokensFit(x)', req' = [req EXCEPT ![r] = x]
  PROVE Session!RequestsTyped' /\ Session!AllFit'
<1>1. Session!RequestsTyped'
  BY DEF Session!RequestsTyped
<1>2. ASSUME NEW s \in Requests PROVE Session!RunsFit(req[s])' /\ Session!TokensFit(req[s])'
  <2>1. CASE s = r
    <3>1. req'[s] = x
      BY <2>1 DEF Session!RequestsTyped
    <3>2. QED BY <3>1 DEF Session!RunsFit, Session!TokensFit, Session!Blame
  <2>2. CASE s # r
    <3> PICK q \in Session!Rows : q = req[s]
      BY DEF Session!RequestsTyped
    <3>1. req'[s] = q /\ Session!RunsFit(q) /\ Session!TokensFit(q)
      BY <2>2 DEF Session!RequestsTyped, Session!AllFit
    <3>2. Session!TokensFit(q)'
      BY <3>1, FitStays DEF SessionLater
    <3>3. QED BY <3>1, <3>2 DEF Session!RunsFit, Session!TokensFit, Session!Blame
  <2>3. QED BY <2>1, <2>2
<1>3. QED BY <1>1, <1>2 DEF Session!AllFit

\* So does a step that moves none.
LEMMA NoneMovesOn ==
  ASSUME Session!SessionTyped, Session!SessionTyped', SessionLater, Session!RequestsTyped,
         Session!AllFit, UNCHANGED req
  PROVE Session!RequestsTyped' /\ Session!AllFit'
<1>1. ASSUME NEW s \in Requests PROVE Session!RunsFit(req[s])' /\ Session!TokensFit(req[s])'
  <2> PICK q \in Session!Rows : q = req[s]
    BY DEF Session!RequestsTyped
  <2>1. req'[s] = q /\ Session!RunsFit(q) /\ Session!TokensFit(q)
    BY DEF Session!AllFit
  <2>2. Session!TokensFit(q)'
    BY <2>1, FitStays DEF SessionLater
  <2>3. QED BY <2>1, <2>2 DEF Session!RunsFit, Session!TokensFit, Session!Blame
<1>2. QED BY <1>1 DEF Session!AllFit, Session!RequestsTyped

\* A request under way began in a session; if that is over, someone is to blame.
LEMMA RequestUnderWay == ASSUME Session!IInv, NEW r \in Requests, req[r].at # "idle"
  PROVE status # "signing" /\ (status = "out" => Session!Blame)
BY DEF Session!IInv, Session!OutIsBlamed

\* A step whose session and requests keep their parts keeps the invariant.
LEMMA RequestMoves ==
  ASSUME Session!IInv, Session!SessionTyped', Session!OneCall', SessionLater, NEW r \in Requests,
         NEW x \in Session!Rows, Session!RunsFit(x), Session!TokensFit(x)',
         req' = [req EXCEPT ![r] = x], status' = status \/ status' = "out", status # "signing",
         status' = "out" => Session!Blame', signedOut' /\ ~signedOut => Session!Blame'
  PROVE Session!IInv'
<1>1. Session!SessionTyped /\ Session!RequestsTyped /\ Session!AllFit
  BY DEF Session!IInv
<1>2. Session!RequestsTyped' /\ Session!AllFit'
  BY <1>1, OneMovesOn
<1>3. Session!OutIsBlamed'
  BY DEF Session!OutIsBlamed
<1>4. Session!KeptUnlessRefused'
  BY DEF Session!IInv, Session!KeptUnlessRefused, SessionLater, TokensLater, Session!Blame
<1>5. QED BY <1>2, <1>3, <1>4 DEF Session!IInv

LEMMA SendKeeps ==
  ASSUME Session!SessionAssumption, Session!IInv, NEW r \in Requests, Session!Send(r)
  PROVE Session!IInv'
<1> PICK x : x = [Session!Idle EXCEPT !.at = "sent", !.tok = tokens, !.first = tokens]
  OBVIOUS
<1>1. req' = [req EXCEPT ![r] = x] /\ status = "in"
      /\ UNCHANGED <<Session!session, calls, refreshing, dead, left, faults>>
  BY DEF Session!Send
<1>2. /\ tokens \in Nat \ {0} /\ (\A t \in dead : t <= tokens) /\ dead \subseteq 1..MaxTokens
      /\ Session!SessionTyped /\ Session!OneCall
  BY <1>1 DEF Session!IInv, Session!SessionTyped, Session!OneCall
<1>3. x \in Session!Rows
  BY <1>2, IdleIsRow, RowSends DEF Session!SessionTyped
<1>4. Session!RunsFit(x)
  BY DEF Session!RunsFit, Session!Idle
<1>5. Session!TokensFit(x)'
  BY <1>1, <1>2 DEF Session!TokensFit, Session!Idle, Session!Blame
<1>6. SessionLater /\ Session!SessionTyped' /\ Session!OneCall'
  BY <1>1, <1>2 DEF SessionLater, TokensLater, Session!SessionTyped, Session!OneCall
<1>7. QED BY <1>1, <1>3, <1>4, <1>5, <1>6, RequestMoves

\* A step that moves one request on and leaves the session alone.
LEMMA OnlyMoves ==
  ASSUME Session!IInv, NEW r \in Requests, NEW x \in Session!Rows, req[r].at # "idle",
         Session!RunsFit(x), Session!TokensFit(x), req' = [req EXCEPT ![r] = x],
         UNCHANGED <<Session!session, calls, refreshing, dead, left, faults>>
  PROVE Session!IInv'
<1>1. SessionLater /\ Session!SessionTyped /\ Session!SessionTyped' /\ Session!OneCall'
  BY DEF Session!IInv, SessionLater, TokensLater, Session!SessionTyped, Session!OneCall
<1>2. Session!TokensFit(x)'
  BY <1>1, FitStays DEF SessionLater
<1>3. status # "signing" /\ (status = "out" => Session!Blame')
  BY RequestUnderWay DEF Session!Blame
<1>4. QED BY <1>1, <1>2, <1>3, RequestMoves

LEMMA RequestIsSound == ASSUME Session!IInv, NEW r \in Requests
  PROVE /\ req[r] \in Session!Rows /\ Session!RunsFit(req[r]) /\ Session!TokensFit(req[r])
        /\ \A x : [req EXCEPT ![r] = x][r] = x
        /\ Session!SessionTyped /\ Session!OneCall /\ Session!RequestsTyped /\ Session!AllFit
        /\ Session!KeptUnlessRefused
BY DEF Session!IInv, Session!RequestsTyped, Session!AllFit

LEMMA AcceptKeeps == ASSUME Session!IInv, NEW r \in Requests, Session!Accept(r) PROVE Session!IInv'
<1> PICK q \in Session!Rows : q = req[r]
  BY RequestIsSound
<1> PICK x : x = IF r \in Streams
                 THEN [q EXCEPT !.at = "reading", !.runs = q.runs + 1, !.used = q.tok, !.tok = tokens]
                 ELSE [q EXCEPT !.at = "answered"]
  OBVIOUS
<1>1. /\ q.at \in {"sent", "resent"} /\ q.tok \notin dead \cup {Session!None}
      /\ UNCHANGED <<Session!session, calls, refreshing, dead, left, faults>>
  BY DEF Session!Accept
<1>0. req' = [req EXCEPT ![r] = x]
  <2>1. CASE r \in Streams
    <3>1. req' = [req EXCEPT ![r] = [@ EXCEPT !.at = "reading", !.runs = req[r].runs + 1,
                                              !.used = req[r].tok, !.tok = tokens]]
      BY <2>1 DEF Session!Accept
    <3>2. QED BY <2>1, <3>1, Zenon
  <2>2. CASE r \notin Streams
    BY <2>2 DEF Session!Accept
  <2>3. QED BY <2>1, <2>2
<1>2. /\ Session!RunsFit(q) /\ Session!TokensFit(q) /\ Session!SessionTyped /\ Session!OneCall
      /\ (status = "out" => Session!Blame)
      /\ status # "signing"
  BY <1>1, RequestIsSound, RequestUnderWay
<1>3. /\ q.runs + 1 \in 0..2 /\ tokens \in Session!Tokens \cup {Session!None}
      /\ q.tok \in Session!Tokens \cup {Session!None}
  BY <1>1, <1>2 DEF Session!Rows, Session!SessionTyped, Session!RunsFit
<1>4. x \in Session!Rows
  BY <1>3, RowReads, RowEnds
<1>5. Session!RunsFit(x)
  BY <1>1, <1>2 DEF Session!Rows, Session!RunsFit
<1>6. Session!TokensFit(x)
  BY <1>1, <1>2 DEF Session!Rows, Session!SessionTyped, Session!OneCall, Session!TokensFit,
     Session!Blame
<1>7. QED BY <1>0, <1>1, <1>4, <1>5, <1>6, OnlyMoves

LEMMA FramesKeep ==
  ASSUME Session!IInv, NEW r \in Requests,
         Session!Greet(r) \/ Session!Speak(r) \/ Session!Complete(r) \/ Session!GiveUp(r)
  PROVE Session!IInv'
<1> PICK q \in Session!Rows : q = req[r]
  BY RequestIsSound
<1> PICK x : req' = [req EXCEPT ![r] = x]
             /\ \/ q.at = "reading" /\ x = [q EXCEPT !.heard = TRUE]
                \/ q.at = "reading" /\ x = [q EXCEPT !.heard = TRUE, !.spoke = TRUE]
                \/ q.at = "reading" /\ x = [q EXCEPT !.at = "answered"]
                \/ q.at \in Session!Wire /\ x = [q EXCEPT !.at = "gaveup"]
                \/ q.at \in Session!Waits /\ x = [q EXCEPT !.over = TRUE]
  <2>1. Session!Greet(r) => req' = [req EXCEPT ![r] = [q EXCEPT !.heard = TRUE]] /\ q.at = "reading"
    BY DEF Session!Greet
  <2>2. Session!Speak(r) => /\ req' = [req EXCEPT ![r] = [q EXCEPT !.heard = TRUE, !.spoke = TRUE]]
                            /\ q.at = "reading"
    BY DEF Session!Speak, Session!Framed
  <2>3. Session!Complete(r) => /\ req' = [req EXCEPT ![r] = [q EXCEPT !.at = "answered"]]
                               /\ q.at = "reading"
    BY DEF Session!Complete, Session!Framed, Session!End
  <2>4. Session!GiveUp(r) =>
          \/ q.at \in Session!Wire /\ req' = [req EXCEPT ![r] = [q EXCEPT !.at = "gaveup"]]
          \/ q.at \in Session!Waits /\ req' = [req EXCEPT ![r] = [q EXCEPT !.over = TRUE]]
    BY DEF Session!GiveUp, Session!Capped
  <2>5. QED BY <2>1, <2>2, <2>3, <2>4
<1>1. UNCHANGED <<Session!session, calls, refreshing, dead, left, faults>>
  BY DEF Session!Greet, Session!Speak, Session!Complete, Session!GiveUp
<1>2. Session!RunsFit(q) /\ Session!TokensFit(q) /\ q.at # "idle"
  BY RequestIsSound
<1>3. x \in Session!Rows
  BY RowStays, RowEnds
<1>4. Session!RunsFit(x)
  BY <1>2 DEF Session!Rows, Session!RunsFit
<1>5. Session!TokensFit(x)
  BY <1>2 DEF Session!Rows, Session!TokensFit
<1>6. QED BY <1>1, <1>2, <1>3, <1>4, <1>5, OnlyMoves

\* A refresh that starts is the only token request in flight.
LEMMA RefreshIsOne ==
  ASSUME Session!IInv, Session!RefreshNow, UNCHANGED <<status, tokens, gen, dead>>
  PROVE Session!OneCall' /\ inflight' = TRUE /\ status = "in"
<1>1. status = "in" /\ gen = 0 /\ calls \in {<<>>, <<0>>} /\ (calls # <<>> => inflight)
  BY DEF Session!IInv, Session!OneCall, Session!RefreshNow
<1>2. calls' = <<0>>
  <2>1. CASE inflight
    BY <1>1, <2>1 DEF Session!RefreshNow, Session!IInv, Session!OneCall
  <2>2. CASE ~inflight
    <3>1. calls = <<>> /\ calls' = Append(<<>>, 0)
      BY <1>1, <2>2 DEF Session!RefreshNow
    <3>2. QED BY <3>1
  <2>3. QED BY <2>1, <2>2
<1>3. calls' # <<>>
  BY <1>2
<1>4. inflight' = TRUE
  BY Zenon DEF Session!RefreshNow
<1>5. QED BY <1>1, <1>2, <1>3, <1>4 DEF Session!IInv, Session!OneCall

\* A request refused joins the refresh, or is told at once what came of it.
LEMMA OnceKeeps ==
  ASSUME Session!SessionAssumption, Session!IInv, NEW r \in Requests, NEW q \in Session!Rows,
         q = req[r], q.at \in Session!Wire, NEW f \in {"http", "stream"},
         NEW c \in {"expired", "required"}, Session!RefreshOnce(r, q.tok, f, c),
         UNCHANGED <<dead, left>>, faults' \in 0..MaxFaults, faults' >= faults,
         c = "required" => faults' > 0,
         c = "expired" => ~q.heard /\ (IF f = "http" THEN q.runs <= q.attempt ELSE q.attempt = 0)
  PROVE Session!IInv'
<1>1. /\ Session!RunsFit(q) /\ Session!TokensFit(q) /\ Session!SessionTyped /\ Session!OneCall
      /\ (status = "out" => Session!Blame)
      /\ status # "signing"
  BY RequestIsSound, RequestUnderWay
<1>2. PICK a \in Session!Waits :
        /\ req' = [req EXCEPT ![r] = [q EXCEPT !.at = a, !.from = f, !.code = c]]
        /\ a = "waiting" => refreshing'
        /\ a = "denied" => tokens = Session!None
        /\ a = "renewed" => tokens \notin {Session!None, q.tok}
  <2>1. CASE tokens \notin {Session!None, q.tok}
    <3>1. req' = [req EXCEPT ![r] = [q EXCEPT !.at = "renewed", !.from = f, !.code = c]]
      BY <2>1, Zenon DEF Session!RefreshOnce
    <3>2. QED BY <2>1, <3>1, Zenon
  <2>2. CASE tokens = q.tok /\ tokens # Session!None
    <3>1. req' = [req EXCEPT ![r] = [q EXCEPT !.at = "waiting", !.from = f, !.code = c]]
          /\ refreshing' = TRUE
      BY <2>2, Zenon DEF Session!RefreshOnce
    <3>2. QED BY <3>1, Zenon
  <2>3. CASE tokens = Session!None
    <3>1. PICK a \in {"waiting", "denied"} :
            /\ req' = [req EXCEPT ![r] = [q EXCEPT !.at = a, !.from = f, !.code = c]]
            /\ a = IF refreshing THEN "waiting" ELSE "denied"
            /\ refreshing' = refreshing
      BY <2>3, Zenon DEF Session!RefreshOnce
    <3>2. QED BY <2>3, <3>1
  <2>4. QED BY <2>1, <2>2, <2>3
<1> PICK x : x = [q EXCEPT !.at = a, !.from = f, !.code = c]
  OBVIOUS
<1>3. x \in Session!Rows
  BY RowWaits
<1>4. /\ x.at = a /\ x.from = f /\ x.code = c /\ x.tok = q.tok /\ x.first = q.first
      /\ x.used = q.used /\ x.attempt = q.attempt /\ x.heard = q.heard /\ x.runs = q.runs
  BY DEF Session!Rows
<1>5. Session!RunsFit(x)
  BY <1>1, <1>4 DEF Session!RunsFit, Session!Rows
<1>6. UNCHANGED <<status, tokens, gen, timer, signedOut>>
  BY DEF Session!RefreshOnce
<1>7. Session!OneCall' /\ Session!SessionTyped' /\ SessionLater
  <2>1. CASE Session!RefreshNow /\ refreshing' = TRUE
    BY <1>1, <1>6, <2>1, RefreshIsOne DEF Session!SessionTyped, SessionLater, TokensLater
  <2>2. CASE UNCHANGED <<calls, inflight>> /\ (refreshing' = refreshing \/ refreshing' = TRUE)
    <3>1. Session!OneCall'
      BY <1>1, <1>6, <2>2 DEF Session!OneCall
    <3>2. Session!SessionTyped'
      BY <1>1, <1>6, <2>2 DEF Session!SessionTyped
    <3>3. SessionLater
      BY <1>1, <1>6, <2>2 DEF Session!SessionTyped, SessionLater, TokensLater
    <3>4. QED BY <3>1, <3>2, <3>3
  <2>3. QED BY <2>1, <2>2 DEF Session!RefreshOnce
<1>8. Session!Blame \in BOOLEAN /\ (Session!Blame => Session!Blame')
  BY <1>1 DEF Session!Blame, Session!SessionTyped
<1>9. Session!TokensFit(x)'
  <2>1. a = "denied" => Session!Blame'
    BY <1>1, <1>2, <1>8 DEF Session!OneCall, Session!SessionTyped
  <2>2. a = "renewed" => tokens > q.first \/ Session!Blame'
    BY <1>1, <1>2, <1>8 DEF Session!TokensFit, Session!SessionTyped, Session!Rows
  <2>3. QED BY <1>1, <1>2, <1>4, <1>6, <1>8, <2>1, <2>2 DEF Session!TokensFit, Session!Blame
<1>10. QED BY <1>1, <1>2, <1>3, <1>5, <1>6, <1>7, <1>8, <1>9, RequestMoves

\* A request that ends takes the session with it only if someone is to blame.
LEMMA EndsKeep ==
  ASSUME Session!IInv, NEW r \in Requests, req[r].at # "idle", NEW how \in Session!Ends,
         Session!EndsWith(r, how), UNCHANGED <<dead, left>>, faults' \in 0..MaxFaults,
         faults' >= faults, left \/ faults' > 0
  PROVE Session!IInv'
<1> PICK q \in Session!Rows : q = req[r]
  BY RequestIsSound
<1> PICK x : x = [q EXCEPT !.at = how]
  OBVIOUS
<1>1. req' = [req EXCEPT ![r] = x] /\ Session!EndSession /\ UNCHANGED <<calls, refreshing>>
  BY DEF Session!EndsWith, Session!End
<1>2. /\ Session!RunsFit(q) /\ Session!TokensFit(q) /\ Session!SessionTyped /\ Session!OneCall
      /\ status # "signing"
  BY RequestIsSound, RequestUnderWay
<1>3. x \in Session!Rows
  BY RowEnds
<1>4. Session!RunsFit(x)
  BY <1>2 DEF Session!RunsFit, Session!Rows
<1>5. Session!TokensFit(x)'
  BY <1>2 DEF Session!TokensFit, Session!Rows, Session!Blame, Session!SessionTyped
<1>6. /\ Session!SessionTyped' /\ Session!OneCall' /\ SessionLater /\ Session!Blame'
      /\ (status' = status \/ status' = "out")
  <2>1. CASE UNCHANGED Session!session
    BY <1>1, <1>2, <2>1 DEF Session!SessionTyped, Session!OneCall, SessionLater, TokensLater,
       Session!Blame
  <2>2. CASE Session!SignedOut /\ signedOut' = TRUE
    <3>0. /\ inflight' \in BOOLEAN /\ timer' \in BOOLEAN /\ signedOut' \in BOOLEAN
          /\ refreshing' \in BOOLEAN
      BY <1>1, <1>2, <2>2, Zenon DEF Session!SessionTyped, Session!SignedOut
    <3>1. Session!SessionTyped'
      BY <1>2, <2>2, <3>0 DEF Session!SessionTyped, Session!SignedOut
    <3>2. gen' # 0 /\ status' = "out" /\ tokens' = Session!None /\ inflight' = FALSE
      BY <1>2, <2>2 DEF Session!SessionTyped, Session!SignedOut
    <3>3. Session!OneCall'
      BY <1>1, <1>2, <3>2 DEF Session!OneCall
    <3>4. SessionLater /\ Session!Blame'
      BY <1>1, <1>2, <3>2 DEF Session!SessionTyped, SessionLater, TokensLater, Session!Blame
    <3>5. QED BY <3>1, <3>2, <3>3, <3>4
  <2>3. QED BY <1>1, <2>1, <2>2 DEF Session!EndSession
<1>7. QED BY <1>1, <1>2, <1>3, <1>4, <1>5, <1>6, RequestMoves

\* A 401: the request joins the one refresh, or it was sent twice and ends the session.
LEMMA RefuseKeeps == ASSUME Session!SessionAssumption, Session!IInv, NEW r \in Requests,
                            NEW c \in {"expired", "required"}, Session!Refuse(r, c)
  PROVE Session!IInv'
<1> PICK q \in Session!Rows : q = req[r]
  BY RequestIsSound
<1>1. /\ Session!RunsFit(q) /\ Session!TokensFit(q) /\ Session!SessionTyped
      /\ q.at \in {"sent", "resent"}
      /\ UNCHANGED <<dead, left>>
  BY RequestIsSound DEF Session!Refuse
<1>2. /\ faults' \in 0..MaxFaults /\ faults' >= faults /\ (c = "required" => faults' > 0)
      /\ c = "expired" => q.tok \in dead \cup {Session!None}
  BY <1>1 DEF Session!Refuse, Session!Fault, Session!SessionTyped, Session!SessionAssumption
<1>3. CASE q.at = "resent"
  <2>1. Session!EndsWith(r, "ended")
    BY <1>3 DEF Session!Refuse
  <2>2. left \/ faults' > 0
    BY <1>1, <1>2, <1>3 DEF Session!TokensFit, Session!Rows, Session!Blame, Session!SessionTyped
  <2>3. QED BY <1>1, <1>2, <2>1, <2>2, EndsKeep
<1>4. CASE q.at = "sent"
  <2>1. Session!RefreshOnce(r, q.tok, "http", c)
    BY <1>4 DEF Session!Refuse
  <2>2. QED BY <1>1, <1>2, <2>1, OnceKeeps DEF Session!RunsFit
<1>5. QED BY <1>1, <1>3, <1>4

\* Told what came of the refresh, a request ends or is sent once more.
LEMMA ResumeKeeps ==
  ASSUME Session!SessionAssumption, Session!IInv, NEW r \in Requests, Session!Resume(r)
  PROVE Session!IInv'
<1> PICK q \in Session!Rows : q = req[r]
  BY RequestIsSound
<1>1. /\ Session!RunsFit(q) /\ Session!TokensFit(q) /\ Session!SessionTyped
      /\ q.at \in {"renewed", "denied"}
      /\ UNCHANGED <<dead, left, faults>>
  BY RequestIsSound DEF Session!Resume
<1>2. CASE q.code = "required" \/ (q.at = "denied" /\ q.from = "stream")
  <2>1. Session!EndsWith(r, "ended") /\ Session!Blame
    BY <1>1, <1>2 DEF Session!Resume, Session!TokensFit, Session!Blame
  <2>2. QED BY <1>1, <2>1, EndsKeep DEF Session!Blame, Session!SessionTyped
<1>3. CASE ~(q.code = "required" \/ (q.at = "denied" /\ q.from = "stream"))
  <2> PICK x : x = IF q.at = "denied" THEN [q EXCEPT !.at = "ended"]
                   ELSE IF q.over THEN [q EXCEPT !.at = "gaveup"]
                   ELSE IF q.from = "http" THEN [q EXCEPT !.at = "resent", !.tok = tokens]
                   ELSE [q EXCEPT !.at = "sent", !.tok = tokens, !.attempt = 1]
    OBVIOUS
  <2>1. /\ req' = [req EXCEPT ![r] = x]
        /\ UNCHANGED <<Session!session, calls, refreshing, dead, left, faults>>
    BY <1>3, Zenon DEF Session!Resume, Session!Headers
  <2>2. x \in Session!Rows
    BY <1>1, RowEnds, RowSends DEF Session!SessionTyped
  <2>3. /\ q.code = "expired" /\ ~q.heard
        /\ (IF q.from = "http" THEN q.runs <= q.attempt ELSE q.attempt = 0)
    BY <1>1, <1>3 DEF Session!Rows, Session!RunsFit
  <2>4. Session!RunsFit(x)
    BY <1>1, <2>3 DEF Session!Rows, Session!RunsFit
  <2>5. Session!TokensFit(x)
    BY <1>1, <2>3 DEF Session!Rows, Session!TokensFit, Session!Blame, Session!SessionTyped
  <2>6. QED BY <1>1, <2>1, <2>2, <2>4, <2>5, OnlyMoves
<1>4. QED BY <1>2, <1>3

\* A token that expires under a stream: the person is asked, or the stream ends, or it is
\* sent again.
LEMMA StreamKeeps == ASSUME Session!SessionAssumption, Session!IInv, NEW r \in Requests,
                            Session!StreamExpired(r) \/ Session!StreamRequired(r)
  PROVE Session!IInv'
<1> PICK q \in Session!Rows : q = req[r]
  BY RequestIsSound
<1>1. /\ Session!RunsFit(q) /\ Session!TokensFit(q) /\ Session!SessionTyped /\ Session!OneCall
      /\ q.at = "reading"
      /\ UNCHANGED <<dead, left>>
  BY RequestIsSound DEF Session!StreamExpired, Session!StreamRequired, Session!Framed
<1>2. CASE Session!StreamRequired(r)
  <2>1. /\ Session!RefreshOnce(r, q.tok, "stream", "required") /\ faults < MaxFaults
        /\ faults' = faults + 1
    BY <1>2 DEF Session!StreamRequired, Session!Fault
  <2>2. faults' \in 0..MaxFaults /\ faults' > 0 /\ faults' >= faults
    BY <1>1, <2>1 DEF Session!SessionTyped, Session!SessionAssumption
  <2>3. QED BY <1>1, <2>1, <2>2, OnceKeeps
<1>3. CASE Session!StreamExpired(r)
  <2>1. q.used \in dead /\ faults' = faults
    BY <1>3 DEF Session!StreamExpired
  <2>2. faults' \in 0..MaxFaults /\ faults' >= faults
    BY <1>1, <2>1 DEF Session!SessionTyped
  <2>3. CASE ~q.heard /\ q.attempt = 0 /\ Session!RefreshOnce(r, q.tok, "stream", "expired")
    BY <1>1, <2>1, <2>2, <2>3, OnceKeeps
  <2>4. CASE q.attempt > 0 /\ Session!EndsWith(r, "ended")
    <3>1. left \/ faults' > 0
      BY <1>1, <2>1, <2>4 DEF Session!TokensFit, Session!Rows, Session!Blame, Session!SessionTyped
    <3>2. QED BY <1>1, <2>2, <2>4, <3>1, EndsKeep
  <2>5. CASE Session!End(r, "asked") /\ \/ UNCHANGED <<Session!session, calls, refreshing>>
                                        \/ /\ Session!RefreshNow /\ refreshing' = TRUE
                                           /\ UNCHANGED <<status, tokens, gen, timer, signedOut>>
    <3> PICK x : x = [q EXCEPT !.at = "asked"]
      OBVIOUS
    <3>1. x \in Session!Rows /\ req' = [req EXCEPT ![r] = x]
      BY <2>5, RowEnds DEF Session!End
    <3>2. Session!RunsFit(x) /\ Session!TokensFit(x)
      BY <1>1 DEF Session!Rows, Session!RunsFit, Session!TokensFit
    <3>3. UNCHANGED <<status, tokens, gen, timer, signedOut>>
      BY <2>5
    <3>4. Session!OneCall' /\ inflight' \in BOOLEAN
      <4>1. CASE Session!RefreshNow
        BY <1>1, <3>3, <4>1, RefreshIsOne
      <4>2. CASE UNCHANGED <<Session!session, calls, refreshing>>
        BY <1>1, <4>2 DEF Session!OneCall, Session!SessionTyped
      <4>3. QED BY <2>5, <4>1, <4>2
    <3>5. refreshing' \in BOOLEAN /\ (refreshing => refreshing')
      <4>1. refreshing' = refreshing \/ refreshing' = TRUE
        BY <2>5
      <4>2. refreshing \in BOOLEAN
        BY <1>1 DEF Session!SessionTyped
      <4>3. CASE refreshing' = refreshing
        BY <4>2, <4>3
      <4>4. CASE refreshing' = TRUE
        BY <4>4
      <4>5. QED BY <4>1, <4>3, <4>4
    <3>6. Session!SessionTyped' /\ SessionLater
      BY <1>1, <2>1, <3>3, <3>4, <3>5 DEF Session!SessionTyped, SessionLater, TokensLater
    <3>7. Session!TokensFit(x)'
      BY <1>1, <3>1, <3>2, <3>6, FitStays DEF SessionLater
    <3>8. status # "signing" /\ (status = "out" => Session!Blame')
      BY <1>1, <2>1, RequestUnderWay DEF Session!Blame
    <3>9. QED BY <3>1, <3>2, <3>3, <3>4, <3>6, <3>7, <3>8, RequestMoves
  <2>6. QED BY <1>3, <2>3, <2>4, <2>5 DEF Session!StreamExpired, Session!ContentDelivered
<1>4. QED BY <1>2, <1>3

-----------------------------------------------------------------------------
(* The steps of the Session!session. *)

\* A step of the session that leaves every request where it is keeps the invariant.
LEMMA SessionRests ==
  ASSUME Session!IInv, Session!SessionTyped', Session!OneCall', SessionLater, UNCHANGED req,
         status' = status \/ (status' = "out" /\ Session!Blame'), signedOut' = signedOut
  PROVE Session!IInv'
<1>1. Session!RequestsTyped' /\ Session!AllFit'
  BY NoneMovesOn DEF Session!IInv
<1>2. Session!Blame => Session!Blame'
  BY DEF SessionLater, TokensLater, Session!Blame
<1>3. Session!OutIsBlamed'
  BY <1>2 DEF Session!IInv, Session!OutIsBlamed
<1>4. Session!KeptUnlessRefused'
  BY DEF Session!IInv, Session!KeptUnlessRefused, SessionLater, TokensLater
<1>5. QED BY <1>1, <1>3, <1>4 DEF Session!IInv

LEMMA RenewsKeeps == ASSUME Session!IInv, Session!Renews PROVE Session!IInv'
<1>1. Session!RefreshNow /\ timer' = FALSE
      /\ UNCHANGED <<status, tokens, gen, signedOut, refreshing, req, dead, left, faults>>
  BY DEF Session!Renews
<1>2. Session!OneCall' /\ inflight' = TRUE
  BY <1>1, RefreshIsOne
<1>3. Session!SessionTyped /\ timer' \in BOOLEAN /\ inflight' \in BOOLEAN
  BY <1>1, <1>2, Zenon DEF Session!IInv
<1>4. Session!SessionTyped' /\ SessionLater
  BY <1>1, <1>3 DEF Session!SessionTyped, SessionLater, TokensLater
<1>5. QED BY <1>1, <1>2, <1>4, SessionRests

LEMMA SignOutKeeps == ASSUME Session!IInv, Session!SignOut PROVE Session!IInv'
<1>1. /\ status' = "out" /\ tokens' = Session!None /\ gen' = gen + 1
      /\ inflight' = FALSE /\ timer' = FALSE
      /\ left' = TRUE /\ UNCHANGED <<signedOut, calls, refreshing, req, dead, faults>>
  BY DEF Session!SignOut, Session!SignedOut
<1>2. Session!SessionTyped /\ Session!OneCall
  BY DEF Session!IInv
<1>3. timer' \in BOOLEAN /\ inflight' \in BOOLEAN /\ left' \in BOOLEAN /\ (left => left') /\ left'
  BY <1>1, Zenon
<1>4. gen' \in Nat /\ gen' # 0
  BY <1>1, <1>2 DEF Session!SessionTyped
<1>5. Session!SessionTyped'
  BY <1>1, <1>2, <1>3, <1>4 DEF Session!SessionTyped
<1>6. Session!OneCall'
  BY <1>1, <1>2, <1>4 DEF Session!OneCall
<1>7. SessionLater /\ Session!Blame'
  BY <1>1, <1>3 DEF SessionLater, TokensLater, Session!Blame
<1>8. QED BY <1>1, <1>5, <1>6, <1>7, SessionRests

\* Signing in sends nothing and finds nothing sent.
LEMMA SignInKeeps ==
  ASSUME Session!SessionAssumption, Session!IInv, Session!SignIn
  PROVE Session!IInv'
<1>1. /\ status = "signing" /\ gen = 0 /\ Session!SessionTyped /\ Session!OneCall
      /\ Session!RequestsTyped /\ Session!AllFit
      /\ \A r \in Requests : req[r].at = "idle"
      /\ UNCHANGED <<signedOut, calls, refreshing, req, dead, left, faults>>
  BY DEF Session!SignIn, Session!IInv, Session!OutIsBlamed, Session!OneCall, Session!ApplyTokens,
     Session!SignedOut
<1>2. \/ status' = "in" /\ tokens' = 1 /\ timer' = TRUE /\ UNCHANGED <<gen, inflight>>
      \/ /\ status' = "out" /\ tokens' = Session!None /\ gen' = gen + 1
         /\ inflight' = FALSE /\ timer' = FALSE
  BY DEF Session!SignIn, Session!ApplyTokens, Session!SignedOut
<1>3. timer' \in BOOLEAN /\ inflight' \in BOOLEAN
  BY <1>1, <1>2, Zenon DEF Session!SessionTyped
<1>4. gen' \in Nat /\ tokens' \in Session!Tokens \cup {Session!None}
  BY <1>1, <1>2 DEF Session!SessionTyped, Session!SessionAssumption
<1>5. Session!SessionTyped'
  BY <1>1, <1>2, <1>3, <1>4 DEF Session!SessionTyped
<1>6. Session!OneCall'
  BY <1>1, <1>2 DEF Session!OneCall
<1>7. Session!RequestsTyped' /\ Session!OutIsBlamed' /\ Session!KeptUnlessRefused'
  BY <1>1, <1>2 DEF Session!RequestsTyped, Session!OutIsBlamed, Session!KeptUnlessRefused,
     Session!IInv
<1>8. Session!AllFit'
  <2>1. ASSUME NEW r \in Requests PROVE Session!RunsFit(req[r])' /\ Session!TokensFit(req[r])'
    <3>1. Session!RunsFit(req[r]) /\ Session!TokensFit(req[r]) /\ req[r].at = "idle" /\ req' = req
      BY <1>1 DEF Session!AllFit
    <3>2. QED BY <1>1, <3>1 DEF Session!RunsFit, Session!TokensFit, Session!Blame
  <2>2. QED BY <2>1 DEF Session!AllFit
<1>9. QED BY <1>5, <1>6, <1>7, <1>8 DEF Session!IInv

\* A token expires under no request that began with a later one.
LEMMA TokenExpireKeeps ==
  ASSUME Session!IInv, NEW t \in Session!Tokens, Session!Expire(t)
  PROVE Session!IInv'
<1>1. /\ tokens # Session!None /\ t <= tokens /\ dead' = dead \cup {t}
      /\ \A r \in Requests : req[r].at \in Session!Wire \cup Session!Waits => req[r].first >= t
      /\ UNCHANGED <<Session!session, calls, refreshing, req, left, faults>>
  BY DEF Session!Expire
<1>2. Session!SessionTyped /\ Session!OneCall /\ Session!RequestsTyped /\ Session!AllFit
  BY DEF Session!IInv
<1>3. Session!SessionTyped'
  BY <1>1, <1>2 DEF Session!SessionTyped
<1>4. Session!OneCall'
  BY <1>1, <1>2 DEF Session!OneCall
<1>5. Session!RequestsTyped' /\ Session!OutIsBlamed' /\ Session!KeptUnlessRefused'
  BY <1>1 DEF Session!IInv, Session!RequestsTyped, Session!OutIsBlamed, Session!KeptUnlessRefused,
     Session!Blame
<1>6. Session!AllFit'
  <2>1. ASSUME NEW r \in Requests PROVE Session!RunsFit(req[r])' /\ Session!TokensFit(req[r])'
    <3>1. Session!RunsFit(req[r]) /\ Session!TokensFit(req[r]) /\ req' = req
      BY <1>1, <1>2 DEF Session!AllFit
    <3>2. req[r].at \in Session!Wire \cup Session!Waits => req[r].first >= t
      BY <1>1
    <3>3. QED BY <1>1, <3>1, <3>2 DEF Session!RunsFit, Session!TokensFit, Session!Blame
  <2>2. QED BY <2>1 DEF Session!AllFit
<1>7. QED BY <1>3, <1>4, <1>5, <1>6 DEF Session!IInv

-----------------------------------------------------------------------------
(* The end of a refresh. *)

\* An answer that counts finds a page signed in; another finds one that is signed out.
LEMMA LastCall == ASSUME Session!IInv, calls # <<>>
  PROVE /\ Tail(calls) = <<>>
        /\ Session!AnswerCounts => status = "in" /\ gen = 0 /\ tokens # Session!None
        /\ ~Session!AnswerCounts => status = "out" /\ tokens = Session!None /\ ~inflight
<1>1. calls = <<0>> /\ Session!OneCall
  BY DEF Session!IInv, Session!OneCall
<1>2. Head(calls) = 0 /\ Tail(calls) = <<>>
  BY <1>1
<1>3. Session!SessionTyped
  BY DEF Session!IInv
<1>4. QED BY <1>1, <1>2, <1>3 DEF Session!AnswerCounts, Session!OneCall, Session!SessionTyped

\* Whoever waited for the refresh fits what it brought.
LEMMA TellsAll ==
  ASSUME Session!IInv, Session!SessionTyped', TokensLater, req' = Session!Told,
         \/ Session!Blame'
         \/ tokens # Session!None /\ tokens' > tokens
         \/ \A r \in Requests : req[r].at = "idle"
  PROVE Session!RequestsTyped' /\ Session!AllFit'
<1>1. Session!SessionTyped /\ Session!RequestsTyped /\ Session!AllFit /\ Session!OutIsBlamed
  BY DEF Session!IInv
<1>2. ASSUME NEW r \in Requests
      PROVE req'[r] \in Session!Rows /\ Session!RunsFit(req'[r]) /\ Session!TokensFit(req[r])'
  <2> PICK q \in Session!Rows : q = req[r]
    BY <1>1 DEF Session!RequestsTyped
  <2>1. Session!RunsFit(q) /\ Session!TokensFit(q)
    BY <1>1 DEF Session!AllFit
  <2>2. CASE q.at # "waiting"
    <3>1. req'[r] = q
      BY <1>1, <2>2 DEF Session!Told, Session!RequestsTyped
    <3>2. Session!TokensFit(q)'
      BY <1>1, <2>1, <2>2, FitStays
    <3>3. QED BY <2>1, <3>1, <3>2 DEF Session!TokensFit, Session!Blame
  <2>3. CASE q.at = "waiting"
    <3> PICK a : a = IF tokens' # Session!None THEN "renewed" ELSE "denied"
      OBVIOUS
    <3> PICK x : x = [q EXCEPT !.at = a]
      OBVIOUS
    <3>1. req'[r] = x
      <4>1. refreshing
        BY <2>1, <2>3 DEF Session!TokensFit
      <4>2. req'[r] = IF req[r].at = "waiting"
                      THEN [req[r] EXCEPT !.at = IF tokens' # Session!None THEN "renewed" ELSE "denied"]
                      ELSE req[r]
        BY <4>1, Zenon DEF Session!Told
      <4>3. QED BY <2>3, <4>2
    <3>2. x \in Session!Rows
      BY RowEnds
    <3>3. Session!RunsFit(x)
      BY <2>1, <2>3 DEF Session!Rows, Session!RunsFit
    <3>4. /\ x.at = a /\ x.from = q.from /\ x.code = q.code /\ x.tok = q.tok /\ x.first = q.first
          /\ x.used = q.used /\ x.attempt = q.attempt
      BY DEF Session!Rows
    <3>5. Session!TokensFit(x)'
      BY <1>1, <2>1, <2>3, <3>4 DEF Session!TokensFit, Session!Rows, Session!Blame,
         Session!SessionTyped, TokensLater
    <3>6. QED BY <3>1, <3>2, <3>3, <3>5 DEF Session!TokensFit, Session!Blame
  <2>4. QED BY <2>2, <2>3
<1>3. req' \in [Requests -> Session!Rows]
  <2>1. req' = [r \in Requests |-> req'[r]]
    <3>1. CASE refreshing
      BY <3>1, Zenon DEF Session!Told
    <3>2. CASE ~refreshing
      BY <1>1, <3>2 DEF Session!Told, Session!RequestsTyped
    <3>3. QED BY <3>1, <3>2
  <2>2. QED BY <1>2, <2>1
<1>4. QED BY <1>2, <1>3 DEF Session!RequestsTyped, Session!AllFit, Session!RunsFit

\* How a refresh ends keeps the invariant, once the session's own part is settled.
LEMMA AnswerKeeps ==
  ASSUME Session!IInv, Session!SessionTyped', Session!OneCall', TokensLater, req' = Session!Told,
         \/ Session!Blame'
         \/ tokens # Session!None /\ tokens' > tokens
         \/ \A r \in Requests : req[r].at = "idle",
         status' = status \/ (status' = "out" /\ Session!Blame'), status # "signing",
         signedOut' = signedOut
  PROVE Session!IInv'
<1>1. Session!RequestsTyped' /\ Session!AllFit'
  BY TellsAll
<1>2. Session!Blame => Session!Blame'
  BY DEF TokensLater, Session!Blame
<1>3. Session!OutIsBlamed'
  <2>1. CASE Session!Blame'
    BY <2>1 DEF Session!OutIsBlamed
  <2>2. CASE tokens # Session!None /\ tokens' > tokens
    BY <2>2 DEF Session!OutIsBlamed, Session!IInv, Session!OneCall
  <2>3. CASE \A r \in Requests : req[r].at = "idle"
    BY <2>3 DEF Session!OutIsBlamed, Session!Told
  <2>4. QED BY <2>1, <2>2, <2>3
<1>4. Session!KeptUnlessRefused'
  BY DEF Session!IInv, Session!KeptUnlessRefused, TokensLater
<1>5. QED BY <1>1, <1>3, <1>4 DEF Session!IInv

LEMMA RenewedKeeps ==
  ASSUME Session!SessionAssumption, Session!IInv, Session!Renewed
  PROVE Session!IInv'
<1>1. Session!SessionTyped /\ Session!OneCall /\ Session!OutIsBlamed /\ status # "signing"
  BY DEF Session!IInv, Session!Renewed, Session!OneCall
<1>2. /\ calls' = <<>> /\ refreshing' = FALSE /\ req' = Session!Told
      /\ UNCHANGED <<dead, left, faults>>
  BY LastCall DEF Session!Renewed, Session!Answered
<1>3. CASE Session!AnswerCounts
  <2>1. /\ status' = "in" /\ tokens' = tokens + 1 /\ tokens < MaxTokens /\ timer' = TRUE
        /\ inflight' = FALSE /\ UNCHANGED <<gen, signedOut>>
    BY <1>3 DEF Session!Renewed, Session!ApplyTokens
  <2>2. status = "in" /\ gen = 0 /\ tokens # Session!None
    BY <1>3, LastCall DEF Session!Renewed
  <2>3. timer' \in BOOLEAN /\ inflight' \in BOOLEAN /\ refreshing' \in BOOLEAN
    BY <1>2, <2>1, Zenon
  <2>4. Session!SessionTyped' /\ tokens' > tokens
    BY <1>1, <1>2, <2>1, <2>2, <2>3 DEF Session!SessionTyped, Session!SessionAssumption
  <2>5. Session!OneCall'
    BY <1>1, <1>2, <2>1, <2>2 DEF Session!OneCall, Session!SessionTyped
  <2>6. TokensLater
    BY <1>2, <2>2, <2>4 DEF TokensLater
  <2>7. QED BY <1>1, <1>2, <2>1, <2>2, <2>4, <2>5, <2>6, AnswerKeeps
<1>4. CASE ~Session!AnswerCounts
  <2>1. UNCHANGED <<status, tokens, gen, inflight, timer, signedOut>>
    BY <1>4 DEF Session!Renewed
  <2>2. status = "out" /\ tokens = Session!None /\ ~inflight
    BY <1>4, LastCall DEF Session!Renewed
  <2>3. refreshing' \in BOOLEAN
    BY <1>2, Zenon
  <2>4. Session!SessionTyped'
    BY <1>1, <1>2, <2>1, <2>3 DEF Session!SessionTyped
  <2>5. Session!OneCall'
    BY <1>1, <1>2, <2>1, <2>2 DEF Session!OneCall
  <2>6. TokensLater
    BY <1>2, <2>1 DEF TokensLater
  <2>7. Session!Blame' \/ \A r \in Requests : req[r].at = "idle"
    BY <1>1, <1>2, <2>2 DEF Session!OutIsBlamed, Session!Blame
  <2>8. QED BY <1>1, <1>2, <2>1, <2>2, <2>4, <2>5, <2>6, <2>7, AnswerKeeps
<1>5. QED BY <1>3, <1>4

LEMMA FailsKeeps ==
  ASSUME Session!SessionAssumption, Session!IInv, NEW refused \in BOOLEAN,
         Session!RefreshFails(refused)
  PROVE Session!IInv'
<1>1. Session!SessionTyped /\ Session!OneCall /\ Session!OutIsBlamed /\ status # "signing"
  BY DEF Session!IInv, Session!RefreshFails, Session!OneCall
<1>2. /\ calls' = <<>> /\ refreshing' = FALSE /\ req' = Session!Told /\ UNCHANGED <<dead, left>>
      /\ faults < MaxFaults /\ faults' = faults + 1
  BY LastCall DEF Session!RefreshFails, Session!Answered, Session!Fault
<1>3. faults' \in 0..MaxFaults /\ faults' > 0 /\ Session!Blame'
  BY <1>1, <1>2 DEF Session!SessionTyped, Session!SessionAssumption, Session!Blame
<1>4. refreshing' \in BOOLEAN
  BY <1>2, Zenon
<1>5. CASE UNCHANGED <<status, tokens, gen, inflight, timer, signedOut>> /\ ~inflight
  <2>1. Session!SessionTyped'
    BY <1>1, <1>2, <1>3, <1>4, <1>5 DEF Session!SessionTyped
  <2>2. Session!OneCall'
    BY <1>1, <1>2, <1>5 DEF Session!OneCall
  <2>3. TokensLater
    BY <1>2, <1>3, <1>5 DEF TokensLater
  <2>4. QED BY <1>1, <1>2, <1>3, <1>5, <2>1, <2>2, <2>3, AnswerKeeps
<1>6. CASE Session!SignedOut /\ UNCHANGED signedOut
  <2>1. /\ status' = "out" /\ tokens' = Session!None /\ gen' = gen + 1
        /\ inflight' = FALSE /\ timer' = FALSE
        /\ signedOut' = signedOut
    BY <1>6 DEF Session!SignedOut
  <2>2. timer' \in BOOLEAN /\ inflight' \in BOOLEAN
    BY <2>1, Zenon
  <2>3. gen' \in Nat /\ gen' # 0
    BY <1>1, <2>1 DEF Session!SessionTyped
  <2>4. Session!SessionTyped'
    BY <1>1, <1>2, <1>3, <1>4, <2>1, <2>2, <2>3 DEF Session!SessionTyped
  <2>5. Session!OneCall'
    BY <1>2, <2>1, <2>3 DEF Session!OneCall
  <2>6. TokensLater
    BY <1>2, <1>3, <2>1 DEF TokensLater
  <2>7. QED BY <1>1, <1>2, <1>3, <2>1, <2>4, <2>5, <2>6, AnswerKeeps
<1>7. CASE Session!Retry /\ inflight' = FALSE /\ UNCHANGED <<status, tokens, gen, signedOut>>
  <2>1. timer' \in BOOLEAN /\ inflight' \in BOOLEAN
    BY <1>7, Zenon DEF Session!Retry
  <2>2. Session!SessionTyped'
    BY <1>1, <1>2, <1>3, <1>4, <1>7, <2>1 DEF Session!SessionTyped
  <2>3. Session!OneCall'
    BY <1>1, <1>2, <1>7 DEF Session!OneCall
  <2>4. TokensLater
    BY <1>2, <1>3, <1>7 DEF TokensLater
  <2>5. QED BY <1>1, <1>2, <1>3, <1>7, <2>2, <2>3, <2>4, AnswerKeeps
<1>8. ~Session!AnswerCounts
        => ~inflight /\ UNCHANGED <<status, tokens, gen, inflight, timer, signedOut>>
  BY LastCall DEF Session!RefreshFails
<1>9. QED BY <1>5, <1>6, <1>7, <1>8 DEF Session!RefreshFails

-----------------------------------------------------------------------------
LEMMA SessionStep ==
  ASSUME Session!SessionAssumption, Session!IInv, [Session!Next]_(Session!vars)
  PROVE Session!IInv'
<1>1. CASE Session!SignIn
  BY <1>1, SignInKeeps
<1>2. CASE Session!TimerFires \/ Session!TabShown
  BY <1>2, RenewsKeeps DEF Session!TimerFires, Session!TabShown
<1>3. CASE Session!SignOut
  BY <1>3, SignOutKeeps
<1>4. CASE Session!Renewed
  BY <1>4, RenewedKeeps
<1>5. CASE \E refused \in BOOLEAN : Session!RefreshFails(refused)
  BY <1>5, FailsKeeps
<1>6. ASSUME NEW r \in Requests, Session!Works(r) PROVE Session!IInv'
  BY <1>6, SendKeeps, AcceptKeeps, ResumeKeeps, RefuseKeeps, FramesKeep, StreamKeeps DEF
     Session!Works
<1>7. CASE \E t \in 1..MaxTokens : Session!Expire(t)
  BY <1>7, TokenExpireKeeps
<1>8. CASE UNCHANGED Session!vars
  <2>1. /\ Session!SessionTyped' /\ Session!OneCall' /\ Session!OutIsBlamed'
        /\ Session!RequestsTyped' /\ Session!KeptUnlessRefused'
    BY <1>8 DEF Session!vars, Session!IInv, Session!SessionTyped, Session!OneCall,
       Session!OutIsBlamed, Session!RequestsTyped, Session!KeptUnlessRefused, Session!Blame
  <2>2. Session!AllFit'
    BY <1>8 DEF Session!vars, Session!IInv, Session!AllFit, Session!RunsFit, Session!TokensFit,
       Session!Blame
  <2>3. QED BY <2>1, <2>2 DEF Session!IInv
<1>9. QED BY <1>1, <1>2, <1>3, <1>4, <1>5, <1>6, <1>7, <1>8 DEF Session!Next

LEMMA SessionInit == ASSUME Session!SessionAssumption, Session!Init PROVE Session!IInv
<1>1. req \in [Requests -> Session!Rows] /\ \A r \in Requests : req[r] = Session!Idle
  BY IdleIsRow DEF Session!Init
<1>2. Session!SessionTyped
  <2>1. inflight \in BOOLEAN /\ timer \in BOOLEAN /\ refreshing \in BOOLEAN /\ signedOut \in BOOLEAN
        /\ left \in BOOLEAN
    BY Zenon DEF Session!Init
  <2>2. QED BY <2>1 DEF Session!Init, Session!SessionTyped, Session!SessionAssumption
<1>3. Session!OneCall
  BY DEF Session!Init, Session!OneCall
<1>4. Session!OutIsBlamed /\ Session!KeptUnlessRefused
  BY <1>1 DEF Session!Init, Session!OutIsBlamed, Session!KeptUnlessRefused, Session!Idle
<1>5. Session!AllFit
  <2>1. ASSUME NEW r \in Requests PROVE Session!RunsFit(req[r]) /\ Session!TokensFit(req[r])
    <3>1. req[r] = Session!Idle
      BY <1>1
    <3>2. Session!RunsFit(Session!Idle) /\ Session!TokensFit(Session!Idle)
      BY DEF Session!RunsFit, Session!TokensFit, Session!Idle
    <3>3. QED BY <3>1, <3>2
  <2>2. QED BY <2>1 DEF Session!AllFit
<1>6. QED BY <1>1, <1>2, <1>3, <1>4, <1>5 DEF Session!IInv, Session!RequestsTyped

SessionPromise == Session!TypeOK /\ Session!OneRefresh /\ Session!KeptUnlessRefused

LEMMA SessionSays == ASSUME Session!IInv PROVE SessionPromise
<1>1. Session!TypeOK
  <2>1. ASSUME NEW r \in Requests
        PROVE /\ req[r].at \in {"idle"} \cup Session!Wire \cup Session!Waits \cup Session!Ends
              /\ req[r].runs \in 0..2
    BY DEF Session!IInv, Session!RequestsTyped, Session!Rows
  <2>2. QED BY <2>1 DEF Session!IInv, Session!SessionTyped, Session!OneCall, Session!TypeOK
<1>2. Session!OneRefresh
  <2>1. calls = <<>> \/ calls = <<0>>
    BY DEF Session!IInv, Session!OneCall
  <2>2. Len(calls) = 0 \/ Len(calls) = 1
    BY <2>1
  <2>3. QED BY <2>2 DEF Session!OneRefresh
<1>3. QED BY <1>1, <1>2 DEF SessionPromise, Session!IInv

\* A step of a request moves its own row, and only Accept, of a request under way, adds a run.
LEMMA OwnRow == ASSUME Session!IInv, NEW s \in Requests, Session!Works(s)
  PROVE \E x : /\ req' = [req EXCEPT ![s] = x]
               /\ req[s].at \in {"sent", "resent"} \/ x.runs <= req[s].runs
<1> PICK q \in Session!Rows : q = req[s]
  BY RequestIsSound
<1>0. q.runs \in 0..2
  BY DEF Session!Rows
<1>1. CASE Session!Send(s)
  <2> PICK x : x = [Session!Idle EXCEPT !.at = "sent", !.tok = tokens, !.first = tokens]
    OBVIOUS
  <2>1. req' = [req EXCEPT ![s] = x] /\ x.runs = 0
    BY <1>1 DEF Session!Send, Session!Idle
  <2>2. x.runs <= q.runs
    BY <1>0, <2>1
  <2>3. QED BY <2>1, <2>2, Zenon
<1>2. CASE Session!Accept(s)
  <2>1. q.at \in {"sent", "resent"} /\ \E x : req' = [req EXCEPT ![s] = x]
    BY <1>2, Zenon DEF Session!Accept
  <2>2. QED BY <2>1
<1>3. ASSUME NEW how, Session!End(s, how)
      PROVE \E x : req' = [req EXCEPT ![s] = x] /\ x.runs <= q.runs
  <2> PICK x : x = [q EXCEPT !.at = how]
    OBVIOUS
  <2>1. req' = [req EXCEPT ![s] = x] /\ x.runs = q.runs
    BY <1>3 DEF Session!End, Session!Rows
  <2>2. x.runs <= q.runs
    BY <1>0, <2>1
  <2>3. QED BY <2>1, <2>2, Zenon
<1>4. ASSUME NEW tok, NEW f, NEW c, Session!RefreshOnce(s, tok, f, c)
      PROVE \E x : req' = [req EXCEPT ![s] = x] /\ x.runs <= q.runs
  <2>1. PICK a : req' = [req EXCEPT ![s] = [q EXCEPT !.at = a, !.from = f, !.code = c]]
    BY <1>4, Zenon DEF Session!RefreshOnce
  <2> PICK x : x = [q EXCEPT !.at = a, !.from = f, !.code = c]
    OBVIOUS
  <2>2. req' = [req EXCEPT ![s] = x] /\ x.runs = q.runs
    BY <2>1 DEF Session!Rows
  <2>3. x.runs <= q.runs
    BY <1>0, <2>2
  <2>4. QED BY <2>2, <2>3, Zenon
<1>5. CASE Session!Resume(s)
  <2>1. CASE Session!EndsWith(s, "ended")
    BY <1>3, <2>1 DEF Session!EndsWith
  <2>2. CASE ~Session!EndsWith(s, "ended")
    <3> PICK x : x = IF q.at = "denied" THEN [q EXCEPT !.at = "ended"]
                     ELSE IF q.over THEN [q EXCEPT !.at = "gaveup"]
                     ELSE IF q.from = "http" THEN [q EXCEPT !.at = "resent", !.tok = tokens]
                     ELSE [q EXCEPT !.at = "sent", !.tok = tokens, !.attempt = 1]
      OBVIOUS
    <3>1. req' = [req EXCEPT ![s] = x]
      BY <1>5, <2>2, Zenon DEF Session!Resume, Session!Headers
    <3>2. x.runs = q.runs
      BY DEF Session!Rows
    <3>3. x.runs <= q.runs
      BY <1>0, <3>2
    <3>4. QED BY <3>1, <3>3, Zenon
  <2>3. QED BY <2>1, <2>2
<1>6. ASSUME NEW c \in {"expired", "required"}, Session!Refuse(s, c)
      PROVE \E x : req' = [req EXCEPT ![s] = x] /\ x.runs <= q.runs
  BY <1>3, <1>4, <1>6 DEF Session!Refuse, Session!EndsWith
<1>7. CASE Session!Greet(s) \/ Session!Speak(s) \/ Session!GiveUp(s)
  <2>1. PICK x : /\ req' = [req EXCEPT ![s] = x]
                 /\ \/ x = [q EXCEPT !.heard = TRUE]
                    \/ x = [q EXCEPT !.heard = TRUE, !.spoke = TRUE]
                    \/ x = [q EXCEPT !.at = "gaveup"]
                    \/ x = [q EXCEPT !.over = TRUE]
    BY <1>7, Zenon DEF Session!Greet, Session!Speak, Session!GiveUp
  <2>2. x.runs = q.runs
    BY <2>1 DEF Session!Rows
  <2>3. x.runs <= q.runs
    BY <1>0, <2>2
  <2>4. QED BY <2>1, <2>3, Zenon
<1>8. CASE Session!Complete(s)
  BY <1>3, <1>8 DEF Session!Complete
<1>9. CASE Session!StreamExpired(s) \/ Session!StreamRequired(s)
  BY <1>3, <1>4, <1>9 DEF Session!StreamExpired, Session!StreamRequired, Session!EndsWith
<1>10. QED BY <1>1, <1>2, <1>5, <1>6, <1>7, <1>8, <1>9 DEF Session!Works

\* Only Accept adds a run, and a request may be sent only while no run was heard.
LEMMA SessionMoves ==
  ASSUME Session!SessionAssumption, Session!IInv, [Session!Next]_(Session!vars)
  PROVE Session!StaysOut /\ Session!RunsAgain
<1>1. Session!StaysOut
  <2>1. SUFFICES ASSUME status = "out" PROVE status' = "out"
    BY DEF Session!StaysOut
  <2>2. tokens = Session!None /\ gen # 0
    BY <2>1 DEF Session!IInv, Session!OneCall
  <2>3. CASE Session!Renewed
    BY <2>1, <2>3, LastCall DEF Session!Renewed
  <2>4. ASSUME NEW refused \in BOOLEAN, Session!RefreshFails(refused) PROVE status' = "out"
    BY <2>1, <2>4, LastCall DEF Session!RefreshFails
  <2>5. ASSUME NEW r \in Requests, Session!Works(r) PROVE status' = "out"
    BY <2>1, <2>2, <2>5 DEF Session!Works, Session!Send, Session!Accept, Session!Resume,
       Session!EndsWith, Session!EndSession, Session!SignedOut, Session!Refuse,
       Session!RefreshOnce, Session!Greet, Session!Speak, Session!Complete, Session!StreamExpired,
       Session!StreamRequired, Session!GiveUp
  <2>6. CASE Session!SignIn \/ Session!TimerFires \/ Session!TabShown \/ Session!SignOut
    BY <2>1, <2>6 DEF Session!SignIn, Session!TimerFires, Session!TabShown, Session!SignOut,
       Session!Renews
  <2>7. CASE UNCHANGED Session!vars \/ \E t \in 1..MaxTokens : Session!Expire(t)
    BY <2>1, <2>7 DEF Session!vars, Session!Expire
  <2>8. QED BY <2>3, <2>4, <2>5, <2>6, <2>7 DEF Session!Next
<1>2. Session!RunsAgain
  <2>1. SUFFICES ASSUME NEW r \in Requests, req'[r].runs > req[r].runs, req[r].runs > 0
                 PROVE ~req[r].heard /\ req[r].runs = 1
    BY DEF Session!RunsAgain
  <2> PICK q \in Session!Rows : q = req[r]
    BY RequestIsSound
  <2>2. Session!RunsFit(q) /\ q.runs \in 0..2 /\ q.attempt \in {0, 1}
    BY RequestIsSound DEF Session!Rows
  <2>3. CASE q.at \in {"sent", "resent"}
    BY <2>1, <2>2, <2>3 DEF Session!RunsFit
  <2>4. CASE q.at \notin {"sent", "resent"}
    <3>0. req' \in [Requests -> Session!Rows] /\ req \in [Requests -> Session!Rows]
      BY SessionStep DEF Session!IInv, Session!RequestsTyped
    <3>1. req'[r].runs <= q.runs
      <4>1. ASSUME NEW s \in Requests, Session!Works(s) PROVE req'[r].runs <= q.runs
        <5>1. PICK x : /\ req' = [req EXCEPT ![s] = x]
                       /\ req[s].at \in {"sent", "resent"} \/ x.runs <= req[s].runs
          BY <4>1, OwnRow
        <5>2. CASE s = r
          BY <2>4, <3>0, <5>1, <5>2
        <5>3. CASE s # r
          BY <2>2, <3>0, <5>1, <5>3
        <5>4. QED BY <5>2, <5>3
      <4>2. CASE req' = Session!Told
        <5>1. \/ req'[r] = q \/ req'[r] = [q EXCEPT !.at = "renewed"]
              \/ req'[r] = [q EXCEPT !.at = "denied"]
          BY <4>2, Zenon DEF Session!Told
        <5>2. req'[r].runs = q.runs
          BY <5>1 DEF Session!Rows
        <5>3. QED BY <2>2, <5>2
      <4>3. CASE req' = req
        BY <2>2, <4>3
      <4>4. QED BY <4>1, <4>2, <4>3 DEF Session!Next, Session!SignIn, Session!TimerFires,
                   Session!TabShown, Session!Renews, Session!SignOut, Session!Renewed,
                   Session!RefreshFails, Session!Answered, Session!Expire, Session!vars
    <3>2. req'[r].runs \in 0..2
      BY <3>0 DEF Session!Rows
    <3>3. QED BY <2>1, <2>2, <3>1, <3>2
  <2>5. QED BY <2>3, <2>4
<1>3. QED BY <1>1, <1>2

\* One refresh serves every request that was refused, nothing ends the session but the
\* person, a refusal or a fault, an ended session is not brought back by an answer under
\* way, and a stream whose answer was heard is not run again (auth/session.ts, api/request.ts).
THEOREM SessionKept ==
  ASSUME Session!SessionAssumption
  PROVE Session!Spec => /\ []SessionPromise
                        /\ [][Session!StaysOut]_(Session!vars)
                        /\ [][Session!RunsAgain]_(Session!vars)
<1>1. Session!Init => Session!IInv
  BY SessionInit
<1>2. Session!IInv /\ [Session!Next]_(Session!vars) => Session!IInv'
  BY SessionStep
<1>3. Session!IInv => SessionPromise
  BY SessionSays
<1>4. Session!IInv /\ [Session!Next]_(Session!vars)
        => [Session!StaysOut]_(Session!vars) /\ [Session!RunsAgain]_(Session!vars)
  BY SessionMoves
<1>5. QED BY <1>1, <1>2, <1>3, <1>4, PTL DEF Session!Spec

-----------------------------------------------------------------------------
(* What the memory keeps of a traveler. *)

CONSTANTS DisplayLimit, GovernanceLimit, Initial, Signals, Changes, MaxWrites, MaxRequests, Reliable
VARIABLES rows, clock, edited, forgotten, phase, enabled, facts, preview, ceiling, asof, reading,
          refresh, edit, late, turn, last, asked, requests
Memory == INSTANCE TravelerMemory

USE DEF Memory!None, Memory!Nothing, Memory!Sent

MemoryPromise == Memory!TypeOK /\ Memory!EditWins /\ Memory!ForgottenIsGone /\ Memory!OneCeiling
                 /\ Memory!PutAwayStaysAway

\* What a reader takes of the rows is some of them, and a ceiling is an amount.
LEMMA TopIsOfRows == ASSUME NEW all, NEW n PROVE Memory!Top(all, n) \subseteq all
  BY DEF Memory!Top

LEMMA ContextIsOfRows == ASSUME NEW all PROVE Memory!InContext(all) \subseteq all
<1> DEFINE top == Memory!Top(all, DisplayLimit)
           budget == {r \in Memory!Top(all, GovernanceLimit) : r.key # "diet"}
<1>1. top \subseteq all /\ budget \subseteq all /\ Memory!Top(budget, 1) \subseteq budget
  BY TopIsOfRows
<1>2. Memory!InContext(all) =
         IF \E r \in top : r.key # "diet" THEN top ELSE top \union Memory!Top(budget, 1)
  BY DEF Memory!InContext
<1> HIDE DEF top, budget
<1>3. QED BY <1>1, <1>2

LEMMA CeilingIsAmount ==
  ASSUME NEW all \in SUBSET Memory!Kept
  PROVE Memory!Ceiling(all) \in Memory!Amounts
<1>1. Memory!Basis(all) \subseteq all
  BY DEF Memory!Basis, Memory!First
<1>2. CASE Memory!Basis(all) = {}
  BY <1>2 DEF Memory!Ceiling, Memory!Amounts
<1>3. CASE Memory!Basis(all) # {}
  <2>1. (CHOOSE r \in Memory!Basis(all) : TRUE) \in Memory!Basis(all)
    BY <1>3
  <2> QED BY <1>1, <1>3, <2>1 DEF Memory!Ceiling, Memory!Kept
<1>4. QED BY <1>2, <1>3

LEMMA ProfileIsTyped ==
  ASSUME Memory!TypeOK
  PROVE Memory!Profile \in Memory!Profiles /\ Memory!Profile.state = "answered"
                                            /\ Memory!Profile.asof = clock
                                            /\ Memory!Profile.ceiling \in Memory!Amounts
<1>1. rows \in SUBSET Memory!Kept /\ clock \in 0..MaxWrites
  BY DEF Memory!TypeOK, Memory!Kept
<1>2. Memory!Top(rows, DisplayLimit) \in SUBSET Memory!Kept
      /\ Memory!Top(rows, GovernanceLimit) \in SUBSET Memory!Kept
  BY <1>1, TopIsOfRows
<1>3. Memory!PageCeiling(rows) \in Memory!Amounts
  BY <1>2, CeilingIsAmount DEF Memory!PageCeiling
<1>4. QED BY <1>1, <1>2, <1>3 DEF Memory!Profile, Memory!Profiles

-----------------------------------------------------------------------------
\* What is as certain as an edit and later than it does not stand before it.
LEMMA EditIsFirst == ASSUME Memory!EditIsAbove, Memory!TypeOK PROVE Memory!EditWins
<1> SUFFICES ASSUME NEW k \in Memory!Keys, edited[k] # Memory!Nothing,
                    NEW y \in Memory!First(rows, k)
             PROVE y.value = edited[k]
  BY DEF Memory!EditWins
<1>1. PICK r \in rows :
        /\ Memory!Fits(r, "explicit", k) /\ r.value = edited[k] /\ r.conf = 2
        /\ \A x \in rows : x.key = k /\ x.conf = 2 /\ x # r => x.at < r.at
  BY DEF Memory!EditIsAbove
<1>2. y \in rows /\ y.key = k /\ ~Memory!Before(r, y)
  BY <1>1 DEF Memory!First, Memory!Fits
<1>3. y.conf \in 1..2 /\ y.at \in Nat /\ r.at \in Nat
  BY <1>1, <1>2 DEF Memory!TypeOK
<1>4. y.conf = 2 /\ ~(r.at > y.at)
  BY <1>1, <1>2, <1>3 DEF Memory!Before
<1>5. y = r
  BY <1>1, <1>2, <1>3, <1>4
<1>6. QED BY <1>1, <1>5

LEMMA MemorySays == ASSUME Memory!IInv PROVE MemoryPromise
<1>1. Memory!EditWins
  BY EditIsFirst DEF Memory!IInv
<1>2. Memory!OneCeiling
  BY DEF Memory!OneCeiling, Memory!PageCeiling, Memory!TurnCeiling, Memory!LambdaCeiling
<1>3. Memory!PutAwayStaysAway
  BY DEF Memory!IInv, Memory!NothingComes, Memory!PutAwayStaysAway
<1>4. QED BY <1>1, <1>2, <1>3 DEF Memory!IInv, MemoryPromise

-----------------------------------------------------------------------------
\* The table: what holds of it alone.
TableFits ==
  /\ rows \subseteq Memory!Kept /\ \A r, x \in rows : Memory!Fits(r, x.type, x.key) => r = x
  /\ clock \in 0..MaxWrites /\ edited \in [Memory!Keys -> Memory!Amounts \union {Memory!Nothing}]
  /\ forgotten \subseteq Memory!Keys
  /\ Memory!RowsArePast /\ Memory!EditIsAbove /\ Memory!ForgottenIsGone

LEMMA TableHas == ASSUME Memory!IInv PROVE TableFits
  BY DEF Memory!IInv, Memory!TypeOK, TableFits, Memory!Kept

LEMMA TableStays == ASSUME TableFits, UNCHANGED Memory!table PROVE TableFits'
  BY DEF TableFits, Memory!RowsArePast, Memory!EditIsAbove, Memory!ForgottenIsGone, Memory!table,
     Memory!Fits

LEMMA TableGives == ASSUME TableFits',
        phase' \in {1, 4}, enabled' \in BOOLEAN, last' \in {0, 4}, asked' \in BOOLEAN,
        ceiling' \in Memory!Amounts, asof' \in 0..MaxWrites, requests' \in 0..MaxRequests,
        Memory!Known', Memory!NothingComes', Memory!AnswersAreLater'
  PROVE Memory!IInv'
  BY DEF Memory!IInv, Memory!TypeOK, TableFits, Memory!Kept

\* A row written last takes the place of the one of its type and key.
LEMMA WriteFits ==
  ASSUME Memory!BoundsAreNatural, TableFits, NEW type \in {"explicit", "learned"},
         NEW key \in Memory!Keys, NEW amount \in Memory!Amounts, NEW conf \in 1..2,
         Memory!Written(type, key, amount, conf),
         \/ type = "explicit" /\ conf = 2 /\ edited' = [edited EXCEPT ![key] = amount]
         \/ edited' = IF conf = 2 \/ type = "explicit" THEN [edited EXCEPT ![key] = Memory!Nothing]
                      ELSE edited
  PROVE TableFits' /\ clock' >= clock
<1> DEFINE new == [type |-> type, key |-> key, value |-> amount, conf |-> conf, at |-> clock + 1]
<1>1. /\ clock < MaxWrites /\ clock' = clock + 1 /\ forgotten' = forgotten \ {key}
      /\ rows' = {r \in rows : ~Memory!Fits(r, type, key)} \union {new}
  BY DEF Memory!Written
<1>2. clock + 1 \in 1..MaxWrites /\ clock' \in 0..MaxWrites /\ clock \in Nat
  BY <1>1 DEF TableFits, Memory!BoundsAreNatural
<1>3. new \in Memory!Kept /\ new.type = type /\ new.key = key /\ new.conf = conf
      /\ new.value = amount /\ new.at = clock + 1
  BY <1>2 DEF Memory!Kept
<1> HIDE DEF new
<1>4. rows' \subseteq Memory!Kept
  BY <1>1, <1>3 DEF TableFits
<1>5. \A r, x \in rows' : Memory!Fits(r, x.type, x.key) => r = x
  BY <1>1, <1>3 DEF TableFits, Memory!Fits
<1>6. edited' \in [Memory!Keys -> Memory!Amounts \union {Memory!Nothing}]
      /\ \A k \in Memory!Keys : k # key => edited'[k] = edited[k]
  BY DEF TableFits
<1>7. Memory!RowsArePast'
  <2>1. \A r \in rows : r.at \in Nat /\ r.at <= clock
    BY DEF TableFits, Memory!RowsArePast, Memory!Kept
  <2> QED BY <1>1, <1>2, <1>3, <2>1 DEF Memory!RowsArePast
<1>8. Memory!ForgottenIsGone'
  BY <1>1, <1>3 DEF TableFits, Memory!ForgottenIsGone
<1>9. Memory!EditIsAbove'
  <2> SUFFICES ASSUME NEW k \in Memory!Keys, edited'[k] # Memory!Nothing
               PROVE \E r \in rows' :
                        /\ Memory!Fits(r, "explicit", k) /\ r.value = edited'[k] /\ r.conf = 2
                        /\ \A x \in rows' : x.key = k /\ x.conf = 2 /\ x # r => x.at < r.at
    BY DEF Memory!EditIsAbove
  <2>0. \A x \in rows : x.at \in Nat /\ x.at <= clock
    BY DEF TableFits, Memory!RowsArePast, Memory!Kept
  <2>1. CASE k # key
    <3>1. PICK r \in rows :
            /\ Memory!Fits(r, "explicit", k) /\ r.value = edited[k] /\ r.conf = 2
            /\ \A x \in rows : x.key = k /\ x.conf = 2 /\ x # r => x.at < r.at
      BY <1>6, <2>1 DEF TableFits, Memory!EditIsAbove
    <3>2. r \in rows'
      BY <1>1, <2>1, <3>1 DEF Memory!Fits
    <3>3. \A x \in rows' : x.key = k => x \in rows
      BY <1>1, <1>3, <2>1
    <3> QED BY <1>6, <2>1, <3>1, <3>2, <3>3
  <2>2. CASE k = key /\ type = "explicit" /\ conf = 2 /\ edited' = [edited EXCEPT ![key] = amount]
    <3>1. edited'[k] = amount
      BY <2>2 DEF TableFits
    <3>2. \A x \in rows' : x # new => x.at < new.at
      BY <1>1, <1>2, <1>3, <2>0
    <3> QED BY <1>1, <1>3, <2>2, <3>1, <3>2 DEF Memory!Fits
  <2>3. CASE k = key /\ edited' = IF conf = 2 \/ type = "explicit"
                                  THEN [edited EXCEPT ![key] = Memory!Nothing] ELSE edited
    <3>1. conf = 1 /\ type = "learned" /\ edited' = edited
      BY <2>3 DEF TableFits
    <3>2. PICK r \in rows :
            /\ Memory!Fits(r, "explicit", k) /\ r.value = edited[k] /\ r.conf = 2
            /\ \A x \in rows : x.key = k /\ x.conf = 2 /\ x # r => x.at < r.at
      BY <3>1 DEF TableFits, Memory!EditIsAbove
    <3>3. r \in rows'
      BY <1>1, <3>1, <3>2 DEF Memory!Fits
    <3>4. \A x \in rows' : x.conf = 2 => x \in rows
      BY <1>1, <1>3, <3>1
    <3> QED BY <3>1, <3>2, <3>3, <3>4
  <2> QED BY <2>1, <2>2, <2>3
<1>10. forgotten' \subseteq Memory!Keys
  BY <1>1 DEF TableFits
<1>11. QED BY <1>1, <1>2, <1>4, <1>5, <1>6, <1>7, <1>8, <1>9, <1>10 DEF TableFits

LEMMA DeleteFits ==
  ASSUME TableFits, NEW key \in Memory!Keys, Memory!Delete(key)
  PROVE TableFits' /\ clock' = clock
<1>1. /\ rows' = {r \in rows : r.key # key} /\ forgotten' = forgotten \union {key}
      /\ edited' = [edited EXCEPT ![key] = Memory!Nothing] /\ clock' = clock
  BY DEF Memory!Delete
<1>2. /\ rows' \subseteq Memory!Kept /\ \A r, x \in rows' : Memory!Fits(r, x.type, x.key) => r = x
      /\ clock' \in 0..MaxWrites
      /\ edited' \in [Memory!Keys -> Memory!Amounts \union {Memory!Nothing}]
      /\ forgotten' \subseteq Memory!Keys
  BY <1>1 DEF TableFits, Memory!Fits
<1>3. Memory!RowsArePast' /\ Memory!ForgottenIsGone'
  BY <1>1 DEF TableFits, Memory!RowsArePast, Memory!ForgottenIsGone
<1>4. Memory!EditIsAbove'
  <2> SUFFICES ASSUME NEW k \in Memory!Keys, edited'[k] # Memory!Nothing
               PROVE \E r \in rows' :
                        /\ Memory!Fits(r, "explicit", k) /\ r.value = edited'[k] /\ r.conf = 2
                        /\ \A x \in rows' : x.key = k /\ x.conf = 2 /\ x # r => x.at < r.at
    BY DEF Memory!EditIsAbove
  <2>1. k # key /\ edited'[k] = edited[k]
    BY <1>1 DEF TableFits
  <2>2. PICK r \in rows :
          /\ Memory!Fits(r, "explicit", k) /\ r.value = edited[k] /\ r.conf = 2
          /\ \A x \in rows : x.key = k /\ x.conf = 2 /\ x # r => x.at < r.at
    BY <2>1 DEF TableFits, Memory!EditIsAbove
  <2> QED BY <1>1, <2>1, <2>2 DEF Memory!Fits
<1>5. QED BY <1>1, <1>2, <1>3, <1>4 DEF TableFits

-----------------------------------------------------------------------------
\* An edit whose page was put away, or whose toggle was asked again, restores nothing.
LEMMA StaleFits == ASSUME Memory!Known, Memory!Stale
  PROVE /\ edit' \in {Memory!None} \union Memory!Edits
        /\ edit'.state # "none" => ~edit'.current
<1>1. CASE edit.state = "none"
  BY <1>1 DEF Memory!Stale, Memory!Known, Memory!Edits
<1>2. CASE edit.state # "none"
  <2>1. edit \in Memory!Edits /\ edit' = [edit EXCEPT !.current = FALSE]
    BY <1>2 DEF Memory!Stale, Memory!Known
  <2>2. edit' \in Memory!Edits /\ edit'.current = FALSE
    BY <2>1 DEF Memory!Edits
  <2> QED BY <2>2
<1>3. QED BY <1>1, <1>2

\* What is left alone stays as it was.
LEMMA MemoryIdles ==
  ASSUME Memory!BoundsAreNatural, Memory!IInv, UNCHANGED Memory!vars
  PROVE Memory!IInv'
<1>1. TableFits'
  BY TableHas, TableStays DEF Memory!vars
<1>2. Memory!Known' /\ Memory!NothingComes' /\ Memory!AnswersAreLater'
  BY DEF Memory!vars, Memory!table, Memory!page, Memory!chat, Memory!IInv, Memory!Known,
     Memory!NothingComes, Memory!AnswersAreLater
<1>3. QED BY <1>1, <1>2, TableGives DEF Memory!IInv, Memory!TypeOK, Memory!vars, Memory!page,
             Memory!chat

LEMMA LearnsKeeps ==
  ASSUME Memory!BoundsAreNatural, Memory!InputsKnown, Memory!IInv, Memory!Learns
  PROVE Memory!IInv'
<1>1. PICK s \in Signals : Memory!Learn(s[1], s[2], s[3], s[4])
  BY DEF Memory!Learns
<1>2. s[1] \in {"explicit", "learned"} /\ s[2] \in Memory!Keys /\ s[3] \in Memory!Amounts
      /\ s[4] \in 1..2
  BY DEF Memory!InputsKnown
<1>3. TableFits' /\ clock' >= clock
  BY <1>1, <1>2, TableHas, WriteFits DEF Memory!Learn
<1>4. Memory!Known'
  BY <1>1 DEF Memory!Learn, Memory!page, Memory!chat, Memory!IInv, Memory!Known
<1>5. Memory!NothingComes'
  BY <1>1 DEF Memory!Learn, Memory!page, Memory!chat, Memory!IInv, Memory!NothingComes
<1>6. Memory!AnswersAreLater'
  <2>1. clock \in Nat /\ clock' \in Nat /\ asof \in Nat
    BY <1>3, TableHas DEF TableFits, Memory!IInv, Memory!TypeOK
  <2>2. \A f \in refresh : f.state = "answered" => f.asof \in Nat
    BY DEF Memory!IInv, Memory!Known, Memory!Profiles
  <2> QED BY <1>1, <1>3, <2>1, <2>2 DEF Memory!Learn, Memory!page, Memory!IInv,
             Memory!AnswersAreLater
<1>7. QED BY <1>1, <1>3, <1>4, <1>5, <1>6, TableGives DEF Memory!Learn, Memory!page, Memory!chat,
             Memory!IInv, Memory!TypeOK

\* The toggle, the phases and the chat.
LEMMA ToggleKeeps ==
  ASSUME Memory!BoundsAreNatural, Memory!IInv,
         Memory!Enable \/ Memory!Disable \/ Memory!SelectPhase(1) \/ Memory!SelectPhase(4)
            \/ Memory!ClearChat
  PROVE Memory!IInv'
<1>1. UNCHANGED Memory!table /\ TableFits'
  BY TableHas, TableStays DEF Memory!Enable, Memory!Disable, Memory!SelectPhase, Memory!ClearChat
<1>2. requests' \in 0..MaxRequests
  BY DEF Memory!Enable, Memory!Disable, Memory!SelectPhase, Memory!ClearChat, Memory!Ask,
     Memory!IInv, Memory!TypeOK, Memory!BoundsAreNatural
<1>3. /\ phase' \in {1, 4} /\ enabled' \in BOOLEAN /\ last' \in {0, 4} /\ asked' \in BOOLEAN
      /\ ceiling' = ceiling /\ asof' = asof /\ refresh' = refresh
  BY DEF Memory!Enable, Memory!Disable, Memory!SelectPhase, Memory!ClearChat, Memory!page,
     Memory!IInv, Memory!TypeOK
<1>4. Memory!AnswersAreLater'
  BY <1>1, <1>3 DEF Memory!table, Memory!IInv, Memory!AnswersAreLater
<1>5. CASE Memory!Enable
  <2>1. Memory!Known'
    BY <1>5, StaleFits DEF Memory!Enable, Memory!page, Memory!IInv, Memory!Known
  <2>2. Memory!NothingComes'
    BY <1>5 DEF Memory!Enable, Memory!NothingComes
  <2> QED BY <1>1, <1>2, <1>3, <1>4, <2>1, <2>2, TableGives DEF Memory!IInv, Memory!TypeOK
<1>6. CASE Memory!Disable
  <2>1. Memory!Known'
    BY <1>6, StaleFits DEF Memory!Disable, Memory!Invalidate, Memory!IInv, Memory!Known
  <2>2. Memory!NothingComes'
    <3>1. turn.state = "none" => turn = Memory!None
      BY DEF Memory!IInv, Memory!Known
    <3> QED BY <1>6, <3>1, StaleFits DEF Memory!Disable, Memory!Invalidate, Memory!NothingComes,
               Memory!IInv
  <2> QED BY <1>1, <1>2, <1>3, <1>4, <2>1, <2>2, TableGives DEF Memory!IInv, Memory!TypeOK
<1>7. CASE Memory!SelectPhase(1)
  <2>1. Memory!Known'
    BY <1>7, StaleFits DEF Memory!SelectPhase, Memory!Invalidate, Memory!IInv, Memory!Known
  <2>2. Memory!NothingComes'
    BY <1>7, StaleFits DEF Memory!SelectPhase, Memory!Invalidate, Memory!NothingComes, Memory!IInv
  <2> QED BY <1>1, <1>2, <1>3, <1>4, <2>1, <2>2, TableGives DEF Memory!IInv, Memory!TypeOK
<1>8. CASE Memory!SelectPhase(4) \/ Memory!ClearChat
  <2>1. Memory!Known'
    BY <1>8 DEF Memory!SelectPhase, Memory!ClearChat, Memory!page, Memory!IInv, Memory!Known
  <2>2. Memory!NothingComes'
    BY <1>8 DEF Memory!SelectPhase, Memory!ClearChat, Memory!page, Memory!NothingComes, Memory!IInv
  <2> QED BY <1>1, <1>2, <1>3, <1>4, <2>1, <2>2, TableGives DEF Memory!IInv, Memory!TypeOK
<1>9. QED BY <1>5, <1>6, <1>7, <1>8

\* The toggle's read.
LEMMA MemoryReadKeeps ==
  ASSUME Memory!BoundsAreNatural, Memory!IInv,
         Memory!ServeRead \/ Memory!ReadAnswered \/ Memory!ReadFailed
  PROVE Memory!IInv'
<1>1. UNCHANGED Memory!table /\ TableFits'
  BY TableHas, TableStays DEF Memory!ServeRead, Memory!ReadAnswered, Memory!ReadFailed
<1>2. /\ UNCHANGED <<phase, asof, refresh, edit, late, turn, last, asked, requests, preview>>
  BY DEF Memory!ServeRead, Memory!ReadAnswered, Memory!ReadFailed, Memory!page, Memory!chat
<1>3. Memory!AnswersAreLater'
  BY <1>1, <1>2 DEF Memory!table, Memory!IInv, Memory!AnswersAreLater
<1>4. CASE Memory!ServeRead
  <2>1. reading' \in Memory!Profiles /\ UNCHANGED Memory!page
    BY <1>4, ProfileIsTyped DEF Memory!ServeRead, Memory!IInv
  <2>2. Memory!Known'
    BY <1>2, <2>1 DEF Memory!page, Memory!IInv, Memory!Known
  <2>3. Memory!NothingComes'
    BY <1>2, <1>4, <2>1 DEF Memory!ServeRead, Memory!page, Memory!NothingComes, Memory!IInv
  <2> QED BY <1>1, <1>2, <1>3, <2>1, <2>2, <2>3, TableGives DEF Memory!page, Memory!IInv,
             Memory!TypeOK
<1>5. CASE Memory!ReadAnswered
  <2>1. /\ reading \in Memory!Profiles /\ reading' = Memory!None /\ enabled' = TRUE
        /\ facts' = reading.facts
        /\ ceiling' = reading.ceiling
    BY <1>5 DEF Memory!ReadAnswered, Memory!IInv, Memory!Known
  <2>2. facts' \subseteq Memory!Kept /\ ceiling' \in Memory!Amounts
    BY <2>1 DEF Memory!Profiles
  <2>3. Memory!Known'
    BY <1>2, <2>1, <2>2 DEF Memory!IInv, Memory!Known
  <2>4. Memory!NothingComes'
    BY <1>2, <1>5 DEF Memory!ReadAnswered, Memory!NothingComes, Memory!IInv
  <2> QED BY <1>1, <1>2, <1>3, <2>1, <2>2, <2>3, <2>4, TableGives DEF Memory!IInv, Memory!TypeOK
<1>6. CASE Memory!ReadFailed
  <2>1. reading' = Memory!None /\ enabled' = FALSE /\ facts' = {} /\ ceiling' = ceiling
    BY <1>6 DEF Memory!ReadFailed
  <2>2. Memory!Known' /\ Memory!NothingComes'
    BY <1>2, <2>1 DEF Memory!IInv, Memory!Known, Memory!NothingComes
  <2> QED BY <1>1, <1>2, <1>3, <2>1, <2>2, TableGives DEF Memory!IInv, Memory!TypeOK
<1>7. QED BY <1>4, <1>5, <1>6

\* The connection's read: it is answered with what was there when it was served.
LEMMA RefreshKeeps ==
  ASSUME Memory!BoundsAreNatural, Memory!IInv,
         Memory!Tick \/ Memory!ServeRefresh \/ Memory!RefreshAnswered \/ Memory!RefreshFailed
  PROVE Memory!IInv'
<1>1. UNCHANGED Memory!table /\ TableFits'
  BY TableHas, TableStays DEF Memory!Tick, Memory!ServeRefresh, Memory!RefreshAnswered,
     Memory!RefreshFailed
<1>2. /\ UNCHANGED <<phase, enabled, facts, reading, edit, late, turn, last, asked, requests>>
  BY DEF Memory!Tick, Memory!ServeRefresh, Memory!RefreshAnswered, Memory!RefreshFailed,
     Memory!page, Memory!chat
<1>3. Memory!NothingComes'
  BY <1>2 DEF Memory!IInv, Memory!NothingComes
<1>4. clock \in 0..MaxWrites /\ clock' = clock /\ asof \in 0..MaxWrites
  BY <1>1 DEF Memory!IInv, Memory!TypeOK, Memory!table
<1>5. CASE Memory!Tick
  <2>1. refresh' = {Memory!Sent} /\ UNCHANGED Memory!page
    BY <1>5 DEF Memory!Tick
  <2>2. Memory!Known' /\ Memory!AnswersAreLater'
    BY <1>2, <1>4, <2>1 DEF Memory!page, Memory!IInv, Memory!Known, Memory!AnswersAreLater
  <2> QED BY <1>1, <1>2, <1>3, <2>1, <2>2, TableGives DEF Memory!page, Memory!IInv, Memory!TypeOK
<1>6. CASE Memory!ServeRefresh
  <2>1. PICK f \in refresh : refresh' = (refresh \ {f}) \union {Memory!Profile}
        /\ UNCHANGED Memory!page
    BY <1>6 DEF Memory!ServeRefresh
  <2>2. refresh' = {Memory!Profile}
    BY <2>1 DEF Memory!IInv, Memory!Known
  <2>3. Memory!Profile \in Memory!Profiles /\ Memory!Profile.asof = clock
    BY ProfileIsTyped DEF Memory!IInv
  <2>4. Memory!Known'
    BY <1>2, <2>1, <2>2, <2>3 DEF Memory!page, Memory!IInv, Memory!Known
  <2>5. Memory!AnswersAreLater'
    BY <1>4, <2>1, <2>2, <2>3 DEF Memory!page, Memory!IInv, Memory!AnswersAreLater
  <2> QED BY <1>1, <1>2, <1>3, <2>1, <2>4, <2>5, TableGives DEF Memory!page, Memory!IInv,
             Memory!TypeOK
<1>7. CASE Memory!RefreshAnswered
  <2>1. PICK f \in refresh : /\ f.state = "answered" /\ refresh' = refresh \ {f}
                             /\ preview' = f.facts /\ ceiling' = f.ceiling /\ asof' = f.asof
    BY <1>7 DEF Memory!RefreshAnswered
  <2>2. f \in Memory!Profiles /\ refresh' = {} /\ asof' <= clock
    BY <2>1 DEF Memory!IInv, Memory!Known, Memory!AnswersAreLater
  <2>3. preview' \subseteq Memory!Kept /\ ceiling' \in Memory!Amounts /\ asof' \in 0..MaxWrites
    BY <2>1, <2>2 DEF Memory!Profiles
  <2>4. Memory!Known' /\ Memory!AnswersAreLater'
    BY <1>2, <1>4, <2>1, <2>2, <2>3 DEF Memory!IInv, Memory!Known, Memory!AnswersAreLater
  <2> QED BY <1>1, <1>2, <1>3, <2>3, <2>4, TableGives DEF Memory!IInv, Memory!TypeOK
<1>8. CASE Memory!RefreshFailed
  <2>1. refresh' \subseteq refresh /\ UNCHANGED Memory!page
    BY <1>8 DEF Memory!RefreshFailed
  <2>2. Memory!Known' /\ Memory!AnswersAreLater'
    BY <1>2, <1>4, <2>1 DEF Memory!page, Memory!IInv, Memory!Known, Memory!AnswersAreLater
  <2> QED BY <1>1, <1>2, <1>3, <2>1, <2>2, TableGives DEF Memory!page, Memory!IInv, Memory!TypeOK
<1>9. QED BY <1>5, <1>6, <1>7, <1>8

\* A fact that shows an edit is still a fact.
LEMMA MarkedIsFact == ASSUME NEW r \in Memory!Kept, NEW amount \in Memory!Amounts
  PROVE [r EXCEPT !.value = amount, !.conf = 2] \in Memory!Kept
<1>1. ASSUME NEW s \in Memory!Kept PROVE [s EXCEPT !.value = amount] \in Memory!Kept
  BY DEF Memory!Kept
<1>2. ASSUME NEW s \in Memory!Kept PROVE [s EXCEPT !.conf = 2] \in Memory!Kept
  BY DEF Memory!Kept
<1>3. [[r EXCEPT !.value = amount] EXCEPT !.conf = 2] \in Memory!Kept
  BY <1>1, <1>2, Zenon
<1>4. QED BY <1>3

\* The drawer: an edit is shown before it is served, and taken back when it fails.
LEMMA StartEditKeeps ==
  ASSUME Memory!BoundsAreNatural, Memory!InputsKnown, Memory!IInv, NEW c \in Changes,
         Memory!StartEdit(c[1], c[2], c[3])
  PROVE Memory!IInv'
<1> DEFINE what == c[1]  key == c[2]  amount == c[3]
           marked(r) == [r EXCEPT !.value = amount, !.conf = 2]
<1>1. what \in {"change", "remove"} /\ key \in Memory!Keys /\ amount \in Memory!Amounts
  BY DEF Memory!InputsKnown
<1>2. UNCHANGED Memory!table /\ TableFits'
  BY TableHas, TableStays DEF Memory!StartEdit
<1>3. /\ edit' = [state |-> "sent", what |-> what, key |-> key, value |-> amount,
                  previous |-> facts, current |-> TRUE]
      /\ facts' = IF what = "remove" THEN {r \in facts : r.key # key}
                  ELSE {IF r.key = key THEN marked(r) ELSE r : r \in facts}
      /\ UNCHANGED <<phase, enabled, preview, ceiling, asof, reading, refresh, late, turn, last,
            asked>>
      /\ requests' \in 0..MaxRequests
  <2>1. edit' = [state |-> "sent", what |-> what, key |-> key, value |-> amount,
                 previous |-> facts, current |-> TRUE]
    BY DEF Memory!StartEdit
  <2>2. facts' = IF what = "remove" THEN {r \in facts : r.key # key}
                 ELSE {IF r.key = key THEN marked(r) ELSE r : r \in facts}
    BY DEF Memory!StartEdit
  <2>3. UNCHANGED <<phase, enabled, preview, ceiling, asof, reading, refresh, late, turn, last,
           asked>>
    BY DEF Memory!StartEdit, Memory!chat
  <2>4. requests' \in 0..MaxRequests
    <3>1. Memory!Ask
      BY DEF Memory!StartEdit
    <3> QED BY <3>1 DEF Memory!Ask, Memory!IInv, Memory!TypeOK, Memory!BoundsAreNatural
  <2> QED BY <2>1, <2>2, <2>3, <2>4
<1>4. \A r \in Memory!Kept : marked(r) \in Memory!Kept
  BY <1>1, MarkedIsFact
<1> HIDE DEF what, key, amount, marked
<1>5. facts \subseteq Memory!Kept /\ facts' \subseteq Memory!Kept /\ (facts = {} => facts' = {})
  BY <1>3, <1>4 DEF Memory!IInv, Memory!Known
<1>6. edit' \in Memory!Edits /\ edit'.previous = facts
  BY <1>1, <1>3, <1>5 DEF Memory!Edits
<1>7. Memory!Known'
  BY <1>3, <1>5, <1>6 DEF Memory!IInv, Memory!Known
<1>8. Memory!NothingComes'
  BY <1>3, <1>5, <1>6 DEF Memory!IInv, Memory!NothingComes
<1>9. Memory!AnswersAreLater'
  BY <1>2, <1>3 DEF Memory!table, Memory!IInv, Memory!AnswersAreLater
<1>10. QED BY <1>2, <1>3, <1>7, <1>8, <1>9, TableGives DEF Memory!IInv, Memory!TypeOK

\* A change or removal that is served, in time or late.
LEMMA ServeFits ==
  ASSUME Memory!BoundsAreNatural, Memory!IInv, NEW e, e.what \in {"change", "remove"},
         e.key \in Memory!Keys, e.value \in Memory!Amounts, Memory!Serve(e),
         UNCHANGED <<refresh, asof>>
  PROVE TableFits' /\ Memory!AnswersAreLater'
<1>1. TableFits
  BY TableHas
<1>2. TableFits' /\ clock' >= clock
  <2>1. CASE e.what = "remove"
    <3>1. Memory!Delete(e.key)
      BY <2>1 DEF Memory!Serve
    <3>2. TableFits' /\ clock' = clock
      BY <1>1, <3>1, DeleteFits
    <3> QED BY <1>1, <3>2 DEF TableFits
  <2>2. CASE e.what # "remove"
    <3>1. Memory!Written("explicit", e.key, e.value, 2)
          /\ edited' = [edited EXCEPT ![e.key] = e.value]
      BY <2>2 DEF Memory!Serve, Memory!Update
    <3>2. "explicit" \in {"explicit", "learned"} /\ 2 \in 1..2
      OBVIOUS
    <3> QED BY <1>1, <3>1, <3>2, WriteFits
  <2> QED BY <2>1, <2>2
<1>3. clock \in Nat /\ clock' \in Nat /\ asof \in Nat
  BY <1>1, <1>2 DEF TableFits, Memory!IInv, Memory!TypeOK
<1>4. \A f \in refresh : f.state = "answered" => f.asof \in Nat
  BY DEF Memory!IInv, Memory!Known, Memory!Profiles
<1>5. QED BY <1>2, <1>3, <1>4 DEF Memory!IInv, Memory!AnswersAreLater

LEMMA ServedKeeps ==
  ASSUME Memory!BoundsAreNatural, Memory!IInv,
         Memory!ServeEdit \/ \E e \in late : Memory!ServeLate(e)
  PROVE Memory!IInv'
<1>1. UNCHANGED <<Memory!page, reading, refresh, Memory!chat, requests>>
  BY DEF Memory!ServeEdit, Memory!ServeLate
<1>2. CASE Memory!ServeEdit
  <2>1. edit \in Memory!Edits /\ edit' = [edit EXCEPT !.state = "served"] /\ Memory!Serve(edit)
        /\ late' = late
    BY <1>2 DEF Memory!ServeEdit, Memory!IInv, Memory!Known
  <2>2. /\ edit' \in Memory!Edits /\ edit'.previous = edit.previous /\ edit'.current = edit.current
        /\ edit.state # "none"
    BY <2>1 DEF Memory!Edits
  <2>3. TableFits' /\ Memory!AnswersAreLater'
    BY <1>1, <2>1, ServeFits DEF Memory!page, Memory!Edits
  <2>4. Memory!Known' /\ Memory!NothingComes'
    BY <1>1, <2>1, <2>2 DEF Memory!page, Memory!chat, Memory!IInv, Memory!Known,
       Memory!NothingComes
  <2> QED BY <1>1, <2>3, <2>4, TableGives DEF Memory!page, Memory!chat, Memory!IInv, Memory!TypeOK
<1>3. CASE \E e \in late : Memory!ServeLate(e)
  <2>1. PICK e \in late : Memory!Serve(e) /\ late' = late \ {e} /\ edit' = edit
    BY <1>3 DEF Memory!ServeLate
  <2>2. e.what \in {"change", "remove"} /\ e.key \in Memory!Keys /\ e.value \in Memory!Amounts
    BY <2>1 DEF Memory!IInv, Memory!Known
  <2>3. TableFits' /\ Memory!AnswersAreLater'
    BY <1>1, <2>1, <2>2, ServeFits DEF Memory!page
  <2>4. Memory!Known' /\ Memory!NothingComes'
    BY <1>1, <2>1 DEF Memory!page, Memory!chat, Memory!IInv, Memory!Known, Memory!NothingComes
  <2> QED BY <1>1, <2>3, <2>4, TableGives DEF Memory!page, Memory!chat, Memory!IInv, Memory!TypeOK
<1>4. QED BY <1>2, <1>3

LEMMA EditEndKeeps ==
  ASSUME Memory!BoundsAreNatural, Memory!IInv, Memory!EditAnswered \/ Memory!EditFailed
  PROVE Memory!IInv'
<1>1. UNCHANGED Memory!table /\ TableFits'
  BY TableHas, TableStays DEF Memory!EditAnswered, Memory!EditFailed
<1>2. /\ UNCHANGED <<phase, enabled, preview, ceiling, asof, reading, turn, last, asked, requests>>
      /\ edit' = Memory!None
  BY DEF Memory!EditAnswered, Memory!EditFailed, Memory!page, Memory!chat
<1>3. CASE Memory!EditAnswered
  <2>1. refresh' = {Memory!Sent} /\ facts' = facts /\ late' = late
    BY <1>3 DEF Memory!EditAnswered, Memory!page
  <2>2. Memory!Known' /\ Memory!NothingComes'
    BY <1>2, <2>1 DEF Memory!IInv, Memory!Known, Memory!NothingComes
  <2>3. Memory!AnswersAreLater'
    BY <1>1, <1>2, <2>1 DEF Memory!table, Memory!IInv, Memory!AnswersAreLater
  <2> QED BY <1>1, <1>2, <2>1, <2>2, <2>3, TableGives DEF Memory!IInv, Memory!TypeOK
<1>4. CASE Memory!EditFailed
  <2>1. /\ edit \in Memory!Edits /\ refresh' = refresh
        /\ facts' = IF edit.current THEN edit.previous ELSE facts
        /\ late' = IF edit.state = "sent" THEN late \union {Memory!Request(edit)} ELSE late
    BY <1>4 DEF Memory!EditFailed, Memory!IInv, Memory!Known
  <2>2. /\ edit.state # "none" /\ edit.previous \subseteq Memory!Kept
        /\ Memory!Request(edit) \in
             [what : {"change", "remove"}, key : Memory!Keys, value : Memory!Amounts]
    BY <2>1 DEF Memory!Edits, Memory!Request
  <2>3. Memory!Known' /\ Memory!NothingComes'
    BY <1>2, <2>1, <2>2 DEF Memory!IInv, Memory!Known, Memory!NothingComes
  <2>4. Memory!AnswersAreLater'
    BY <1>1, <1>2, <2>1 DEF Memory!table, Memory!IInv, Memory!AnswersAreLater
  <2> QED BY <1>1, <1>2, <2>1, <2>3, <2>4, TableGives DEF Memory!IInv, Memory!TypeOK
<1>5. QED BY <1>3, <1>4

\* A turn, which brings the facts it read.
LEMMA TurnKeeps ==
  ASSUME Memory!BoundsAreNatural, Memory!IInv,
         Memory!Send \/ Memory!ServeTurn \/ Memory!TurnAnswered
  PROVE Memory!IInv'
<1>1. UNCHANGED Memory!table /\ TableFits'
  BY TableHas, TableStays DEF Memory!Send, Memory!ServeTurn, Memory!TurnAnswered
<1>2. /\ UNCHANGED <<phase, enabled, preview, ceiling, asof, reading, refresh, edit, late>>
      /\ last' \in {0, 4} /\ requests' \in 0..MaxRequests
  BY DEF Memory!Send, Memory!ServeTurn, Memory!TurnAnswered, Memory!page, Memory!Ask, Memory!IInv,
     Memory!TypeOK, Memory!BoundsAreNatural
<1>3. Memory!AnswersAreLater'
  BY <1>1, <1>2 DEF Memory!table, Memory!IInv, Memory!AnswersAreLater
<1>4. CASE Memory!Send
  <2>1. turn' = Memory!Sent /\ asked' = TRUE /\ facts' = facts
    BY <1>4 DEF Memory!Send, Memory!page
  <2>2. Memory!Known' /\ Memory!NothingComes'
    BY <1>2, <2>1 DEF Memory!IInv, Memory!Known, Memory!NothingComes
  <2> QED BY <1>1, <1>2, <1>3, <2>1, <2>2, TableGives DEF Memory!IInv, Memory!TypeOK
<1>5. CASE Memory!ServeTurn
  <2>1. /\ turn.state = "sent" /\ turn' = [state |-> "answered", facts |-> Memory!InContext(rows)]
        /\ asked' = asked /\ facts' = facts
    BY <1>5 DEF Memory!ServeTurn, Memory!page
  <2>2. Memory!InContext(rows) \subseteq Memory!Kept
    BY ContextIsOfRows, TableHas DEF TableFits
  <2>3. Memory!Known' /\ Memory!NothingComes'
    BY <1>2, <2>1, <2>2 DEF Memory!IInv, Memory!Known, Memory!NothingComes
  <2> QED BY <1>1, <1>2, <1>3, <2>1, <2>3, TableGives DEF Memory!IInv, Memory!TypeOK
<1>6. CASE Memory!TurnAnswered
  <2>1. /\ turn.state = "answered" /\ turn' = Memory!None /\ asked' = asked
        /\ facts' = IF turn.facts = {} THEN facts ELSE turn.facts
    BY <1>6 DEF Memory!TurnAnswered
  <2>2. Memory!Known' /\ Memory!NothingComes'
    BY <1>2, <2>1 DEF Memory!IInv, Memory!Known, Memory!NothingComes
  <2> QED BY <1>1, <1>2, <1>3, <2>1, <2>2, TableGives DEF Memory!IInv, Memory!TypeOK
<1>7. QED BY <1>4, <1>5, <1>6

-----------------------------------------------------------------------------
\* The number of rows the table begins with is the size of their set.
LEMMA RowsCount == ASSUME NEW V
  PROVE /\ Memory!Cardinality(V) = Cardinality(V)
        /\ Memory!IsFiniteSet(V) => IsFiniteSet(V)
<1>1. Memory!Cardinality(V) = Cardinality(V)
  BY DEF Memory!Cardinality, Cardinality
<1>2. Memory!IsFiniteSet(V) => IsFiniteSet(V)
  BY DEF Memory!IsFiniteSet, IsFiniteSet
<1>3. QED BY <1>1, <1>2

LEMMA MemoryInit ==
  ASSUME Memory!BoundsAreNatural, Memory!InputsKnown, Memory!Init
  PROVE Memory!IInv
<1>1. /\ Memory!Seeded(rows) /\ clock = Cardinality(rows) /\ clock \in Nat /\ clock <= MaxWrites
      /\ MaxWrites \in Nat
  <2>1. /\ Memory!Seeded(rows) /\ clock = Memory!Cardinality(rows) /\ MaxWrites \in Nat
        /\ Memory!IsFiniteSet(rows) /\ Memory!Cardinality(rows) <= MaxWrites
    BY DEF Memory!Init, Memory!InputsKnown, Memory!Seeded, Memory!BoundsAreNatural
  <2>2. IsFiniteSet(rows) /\ Memory!Cardinality(rows) = Cardinality(rows)
    BY <2>1, RowsCount
  <2>3. Cardinality(rows) \in Nat
    BY <2>2, FS_CardinalityType
  <2> QED BY <2>1, <2>2, <2>3
<1>2. rows \subseteq Memory!Kept /\ \A r \in rows : r.at <= clock
  <2> SUFFICES ASSUME NEW r \in rows PROVE r \in Memory!Kept /\ r.at <= clock
    OBVIOUS
  <2>1. r \in Memory!Rows /\ r.at \in 1..clock
    BY <1>1, RowsCount DEF Memory!Seeded
  <2>2. r.at \in 1..MaxWrites /\ r.at <= clock
    BY <1>1, <2>1
  <2> QED BY <2>1, <2>2 DEF Memory!Rows, Memory!Kept
<1>3. \A r, x \in rows : Memory!Fits(r, x.type, x.key) => r = x
  BY <1>1 DEF Memory!Seeded, Memory!Fits
<1>4. Memory!TypeOK
  <2>1. edited \in [Memory!Keys -> Memory!Amounts \union {Memory!Nothing}]
    BY DEF Memory!Init
  <2>2. /\ phase \in {1, 4} /\ enabled \in BOOLEAN /\ last \in {0, 4} /\ asked \in BOOLEAN
        /\ ceiling \in Memory!Amounts /\ forgotten \subseteq Memory!Keys
    <3>1. phase = 1 /\ enabled = FALSE /\ last = 0 /\ asked = FALSE /\ ceiling = 0 /\ forgotten = {}
      BY DEF Memory!Init
    <3>2. enabled \in BOOLEAN /\ asked \in BOOLEAN
      BY <3>1, Zenon
    <3>3. phase \in {1, 4} /\ last \in {0, 4} /\ forgotten \subseteq Memory!Keys
      BY <3>1
    <3>4. ceiling \in Memory!Amounts
      BY <3>1 DEF Memory!Amounts
    <3> QED BY <3>2, <3>3, <3>4
  <2>3. clock \in 0..MaxWrites /\ asof \in 0..MaxWrites /\ requests \in 0..MaxRequests
    BY <1>1 DEF Memory!Init, Memory!BoundsAreNatural
  <2> QED BY <1>2, <1>3, <2>1, <2>2, <2>3 DEF Memory!TypeOK, Memory!Kept
<1>5. Memory!Known /\ Memory!RowsArePast /\ Memory!NothingComes /\ Memory!ForgottenIsGone
  BY <1>2 DEF Memory!Init, Memory!Known, Memory!RowsArePast, Memory!NothingComes,
     Memory!ForgottenIsGone
<1>6. Memory!EditIsAbove
  <2>1. \A k \in Memory!Keys : edited[k] = Memory!Nothing
    BY DEF Memory!Init
  <2> QED BY <2>1 DEF Memory!EditIsAbove
<1>7. Memory!AnswersAreLater
  BY <1>1 DEF Memory!Init, Memory!AnswersAreLater
<1>8. QED BY <1>4, <1>5, <1>6, <1>7 DEF Memory!IInv

LEMMA MemoryStep ==
  ASSUME Memory!BoundsAreNatural, Memory!InputsKnown, Memory!IInv, [Memory!Next]_(Memory!vars)
  PROVE Memory!IInv'
  BY MemoryIdles, LearnsKeeps, ToggleKeeps, MemoryReadKeeps, RefreshKeeps, StartEditKeeps,
     ServedKeeps, EditEndKeeps, TurnKeeps DEF Memory!Next

\* The preview's age changes only by an answer, and that one is of later facts.
LEMMA StepGoesForward == ASSUME Memory!IInv, [Memory!Next]_(Memory!vars) PROVE Memory!GoesForward
<1>1. asof \in Nat
  BY DEF Memory!IInv, Memory!TypeOK
<1>2. asof' = asof \/ Memory!RefreshAnswered
  BY DEF Memory!Next, Memory!vars, Memory!page, Memory!Learns, Memory!Learn, Memory!Enable,
     Memory!Disable, Memory!SelectPhase, Memory!ClearChat, Memory!ServeRead, Memory!ReadAnswered,
     Memory!ReadFailed, Memory!Tick, Memory!ServeRefresh, Memory!RefreshFailed, Memory!StartEdit,
     Memory!ServeEdit, Memory!ServeLate, Memory!EditAnswered, Memory!EditFailed, Memory!Send,
     Memory!ServeTurn, Memory!TurnAnswered
<1>3. CASE Memory!RefreshAnswered
  BY <1>3 DEF Memory!RefreshAnswered, Memory!IInv, Memory!AnswersAreLater, Memory!GoesForward
<1>4. QED BY <1>1, <1>2, <1>3 DEF Memory!GoesForward

\* Whatever is stored, edited, removed, answered late or never: a traveler's edit is what every
\* reader takes for its key, what was removed is gone, page, turn and Lambda derive one ceiling, a
\* memory that was put away stays away, and the preview never goes back to older facts
\* (traveler_preferences, useMeridianShowcase.ts, production_agent.py).
THEOREM MemoryKept == ASSUME Memory!BoundsAreNatural, Memory!InputsKnown
  PROVE Memory!Spec => []MemoryPromise /\ [][Memory!GoesForward]_(Memory!vars)
<1>1. Memory!Init => Memory!IInv
  BY MemoryInit
<1>2. Memory!IInv /\ [Memory!Next]_(Memory!vars) => Memory!IInv'
  BY MemoryStep
<1>3. Memory!IInv => MemoryPromise
  BY MemorySays
<1>4. Memory!IInv /\ [Memory!Next]_(Memory!vars) => [Memory!GoesForward]_(Memory!vars)
  BY StepGoesForward
<1>5. QED BY <1>1, <1>2, <1>3, <1>4, PTL DEF Memory!Spec

=============================================================================
