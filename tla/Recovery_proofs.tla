-------------------------- MODULE Recovery_proofs --------------------------
(* Why a recovery books only the request of the saved plan, at most once   *)
(* and after the traveler answered, for any number of workers and packages. *)
EXTENDS Recovery, TLAPS

-----------------------------------------------------------------------------
(* The inductive invariant. *)

\* What every state of the graph keeps, in a snapshot and in a worker's memory: a request is
\* prepared in the fourth node, after an answer and for the chosen package, and a hold it says
\* it has is booked.
Sound(s) ==
    /\ s.done <= Len(Route[s.query])
    /\ s.intent # None => /\ s.query = "recovery" /\ s.done >= 4
                          /\ s.package = (IF s.chosen = None THEN Top ELSE s.chosen)
    /\ Pending(s) => s.intent = None
    /\ s.answered \/ (s.query = "recovery" /\ s.done >= 4) => consented
    /\ s.held => s.intent # None /\ bookings[s.intent] # "none"

OneRunning == \A v, w \in Workers : execution[v] = "running" /\ execution[w] = "running" => v = w

\* Where a worker is: before its claim, without a call of its own, at the hold.
BeforeClaim == {"idle", "read", "claim"}
AtHold      == {"lease", "readback", "locked", "send", "wait"}
WithoutCall == BeforeClaim \cup (AtHold \ {"wait"}) \cup
                   {"reread", "choice", "graph", "save", "final", "compensate"}
Position(w) ==
    /\ pc[w] \in BeforeClaim => execution[w] = "none"
    /\ pc[w] \in WithoutCall => call[w] = "none"
    /\ pc[w] \in AtHold => graph[w].query = "recovery" /\ graph[w].done = 4 /\ graph[w].intent # None
    /\ pc[w] \in AtHold \cup {"choice", "graph", "save"} => ~Pending(graph[w])
    /\ pc[w] = "choice" => graph[w].intent = None
    /\ pc[w] = "wait" => asks[w] = graph[w].intent
    /\ confirmed[w] => consented

\* A call: its row is locked only while its execution runs, and then it asks for the saved request.
CallSound(w) ==
    /\ RowLocked(w) => execution[w] = "running"
    /\ call[w] \in Sent \cup {"placed"} => asks[w] \in Workers
    /\ call[w] = "placed" => bookings[asks[w]] # "none"
    /\ call[w] \in Sent /\ execution[w] = "running" => snap.intent = asks[w]

\* The worker that runs works on the newest snapshot, or is about to save its successor.
Follows(w) == execution[w] = "running" =>
    /\ pc[w] \in AtHold \cup {"choice", "graph", "final"} => graph[w].intent = snap.intent
    /\ pc[w] = "save" => graph[w].intent = snap.intent \/ (snap.intent = None /\ graph[w].intent = w)

WorkerSound(w) == Sound(graph[w]) /\ Position(w) /\ CallSound(w) /\ Follows(w)

IInv == /\ TypeOK /\ Sound(snap) /\ OneRunning /\ BookedFromSavedIntent /\ ReadBackStands
        /\ \A w \in Workers : WorkerSound(w)

-----------------------------------------------------------------------------
(* The routes: where a request is prepared and where it is placed.         *)

LEMMA RouteFacts ==
  ASSUME NEW q \in Queries
  PROVE  /\ Len(Route[q]) \in 3..6 /\ (q = "recovery" => Len(Route[q]) = 6)
         /\ \A i \in 1..Len(Route[q]) :
               /\ Route[q][i] = "prepare_hold" <=> q = "recovery" /\ i = 4
               /\ Route[q][i] = "hold" <=> q = "recovery" /\ i = 5
               /\ Route[q][i] = "search" => i = 2
<1>0. q \in {"recovery", "plan", "search", "availability", "memory"}
  BY QueriesAssumption DEF Route
<1>1. CASE q = "recovery"
  <2>1. Route[q] = <<"classify", "search", "availability", "prepare_hold", "hold", "synthesize">>
    BY <1>1 DEF Route
  <2>. QED  BY <1>1, <2>1
<1>2. CASE q = "plan"
  <2>1. Route[q] = <<"classify", "search", "availability", "synthesize">>
    BY <1>2 DEF Route
  <2>. QED  BY <1>2, <2>1
<1>3. CASE q = "search"
  <2>1. Route[q] = <<"classify", "search", "synthesize">>
    BY <1>3 DEF Route
  <2>. QED  BY <1>3, <2>1
<1>4. CASE q = "availability"
  <2>1. Route[q] = <<"classify", "availability", "synthesize">>
    BY <1>4 DEF Route
  <2>. QED  BY <1>4, <2>1
<1>5. CASE q = "memory"
  <2>1. Route[q] = <<"classify", "memory_recall", "synthesize">>
    BY <1>5 DEF Route
  <2>. QED  BY <1>5, <2>1
<1>. QED  BY <1>0, <1>1, <1>2, <1>3, <1>4, <1>5

(* A state that has prepared a request, or is about to.                    *)
LEMMA Places ==
  ASSUME NEW s \in States, s.done <= Len(Route[s.query])
  PROVE  /\ ~Finished(s) => s.done + 1 \in 1..Len(Route[s.query]) /\ s.done + 1 \in 0..6
         /\ ~Finished(s) /\ NextNode(s) = "prepare_hold" => s.query = "recovery" /\ s.done = 3
         /\ ~Finished(s) /\ NextNode(s) = "hold" => s.query = "recovery" /\ s.done = 4
         /\ ~Finished(s) /\ LastNode(s) = "search" => s.done = 2
         /\ "prepare_hold" \in Completed(s) => s.query = "recovery" /\ s.done >= 4
         /\ s.query = "recovery" /\ s.done = 4 => ~Finished(s)
         /\ s.query = "recovery" /\ s.done = 3 => NextNode(s) = "prepare_hold"
<1>. DEFINE q == s.query
            d == s.done
            n == Len(Route[q])
<1>1. q \in Queries /\ d \in 0..6 /\ d <= n
  BY DEF States
<1>2. /\ n \in 3..6
      /\ \A i \in 1..n : /\ Route[q][i] = "prepare_hold" <=> q = "recovery" /\ i = 4
                         /\ Route[q][i] = "hold" <=> q = "recovery" /\ i = 5
                         /\ Route[q][i] = "search" => i = 2
  BY <1>1, RouteFacts
<1>3. q = "recovery" => n = 6
  BY <1>1, RouteFacts
<1>4. d # n => d + 1 \in 1..n /\ d + 1 \in 0..6
  BY <1>1, <1>2
<1>5. d # n /\ Route[q][d + 1] = "prepare_hold" => q = "recovery" /\ d = 3
  BY <1>1, <1>2, <1>4
<1>6. d # n /\ Route[q][d + 1] = "hold" => q = "recovery" /\ d = 4
  BY <1>1, <1>2, <1>4
<1>7. d # n /\ (IF d = 0 THEN "none" ELSE Route[q][d]) = "search" => d = 2
  BY <1>1, <1>2
<1>8. "prepare_hold" \in {Route[q][i] : i \in 1..d} => q = "recovery" /\ d >= 4
  BY <1>1, <1>2
<1>9. ASSUME q = "recovery", d = 4 PROVE d # n
  <2>1. n = 6
    BY <1>3, <1>9
  <2>. HIDE DEF n, d
  <2>. QED  BY <1>9, <2>1
<1>10. ASSUME q = "recovery", d = 3 PROVE Route[q][d + 1] = "prepare_hold"
  <2>1. n = 6
    BY <1>3, <1>10
  <2>2. 4 \in 1..n
    <3>. HIDE DEF n
    <3>. QED  BY <2>1
  <2>. QED  BY <1>2, <1>10, <2>2
<1>. QED  BY <1>4, <1>5, <1>6, <1>7, <1>8, <1>9, <1>10 DEF Finished, NextNode, LastNode, Completed

(* A state with a field or two replaced is still a state.                  *)
LEMMA StateFields ==
  ASSUME NEW s \in States
  PROVE  /\ \A p \in {"no", "review", "confirm"}, a \in BOOLEAN :
               [s EXCEPT !.pause = p, !.answered = a] \in States
         /\ \A a \in BOOLEAN : [s EXCEPT !.answered = a] \in States
         /\ \A c \in Packages \cup {None} : [s EXCEPT !.chosen = c] \in States
         /\ \A r \in Workers, c \in Packages : [s EXCEPT !.intent = r, !.package = c] \in States
         /\ \A h \in BOOLEAN : [s EXCEPT !.held = h] \in States
         /\ \A d \in 0..6 : [s EXCEPT !.done = d] \in States
  BY DEF States

LEMMA FreshStates ==
  ASSUME NEW q \in Queries
  PROVE  Fresh(q) \in States /\ Sound(Fresh(q))
<1>1. Fresh(q) \in States
  BY DEF Fresh, States
<1>2. Len(Route[q]) \in 3..6
  BY RouteFacts
<1>. QED  BY <1>1, <1>2 DEF Fresh, Sound, Pending

LEMMA InitInv == Init => IInv
<1>. SUFFICES ASSUME Init PROVE IInv
  OBVIOUS
<1>1. PICK q \in Queries : snap = Fresh(q)
  BY DEF Init
<1>2. snap \in States /\ Sound(snap)
  BY <1>1, FreshStates
<1>3. TypeOK
  BY <1>2 DEF Init, TypeOK, NoCommand, Commands
<1>4. \A w \in Workers : WorkerSound(w)
  BY <1>2 DEF Init, WorkerSound, Position, CallSound, Follows, BeforeClaim, AtHold, WithoutCall,
              RowLocked, Holding, Sent
<1>5. OneRunning /\ BookedFromSavedIntent /\ ReadBackStands
  BY DEF Init, OneRunning, BookedFromSavedIntent, ReadBackStands
<1>. QED  BY <1>2, <1>3, <1>4, <1>5 DEF IInv

-----------------------------------------------------------------------------
(* A step is of one worker.  What it does to the others and to what all of *)
(* them share is enough for their part of the invariant.                   *)

Elsewhere(w) ==
    /\ \A v \in Workers \ {w} :
          /\ pc'[v] = pc[v] /\ graph'[v] = graph[v] /\ confirmed'[v] = confirmed[v]
          /\ call'[v] = call[v] /\ asks'[v] = asks[v]
          /\ \/ execution'[v] = execution[v]
             \/ execution[v] = "running" /\ ~RowLocked(v) /\ execution'[v] = "ended"
    /\ snap'.intent # snap.intent => execution[w] = "running" /\ snap.intent = None
    /\ consented => consented'
    /\ \A r \in Workers : /\ bookings[r] # "none" => bookings'[r] # "none"
                          /\ bookings'[r] # bookings[r] => execution[w] = "running" /\ snap'.intent = r
    /\ execution'[w] = "running" =>
          execution[w] = "running" \/ \A v \in Workers \ {w} : execution'[v] # "running"

LEMMA OthersSound ==
  ASSUME IInv, NEW w \in Workers, TypeOK', Elsewhere(w), NEW v \in Workers \ {w}
  PROVE  WorkerSound(v)'
<1>. USE PackagesAssumption
<1>1. WorkerSound(v) /\ graph[v] \in States /\ snap \in States /\ OneRunning
  BY DEF IInv, TypeOK
<1>2. graph[v].intent \in Workers \cup {None}
  BY <1>1 DEF States
<1>3. Sound(graph[v])'
  BY <1>1, <1>2 DEF Elsewhere, WorkerSound, Sound, Pending
<1>4. Position(v)'
  BY <1>1 DEF Elsewhere, WorkerSound, Position, Pending, BeforeClaim, AtHold, WithoutCall
<1>5. CallSound(v)'
  BY <1>1 DEF Elsewhere, WorkerSound, CallSound, RowLocked, Holding, Sent, OneRunning
<1>6. Follows(v)'
  BY <1>1 DEF Elsewhere, WorkerSound, Follows, OneRunning, AtHold
<1>. QED  BY <1>3, <1>4, <1>5, <1>6 DEF WorkerSound

LEMMA StepInv ==
  ASSUME IInv, NEW w \in Workers, TypeOK', Elsewhere(w), Sound(snap)', WorkerSound(w)',
         pc'[w] = "send" /\ execution'[w] = "running" => bookings'[graph'[w].intent] = "none"
  PROVE  IInv'
<1>. USE PackagesAssumption
<1>1. OneRunning'
  BY DEF IInv, OneRunning, Elsewhere
<1>2. BookedFromSavedIntent'
  BY DEF IInv, BookedFromSavedIntent, Elsewhere
<1>3. ReadBackStands'
  <2>. SUFFICES ASSUME NEW v \in Workers \ {w}, pc'[v] = "send", execution'[v] = "running"
                PROVE  bookings'[graph'[v].intent] = "none"
    BY DEF ReadBackStands
  <2>1. /\ pc[v] = "send" /\ execution[v] = "running" /\ graph'[v] = graph[v]
        /\ bookings[graph[v].intent] = "none"
    BY DEF Elsewhere, IInv, ReadBackStands
  <2>2. graph[v].intent \in Workers
    BY <2>1 DEF IInv, WorkerSound, Position, AtHold, TypeOK, States
  <2>3. execution[w] # "running"
    BY <2>1 DEF IInv, OneRunning
  <2>. QED  BY <2>1, <2>2, <2>3 DEF Elsewhere
<1>4. \A v \in Workers : WorkerSound(v)'
  BY OthersSound
<1>. QED  BY <1>1, <1>2, <1>3, <1>4 DEF IInv

-----------------------------------------------------------------------------
(* The steps that leave Aurora's rows, the calls and the consent alone.    *)

LEMMA Here ==
  ASSUME IInv, NEW w \in Workers
  PROVE  /\ TypeOK /\ snap \in States /\ graph[w] \in States /\ cmd[w] \in Commands
         /\ Sound(snap) /\ Sound(graph[w]) /\ OneRunning
         /\ Position(w) /\ CallSound(w) /\ Follows(w)
  BY DEF IInv, TypeOK, WorkerSound

LocalTo(w) ==
    /\ UNCHANGED <<execution, snap, bookings, call, asks, consented>>
    /\ \A v \in Workers \ {w} :
          pc'[v] = pc[v] /\ graph'[v] = graph[v] /\ confirmed'[v] = confirmed[v]

LEMMA LocalStep ==
  ASSUME IInv, NEW w \in Workers, TypeOK', LocalTo(w),
         Sound(graph[w])', Position(w)', Follows(w)', pc'[w] # "send"
  PROVE  IInv'
<1>1. Sound(snap)'
  BY Here DEF LocalTo, Sound, Pending
<1>2. CallSound(w)'
  BY Here DEF LocalTo, CallSound, RowLocked
<1>3. Elsewhere(w)
  BY DEF LocalTo, Elsewhere
<1>. QED  BY <1>1, <1>2, <1>3, StepInv DEF WorkerSound

(* A step that moves a worker and nothing else that counts.                *)
Moves(w) ==
    /\ graph'[w] = graph[w] /\ confirmed'[w] = confirmed[w]
    /\ \/ pc'[w] = "release"
       \/ pc'[w] = "compensate" /\ call[w] = "none"
       \/ pc'[w] \in {"read", "claim"} /\ pc[w] \in BeforeClaim
       \/ pc'[w] \in AtHold \ {"send", "wait"} /\ pc[w] \in AtHold \ {"wait"}

LEMMA MoveStep ==
  ASSUME IInv, NEW w \in Workers, TypeOK', LocalTo(w), Moves(w)
  PROVE  IInv'
<1>. USE DEF Moves
<1>1. Sound(graph[w])'
  BY Here DEF LocalTo, Sound, Pending
<1>2. Position(w)'
  BY Here DEF LocalTo, Position, BeforeClaim, AtHold, WithoutCall, Pending
<1>3. Follows(w)'
  BY Here DEF LocalTo, Follows, AtHold
<1>4. pc'[w] # "send"
  BY DEF AtHold, BeforeClaim
<1>. QED  BY <1>1, <1>2, <1>3, <1>4, LocalStep

LEMMA StopStep ==
  ASSUME IInv, NEW w \in Workers, Stop(w, "end") \/ Stop(w, "dead"),
         UNCHANGED <<execution, lapsed, snap, bookings, journeyLock, calls, history>>
  PROVE  IInv'
<1>1. snap.query \in Queries /\ NoCommand \in Commands
  BY Here DEF States, NoCommand, Commands
<1>2. Fresh(snap.query) \in States /\ Sound(Fresh(snap.query))
  BY <1>1, FreshStates
<1>3. TypeOK'
  <2>1. graph' \in [Workers -> States] /\ cmd' \in [Workers -> Commands]
    BY <1>1, <1>2, Here DEF TypeOK, Stop, Graph
  <2>2. pc' = [pc EXCEPT ![w] = "end"] \/ pc' = [pc EXCEPT ![w] = "dead"]
    BY DEF Stop, Goto
  <2>. QED  BY <2>1, <2>2, Here DEF TypeOK, Stop, calls, history
<1>4. /\ LocalTo(w) /\ graph'[w] = Fresh(snap.query) /\ confirmed'[w] = FALSE
      /\ pc'[w] \in {"end", "dead"}
  BY Here DEF LocalTo, Stop, Goto, Graph, TypeOK, calls, history
<1>5. Sound(graph[w])'
  BY <1>2, <1>4 DEF LocalTo, Sound, Pending
<1>6. Position(w)' /\ Follows(w)'
  BY <1>4 DEF Position, Follows, BeforeClaim, AtHold, WithoutCall
<1>. QED  BY <1>3, <1>4, <1>5, <1>6, LocalStep

LEMMA CallInv == ASSUME IInv, NEW w \in Workers, Call(w) PROVE IInv'
<1>1. TypeOK'
  BY Here DEF Call, Goto, TypeOK, aurora, calls, history
<1>2. LocalTo(w) /\ Moves(w)
  BY Here DEF LocalTo, Moves, Call, Goto, TypeOK, aurora, calls, history, BeforeClaim
<1>. QED  BY <1>1, <1>2, MoveStep

LEMMA ReadFirstInv == ASSUME IInv, NEW w \in Workers, ReadFirst(w) PROVE IInv'
<1>1. CASE Stop(w, "end")
  BY <1>1, StopStep DEF ReadFirst, aurora
<1>2. CASE Goto(w, "claim") /\ UNCHANGED <<cmd, graph, confirmed>>
  <2>1. TypeOK'
    BY <1>2, Here DEF ReadFirst, Goto, TypeOK, aurora, calls, history
  <2>2. LocalTo(w) /\ Moves(w)
    BY <1>2, Here DEF LocalTo, Moves, ReadFirst, Goto, TypeOK, aurora, calls, history, BeforeClaim
  <2>. QED  BY <1>2, <2>1, <2>2, MoveStep
<1>. QED  BY <1>1, <1>2 DEF ReadFirst

LEMMA DieInv == ASSUME IInv, NEW w \in Workers, Die(w) PROVE IInv'
  BY StopStep DEF Die, aurora

LEMMA CheckLeaseInv == ASSUME IInv, NEW w \in Workers, CheckLease(w) PROVE IInv'
<1>1. TypeOK'
  BY Here DEF CheckLease, Goto, TypeOK, aurora, calls, history
<1>2. LocalTo(w) /\ Moves(w)
  BY Here DEF LocalTo, Moves, CheckLease, Goto, TypeOK, aurora, calls, history, AtHold
<1>. QED  BY <1>1, <1>2, MoveStep

LEMMA UnknownInv == ASSUME IInv, NEW w \in Workers, Unknown(w) PROVE IInv'
<1>1. TypeOK'
  BY Here DEF Unknown, Goto, TypeOK, aurora, calls, history
<1>2. LocalTo(w) /\ Moves(w)
  BY Here DEF LocalTo, Moves, Unknown, Goto, TypeOK, aurora, calls, history
<1>. QED  BY <1>1, <1>2, MoveStep

LEMMA UndoneInv == ASSUME IInv, NEW w \in Workers, Undone(w) PROVE IInv'
<1>1. TypeOK'
  BY Here DEF Undone, Goto, TypeOK, aurora, calls, history
<1>2. LocalTo(w) /\ Moves(w)
  BY Here DEF LocalTo, Moves, Undone, Goto, TypeOK, aurora, calls, history
<1>. QED  BY <1>1, <1>2, MoveStep

LEMMA CancelInv == ASSUME IInv, NEW w \in Workers, Cancel(w) PROVE IInv'
<1>1. TypeOK'
  BY Here DEF Cancel, Goto, TypeOK, calls, history
<1>2. LocalTo(w) /\ Moves(w)
  BY Here DEF LocalTo, Moves, Cancel, Goto, TypeOK, calls, history
<1>. QED  BY <1>1, <1>2, MoveStep

LEMMA LockForReadInv == ASSUME IInv, NEW w \in Workers, LockForRead(w) PROVE IInv'
<1>1. TypeOK'
  BY Here DEF LockForRead, Goto, TypeOK, Live, calls, history
<1>2. LocalTo(w) /\ Moves(w)
  BY Here DEF LocalTo, Moves, LockForRead, Goto, TypeOK, calls, history, AtHold
<1>. QED  BY <1>1, <1>2, MoveStep

(* The lock, the lease's clock and an idle worker's row are not the        *)
(* invariant's: these steps leave all of it as it is.                      *)
LEMMA ClockInv ==
  ASSUME IInv, TypeOK', UNCHANGED <<execution, snap, bookings, worker, call, asks, consented>>
  PROVE  IInv'
<1>1. UNCHANGED <<pc, graph, confirmed>>
  BY DEF worker
<1>2. Sound(snap)' /\ OneRunning' /\ BookedFromSavedIntent' /\ ReadBackStands'
  BY <1>1 DEF IInv, Sound, Pending, OneRunning, BookedFromSavedIntent, ReadBackStands
<1>3. \A w \in Workers : WorkerSound(w)'
  BY <1>1 DEF IInv, WorkerSound, Sound, Pending, Position, CallSound, RowLocked, Follows
<1>. QED  BY <1>2, <1>3 DEF IInv

LEMMA TimeInv ==
  ASSUME IInv, NEW w \in Workers, FreeJourney(w) \/ Lapse(w) \/ Renew(w) PROVE IInv'
<1>1. TypeOK'
  BY DEF IInv, FreeJourney, Lapse, Renew, TypeOK, worker, calls, history
<1>. QED  BY <1>1, ClockInv DEF FreeJourney, Lapse, Renew, calls, history

LEMMA StutterInv == ASSUME IInv, UNCHANGED vars PROVE IInv'
<1>1. TypeOK'
  BY DEF IInv, TypeOK, vars, aurora, worker, calls, history
<1>. QED  BY <1>1, ClockInv DEF vars, aurora, calls, history

-----------------------------------------------------------------------------
(* A node that completes.                                                  *)

LEMMA DoneSound ==
  ASSUME NEW s \in States, Sound(s), ~Finished(s), ~Pending(s),
         s.query = "recovery" /\ s.done = 3 => consented,
         NEW t, t = [s EXCEPT !.done = @ + 1]
  PROVE  t \in States /\ Sound(t) /\ ~Pending(t) /\ t.intent = s.intent
<1>1. s.done \in 0..6 /\ s.done + 1 \in 0..6 /\ s.done + 1 <= Len(Route[s.query])
  BY Places, RouteFacts DEF States, Sound
<1>2. t \in States
  BY <1>1, StateFields
<1>3. Sound(t)
  BY <1>1, <1>2 DEF States, Sound, Pending
<1>. QED  BY <1>2, <1>3 DEF States, Pending

(* A worker whose node is done, with the request it had or the one it made. *)
LEMMA SavingStep ==
  ASSUME IInv, NEW w \in Workers, TypeOK', LocalTo(w), confirmed'[w] = confirmed[w],
         pc[w] \in (AtHold \ {"wait"}) \cup {"graph"}, pc'[w] = "save",
         Sound(graph[w])', ~Pending(graph'[w]),
         \/ graph'[w].intent = graph[w].intent
         \/ graph[w].intent = None /\ graph'[w].intent = w
  PROVE  IInv'
<1>1. Position(w)'
  BY Here DEF LocalTo, Position, BeforeClaim, AtHold, WithoutCall, Pending
<1>2. Follows(w)'
  BY Here DEF LocalTo, Follows, AtHold
<1>. QED  BY <1>1, <1>2, LocalStep

(* Where a worker is when a node of its graph is open.                     *)
LEMMA AtGraph ==
  ASSUME IInv, NEW w \in Workers, AtNode(w)
  PROVE  /\ pc[w] = "graph" /\ ~Pending(graph[w]) /\ call[w] = "none"
         /\ graph[w].done \in 0..6 /\ graph[w].done <= Len(Route[graph[w].query])
         /\ ~Finished(graph[w])
         /\ graph[w].intent \in Workers \cup {None}
         /\ Open(w) /\ NextNode(graph[w]) = "prepare_hold" => consented
<1>1. pc[w] = "graph" /\ ~Finished(graph[w])
  BY DEF AtNode
<1>2. Open(w) /\ NextNode(graph[w]) = "prepare_hold" => confirmed[w]
  BY Here DEF Open, Gate, TypeOK
<1>. QED  BY <1>1, <1>2, Here DEF Position, WithoutCall, Sound, States

LEMMA InterruptInv == ASSUME IInv, NEW w \in Workers, Interrupt(w) PROVE IInv'
<1>. DEFINE g == [graph[w] EXCEPT !.pause = Gate(w), !.answered = FALSE]
<1>1. AtNode(w) /\ Gate(w) \in {"review", "confirm"}
  BY DEF Interrupt, Open, Gate
<1>2. g \in States /\ g.intent = graph[w].intent /\ g.query = graph[w].query /\ g.done = graph[w].done
  <2>1. g \in States
    BY <1>1, Here, StateFields
  <2>. QED  BY <2>1, Here DEF States
<1>3. graph[w].done \in {2, 3} \/ graph[w].query # "recovery"
  BY <1>1, AtGraph, Here, Places DEF Gate
<1>4. graph[w].intent = None
  BY <1>3, Here, AtGraph, <1>1 DEF Sound
<1>5. TypeOK' /\ LocalTo(w) /\ graph'[w] = g /\ pc'[w] = "final" /\ confirmed'[w] = confirmed[w]
  BY <1>2, Here DEF Interrupt, Graph, Goto, LocalTo, TypeOK, aurora, calls, history
<1>6. Sound(graph[w])'
  BY <1>2, <1>4, <1>5, Here, AtGraph, <1>1 DEF Sound, Pending, LocalTo, States
<1>7. Position(w)' /\ Follows(w)'
  BY <1>1, <1>2, <1>5, Here, AtGraph
     DEF Position, Follows, LocalTo, BeforeClaim, AtHold, WithoutCall
<1>. QED  BY <1>5, <1>6, <1>7, LocalStep

LEMMA ReadNodeInv == ASSUME IInv, NEW w \in Workers, ReadNode(w) PROVE IInv'
<1>. DEFINE g == [graph[w] EXCEPT !.done = @ + 1]
<1>1. AtNode(w) /\ NextNode(graph[w]) # "prepare_hold"
  BY DEF ReadNode, Open
<1>2. ~(graph[w].query = "recovery" /\ graph[w].done = 3)
  BY <1>1, AtGraph, Here, Places
<1>3. g \in States /\ Sound(g) /\ ~Pending(g) /\ g.intent = graph[w].intent
  BY <1>1, <1>2, AtGraph, Here, DoneSound
<1>4. TypeOK' /\ LocalTo(w) /\ graph'[w] = g /\ pc'[w] = "save" /\ confirmed'[w] = confirmed[w]
  BY <1>3, Here DEF ReadNode, Complete, Graph, Goto, LocalTo, TypeOK, aurora, calls, history
<1>5. Sound(graph[w])'
  BY <1>3, <1>4 DEF Sound, Pending, LocalTo
<1>. QED  BY <1>1, <1>3, <1>4, <1>5, AtGraph, SavingStep

LEMMA PrepareHoldInv == ASSUME IInv, NEW w \in Workers, PrepareHold(w) PROVE IInv'
<1>. USE PackagesAssumption
<1>. DEFINE s == graph[w]
            c == IF s.chosen = None THEN Top ELSE s.chosen
            m == [s EXCEPT !.intent = w, !.package = c]
<1>1. AtNode(w) /\ NextNode(s) = "prepare_hold" /\ Open(w)
  BY DEF PrepareHold, Open
<1>2. s.query = "recovery" /\ s.done = 3 /\ consented /\ ~Finished(s) /\ ~Pending(s)
  BY <1>1, AtGraph, Here, Places
<1>3. s \in States /\ s.intent = None /\ ~s.held /\ Sound(s)
  BY <1>2, Here DEF Sound, States
<1>4. \/ Complete(w, m)
      \/ Complete(w, s)
  BY <1>3 DEF PrepareHold
<1>5. CASE Complete(w, s)
  <2>. DEFINE g == [s EXCEPT !.done = @ + 1]
  <2>1. g \in States /\ Sound(g) /\ ~Pending(g) /\ g.intent = s.intent
    BY <1>2, <1>3, DoneSound
  <2>2. TypeOK' /\ LocalTo(w) /\ graph'[w] = g /\ pc'[w] = "save" /\ confirmed'[w] = confirmed[w]
    BY <1>5, <2>1, Here DEF PrepareHold, Complete, Graph, Goto, LocalTo, TypeOK, aurora, calls, history
  <2>3. Sound(graph[w])'
    BY <2>1, <2>2 DEF Sound, Pending, LocalTo
  <2>. QED  BY <1>1, <2>1, <2>2, <2>3, AtGraph, SavingStep
<1>6. CASE Complete(w, m)
  <2>. DEFINE g == [m EXCEPT !.done = @ + 1]
  <2>1. c \in Packages
    BY <1>3 DEF States
  <2>2. /\ m \in States /\ m.done = 3 /\ m.query = "recovery" /\ m.intent = w /\ m.held = FALSE
        /\ m.package = c /\ m.chosen = s.chosen /\ m.pause = s.pause /\ m.answered = s.answered
    <3>1. m \in States
      <4>. HIDE DEF c
      <4>. QED  BY <1>3, <2>1, StateFields
    <3>. HIDE DEF c
    <3>. QED  BY <1>2, <1>3, <3>1 DEF States
  <2>3. /\ g \in States /\ g.done = 4 /\ g.query = "recovery" /\ g.intent = w /\ g.held = FALSE
        /\ g.package = c /\ g.chosen = s.chosen /\ g.pause = s.pause /\ g.answered = s.answered
    <3>. HIDE DEF m, c, s
    <3>1. g \in States
      <4>1. g = [m EXCEPT !.done = 4] /\ 4 \in 0..6
        BY <2>2
      <4>2. \A d \in 0..6 : [m EXCEPT !.done = d] \in States
        BY <2>2, StateFields
      <4>. QED  BY <4>1, <4>2
    <3>. QED  BY <2>2, <3>1 DEF States
  <2>4. "recovery" \in Queries /\ Len(Route["recovery"]) = 6
    BY <1>2, <1>3, RouteFacts DEF States
  <2>5. TypeOK' /\ LocalTo(w) /\ graph'[w] = g /\ pc'[w] = "save" /\ confirmed'[w] = confirmed[w]
    BY <1>6, <2>3, Here DEF PrepareHold, Complete, Graph, Goto, LocalTo, TypeOK, aurora, calls, history
  <2>6. Sound(graph[w])' /\ ~Pending(graph'[w])
    <3>1. graph'[w] = g /\ s.chosen = graph[w].chosen
      BY <2>5
    <3>2. ~Pending(graph'[w])
      BY <1>2, <2>3, <2>5 DEF Pending
    <3>. HIDE DEF g, s
    <3>. QED  BY <1>2, <2>3, <2>4, <2>5, <3>1, <3>2 DEF Sound, Pending, LocalTo
  <2>7. graph'[w].intent = w
    BY <2>3, <2>5
  <2>. QED  BY <1>1, <1>3, <2>5, <2>6, <2>7, AtGraph, SavingStep
<1>. QED  BY <1>4, <1>5, <1>6

LEMMA StartHoldInv == ASSUME IInv, NEW w \in Workers, StartHold(w) PROVE IInv'
<1>. DEFINE g == [graph[w] EXCEPT !.done = @ + 1]
<1>1. AtNode(w) /\ NextNode(graph[w]) = "hold"
  BY DEF StartHold, Open
<1>2. graph[w].query = "recovery" /\ graph[w].done = 4
  BY <1>1, AtGraph, Here, Places
<1>3. CASE graph[w].intent = None
  <2>1. g \in States /\ Sound(g) /\ ~Pending(g) /\ g.intent = graph[w].intent
    BY <1>1, <1>2, AtGraph, Here, DoneSound
  <2>2. TypeOK' /\ LocalTo(w) /\ graph'[w] = g /\ pc'[w] = "save" /\ confirmed'[w] = confirmed[w]
    BY <1>3, <2>1, Here DEF StartHold, Complete, Graph, Goto, LocalTo, TypeOK, aurora, calls, history
  <2>3. Sound(graph[w])'
    BY <2>1, <2>2 DEF Sound, Pending, LocalTo
  <2>. QED  BY <1>1, <2>1, <2>2, <2>3, AtGraph, SavingStep
<1>4. CASE graph[w].intent # None
  <2>1. /\ TypeOK' /\ LocalTo(w) /\ graph'[w] = graph[w] /\ pc'[w] = "lease"
        /\ confirmed'[w] = confirmed[w]
    BY <1>4, Here DEF StartHold, Goto, LocalTo, TypeOK, aurora, calls, history
  <2>2. Sound(graph[w])'
    BY <2>1, Here DEF Sound, Pending, LocalTo
  <2>3. Position(w)' /\ Follows(w)'
    BY <1>1, <1>2, <1>4, <2>1, Here, AtGraph
       DEF Position, Follows, LocalTo, BeforeClaim, AtHold, WithoutCall, Pending
  <2>. QED  BY <2>1, <2>2, <2>3, LocalStep
<1>. QED  BY <1>3, <1>4

-----------------------------------------------------------------------------
(* The hold node's read-back and its call, and the release a failure asks for. *)

LEMMA AtTheHold ==
  ASSUME IInv, NEW w \in Workers, pc[w] \in AtHold
  PROVE  /\ graph[w].query = "recovery" /\ graph[w].done = 4 /\ graph[w].intent \in Workers
         /\ ~Finished(graph[w]) /\ ~Pending(graph[w])
  BY Here, Places, PackagesAssumption DEF Position, Sound, States

LEMMA HeldSound ==
  ASSUME IInv, NEW w \in Workers, pc[w] \in AtHold, NEW h \in BOOLEAN,
         h => bookings[graph[w].intent] # "none",
         NEW g, g = [[graph[w] EXCEPT !.held = h] EXCEPT !.done = @ + 1]
  PROVE  g \in States /\ Sound(g) /\ ~Pending(g) /\ g.intent = graph[w].intent
<1>. USE PackagesAssumption
<1>. DEFINE s == graph[w]
            m == [s EXCEPT !.held = h]
<1>1. s \in States /\ Sound(s) /\ ~Pending(s) /\ s.done = 4 /\ s.query = "recovery" /\ s.intent \in Workers
  BY Here, AtTheHold
<1>2. m \in States
  BY <1>1, StateFields
<1>3. Sound(m) /\ ~Pending(m) /\ m.done = 4 /\ m.intent = s.intent /\ m.query = "recovery"
  BY <1>1, <1>2 DEF States, Sound, Pending
<1>4. ~Finished(m)
  BY <1>2, <1>3, Places DEF Sound
<1>5. g = [m EXCEPT !.done = @ + 1] /\ ~(m.query = "recovery" /\ m.done = 3)
  BY <1>3
<1>. HIDE DEF m
<1>. QED  BY <1>2, <1>3, <1>4, <1>5, DoneSound

LEMMA ReadBackInv == ASSUME IInv, NEW w \in Workers, ReadBack(w) PROVE IInv'
<1>1. pc[w] = "locked" /\ pc[w] \in AtHold \ {"wait"}
  BY DEF ReadBack, AtHold
<1>2. CASE bookings[graph[w].intent] # "none"
  <2>. DEFINE g == [[graph[w] EXCEPT !.held = TRUE] EXCEPT !.done = @ + 1]
  <2>1. g \in States /\ Sound(g) /\ ~Pending(g) /\ g.intent = graph[w].intent
    BY <1>1, <1>2, HeldSound
  <2>2. Complete(w, [graph[w] EXCEPT !.held = TRUE])
    BY <1>2 DEF ReadBack
  <2>3. TypeOK' /\ LocalTo(w) /\ graph'[w] = g /\ pc'[w] = "save" /\ confirmed'[w] = confirmed[w]
    <3>1. graph' = [graph EXCEPT ![w] = g] /\ pc' = [pc EXCEPT ![w] = "save"]
      BY <2>2 DEF Complete, Graph, Goto
    <3>. HIDE DEF g
    <3>. QED  BY <2>1, <3>1, Here DEF ReadBack, LocalTo, TypeOK, calls, history
  <2>4. Sound(graph[w])'
    <3>. HIDE DEF g
    <3>. QED  BY <2>1, <2>3 DEF Sound, Pending, LocalTo
  <2>5. ~Pending(graph'[w]) /\ graph'[w].intent = graph[w].intent
    BY <2>1, <2>3
  <2>. QED  BY <1>1, <2>3, <2>4, <2>5, SavingStep
<1>3. CASE bookings[graph[w].intent] = "none"
  <2>1. /\ TypeOK' /\ LocalTo(w) /\ graph'[w] = graph[w] /\ confirmed'[w] = confirmed[w]
        /\ pc'[w] = "send"
    BY <1>3, Here DEF ReadBack, Goto, LocalTo, TypeOK, calls, history
  <2>2. Elsewhere(w)
    BY <2>1 DEF Elsewhere, LocalTo
  <2>3. Sound(snap)' /\ Sound(graph[w])'
    BY <2>1, Here DEF Sound, Pending, LocalTo
  <2>4. Position(w)' /\ CallSound(w)' /\ Follows(w)'
    BY <1>1, <2>1, Here DEF Position, CallSound, RowLocked, Follows, LocalTo, BeforeClaim, AtHold,
                            WithoutCall, Pending
  <2>5. bookings'[graph'[w].intent] = "none"
    BY <1>3, <2>1 DEF LocalTo
  <2>. QED  BY <2>1, <2>2, <2>3, <2>4, <2>5, StepInv DEF WorkerSound
<1>. QED  BY <1>2, <1>3

(* A step of a worker and its call: the rows stay, and the others.         *)
CallOf(w) ==
    /\ UNCHANGED <<execution, snap, bookings, consented>>
    /\ \A v \in Workers \ {w} :
          /\ pc'[v] = pc[v] /\ graph'[v] = graph[v] /\ confirmed'[v] = confirmed[v]
          /\ call'[v] = call[v] /\ asks'[v] = asks[v]

LEMMA CallOfStep ==
  ASSUME IInv, NEW w \in Workers, TypeOK', CallOf(w), pc'[w] # "send",
         Sound(graph[w])', Position(w)', CallSound(w)', Follows(w)'
  PROVE  IInv'
<1>1. Sound(snap)'
  BY Here DEF CallOf, Sound, Pending
<1>2. Elsewhere(w)
  BY DEF CallOf, Elsewhere
<1>. QED  BY <1>1, <1>2, StepInv DEF WorkerSound

LEMMA SendHoldInv == ASSUME IInv, NEW w \in Workers, SendHold(w) PROVE IInv'
<1>1. pc[w] = "send" /\ pc[w] \in AtHold /\ graph[w].intent \in Workers
  BY AtTheHold DEF SendHold, AtHold
<1>2. TypeOK'
  BY <1>1, Here DEF SendHold, CallIs, Asks, Goto, TypeOK, aurora, history, Sent
<1>3. /\ CallOf(w) /\ pc'[w] = "wait" /\ graph'[w] = graph[w] /\ confirmed'[w] = confirmed[w]
      /\ call'[w] = "hold" /\ asks'[w] = graph[w].intent
  BY Here DEF SendHold, CallIs, Asks, Goto, CallOf, TypeOK, aurora, history
<1>4. Sound(graph[w])'
  BY <1>3, Here DEF CallOf, Sound, Pending
<1>5. Position(w)' /\ Follows(w)' /\ CallSound(w)'
  BY <1>1, <1>3, Here DEF CallOf, Position, Follows, CallSound, RowLocked, Holding, Sent,
                          BeforeClaim, AtHold, WithoutCall, Pending
<1>. QED  BY <1>2, <1>3, <1>4, <1>5, CallOfStep

LEMMA AnsweredInv == ASSUME IInv, NEW w \in Workers, Answered(w) PROVE IInv'
<1>. DEFINE h == (call[w] = "placed")
            g == [[graph[w] EXCEPT !.held = h] EXCEPT !.done = @ + 1]
<1>1. pc[w] \in AtHold /\ h \in BOOLEAN
  BY DEF Answered, AtHold
<1>2. h => bookings[graph[w].intent] # "none"
  BY Here DEF Answered, Position, CallSound
<1>3. g \in States /\ Sound(g) /\ ~Pending(g) /\ g.intent = graph[w].intent
  BY <1>1, <1>2, HeldSound
<1>4. graph' = [graph EXCEPT ![w] = g] /\ pc' = [pc EXCEPT ![w] = "save"]
  BY DEF Answered, Complete, Graph, Goto
<1>5. /\ TypeOK' /\ CallOf(w) /\ graph'[w] = g /\ confirmed'[w] = confirmed[w] /\ call'[w] = "none"
      /\ pc'[w] = "save"
  <2>. HIDE DEF g, h
  <2>. QED  BY <1>3, <1>4, Here DEF Answered, CallIs, CallOf, TypeOK, aurora, history
<1>6. Sound(graph[w])'
  <2>. HIDE DEF g, h
  <2>. QED  BY <1>3, <1>5 DEF CallOf, Sound, Pending
<1>7. ~Pending(graph'[w]) /\ graph'[w].intent = graph[w].intent
  BY <1>3, <1>5
<1>8. Position(w)' /\ Follows(w)' /\ CallSound(w)'
  <2>. HIDE DEF g, h
  <2>. QED  BY <1>1, <1>5, <1>7, Here DEF CallOf, Position, Follows, CallSound, RowLocked, Holding,
                                 Sent, BeforeClaim, AtHold, WithoutCall
<1>. QED  BY <1>5, <1>6, <1>8, CallOfStep

LEMMA RejectedInv == ASSUME IInv, NEW w \in Workers, Rejected(w) PROVE IInv'
<1>1. TypeOK'
  BY Here DEF Rejected, CallIs, Goto, TypeOK, aurora, history
<1>2. /\ CallOf(w) /\ pc'[w] = "compensate" /\ graph'[w] = graph[w] /\ confirmed'[w] = confirmed[w]
      /\ call'[w] = "none"
  BY Here DEF Rejected, CallIs, Goto, CallOf, TypeOK, aurora, history
<1>3. Sound(graph[w])'
  BY <1>2, Here DEF CallOf, Sound, Pending
<1>4. Position(w)' /\ Follows(w)' /\ CallSound(w)'
  BY <1>2, Here DEF CallOf, Position, Follows, CallSound, RowLocked, Holding, Sent, BeforeClaim,
                    AtHold, WithoutCall
<1>. QED  BY <1>1, <1>2, <1>3, <1>4, CallOfStep

LEMMA CompensateInv == ASSUME IInv, NEW w \in Workers, Compensate(w) PROVE IInv'
<1>1. CASE ~graph[w].held
  <2>1. TypeOK'
    BY <1>1, Here DEF Compensate, Goto, TypeOK, aurora, history
  <2>2. LocalTo(w) /\ Moves(w)
    BY <1>1, Here DEF Compensate, Goto, LocalTo, Moves, TypeOK, aurora, history
  <2>. QED  BY <2>1, <2>2, MoveStep
<1>2. CASE graph[w].held
  <2>1. graph[w].intent \in Workers /\ snap.intent = graph[w].intent
    BY <1>2, Here, PackagesAssumption DEF Sound, States, IInv, BookedFromSavedIntent
  <2>2. TypeOK'
    BY <1>2, <2>1, Here DEF Compensate, CallIs, Asks, Goto, TypeOK, aurora, history, Sent
  <2>3. /\ CallOf(w) /\ pc'[w] = "undo" /\ graph'[w] = graph[w] /\ confirmed'[w] = confirmed[w]
        /\ call'[w] = "release" /\ asks'[w] = graph[w].intent
    BY <1>2, Here DEF Compensate, CallIs, Asks, Goto, CallOf, TypeOK, aurora, history
  <2>4. Sound(graph[w])'
    BY <2>3, Here DEF CallOf, Sound, Pending
  <2>5. Position(w)' /\ Follows(w)' /\ CallSound(w)'
    BY <2>1, <2>3, Here DEF CallOf, Position, Follows, CallSound, RowLocked, Holding, Sent,
                            BeforeClaim, AtHold, WithoutCall
  <2>. QED  BY <2>2, <2>3, <2>4, <2>5, CallOfStep
<1>. QED  BY <1>1, <1>2

-----------------------------------------------------------------------------
(* The Lambda's two transactions.                                          *)

\* No step of the Lambda is taken while its worker is before its call.
LEMMA InCall ==
  ASSUME IInv, NEW w \in Workers, call[w] # "none"
  PROVE  pc[w] \notin WithoutCall /\ pc[w] # "send"
  BY Here DEF Position, WithoutCall, AtHold

LEMMA LambdaStep ==
  ASSUME IInv, NEW w \in Workers, call[w] # "none", TypeOK', CallSound(w)',
         UNCHANGED <<execution, snap, bookings, worker, asks, consented>>,
         \A v \in Workers \ {w} : call'[v] = call[v]
  PROVE  IInv'
<1>1. CallOf(w) /\ pc'[w] = pc[w] /\ graph'[w] = graph[w] /\ confirmed'[w] = confirmed[w]
  BY DEF CallOf, worker
<1>2. Sound(graph[w])'
  BY <1>1, Here DEF CallOf, Sound, Pending
<1>3. Position(w)' /\ Follows(w)'
  BY <1>1, Here, InCall DEF CallOf, Position, Follows, Pending
<1>. QED  BY <1>1, <1>2, <1>3, InCall, CallOfStep

LEMMA BeginInv == ASSUME IInv, NEW w \in Workers, Begin(w) PROVE IInv'
<1>1. TypeOK'
  BY Here DEF Begin, CallIs, TypeOK, aurora, worker, history, Sent
<1>2. CallSound(w)' /\ \A v \in Workers \ {w} : call'[v] = call[v]
  BY Here DEF Begin, CallIs, TypeOK, CallSound, RowLocked, Holding, Sent, aurora
<1>. QED  BY <1>1, <1>2, LambdaStep DEF Begin, aurora, history

LEMMA ClaimExecutionInv == ASSUME IInv, NEW w \in Workers, ClaimExecution(w) PROVE IInv'
<1>1. TypeOK'
  BY Here DEF ClaimExecution, CallIs, TypeOK, aurora, worker, history, Sent
<1>2. CallSound(w)' /\ \A v \in Workers \ {w} : call'[v] = call[v]
  BY Here DEF ClaimExecution, CallIs, TypeOK, CallSound, RowLocked, Holding, Sent, aurora
<1>. QED  BY <1>1, <1>2, LambdaStep DEF ClaimExecution, aurora, history

LEMMA LockJourneyInv == ASSUME IInv, NEW w \in Workers, LockJourney(w) PROVE IInv'
<1>1. TypeOK'
  BY Here DEF LockJourney, CallIs, TypeOK, worker, history, Sent, Live
<1>2. CallSound(w)' /\ \A v \in Workers \ {w} : call'[v] = call[v]
  BY Here DEF LockJourney, CallIs, TypeOK, CallSound, RowLocked, Holding, Sent
<1>. QED  BY <1>1, <1>2, LambdaStep DEF LockJourney, history

LEMMA RefuseInv == ASSUME IInv, NEW w \in Workers, Refuse(w) PROVE IInv'
<1>1. TypeOK'
  BY Here DEF Refuse, CallIs, TypeOK, worker, history, Sent
<1>2. CallSound(w)' /\ call[w] # "none" /\ \A v \in Workers \ {w} : call'[v] = call[v]
  BY Here DEF Refuse, CallIs, TypeOK, CallSound, RowLocked, Holding, Sent
<1>. QED  BY <1>1, <1>2, LambdaStep DEF Refuse, history

(* A commit writes the booking of the request its call names, which is the *)
(* saved one while the row is locked.                                      *)
LEMMA CommitStep ==
  ASSUME IInv, NEW w \in Workers, RowLocked(w), TypeOK',
         UNCHANGED <<execution, snap, worker, asks, consented>>,
         \A v \in Workers \ {w} : call'[v] = call[v],
         \A r \in Workers : /\ bookings[r] # "none" => bookings'[r] # "none"
                            /\ bookings'[r] # bookings[r] => r = asks[w],
         CallSound(w)'
  PROVE  IInv'
<1>. USE PackagesAssumption
<1>1. execution[w] = "running" /\ snap.intent = asks[w] /\ asks[w] \in Workers /\ call[w] # "none"
  BY Here DEF CallSound, RowLocked, Holding, Sent
<1>2. Elsewhere(w)
  BY <1>1 DEF Elsewhere, worker
<1>3. Sound(snap)' /\ Sound(graph[w])'
  BY Here DEF Sound, Pending, States, worker
<1>4. Position(w)' /\ Follows(w)'
  BY <1>1, InCall, Here DEF Position, Follows, Pending, worker
<1>5. pc'[w] # "send"
  BY <1>1, InCall DEF worker
<1>. QED  BY <1>2, <1>3, <1>4, <1>5, StepInv DEF WorkerSound

LEMMA CommitHoldInv == ASSUME IInv, NEW w \in Workers, CommitHold(w) PROVE IInv'
<1>1. RowLocked(w) /\ asks[w] \in Workers
  BY Here DEF CommitHold, CallSound, RowLocked, Holding, Sent
<1>2. PICK answer \in {"placed", "refused"} : call' = [call EXCEPT ![w] = answer]
  BY DEF CommitHold, CallIs
<1>3. TypeOK'
  BY <1>1, <1>2, Here DEF CommitHold, TypeOK, worker
<1>4. /\ \A v \in Workers \ {w} : call'[v] = call[v]
      /\ \A r \in Workers : /\ bookings[r] # "none" => bookings'[r] # "none"
                            /\ bookings'[r] # bookings[r] => r = asks[w]
      /\ bookings'[asks[w]] # "none" /\ call'[w] = answer
  BY <1>1, <1>2, Here DEF CommitHold, TypeOK
<1>5. CallSound(w)'
  BY <1>1, <1>4 DEF CommitHold, CallSound, RowLocked, Holding, Sent
<1>. QED  BY <1>1, <1>3, <1>4, <1>5, CommitStep DEF CommitHold

LEMMA CommitReleaseInv == ASSUME IInv, NEW w \in Workers, CommitRelease(w) PROVE IInv'
<1>1. RowLocked(w) /\ asks[w] \in Workers
  BY Here DEF CommitRelease, CallSound, RowLocked, Holding, Sent
<1>2. TypeOK'
  BY <1>1, Here DEF CommitRelease, CallIs, TypeOK, worker, history
<1>3. /\ \A v \in Workers \ {w} : call'[v] = call[v]
      /\ \A r \in Workers : /\ bookings[r] # "none" => bookings'[r] # "none"
                            /\ bookings'[r] # bookings[r] => r = asks[w]
  BY <1>1, Here DEF CommitRelease, CallIs, TypeOK
<1>4. CallSound(w)'
  BY Here DEF CommitRelease, CallIs, TypeOK, CallSound, RowLocked, Holding, Sent
<1>. QED  BY <1>1, <1>2, <1>3, <1>4, CommitStep DEF CommitRelease, history

-----------------------------------------------------------------------------
(* The claim, the read under the lease, and the saves.                     *)

LEMMA ClaimInv == ASSUME IInv, NEW w \in Workers, Claim(w) PROVE IInv'
<1>1. CASE \A v \in Workers : CanTake(v)
  <2>1. /\ execution' = [v \in Workers |-> IF v = w THEN "running"
                            ELSE IF execution[v] = "running" THEN "ended" ELSE execution[v]]
        /\ lapsed' = {} /\ pc' = [pc EXCEPT ![w] = "reread"]
    BY <1>1 DEF Claim, Goto
  <2>2. TypeOK'
    BY <1>1, <2>1, Here DEF Claim, TypeOK, calls, history
  <2>3. pc'[w] = "reread" /\ UNCHANGED <<snap, bookings, graph, confirmed, call, asks, consented>>
    BY <1>1, <2>1, Here DEF Claim, TypeOK, calls, history
  <2>4. Elsewhere(w)
    BY <1>1, <2>1, <2>3, Here DEF Claim, CanTake, Elsewhere, TypeOK
  <2>5. Sound(snap)' /\ Sound(graph[w])'
    BY <2>3, Here DEF Sound, Pending
  <2>6. call[w] = "none"
    BY Here DEF Claim, Position, WithoutCall, BeforeClaim
  <2>7. Position(w)' /\ CallSound(w)' /\ Follows(w)'
    BY <2>3, <2>6, Here DEF Position, CallSound, RowLocked, Holding, Sent, Follows, BeforeClaim,
                            AtHold, WithoutCall
  <2>. QED  BY <2>2, <2>3, <2>4, <2>5, <2>7, StepInv DEF WorkerSound
<1>2. CASE ~\A v \in Workers : CanTake(v)
  <2>1. Stop(w, "end") /\ UNCHANGED <<execution, lapsed, snap, bookings, journeyLock, calls, history>>
    BY <1>2 DEF Claim
  <2>. QED  BY <2>1, StopStep
<1>. QED  BY <1>1, <1>2

LEMMA ReadAgainInv == ASSUME IInv, NEW w \in Workers, ReadAgain(w) PROVE IInv'
<1>. USE PackagesAssumption
<1>. DEFINE c == cmd[w]
            start == IF ~c.resume THEN Fresh(snap.query)
                     ELSE IF Pending(snap) THEN [snap EXCEPT !.answered = TRUE] ELSE Resumable(snap)
<1>1. c \in Commands /\ snap \in States /\ Sound(snap) /\ snap.query \in Queries
  BY Here DEF States
<1>2. CASE Contradicted(c) \/ ChoiceRefused(c)
  <2>1. TypeOK'
    BY <1>2, Here DEF ReadAgain, Goto, TypeOK, aurora, calls
  <2>2. LocalTo(w) /\ Moves(w)
    BY <1>2, Here DEF ReadAgain, Goto, TypeOK, LocalTo, Moves, aurora, calls
  <2>. QED  BY <2>1, <2>2, MoveStep
<1>3. CASE ~Contradicted(c) /\ ~ChoiceRefused(c)
  <2>1. /\ Goto(w, IF c.chosen \in {None, snap.chosen} THEN "graph" ELSE "choice")
        /\ Graph(w, start) /\ confirmed' = [confirmed EXCEPT ![w] = TravelerConfirmed(c)]
        /\ consented' = (consented \/ (c.resume /\ Pending(snap)))
        /\ UNCHANGED <<aurora, cmd, calls, placer>> /\ pc[w] = "reread"
    BY <1>3 DEF ReadAgain
  <2>2. start \in States /\ start.intent = snap.intent /\ ~Pending(start)
    <3>1. CASE ~c.resume
      <4>1. Fresh(snap.query) \in States /\ snap.done = 0
        BY <1>1, <1>3, <3>1, FreshStates DEF Contradicted
      <4>. QED  BY <1>1, <3>1, <4>1 DEF Sound, Fresh, Pending
    <3>2. CASE c.resume /\ Pending(snap)
      <4>1. start = [snap EXCEPT !.answered = TRUE]
        BY <3>2
      <4>2. start \in States
        BY <1>1, <4>1, StateFields
      <4>. QED  BY <1>1, <4>1, <4>2 DEF Pending, States
    <3>3. CASE c.resume /\ ~Pending(snap) /\ ~snap.answered
      BY <1>1, <3>3 DEF Resumable
    <3>4. CASE c.resume /\ ~Pending(snap) /\ snap.answered
      <4>1. start = [snap EXCEPT !.pause = "no", !.answered = FALSE]
        BY <3>4 DEF Resumable, Deactivated
      <4>2. start \in States
        BY <1>1, <4>1, StateFields
      <4>. QED  BY <1>1, <4>1, <4>2 DEF Pending, States
    <3>. QED  BY <1>1, <3>1, <3>2, <3>3, <3>4 DEF Commands
  <2>3. /\ start.done <= Len(Route[start.query])
        /\ start.intent # None => /\ start.query = "recovery" /\ start.done >= 4
                /\ start.package = (IF start.chosen = None THEN Top ELSE start.chosen)
        /\ start.answered \/ (start.query = "recovery" /\ start.done >= 4) => consented'
        /\ start.held => start.intent # None /\ bookings[start.intent] # "none"
    <3>1. CASE ~c.resume
      <4>1. Sound(Fresh(snap.query)) /\ start = Fresh(snap.query)
        BY <1>1, <3>1, FreshStates
      <4>2. consented => consented'
        BY <2>1
      <4>. QED  BY <4>1, <4>2 DEF Sound
    <3>2. CASE c.resume /\ Pending(snap)
      <4>1. start = [snap EXCEPT !.answered = TRUE] /\ consented'
        BY <2>1, <3>2
      <4>. QED  BY <1>1, <4>1 DEF Sound, States
    <3>3. CASE c.resume /\ ~Pending(snap) /\ ~snap.answered
      <4>1. start = snap /\ (consented => consented')
        BY <2>1, <3>3 DEF Resumable
      <4>. QED  BY <1>1, <4>1 DEF Sound
    <3>4. CASE c.resume /\ ~Pending(snap) /\ snap.answered
      <4>1. start = [snap EXCEPT !.pause = "no", !.answered = FALSE] /\ (consented => consented')
        BY <2>1, <3>4 DEF Resumable, Deactivated
      <4>. QED  BY <1>1, <3>4, <4>1 DEF Sound, States
    <3>. QED  BY <1>1, <3>1, <3>2, <3>3, <3>4 DEF Commands
  <2>4. TravelerConfirmed(c) => consented'
    <3>1. "prepare_hold" \in Completed(snap) => consented
      BY <1>1, Places DEF Sound
    <3>. QED  BY <1>1, <2>1, <3>1 DEF TravelerConfirmed, Sound, Pending
  <2>5. IF c.chosen \in {None, snap.chosen} THEN TRUE ELSE start.intent = None
    BY <1>1, <1>3, <2>2 DEF ChoiceRefused, Sound
  <2>. HIDE DEF start, c
  <2>6. TypeOK'
    BY <1>1, <2>1, <2>2, Here DEF Goto, Graph, TypeOK, TravelerConfirmed, aurora, calls
  <2>7. /\ graph'[w] = start /\ confirmed'[w] = TravelerConfirmed(c)
        /\ pc'[w] = (IF c.chosen \in {None, snap.chosen} THEN "graph" ELSE "choice")
        /\ UNCHANGED <<execution, snap, bookings, call, asks>>
    BY <2>1, Here DEF Goto, Graph, TypeOK, aurora, calls
  <2>8. Elsewhere(w)
    BY <2>1, Here DEF Goto, Graph, Elsewhere, TypeOK, aurora, calls
  <2>9. Sound(snap)' /\ Sound(graph[w])'
    BY <1>1, <2>1, <2>2, <2>3, <2>7 DEF Sound, Pending
  <2>10. call[w] = "none"
    BY <2>1, Here DEF Position, WithoutCall
  <2>11. Position(w)' /\ CallSound(w)' /\ Follows(w)'
    BY <2>2, <2>4, <2>5, <2>7, <2>10 DEF Position, CallSound, RowLocked, Holding, Sent, Follows,
                                       BeforeClaim, AtHold, WithoutCall
  <2>. QED  BY <2>6, <2>7, <2>8, <2>9, <2>11, StepInv DEF WorkerSound
<1>. QED  BY <1>2, <1>3

(* A save by a worker without a call: the snapshot it writes is sound and  *)
(* keeps the saved request, or saves the first one of the execution that   *)
(* runs.                                                                   *)
LEMMA SaveStep ==
  ASSUME IInv, NEW w \in Workers, TypeOK', call[w] = "none",
         UNCHANGED <<execution, bookings, call, asks, consented, confirmed>>,
         \A v \in Workers \ {w} : pc'[v] = pc[v] /\ graph'[v] = graph[v],
         pc'[w] \in {"graph", "final", "release", "compensate"},
         Sound(snap)', Sound(graph[w])', pc'[w] = "graph" => ~Pending(graph'[w]),
         snap'.intent # snap.intent => execution[w] = "running" /\ snap.intent = None,
         pc'[w] \in {"graph", "final"} => graph'[w].intent = snap'.intent \/ execution[w] # "running"
  PROVE  IInv'
<1>1. Elsewhere(w)
  BY DEF Elsewhere
<1>2. Position(w)' /\ CallSound(w)' /\ Follows(w)'
  BY Here DEF Position, CallSound, RowLocked, Holding, Sent, Follows, BeforeClaim, AtHold, WithoutCall
<1>. QED  BY <1>1, <1>2, StepInv DEF WorkerSound

LEMMA SaveChoiceInv == ASSUME IInv, NEW w \in Workers, SaveChoice(w) PROVE IInv'
<1>. USE PackagesAssumption
<1>. DEFINE s == [graph[w] EXCEPT !.chosen = cmd[w].chosen]
            u == [s EXCEPT !.answered = FALSE]
<1>1. /\ pc[w] = "choice" /\ call[w] = "none" /\ graph[w] \in States /\ Sound(graph[w])
      /\ graph[w].intent = None /\ ~Pending(graph[w]) /\ cmd[w].chosen \in Packages \cup {None}
  BY Here DEF SaveChoice, Position, WithoutCall, Commands
<1>2. s \in States /\ s.intent = None /\ Sound(s) /\ ~Pending(s)
  <2>1. s \in States
    BY <1>1, StateFields
  <2>. QED  BY <1>1, <2>1 DEF States, Sound, Pending
<1>3. u \in States /\ u.intent = None /\ Sound(u)
  <2>. HIDE DEF s
  <2>1. u \in States
    BY <1>2, StateFields
  <2>. QED  BY <1>2, <2>1 DEF States, Sound, Pending
<1>4. Save(w, u, Graph(w, s) /\ Goto(w, "graph"), Goto(w, "release") /\ UNCHANGED graph)
  BY DEF SaveChoice
<1>. HIDE DEF s, u
<1>5. /\ (snap' = u /\ execution[w] = "running") \/ snap' = snap
      /\ \/ graph' = [graph EXCEPT ![w] = s] /\ pc' = [pc EXCEPT ![w] = "graph"] /\ snap' = u
         \/ graph' = graph /\ pc' = [pc EXCEPT ![w] = "release"]
  BY <1>4 DEF Save, Owns, Graph, Goto
<1>6. TypeOK'
  BY <1>2, <1>3, <1>5, Here DEF SaveChoice, TypeOK, calls, history
<1>7. /\ UNCHANGED <<execution, bookings, call, asks, consented, confirmed>>
      /\ \A v \in Workers \ {w} : pc'[v] = pc[v] /\ graph'[v] = graph[v]
      /\ \/ graph'[w] = s /\ pc'[w] = "graph" /\ snap' = u
         \/ graph'[w] = graph[w] /\ pc'[w] = "release"
  BY <1>5, Here DEF SaveChoice, TypeOK, calls, history
<1>8. Sound(snap)' /\ Sound(graph[w])'
  BY <1>1, <1>2, <1>3, <1>5, <1>7, Here DEF Sound, Pending
<1>9. pc'[w] = "graph" => ~Pending(graph'[w]) /\ graph'[w].intent = snap'.intent
  BY <1>2, <1>3, <1>7
<1>10. snap'.intent # snap.intent => execution[w] = "running" /\ snap.intent = None
  <2>1. snap' # snap => snap'.intent = None
    BY <1>3, <1>5
  <2>2. snap' # snap => execution[w] = "running" /\ snap.intent = u.intent
    BY <1>1, <1>3, <1>5, Here, SMT DEF Save, IInv, BookedFromSavedIntent, WorkerSound, Follows
  <2>. QED  BY <1>3, <2>1, <2>2
<1>. QED  BY <1>1, <1>6, <1>7, <1>8, <1>9, <1>10, SaveStep

LEMMA SaveNodeInv == ASSUME IInv, NEW w \in Workers, SaveNode(w) PROVE IInv'
<1>. USE PackagesAssumption
<1>. DEFINE d == Deactivated(graph[w])
<1>1. /\ pc[w] = "save" /\ call[w] = "none" /\ graph[w] \in States /\ Sound(graph[w])
      /\ ~Pending(graph[w])
      /\ execution[w] = "running" =>
            graph[w].intent = snap.intent \/ (snap.intent = None /\ graph[w].intent = w)
  BY Here DEF SaveNode, Position, WithoutCall, Follows
<1>2. d \in States /\ d.intent = graph[w].intent /\ Sound(d) /\ ~Pending(d)
  <2>1. d \in States
    BY <1>1, StateFields DEF Deactivated
  <2>. QED  BY <1>1, <2>1 DEF States, Sound, Pending, Deactivated
<1>3. Save(w, graph[w],
           /\ Graph(w, d)
           /\ Goto(w, IF Finished(graph[w]) THEN "final" ELSE "graph"),
           FailedSave(w) /\ UNCHANGED graph)
  BY DEF SaveNode
<1>. HIDE DEF d
<1>4. PICK p \in {"graph", "final", "release", "compensate"} : pc' = [pc EXCEPT ![w] = p]
  BY <1>3 DEF Save, FailedSave, Goto
<1>5. /\ (snap' = graph[w] /\ execution[w] = "running") \/ snap' = snap
      /\ \/ graph' = [graph EXCEPT ![w] = d] /\ snap' = graph[w]
         \/ graph' = graph /\ pc' \in {[pc EXCEPT ![w] = "release"], [pc EXCEPT ![w] = "compensate"]}
  BY <1>3 DEF Save, Owns, Graph, FailedSave, Goto
<1>6. TypeOK'
  BY <1>1, <1>2, <1>4, <1>5, Here DEF SaveNode, TypeOK, calls, history
<1>7. /\ UNCHANGED <<execution, bookings, call, asks, consented, confirmed>>
      /\ \A v \in Workers \ {w} : pc'[v] = pc[v] /\ graph'[v] = graph[v]
      /\ pc'[w] \in {"graph", "final", "release", "compensate"}
      /\ \/ graph'[w] = d /\ snap' = graph[w]
         \/ graph'[w] = graph[w] /\ pc'[w] \in {"release", "compensate"}
  BY <1>4, <1>5, Here DEF SaveNode, TypeOK, calls, history
<1>8. Sound(snap)' /\ Sound(graph[w])'
  BY <1>1, <1>2, <1>5, <1>7, Here DEF Sound, Pending
<1>9. pc'[w] \in {"graph", "final"} => ~Pending(graph'[w]) /\ graph'[w].intent = snap'.intent
  BY <1>2, <1>7
<1>10. snap'.intent # snap.intent => execution[w] = "running" /\ snap.intent = None
  BY <1>1, <1>5
<1>. QED  BY <1>1, <1>6, <1>7, <1>8, <1>9, <1>10, SaveStep

LEMMA SaveFinalInv == ASSUME IInv, NEW w \in Workers, SaveFinal(w) PROVE IInv'
<1>1. /\ call[w] = "none" /\ graph[w] \in States /\ Sound(graph[w])
      /\ execution[w] = "running" => graph[w].intent = snap.intent
  BY Here DEF SaveFinal, Position, WithoutCall, Follows
<1>2. Save(w, graph[w], Goto(w, "release"), FailedSave(w))
  BY DEF SaveFinal
<1>3. /\ (snap' = graph[w] /\ execution[w] = "running") \/ snap' = snap
      /\ pc' \in {[pc EXCEPT ![w] = "release"], [pc EXCEPT ![w] = "compensate"]}
  BY <1>2 DEF Save, Owns, FailedSave, Goto
<1>4. TypeOK'
  BY <1>1, <1>3, Here DEF SaveFinal, TypeOK, calls, history
<1>5. /\ UNCHANGED <<execution, bookings, call, asks, consented, confirmed>>
      /\ \A v \in Workers \ {w} : pc'[v] = pc[v] /\ graph'[v] = graph[v]
      /\ pc'[w] \in {"release", "compensate"} /\ graph'[w] = graph[w]
  BY <1>3, Here DEF SaveFinal, TypeOK, calls, history
<1>6. Sound(snap)' /\ Sound(graph[w])'
  BY <1>1, <1>3, <1>5, Here DEF Sound, Pending
<1>7. snap'.intent = snap.intent
  BY <1>1, <1>3
<1>8. pc'[w] \in {"graph", "final", "release", "compensate"} /\ pc'[w] \notin {"graph", "final"}
  BY <1>5
<1>. QED  BY <1>1, <1>4, <1>5, <1>6, <1>7, <1>8, SaveStep

LEMMA FailNodeInv == ASSUME IInv, NEW w \in Workers, FailNode(w) PROVE IInv'
<1>1. pc[w] \in {"graph", "lease", "readback"}
  BY DEF FailNode, Open, AtNode
<1>2. /\ call[w] = "none" /\ graph[w] \in States /\ Sound(graph[w])
      /\ execution[w] = "running" => graph[w].intent = snap.intent
  BY <1>1, Here DEF Position, WithoutCall, AtHold, Follows
<1>3. (snap' = graph[w] /\ execution[w] = "running") \/ snap' = snap
  BY DEF FailNode, Owns
<1>4. TypeOK'
  BY <1>2, <1>3, Here DEF FailNode, Goto, TypeOK, calls, history
<1>5. /\ UNCHANGED <<execution, bookings, call, asks, consented, confirmed>>
      /\ \A v \in Workers \ {w} : pc'[v] = pc[v] /\ graph'[v] = graph[v]
      /\ pc'[w] = "compensate" /\ graph'[w] = graph[w]
  BY Here DEF FailNode, Goto, TypeOK, calls, history
<1>6. Sound(snap)' /\ Sound(graph[w])'
  BY <1>2, <1>3, <1>5, Here DEF Sound, Pending
<1>7. snap'.intent = snap.intent
  BY <1>2, <1>3
<1>8. pc'[w] \in {"graph", "final", "release", "compensate"} /\ pc'[w] \notin {"graph", "final"}
  BY <1>5
<1>. QED  BY <1>2, <1>4, <1>5, <1>6, <1>7, <1>8, SaveStep

LEMMA ReleaseInv == ASSUME IInv, NEW w \in Workers, Release(w) PROVE IInv'
<1>1. snap.query \in Queries /\ NoCommand \in Commands
  BY Here DEF States, NoCommand, Commands
<1>2. Fresh(snap.query) \in States /\ Sound(Fresh(snap.query))
  BY <1>1, FreshStates
<1>3. TypeOK'
  <2>1. graph' \in [Workers -> States] /\ cmd' \in [Workers -> Commands]
    BY <1>1, <1>2, Here DEF Release, TypeOK, Stop, Graph
  <2>2. pc' = [pc EXCEPT ![w] = "end"]
    BY DEF Release, Stop, Goto
  <2>3. execution' \in [Workers -> {"none", "running", "ended"}] /\ lapsed' \subseteq Workers
    BY Here DEF Release, TypeOK
  <2>. QED  BY <2>1, <2>2, <2>3, Here DEF Release, Stop, TypeOK, calls, history
<1>4. /\ graph'[w] = Fresh(snap.query) /\ confirmed'[w] = FALSE /\ pc'[w] = "end"
      /\ \A v \in Workers \ {w} : /\ pc'[v] = pc[v] /\ graph'[v] = graph[v]
                                  /\ confirmed'[v] = confirmed[v] /\ execution'[v] = execution[v]
      /\ execution'[w] = execution[w] \/ execution'[w] = "ended"
      /\ UNCHANGED <<snap, bookings, call, asks, consented>> /\ ~RowLocked(w)
  BY Here DEF Release, Stop, Goto, Graph, TypeOK, calls, history
<1>5. Elsewhere(w)
  BY <1>4 DEF Elsewhere
<1>6. Sound(snap)' /\ Sound(graph[w])'
  BY <1>2, <1>4, Here DEF Sound, Pending
<1>7. Position(w)' /\ CallSound(w)' /\ Follows(w)'
  BY <1>4, Here DEF Position, CallSound, RowLocked, Holding, Sent, Follows, BeforeClaim, AtHold,
                    WithoutCall
<1>. QED  BY <1>3, <1>4, <1>5, <1>6, <1>7, StepInv DEF WorkerSound

-----------------------------------------------------------------------------
LEMMA NextInv == ASSUME IInv, [Next]_vars PROVE IInv'
<1>1. CASE UNCHANGED vars
  BY <1>1, StutterInv
<1>2. ASSUME NEW w \in Workers, Run(w) PROVE IInv'
  BY <1>2, ReadFirstInv, ClaimInv, ReadAgainInv, SaveChoiceInv, InterruptInv, ReadNodeInv,
     PrepareHoldInv, SaveNodeInv, SaveFinalInv, StartHoldInv, CheckLeaseInv, LockForReadInv,
     ReadBackInv, SendHoldInv, AnsweredInv, UnknownInv, CompensateInv, UndoneInv, ReleaseInv
  DEF Run
<1>3. ASSUME NEW w \in Workers, Lambda(w) PROVE IInv'
  BY <1>3, BeginInv, ClaimExecutionInv, LockJourneyInv, CommitHoldInv, CommitReleaseInv DEF Lambda
<1>4. ASSUME NEW w \in Workers, Fault(w) PROVE IInv'
  BY <1>4, FailNodeInv, RejectedInv, CancelInv, DieInv, RefuseInv DEF Fault
<1>. QED  BY <1>1, <1>2, <1>3, <1>4, CallInv, TimeInv DEF Next

\* Every call of WorkflowRunner.run and of the Lambda, in any order and cut short anywhere,
\* leaves a thread whose running worker follows the newest snapshot.
THEOREM Inductive == Spec => []IInv
<1>1. Init => IInv
  BY InitInv
<1>2. IInv /\ [Next]_vars => IInv'
  BY NextInv
<1>. QED  BY <1>1, <1>2, PTL DEF Spec

\* The saved plan is for the chosen package, a hold it says it has exists, and a run that read
\* no booking under the journey's lock may still be the one to place it.
THEOREM PlanStands == Spec => []SavedPlanStands
<1>1. IInv => SavedPlanStands
  BY DEF IInv, SavedPlanStands, HeldAsChosen, SavedHoldExists, Sound
<1>. QED  BY <1>1, Inductive, PTL

\* No booking is of another request than the saved one, however late its call arrived.
THEOREM BooksSaved == Spec => []BookedFromSavedIntent
<1>1. IInv => BookedFromSavedIntent
  BY DEF IInv
<1>. QED  BY <1>1, Inductive, PTL

-----------------------------------------------------------------------------
(* What a step may change of the consent, the saved request and the bookings. *)

Kept     == snap'.intent = snap.intent /\ bookings' = bookings /\ consented' = consented
Answers  == snap'.intent = snap.intent /\ bookings' = bookings /\ consented' = TRUE
Requests == /\ snap.intent = None /\ snap'.intent \in Workers /\ consented
            /\ bookings' = bookings /\ consented' = consented

LEMMA SaveKinds ==
  ASSUME IInv, NEW w \in Workers, SaveChoice(w) \/ SaveNode(w) \/ SaveFinal(w) \/ FailNode(w)
  PROVE  Kept \/ Requests
<1>. USE PackagesAssumption
<1>1. bookings' = bookings /\ consented' = consented
  BY DEF SaveChoice, SaveNode, SaveFinal, FailNode, history
<1>2. CASE SaveChoice(w)
  <2>1. pc[w] = "choice" /\ (snap' = snap \/ (execution[w] = "running" /\ snap'.intent = graph[w].intent))
    <3>. DEFINE u == [[graph[w] EXCEPT !.chosen = cmd[w].chosen] EXCEPT !.answered = FALSE]
    <3>0. pc[w] = "choice"
      BY <1>2 DEF SaveChoice
    <3>1. (snap' = u /\ execution[w] = "running") \/ snap' = snap
      <4>1. Save(w, u, Graph(w, [graph[w] EXCEPT !.chosen = cmd[w].chosen]) /\ Goto(w, "graph"),
                 Goto(w, "release") /\ UNCHANGED graph)
        BY <1>2 DEF SaveChoice
      <4>. HIDE DEF u
      <4>. QED  BY <4>1 DEF Save, Owns
    <3>2. u.intent = graph[w].intent
      BY Here DEF States
    <3>. QED  BY <3>0, <3>1, <3>2, Here DEF TypeOK
  <2>2. graph[w].intent = None /\ (execution[w] = "running" => snap.intent = None)
    BY <2>1, Here DEF Position, Follows
  <2>. QED  BY <1>1, <2>1, <2>2 DEF Kept
<1>3. CASE SaveNode(w)
  <2>1. pc[w] = "save" /\ ((snap' = graph[w] /\ execution[w] = "running") \/ snap' = snap)
    <3>1. pc[w] = "save"
      BY <1>3 DEF SaveNode
    <3>2. (snap' = graph[w] /\ execution[w] = "running") \/ snap' = snap
      <4>1. Save(w, graph[w],
                 /\ Graph(w, Deactivated(graph[w]))
                 /\ Goto(w, IF Finished(graph[w]) THEN "final" ELSE "graph"),
                 FailedSave(w) /\ UNCHANGED graph)
        BY <1>3 DEF SaveNode
      <4>. QED  BY <4>1 DEF Save, Owns
    <3>. QED  BY <3>1, <3>2
  <2>2. execution[w] = "running" =>
            graph[w].intent = snap.intent \/ (snap.intent = None /\ graph[w].intent = w)
    BY <2>1, Here DEF Follows
  <2>3. graph[w].intent = w => consented
    BY Here DEF Sound
  <2>. QED  BY <1>1, <2>1, <2>2, <2>3 DEF Kept, Requests
<1>4. CASE SaveFinal(w) \/ FailNode(w)
  <2>1. /\ pc[w] \in {"final", "graph", "lease", "readback"}
        /\ (snap' = graph[w] /\ execution[w] = "running") \/ snap' = snap
    <3>1. pc[w] \in {"final", "graph", "lease", "readback"}
      BY <1>4 DEF SaveFinal, FailNode, Open, AtNode
    <3>2. CASE SaveFinal(w)
      <4>1. Save(w, graph[w], Goto(w, "release"), FailedSave(w))
        BY <3>2 DEF SaveFinal
      <4>2. (snap' = graph[w] /\ execution[w] = "running") \/ snap' = snap
        BY <4>1 DEF Save, Owns
      <4>. QED  BY <3>1, <4>2
    <3>3. CASE FailNode(w)
      <4>1. (snap' = graph[w] /\ execution[w] = "running") \/ snap' = snap
        BY <3>3 DEF FailNode, Owns
      <4>. QED  BY <3>1, <4>1
    <3>. QED  BY <1>4, <3>2, <3>3
  <2>2. execution[w] = "running" => graph[w].intent = snap.intent
    BY <2>1, Here DEF Follows, AtHold
  <2>. QED  BY <1>1, <2>1, <2>2 DEF Kept
<1>. QED  BY <1>2, <1>3, <1>4

LEMMA StepKinds ==
  ASSUME IInv, [Next]_vars
  PROVE  \/ Kept \/ Answers \/ Requests
         \/ \E w \in Workers : CommitHold(w) \/ CommitRelease(w)
<1>1. CASE UNCHANGED vars
  BY <1>1 DEF vars, aurora, history, Kept
<1>2. ASSUME NEW w \in Workers, Run(w) PROVE Kept \/ Answers \/ Requests
  <2>1. CASE ReadAgain(w)
    <3>1. consented' \in {consented, TRUE}
      BY <2>1, Here DEF ReadAgain, TypeOK, history
    <3>. QED  BY <2>1, <3>1 DEF ReadAgain, Kept, Answers, aurora, history
  <2>2. CASE SaveChoice(w) \/ SaveNode(w) \/ SaveFinal(w)
    BY <2>2, SaveKinds
  <2>3. CASE \/ ReadFirst(w) \/ Claim(w) \/ Interrupt(w) \/ ReadNode(w) \/ PrepareHold(w) \/ StartHold(w)
             \/ CheckLease(w) \/ LockForRead(w) \/ ReadBack(w)
    BY <2>3 DEF ReadFirst, Claim, Interrupt, ReadNode, PrepareHold, StartHold, CheckLease, LockForRead,
                ReadBack, Kept, aurora, history
  <2>4. CASE SendHold(w) \/ Answered(w) \/ Unknown(w) \/ Compensate(w) \/ Undone(w) \/ Release(w)
    BY <2>4 DEF SendHold, Answered, Unknown, Compensate, Undone, Release, Kept, aurora, history
  <2>. QED  BY <1>2, <2>1, <2>2, <2>3, <2>4 DEF Run
<1>3. ASSUME NEW w \in Workers, Lambda(w) PROVE Kept \/ CommitHold(w) \/ CommitRelease(w)
  BY <1>3 DEF Lambda, Begin, ClaimExecution, LockJourney, Kept, aurora, history
<1>4. ASSUME NEW w \in Workers, Fault(w) PROVE Kept \/ Requests
  BY <1>4, SaveKinds DEF Fault, Rejected, Cancel, Die, Refuse, Kept, aurora, history
<1>5. ASSUME NEW w \in Workers, Call(w) \/ FreeJourney(w) \/ Lapse(w) \/ Renew(w) PROVE Kept
  BY <1>5 DEF Call, FreeJourney, Lapse, Renew, Kept, aurora, history
<1>. QED  BY <1>1, <1>2, <1>3, <1>4, <1>5 DEF Next

\* The Lambda's row lock: a booking changes only while the caller's execution runs, and only the
\* one the saved plan asked for.
THEOREM Decides == Spec => OwnerDecides
<1>. DEFINE Decided == \A r \in Workers : bookings'[r] # bookings[r] =>
        \E w \in Workers : call[w] # call'[w] /\ asks[w] = r /\ execution[w] = "running" /\ snap.intent = r
<1>1. IInv /\ [Next]_vars => [Decided]_vars
  <2>. SUFFICES ASSUME IInv, [Next]_vars PROVE Decided
    OBVIOUS
  <2>1. CASE Kept \/ Answers \/ Requests
    BY <2>1 DEF Kept, Answers, Requests
  <2>2. ASSUME NEW w \in Workers, CommitHold(w) \/ CommitRelease(w) PROVE Decided
    <3>1. RowLocked(w) /\ call'[w] # call[w]
      BY <2>2, Here DEF CommitHold, CommitRelease, CallIs, RowLocked, Holding, TypeOK
    <3>2. execution[w] = "running" /\ snap.intent = asks[w] /\ asks[w] \in Workers
      BY <3>1, Here DEF CallSound, RowLocked, Holding, Sent
    <3>3. \A r \in Workers : bookings'[r] # bookings[r] => r = asks[w]
      BY <2>2, <3>2, Here DEF CommitHold, CommitRelease, TypeOK
    <3>. QED  BY <3>1, <3>2, <3>3
  <2>. QED  BY <2>1, <2>2, StepKinds
<1>. QED  BY <1>1, Inductive, PTL DEF Spec, OwnerDecides

-----------------------------------------------------------------------------
(* The detailed recovery implements the promise.                           *)

Booked == {<<r, bookings[r]>> : r \in {v \in Workers : bookings[v] # "none"}}

LEMMA PromiseInit == Init => Promise!Init
  BY DEF Init, Promise!Init, Fresh

LEMMA PromiseCommit ==
  ASSUME IInv, NEW w \in Workers, CommitHold(w) \/ CommitRelease(w)
  PROVE  Promise!Next \/ UNCHANGED <<consented, snap.intent, Booked>>
<1>. USE PackagesAssumption
<1>. DEFINE a == asks[w]
<1>1. a \in Workers /\ snap.intent = a /\ a # None /\ snap' = snap /\ consented' = consented
  BY Here DEF CommitHold, CommitRelease, CallSound, RowLocked, Holding, Sent, history
<1>2. \A r \in Workers \ {a} : bookings[r] = "none"
  BY <1>1 DEF IInv, BookedFromSavedIntent
<1>3. \A r \in Workers \ {a} : bookings'[r] = bookings[r]
  BY <1>1, Here DEF CommitHold, CommitRelease, TypeOK
<1>4. bookings[a] \in {"none", "held", "released"}
  BY <1>1, Here DEF TypeOK
<1>5. CASE bookings'[a] = bookings[a]
  <2>1. Booked' = Booked
    BY <1>3, <1>5 DEF Booked
  <2>. QED  BY <1>1, <2>1
<1>6. CASE bookings[a] = "none" /\ bookings'[a] = "held"
  <2>1. Booked = {} /\ Booked' = {<<a, "held">>}
    BY <1>1, <1>2, <1>3, <1>6 DEF Booked
  <2>2. Promise!Book
    BY <1>1, <2>1 DEF Promise!Book, Booked
  <2>. QED  BY <2>2 DEF Promise!Next
<1>7. CASE bookings[a] = "held" /\ bookings'[a] = "released"
  <2>1. Booked = {<<a, "held">>} /\ Booked' = {<<a, "released">>}
    BY <1>1, <1>2, <1>3, <1>7 DEF Booked
  <2>2. Promise!GiveBack
    BY <1>1, <2>1 DEF Promise!GiveBack, Booked
  <2>. QED  BY <2>2 DEF Promise!Next
<1>8. bookings'[a] = bookings[a] \/ (bookings[a] = "none" /\ bookings'[a] = "held")
      \/ (bookings[a] = "held" /\ bookings'[a] = "released")
  BY <1>1, <1>4, Here DEF CommitHold, CommitRelease, TypeOK
<1>. QED  BY <1>5, <1>6, <1>7, <1>8

\* Consent before a request is saved, one saved request, booked at most once and never again
\* once it was given back.
THEOREM KeepsPromise == Spec => PromiseSpec
<1>1. IInv /\ [Next]_vars => [Promise!Next]_(Promise!vars)
  <2>. SUFFICES ASSUME IInv, [Next]_vars
                PROVE  Promise!Next \/ UNCHANGED <<consented, snap.intent, Booked>>
    BY DEF Promise!vars, Booked
  <2>1. CASE Kept
    BY <2>1 DEF Kept, Booked
  <2>2. CASE Answers
    <3>1. Promise!Answer
      BY <2>2 DEF Answers, Promise!Answer
    <3>. QED  BY <3>1 DEF Promise!Next
  <2>3. CASE Requests
    <3>1. Promise!Save(snap'.intent) /\ snap'.intent \in Workers
      BY <2>3 DEF Requests, Promise!Save, Booked
    <3>. QED  BY <3>1 DEF Promise!Next
  <2>4. ASSUME NEW w \in Workers, CommitHold(w) \/ CommitRelease(w)
        PROVE  Promise!Next \/ UNCHANGED <<consented, snap.intent, Booked>>
    BY <2>4, PromiseCommit
  <2>. QED  BY <2>1, <2>2, <2>3, <2>4, StepKinds
<1>2. Spec => Promise!Init /\ [][Promise!Next]_(Promise!vars)
  BY <1>1, PromiseInit, Inductive, PTL DEF Spec
<1>. QED  BY <1>2 DEF PromiseSpec, Promise!Spec
=============================================================================
