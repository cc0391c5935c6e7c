---------------------------- MODULE TravelerMemory ----------------------------
(***************************************************************************)
(* Saved preferences: the rows of traveler_preferences, the writers (the   *)
(* traveler's edits and removals, the signals an MCP client stores), the   *)
(* budget ceiling four readers derive from them, and the page, which keeps *)
(* two copies of the facts with reads, edits and a chat turn in flight.    *)
(* One request is sent, served and answered; it may fail or outlast the    *)
(* page's patience at any point, and be served later all the same.         *)
(***************************************************************************)
EXTENDS Naturals, FiniteSets

CONSTANTS DisplayLimit,    \* facts a profile shows and a reply is built on
          GovernanceLimit, \* facts the ceiling is derived from
          Initial,         \* the seeded sets of rows to start from
          Signals,         \* <<type, key, value, confidence>> an MCP client may store
          Changes,         \* <<what, key, value>> the traveler may ask for
          MaxWrites,       \* bound: committed writes
          MaxRequests,     \* bound: toggles, phase changes, edits and turns
          Reliable         \* whether requests are always answered in time

LimitsAreOrdered == DisplayLimit \in Nat /\ GovernanceLimit \in Nat
                    /\ 0 < DisplayLimit /\ DisplayLimit <= GovernanceLimit
BoundsAreNatural == MaxWrites \in Nat /\ MaxRequests \in Nat

VARIABLES rows,      \* committed preference rows
          clock,     \* committed writes so far, the time of last_seen_at
          edited,    \* per key: the traveler's edit that nothing has superseded, or Nothing
          forgotten, \* keys removed and not written since
          phase, enabled, facts, preview, ceiling, asof, \* what the page shows, and its age
          reading,   \* the toggle's read: None, "sent", or what it was answered
          refresh,   \* the connection's reads under way: one, or none
          edit,      \* the edit or removal in flight, or None
          late,      \* edits the page gave up on that the server may still serve
          turn,      \* the chat turn in flight, or None
          last,      \* the phase of the last turn sent since the phase was chosen, or 0
          asked,     \* the memory was asked for since it was last put away
          requests

page == <<phase, enabled, facts, preview, ceiling, asof>>
table == <<rows, clock, edited, forgotten>>
chat == <<turn, last, asked>>
vars == <<table, page, reading, refresh, edit, late, chat, requests>>

BudgetKeys == <<"cap", "range">>
Keys == {"cap", "range", "diet"}
Amounts == 0..2                      \* 0: a text that names no amount
Rows == [type : {"explicit", "learned"}, key : Keys, value : Amounts, conf : 1..2, at : Nat]
Nothing == 9
None == [state |-> "none"]

(* What the seed wrote, one row after another; what can be stored and asked. *)
Seeded(all) ==
    /\ IsFiniteSet(all) /\ Cardinality(all) <= MaxWrites
    /\ \A r \in all : r \in Rows /\ r.at \in 1..Cardinality(all)
    /\ \A r, x \in all : r.type = x.type /\ r.key = x.key => r = x
InputsKnown ==
    /\ \A all \in Initial : Seeded(all)
    /\ Signals \subseteq {"explicit", "learned"} \X Keys \X Amounts \X (1..2)
    /\ Changes \subseteq {"change", "remove"} \X Keys \X Amounts

(* ORDER BY confidence DESC, last_seen_at DESC.                            *)
Before(a, b) == a.conf > b.conf \/ (a.conf = b.conf /\ a.at > b.at)
Top(all, n) == {r \in all : Cardinality({x \in all : Before(x, r)}) < n}
First(all, key) == {r \in all : r.key = key /\ \A x \in all : x.key = key => ~Before(x, r)}

(* The fact a ceiling comes from: of the first key, in the order of        *)
(* BUDGET_KEYS, whose first fact names an amount.                          *)
Basis(all) ==
    LET named(i) == {r \in First(all, BudgetKeys[i]) : r.value > 0}
    IN IF named(1) # {} THEN named(1) ELSE named(2)
Ceiling(all) == IF Basis(all) = {} THEN 0 ELSE (CHOOSE r \in Basis(all) : TRUE).value

\* Mutant: the turn derives its ceiling from the facts it recalled for the reply.
TurnCeilingOfTheReply(all) == Ceiling(Top(all, DisplayLimit))
(* What the page, the turn and the workflow, and the holds Lambda derive.  *)
PageCeiling(all) == Ceiling(Top(all, GovernanceLimit))
TurnCeiling(all) == Ceiling(Top(all, GovernanceLimit))
LambdaCeiling(all) == Ceiling(Top(all, GovernanceLimit))

(* _with_budget_fact: a budget fact is added when the top ones have none.  *)
InContext(all) ==
    LET top == Top(all, DisplayLimit)
        budget == {r \in Top(all, GovernanceLimit) : r.key # "diet"}
    IN IF \E r \in top : r.key # "diet" THEN top ELSE top \union Top(budget, 1)

Profile == [state |-> "answered", facts |-> Top(rows, DisplayLimit),
            ceiling |-> PageCeiling(rows), asof |-> clock]

Init == /\ rows \in Initial /\ clock = Cardinality(rows)
        /\ edited = [k \in Keys |-> Nothing] /\ forgotten = {}
        /\ phase = 1 /\ enabled = FALSE /\ facts = {} /\ preview = {} /\ ceiling = 0 /\ asof = 0
        /\ reading = None /\ refresh = {} /\ edit = None /\ late = {}
        /\ turn = None /\ last = 0 /\ asked = FALSE /\ requests = 0

-----------------------------------------------------------------------------
(* The table.                                                              *)
Fits(r, type, key) == r.type = type /\ r.key = key
Written(type, key, value, conf) ==
    /\ clock < MaxWrites /\ clock' = clock + 1
    /\ rows' = {r \in rows : ~Fits(r, type, key)} \union
               {[type |-> type, key |-> key, value |-> value, conf |-> conf, at |-> clock + 1]}
    /\ forgotten' = forgotten \ {key}

Update(key, value) == /\ Written("explicit", key, value, 2)
                      /\ edited' = [edited EXCEPT ![key] = value]

Delete(key) == /\ rows' = {r \in rows : r.key # key}
               /\ forgotten' = forgotten \union {key} /\ edited' = [edited EXCEPT ![key] = Nothing]
               /\ UNCHANGED clock

(* persist_preference: its caller names the type; a certain signal, or one *)
(* of the traveler's own type, replaces what the traveler said.            *)
Learn(type, key, value, conf) ==
    /\ Written(type, key, value, conf)
    /\ edited' = IF conf = 2 \/ type = "explicit" THEN [edited EXCEPT ![key] = Nothing] ELSE edited
    /\ UNCHANGED <<page, reading, refresh, edit, late, chat, requests>>

Learns == \E s \in Signals : Learn(s[1], s[2], s[3], s[4])

-----------------------------------------------------------------------------
(* The page.                                                               *)
Ask == requests < MaxRequests /\ requests' = requests + 1

(* invalidateMemoryRead: a new generation; the read under way is aborted.  *)
Stale == edit' = IF edit.state = "none" THEN edit ELSE [edit EXCEPT !.current = FALSE]

Invalidate == reading' = None /\ Stale

(* Switched off; a turn under way still brings its facts.                  *)
Disable == /\ Ask /\ Invalidate /\ enabled' = FALSE /\ facts' = {}
           /\ asked' = (turn.state # "none")
           /\ UNCHANGED <<table, phase, preview, ceiling, asof, refresh, late, turn, last>>

Enable == /\ phase >= 4 /\ Ask /\ reading' = [state |-> "sent"] /\ Stale /\ asked' = TRUE
          /\ UNCHANGED <<table, page, refresh, late, turn, last>>

(* Below Production the memory is put away, and the turn under way too.    *)
SelectPhase(n) ==
    /\ n # phase \/ last \notin {0, n}
    /\ Ask /\ phase' = n /\ turn' = None /\ last' = 0
    /\ IF n < 4 THEN Invalidate /\ enabled' = FALSE /\ facts' = {} /\ asked' = FALSE
       ELSE UNCHANGED <<reading, edit, enabled, facts, asked>>
    /\ UNCHANGED <<table, preview, ceiling, asof, refresh, late>>

ClearChat == /\ Ask /\ turn' = None /\ last' = 0
             /\ UNCHANGED <<table, page, reading, refresh, edit, late, asked>>

ServeRead == /\ reading.state = "sent" /\ reading' = Profile
             /\ UNCHANGED <<table, page, refresh, edit, late, chat, requests>>
ReadAnswered ==
    /\ reading.state = "answered" /\ reading' = None /\ enabled' = TRUE
    /\ facts' = reading.facts /\ ceiling' = reading.ceiling
    /\ UNCHANGED <<table, phase, preview, asof, refresh, edit, late, chat, requests>>
ReadFailed ==
    /\ reading.state # "none" /\ ~Reliable /\ reading' = None /\ enabled' = FALSE /\ facts' = {}
    /\ UNCHANGED <<table, phase, preview, ceiling, asof, refresh, edit, late, chat, requests>>

(* refreshConnection: on a timer when none is under way.                   *)
Tick == /\ refresh = {} /\ refresh' = {[state |-> "sent"]}
        /\ UNCHANGED <<table, page, reading, edit, late, chat, requests>>
ServeRefresh == \E f \in refresh :
                   /\ f.state = "sent" /\ refresh' = (refresh \ {f}) \union {Profile}
                   /\ UNCHANGED <<table, page, reading, edit, late, chat, requests>>
RefreshAnswered ==
    \E f \in refresh :
       /\ f.state = "answered" /\ refresh' = refresh \ {f}
       /\ preview' = f.facts /\ ceiling' = f.ceiling /\ asof' = f.asof
       /\ UNCHANGED <<table, phase, enabled, facts, reading, edit, late, chat, requests>>
RefreshFailed == /\ ~Reliable /\ \E f \in refresh : refresh' = refresh \ {f}
                 /\ UNCHANGED <<table, page, reading, edit, late, chat, requests>>

(* The drawer: one change at a time, to a fact it shows.                   *)
Shown == facts \union preview
StartEdit(what, key, value) ==
    /\ edit.state = "none" /\ Ask /\ \E r \in Shown : r.key = key
    /\ edit' = [state |-> "sent", what |-> what, key |-> key, value |-> value,
                previous |-> facts, current |-> TRUE]
    /\ facts' = IF what = "remove" THEN {r \in facts : r.key # key}
                ELSE {IF r.key = key THEN [r EXCEPT !.value = value, !.conf = 2] ELSE r : r \in facts}
    /\ UNCHANGED <<table, phase, enabled, preview, ceiling, asof, reading, refresh, late, chat>>

Request(e) == [what |-> e.what, key |-> e.key, value |-> e.value]
Serve(e) == IF e.what = "remove" THEN Delete(e.key) ELSE Update(e.key, e.value)
ServeEdit == /\ edit.state = "sent" /\ Serve(edit) /\ edit' = [edit EXCEPT !.state = "served"]
             /\ UNCHANGED <<page, reading, refresh, late, chat, requests>>
ServeLate(e) == /\ Serve(e) /\ late' = late \ {e}
                /\ UNCHANGED <<page, reading, refresh, edit, chat, requests>>

(* Answered: the connection is read again, a read under way is aborted.    *)
EditAnswered ==
    /\ edit.state = "served" /\ edit' = None /\ refresh' = {[state |-> "sent"]}
    /\ UNCHANGED <<table, page, reading, late, chat, requests>>

EditFailed ==
    /\ edit.state # "none" /\ ~Reliable /\ edit' = None
    /\ facts' = IF edit.current THEN edit.previous ELSE facts
    /\ late' = IF edit.state = "sent" THEN late \union {Request(edit)} ELSE late
    /\ UNCHANGED <<table, phase, enabled, preview, ceiling, asof, reading, refresh, chat, requests>>

(* A turn of Production, from the ladder or, at any phase, the concierge;  *)
(* it brings the facts it read, whether the memory is on or not.           *)
Send == /\ turn.state = "none" /\ reading.state = "none" /\ Ask
        /\ turn' = [state |-> "sent"] /\ last' = 4 /\ asked' = TRUE
        /\ UNCHANGED <<table, page, reading, refresh, edit, late>>
ServeTurn == /\ turn.state = "sent" /\ turn' = [state |-> "answered", facts |-> InContext(rows)]
             /\ UNCHANGED <<table, page, reading, refresh, edit, late, last, asked, requests>>
TurnAnswered == /\ turn.state = "answered" /\ turn' = None
                /\ facts' = IF turn.facts = {} THEN facts ELSE turn.facts
                /\ UNCHANGED <<table, phase, enabled, preview, ceiling, asof, reading, refresh,
                               edit, late, last, asked, requests>>

Next == \/ Learns \/ Enable \/ Disable \/ SelectPhase(1) \/ SelectPhase(4) \/ ClearChat
        \/ ServeRead \/ ReadAnswered \/ ReadFailed
        \/ Tick \/ ServeRefresh \/ RefreshAnswered \/ RefreshFailed
        \/ \E c \in Changes : StartEdit(c[1], c[2], c[3])
        \/ ServeEdit \/ (\E e \in late : ServeLate(e)) \/ EditAnswered \/ EditFailed
        \/ Send \/ ServeTurn \/ TurnAnswered
Spec == Init /\ [][Next]_vars
-----------------------------------------------------------------------------
TypeOK ==
    /\ rows \subseteq [type : {"explicit", "learned"}, key : Keys, value : Amounts, conf : 1..2,
                       at : 1..MaxWrites]
    /\ \A r, x \in rows : Fits(r, x.type, x.key) => r = x
    /\ clock \in 0..MaxWrites /\ edited \in [Keys -> Amounts \union {Nothing}]
    /\ forgotten \subseteq Keys /\ phase \in {1, 4} /\ enabled \in BOOLEAN
    /\ last \in {0, 4} /\ asked \in BOOLEAN
    /\ ceiling \in Amounts /\ asof \in 0..MaxWrites /\ requests \in 0..MaxRequests

(* A traveler's edit is what every reader takes for the key, whatever less *)
(* certain signals were stored before or after it.                         *)
EditWins == \A k \in Keys : edited[k] # Nothing => \A r \in First(rows, k) : r.value = edited[k]

(* A forgotten preference is forgotten under every type it was stored as.  *)
ForgottenIsGone == \A k \in forgotten : \A r \in rows : r.key # k

(* The page, the turn and the Lambda derive one ceiling from the same rows. *)
OneCeiling == PageCeiling(rows) = TurnCeiling(rows) /\ TurnCeiling(rows) = LambdaCeiling(rows)

(* useMeridianShowcase.ts:407: memory facts "stay empty until Phase 4      *)
(* authorizes the workload": what was asked before the memory was put away *)
(* never brings it back.                                                   *)
PutAwayStaysAway == ~asked => facts = {} /\ ~enabled

(* The preview never goes back to older facts than it showed.              *)
GoesForward == asof' >= asof
PreviewGoesForward == [][GoesForward]_vars

(* production_agent.py:247: "Keep the fact the ceiling comes from in the   *)
(* context the reply is built on."                                         *)
BasisInContext == Basis(Top(rows, GovernanceLimit)) \subseteq InContext(rows)

RowsStay == rows' = rows
BudgetIsCurrent == ceiling = LambdaCeiling(rows)

-----------------------------------------------------------------------------
(* The inductive invariant.                                                *)
Kept == [type : {"explicit", "learned"}, key : Keys, value : Amounts, conf : 1..2,
         at : 1..MaxWrites]
Sent == [state |-> "sent"]
Profiles == [state : {"answered"}, facts : SUBSET Kept, ceiling : Amounts, asof : 0..MaxWrites]
Edits == [state : {"sent", "served"}, what : {"change", "remove"}, key : Keys, value : Amounts,
          previous : SUBSET Kept, current : BOOLEAN]

Known ==
    /\ facts \subseteq Kept /\ preview \subseteq Kept
    /\ reading \in {None, Sent} \union Profiles
    /\ refresh \subseteq {Sent} \union Profiles
    /\ \A f, g \in refresh : f = g
    /\ edit \in {None} \union Edits
    /\ late \subseteq [what : {"change", "remove"}, key : Keys, value : Amounts]
    /\ turn \in {None, Sent} \union [state : {"answered"}, facts : SUBSET Kept]

RowsArePast == \A r \in rows : r.at <= clock

(* An edit is the latest of the rows that are as certain as it is.         *)
EditIsAbove ==
    \A k \in Keys : edited[k] # Nothing =>
        \E r \in rows :
            /\ Fits(r, "explicit", k) /\ r.value = edited[k] /\ r.conf = 2
            /\ \A x \in rows : x.key = k /\ x.conf = 2 /\ x # r => x.at < r.at

(* Put away, nothing is under way that could bring a fact back.            *)
NothingComes ==
    ~asked => /\ facts = {} /\ ~enabled /\ reading = None /\ turn = None
              /\ edit.state # "none" /\ edit.current => edit.previous = {}

AnswersAreLater ==
    /\ asof <= clock
    /\ \A f \in refresh : f.state = "answered" => asof <= f.asof /\ f.asof <= clock

IInv == /\ TypeOK /\ Known /\ RowsArePast /\ EditIsAbove /\ ForgottenIsGone
        /\ NothingComes /\ AnswersAreLater
=============================================================================
