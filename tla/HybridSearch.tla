----------------------------- MODULE HybridSearch -----------------------------
(***************************************************************************)
(* The one hybrid trip search and what the workflow makes of it.  The      *)
(* search exists twice, in backend/retrieval/hybrid.py and ported to the   *)
(* Gateway's catalog Lambda (meridian_catalog/lambda_function.py): a       *)
(* semantic and a lexical arm, a merge by package, a join to the live      *)
(* catalog, the gate, the reranker.  Every statement is a read of its own, *)
(* and meanwhile travelers hold and release places and an operator may     *)
(* refresh the catalog's prices (scripts/seed_data.py --catalog-only).     *)
(* The workflow then checks the places of the best rows again, lets the    *)
(* traveler choose, and prepares the hold (nodes.py, hold_intent.py).      *)
(***************************************************************************)
EXTENDS Integers, Sequences, FiniteSets

CONSTANTS
    Packages,
    Durations,    \* as a sequence: the order a package lists them in
    Ceiling,      \* the price ceiling the traveler's words name
    MaxLimit,     \* bound: trips asked for
    Shortlist,    \* REVIEW_SHORTLIST: rows checked again and reviewed
    Party,        \* travelers the hold is for
    MaxChanges,   \* bound: changes of the catalog during a search
    None          \* not read, not chosen, not prepared

VARIABLES
    catalog,   \* [price, places] of each package
    changes,   \* changes of the catalog so far
    pc,        \* the step the workflow is at
    limit,     \* how many trips were asked for
    semantic,  \* packages the semantic arm ranked
    rows,      \* the candidates, then the eligible rows, then the result
    then,      \* the catalog at the moment the candidates were joined to it
    offered,   \* how many eligible rows the reranker was given
    checked,   \* the places the availability step read, by package
    chosen,    \* the package the traveler chose at review
    intent     \* the hold intent

vars == <<catalog, changes, pc, limit, semantic, rows, then, offered, checked,
          chosen, intent>>

-----------------------------------------------------------------------------

SetOf(s) == {s[i] : i \in 1..Len(s)}
Ids(rs) == {rs[i].id : i \in 1..Len(rs)}
Labels == SetOf(Durations)
Rankings == {s \in UNION {[1..k -> Packages] : k \in 0..Cardinality(Packages)} :
               Cardinality(SetOf(s)) = Len(s)}

Init ==
    /\ catalog \in [Packages -> [price : {Ceiling, Ceiling + 1},
                                 places : [Labels -> 0..Party]]]
    /\ changes = 0
    /\ pc = "start"
    /\ limit \in 1..MaxLimit
    /\ semantic = <<>>
    /\ rows = <<>>
    /\ then = None
    /\ offered = 0
    /\ checked = [p \in Packages |-> None]
    /\ chosen = None
    /\ intent = None

(* Places are held and released one duration at a time.                    *)
PlacesChange ==
    /\ changes < MaxChanges
    /\ changes' = changes + 1
    /\ \E p \in Packages, d \in Labels, n \in 0..Party :
          /\ n # catalog[p].places[d]
          /\ catalog' = [catalog EXCEPT ![p].places[d] = n]
    /\ UNCHANGED <<pc, limit, semantic, rows, then, offered, checked, chosen, intent>>

(* The refresh commits all its prices at once.                             *)
PricesChange ==
    /\ changes < MaxChanges
    /\ changes' = changes + 1
    /\ \E price \in [Packages -> {Ceiling, Ceiling + 1}] :
          catalog' = [p \in Packages |-> [catalog[p] EXCEPT !.price = price[p]]]
    /\ UNCHANGED <<pc, limit, semantic, rows, then, offered, checked, chosen, intent>>

-----------------------------------------------------------------------------
(* The two arms.  Which packages an arm finds, and how it ranks them, is   *)
(* the embedding's and the text's affair.                                  *)

(* Without an embedding the lexical arm answers alone.                     *)
EmbedFails ==
    /\ pc = "start"
    /\ pc' = "lexical"
    /\ UNCHANGED <<catalog, changes, limit, semantic, rows, then, offered, checked,
                   chosen, intent>>

SemanticArm ==
    /\ pc = "start"
    /\ pc' = "lexical"
    /\ semantic' \in Rankings
    /\ UNCHANGED <<catalog, changes, limit, rows, then, offered, checked, chosen,
                   intent>>

(* A semantic row has the ranking's shape only; a lexical row carries the  *)
(* package's facts as they are now.                                        *)
Compact(p) == [id |-> p, facts |-> None]
Full(p) == [id |-> p, facts |-> catalog[p]]

(* merge_by_package: the semantic order first, lexical-only rows after.    *)
Merged(sem, lex) ==
    LET only == SelectSeq(lex, LAMBDA p : p \notin SetOf(sem))
    IN  [i \in 1..Len(sem) |-> Compact(sem[i])] \o [i \in 1..Len(only) |-> Full(only[i])]

LexicalArm ==
    /\ pc = "lexical"
    /\ pc' = "merged"
    /\ \E lex \in Rankings : rows' = Merged(semantic, lex)
    /\ UNCHANGED <<catalog, changes, limit, semantic, then, offered, checked, chosen,
                   intent>>

-----------------------------------------------------------------------------
(* The join and the gate.                                                  *)

\* Mutant: what an arm read of a candidate is kept over what the join reads.
JoinedArmFirst(row) == IF row.facts = None THEN [row EXCEPT !.facts = catalog[row.id]]
                                           ELSE row
Joined(row) == [row EXCEPT !.facts = catalog[row.id]]

(* keep_eligible: the price is within the ceiling, and the places of all   *)
(* durations add up to more than none.                                     *)
Eligible(row) == /\ row.facts.price <= Ceiling
                 /\ \E d \in Labels : row.facts.places[d] > 0

(* One statement joins every candidate to the catalog; the gate and the    *)
(* stamp of each row's position follow in memory.                          *)
Hydrate ==
    /\ pc = "merged"
    /\ pc' = "gated"
    /\ then' = catalog
    /\ LET kept == SelectSeq([i \in 1..Len(rows) |-> Joined(rows[i])], Eligible)
       IN  /\ rows' = [i \in 1..Len(kept) |->
                         [id |-> kept[i].id, facts |-> kept[i].facts,
                          pre |-> i - 1, delta |-> 0]]
           /\ offered' = Len(kept)
    /\ UNCHANGED <<catalog, changes, limit, semantic, checked, chosen, intent>>

-----------------------------------------------------------------------------
(* The reranker, whose reply may be anything.                              *)

First(rs, n) == SubSeq(rs, 1, IF Len(rs) < n THEN Len(rs) ELSE n)

(* An index of a candidate that was not placed before.                     *)
Usable(reply, i, n) == /\ reply[i] \in 0..(n - 1)
                       /\ \A j \in 1..(i - 1) : reply[j] # reply[i]

(* _apply_rerank: each row with its movement.                              *)
Applied(rs, reply) ==
    LET good == SelectSeq([i \in 1..Len(reply) |-> i],
                          LAMBDA i : Usable(reply, i, Len(rs)))
    IN  [k \in 1..Len(good) |->
           LET row == rs[reply[good[k]] + 1]
           IN  [row EXCEPT !.delta = row.pre - (k - 1)]]

(* A reply with no usable index is a failure, and a failure keeps the      *)
(* order of the candidates.                                                *)
Ranked(rs, reply) ==
    LET order == First(Applied(rs, reply), limit)
    IN  IF order = <<>> THEN First(rs, limit) ELSE order

Replies(n) == UNION {[1..k -> -1..n] : k \in 0..(n + 1)}

(* The empty reply stands for the reranker that could not be reached too.  *)
Rerank ==
    /\ pc = "gated"
    /\ pc' = "found"
    /\ \E reply \in Replies(Len(rows)) : rows' = Ranked(rows, reply)
    /\ UNCHANGED <<catalog, changes, limit, semantic, then, offered, checked, chosen,
                   intent>>

-----------------------------------------------------------------------------
(* The workflow's steps after the search.                                  *)

(* The availability step checks the best rows, all at once.                *)
Check(p) ==
    /\ pc = "found"
    /\ p \in Ids(First(rows, Shortlist))
    /\ checked[p] = None
    /\ checked' = [checked EXCEPT ![p] = catalog[p].places]
    /\ UNCHANGED <<catalog, changes, pc, limit, semantic, rows, then, offered, chosen,
                   intent>>

(* _merge_availability: the places just read, the rest as it was ranked.   *)
WithPlaces(row) == IF checked[row.id] = None THEN row
                   ELSE [row EXCEPT !.facts.places = checked[row.id]]

MergeAvailability ==
    /\ pc = "found"
    /\ \A p \in Ids(First(rows, Shortlist)) : checked[p] # None
    /\ pc' = "review"
    /\ rows' = [i \in 1..Len(rows) |-> WithPlaces(rows[i])]
    /\ UNCHANGED <<catalog, changes, limit, semantic, then, offered, checked, chosen,
                   intent>>

(* The traveler chooses one of the reviewed packages, or goes on with the  *)
(* top-ranked one.                                                         *)
Review ==
    /\ pc = "review"
    /\ pc' = "reviewed"
    /\ chosen' \in {None} \cup Ids(First(rows, Shortlist))
    /\ UNCHANGED <<catalog, changes, limit, semantic, rows, then, offered, checked,
                   intent>>

Target == IF chosen = None THEN rows[1]
          ELSE CHOOSE row \in SetOf(rows) : row.id = chosen

(* duration_for_party: the first duration that seats the whole party.      *)
Seats(places) == {k \in 1..Len(Durations) : places[Durations[k]] >= Party}

(* The intent is saved once; there is none when no duration seats the      *)
(* party, or when nothing was found.                                       *)
PrepareHold ==
    /\ pc = "reviewed"
    /\ pc' = "prepared"
    /\ IF rows = <<>> \/ Seats(Target.facts.places) = {} THEN UNCHANGED intent
       ELSE LET places == Target.facts.places
                k == CHOOSE n \in Seats(places) : \A m \in Seats(places) : n <= m
            IN  intent' = [id |-> Target.id, duration |-> Durations[k],
                           price |-> Target.facts.price]
    /\ UNCHANGED <<catalog, changes, limit, semantic, rows, then, offered, checked,
                   chosen>>

Search == EmbedFails \/ SemanticArm \/ LexicalArm \/ Hydrate \/ Rerank

Next == \/ PlacesChange \/ PricesChange
        \/ Search
        \/ (\E p \in Packages : Check(p))
        \/ MergeAvailability \/ Review \/ PrepareHold

Spec == Init /\ [][Next]_vars

-----------------------------------------------------------------------------
(* Properties.                                                             *)

(* "Keep the rows a traveler could actually take": whatever changed        *)
(* between the arms, the join and the reranker, every row of the result    *)
(* was within the ceiling and had places, at one and the same moment of    *)
(* the search (keep_eligible, _hydrate).                                   *)
TakenFromOneMoment ==
    pc = "found" =>
        \A row \in SetOf(rows) :
            /\ row.facts = then[row.id]
            /\ then[row.id].price <= Ceiling
            /\ \E d \in Labels : then[row.id].places[d] > 0

(* Whatever the reranker replies, a package is listed once, no more are    *)
(* listed than were asked for, and each row's movement adds up: its place  *)
(* in the candidates' order less its movement is its place in the result.  *)
MovementAddsUp ==
    pc = "found" =>
        /\ Len(rows) <= limit
        /\ Cardinality(Ids(rows)) = Len(rows)
        /\ \A i \in 1..Len(rows) : rows[i].pre - rows[i].delta = i - 1

(* A search that has an eligible candidate never answers with nothing.     *)
SomethingIsOffered == pc = "found" /\ offered > 0 => rows # <<>>

(* A hold is prepared only for a package the traveler could review, in a   *)
(* duration that seated the party when it was last checked, at the price   *)
(* the search showed.                                                      *)
IntentWasSeated ==
    intent # None =>
        /\ checked[intent.id] # None
        /\ checked[intent.id][intent.duration] >= Party
        /\ intent.price = then[intent.id].price

=============================================================================
