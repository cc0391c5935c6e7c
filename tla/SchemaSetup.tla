---------------------------- MODULE SchemaSetup ----------------------------
(***************************************************************************)
(* The scripts that prepare Meridian's database: init_aurora_schema.py,    *)
(* apply_migrations.py, seed_data.py, bind_current_identity.py and         *)
(* apply_rls_force_and_decoy.py, run by several operators at once against  *)
(* one Aurora cluster, beside a backend that may already answer turns.     *)
(*                                                                         *)
(* A script's transaction takes effect at its commit; until then it holds  *)
(* what it locked: an advisory lock, or the key of the ledger row it       *)
(* inserted. A script that dies keeps them until the Data API's idle       *)
(* timeout rolls its transaction back.                                     *)
(***************************************************************************)
EXTENDS Naturals, Sequences, FiniteSets, SequencesExt, FiniteSetsExt

CONSTANTS
    Operators,      \* who runs scripts
    Scripts,        \* the scripts they run, of AllScripts
    Newest,           \* the migrations are 1 .. Newest, in the order of their names
    MaxRuns         \* bound: script runs started

AllScripts == {"init", "migrate", "one", "dry", "seed", "catalog", "bind", "decoy"}

SetupAssumption ==
    /\ Scripts \subseteq AllScripts
    /\ Newest \in Nat \ {0}
    /\ MaxRuns \in Nat
    /\ "none" \notin Operators

VARIABLES
    db,         \* what is committed, see TypeOK
    run,        \* [Operators -> [script, at, todo]]: each operator's script
    advisory,   \* who holds pg_advisory locks 'meridian-schema-init' and '-seed'
    keys,       \* [Migrations -> operator]: ledger rows inserted and not committed
    runs        \* script runs started

vars == <<db, run, advisory, keys, runs>>

None == "none"
Migrations == 1 .. Newest
\* What a full seed writes, in its order.
Packages == 1
Travelers == 2
Bookings == 3
Sections == Packages .. Bookings

\* How a run ended, or which step comes next; a process that died has none.
Ended == {"idle", "done", "failed", "refused", "locked"}
Steps == {"look", "lock", "look again", "ddl", "ensure", "list", "statements", "mark", "commit",
          "begin", "empty?", "write", "drop", "create", "insert"}
Places == Ended \cup Steps \cup {"dead"}

TypeOK ==
    /\ db \in [base : BOOLEAN, ledgerTable : BOOLEAN, ledger : SUBSET Migrations,
               effects : Seq(Migrations), view : {"none", "short", "full"},
               seeded : SUBSET Sections, lines : Nat,
               people : SUBSET {"placeholder", "decoy"}]
    /\ run \in [Operators -> [script : AllScripts, at : Places, todo : Seq(Nat)]]
    /\ advisory \in [{"init", "seed"} -> Operators \cup {None}]
    /\ keys \in [Migrations -> Operators \cup {None}]
    /\ runs \in 0 .. MaxRuns

Init ==
    /\ db = [base |-> FALSE, ledgerTable |-> FALSE, ledger |-> {}, effects |-> <<>>,
             view |-> "none", seeded |-> {}, lines |-> 0, people |-> {}]
    /\ run = [o \in Operators |-> [script |-> "init", at |-> "idle", todo |-> <<>>]]
    /\ advisory = [l \in {"init", "seed"} |-> None]
    /\ keys = [k \in Migrations |-> None]
    /\ runs = 0

-----------------------------------------------------------------------------
(* Runs, their ends, and their deaths.                                     *)

\* The transaction of o is over: its locks and its uncommitted rows are gone.
Release(o) ==
    /\ advisory' = [l \in DOMAIN advisory |-> IF advisory[l] = o THEN None ELSE advisory[l]]
    /\ keys' = [k \in Migrations |-> IF keys[k] = o THEN None ELSE keys[k]]

Move(o, at) == run' = [run EXCEPT ![o].at = at]

\* The run of o ends, rolling back what is open.
End(o, at) == Move(o, at) /\ Release(o) /\ UNCHANGED <<db, runs>>

FirstStep ==
    [init |-> "look", migrate |-> "ensure", one |-> "list", dry |-> "list",
     seed |-> "begin", catalog |-> "begin", bind |-> "drop", decoy |-> "insert"]

\* An operator starts a script. A run that ended is over.
Start(o, script) ==
    /\ run[o].at \in Ended
    /\ runs < MaxRuns
    /\ runs' = runs + 1
    /\ run' = [run EXCEPT ![o] = [script |-> script, at |-> FirstStep[script], todo |-> <<>>]]
    /\ UNCHANGED <<db, advisory, keys>>

\* A statement or a model call raises: the transaction is rolled back and the
\* script stops, whatever was still to do.
Fail(o) ==
    /\ run[o].at \notin Ended \cup {"dead"}
    /\ End(o, "failed")

\* The process dies. Its transaction stays open until the server expires it.
Die(o) ==
    /\ run[o].at \notin Ended \cup {"dead"}
    /\ Move(o, "dead")
    /\ UNCHANGED <<db, advisory, keys, runs>>

Expire(o) == run[o].at = "dead" /\ End(o, "failed")

\* A step of o that reads or waits and changes nothing else.
StepTo(o, at) == Move(o, at) /\ UNCHANGED <<db, advisory, keys, runs>>

-----------------------------------------------------------------------------
(* init_aurora_schema.py                                                   *)

HasTables == db.base \/ db.ledgerTable

InitLook(o) ==
    /\ run[o].at = "look"
    /\ StepTo(o, IF HasTables THEN "refused" ELSE "lock")

\* pg_try_advisory_xact_lock, the first statement of the transaction.
InitLock(o) ==
    /\ run[o].at = "lock"
    /\ IF advisory["init"] = None
       THEN /\ advisory' = [advisory EXCEPT !["init"] = o]
            /\ Move(o, "look again")
            /\ UNCHANGED <<db, keys, runs>>
       ELSE End(o, "locked")

InitLookAgain(o) ==
    /\ run[o].at = "look again"
    /\ IF HasTables THEN End(o, "refused") ELSE StepTo(o, "ddl")

\* schema.sql drops the travel tables and creates them; the RLS files add the
\* audit log and its view. All of it commits at once. The answer to the commit
\* may be lost: the work is done, and the script reports a failure.
InitCommit(o) ==
    /\ run[o].at = "ddl"
    /\ db' = [db EXCEPT !.base = TRUE, !.view = "full", !.seeded = {}, !.lines = 0, !.people = {}]
    /\ Release(o)
    /\ \E heard \in BOOLEAN : Move(o, IF heard THEN "done" ELSE "failed")
    /\ UNCHANGED runs

InitStep(o) == InitLook(o) \/ InitLock(o) \/ InitLookAgain(o) \/ InitCommit(o)

-----------------------------------------------------------------------------
(* apply_migrations.py: all pending, the runbook's one, or a dry run.      *)

\* CREATE TABLE IF NOT EXISTS schema_migrations, committed at once.
EnsureTable(o) ==
    /\ run[o].at = "ensure"
    /\ db' = [db EXCEPT !.ledgerTable = TRUE]
    /\ Move(o, "list")
    /\ UNCHANGED <<advisory, keys, runs>>

\* The names the checkout has and the ledger does not, in order. Operators
\* may work from checkouts of different ages.
PendingPaths(newest) ==
    LET pending == 1 .. newest \ db.ledger IN
    [i \in 1 .. Cardinality(pending) |-> CHOOSE k \in pending :
        Cardinality({j \in pending : j < k}) = i - 1]

List(o) ==
    /\ run[o].at = "list"
    /\ \E newest \in Migrations :
         LET pending == PendingPaths(newest) IN
         run' = [run EXCEPT ![o].at = IF pending = <<>> THEN "done" ELSE "statements",
                            ![o].todo = IF run[o].script = "one" THEN SubSeq(pending, 1, Min({1, Len(pending)}))
                                                                 ELSE pending]
    /\ UNCHANGED <<db, advisory, keys, runs>>

\* What follows a migration that is through: the next one, or the end.
Onward(o) ==
    run' = [run EXCEPT ![o].todo = Tail(@),
                       ![o].at = IF Len(run[o].todo) = 1 THEN "done" ELSE "statements"]

\* A migration's statements, in a transaction of their own. They alter tables
\* that only init creates. The dry run rolls them back and goes on.
Statements(o) ==
    /\ run[o].at = "statements"
    /\ IF ~db.base
       THEN End(o, "failed")
       ELSE /\ IF run[o].script = "dry" THEN Onward(o) ELSE Move(o, "mark")
            /\ UNCHANGED <<db, advisory, keys, runs>>

\* The ledger row is the transaction's last statement. Its primary key makes
\* a second run of the migration wait for the first and then fail.
Mark(o) ==
    LET k == Head(run[o].todo) IN
    /\ run[o].at = "mark"
    /\ keys[k] = None
    /\ IF ~db.ledgerTable \/ k \in db.ledger
       THEN End(o, "failed")
       ELSE /\ keys' = [keys EXCEPT ![k] = o]
            /\ Move(o, "commit")
            /\ UNCHANGED <<db, advisory, runs>>

\* The first migration makes the audit view (as 005 does), the last one makes
\* it again with the columns it added (as 021 does).
ViewAfter(k) == IF k = Newest THEN "full" ELSE IF k = 1 THEN "short" ELSE db.view

MigrationCommit(o) ==
    LET k == Head(run[o].todo) IN
    /\ run[o].at = "commit"
    /\ db' = [db EXCEPT !.ledger = @ \cup {k}, !.effects = Append(@, k), !.view = ViewAfter(k)]
    /\ Release(o)
    /\ \/ Onward(o)
       \/ Move(o, "failed")
    /\ UNCHANGED runs

MigrateStep(o) ==
    EnsureTable(o) \/ List(o) \/ Statements(o) \/ Mark(o) \/ MigrationCommit(o)

-----------------------------------------------------------------------------
(* seed_data.py: the whole seed, or the catalog alone.                     *)

HasData == db.seeded # {} \/ db.people # {}

\* Mutant: the seed trusts its look at the tables and takes no lock.
SeedUnlocked(o) ==
    /\ run[o].at = "begin"
    /\ run' = [run EXCEPT ![o].at = IF run[o].script = "seed" THEN "empty?" ELSE "write",
                          ![o].todo = <<Packages>>]
    /\ UNCHANGED <<db, advisory, keys, runs>>

SeedLock(o) ==
    /\ run[o].at = "begin"
    /\ IF advisory["seed"] # None
       THEN End(o, "locked")
       ELSE /\ advisory' = [advisory EXCEPT !["seed"] = o]
            /\ run' = [run EXCEPT ![o].at = IF run[o].script = "seed" THEN "empty?" ELSE "write",
                                  ![o].todo = <<Packages>>]
            /\ UNCHANGED <<db, keys, runs>>

RequireEmpty(o) ==
    /\ run[o].at = "empty?"
    /\ IF ~db.base THEN End(o, "failed")
       ELSE IF HasData THEN End(o, "refused")
       ELSE /\ run' = [run EXCEPT ![o].at = "write", ![o].todo = <<Packages, Travelers, Bookings>>]
            /\ UNCHANGED <<db, advisory, keys, runs>>

\* Each section is written in the transaction; embedding it may fail.
WriteSection(o) ==
    /\ run[o].at = "write"
    /\ run[o].todo # <<>>
    /\ IF ~db.base
       THEN End(o, "failed")
       ELSE /\ run' = [run EXCEPT ![o].todo = Tail(@)]
            /\ UNCHANGED <<db, advisory, keys, runs>>

\* A seeded traveler replaces the stub of the same id. Booking lines have no
\* conflict clause: a second seed would add them again.
SeedCommit(o) ==
    LET whole == run[o].script = "seed" IN
    /\ run[o].at = "write"
    /\ run[o].todo = <<>>
    /\ db' = [db EXCEPT !.seeded = @ \cup IF whole THEN Sections ELSE {Packages},
                        !.lines = @ + IF whole THEN 1 ELSE 0,
                        !.people = IF whole THEN {} ELSE @]
    /\ Release(o)
    /\ \E heard \in BOOLEAN : Move(o, IF heard THEN "done" ELSE "failed")
    /\ UNCHANGED runs

SeedStep(o) == SeedLock(o) \/ RequireEmpty(o) \/ WriteSection(o) \/ SeedCommit(o)

-----------------------------------------------------------------------------
(* The scripts that write without a transaction, and the backend.          *)

\* bind_current_identity.py applies migration 005 again, statement by
\* statement: the view is dropped ...
BindDrop(o) ==
    /\ run[o].at = "drop"
    /\ IF ~db.base
       THEN End(o, "failed")
       ELSE /\ db' = [db EXCEPT !.view = "none"]
            /\ Move(o, "create")
            /\ UNCHANGED <<advisory, keys, runs>>

\* ... and created as 005 had it. The grant that follows needs the traveler.
BindCreate(o) ==
    /\ run[o].at = "create"
    /\ IF db.view # "none"
       THEN End(o, "failed")
       ELSE /\ db' = [db EXCEPT !.view = "short"]
            /\ Move(o, IF Travelers \in db.seeded \/ "placeholder" \in db.people THEN "done" ELSE "failed")
            /\ UNCHANGED <<advisory, keys, runs>>

\* apply_rls_force_and_decoy.py inserts the second traveler.
InsertDecoy(o) ==
    /\ run[o].at = "insert"
    /\ IF ~db.base
       THEN End(o, "failed")
       ELSE /\ db' = [db EXCEPT !.people = IF Travelers \in db.seeded THEN @ ELSE @ \cup {"decoy"}]
            /\ Move(o, "done")
            /\ UNCHANGED <<advisory, keys, runs>>

\* The seed's own uncommitted travelers make other inserts of them wait.
TravelersFree ==
    \A o \in Operators : ~(run[o].at = "write" /\ run[o].script = "seed" /\ Len(run[o].todo) < 2)

\* A turn's first conversation makes sure its traveler exists: a stub, unless
\* the row is there.
EnsureTravelerExists ==
    /\ db.base
    /\ Travelers \notin db.seeded
    /\ TravelersFree
    /\ db' = [db EXCEPT !.people = @ \cup {"placeholder"}]
    /\ db' # db
    /\ UNCHANGED <<run, advisory, keys, runs>>

OtherStep(o) == BindDrop(o) \/ BindCreate(o) \/ (InsertDecoy(o) /\ TravelersFree)

Next ==
    \/ \E o \in Operators :
         \/ \E script \in Scripts : Start(o, script)
         \/ InitStep(o) \/ MigrateStep(o) \/ SeedStep(o) \/ OtherStep(o)
         \/ Fail(o) \/ Die(o) \/ Expire(o)
    \/ EnsureTravelerExists

Spec == Init /\ [][Next]_vars

-----------------------------------------------------------------------------
(* Properties.                                                             *)

\* Each migration takes effect once, in the order of the names, and the
\* ledger says exactly which ones did, however many operators apply them at
\* once and from whatever checkout.
OnceAndInOrder ==
    /\ db.effects = [i \in 1 .. Len(db.effects) |-> i]
    /\ db.ledger = Range(db.effects)

\* What was seeded, and what turns wrote, stays: only a whole seed may replace
\* a stub. In particular schema.sql's DROP TABLE statements never run on
\* tables that someone has used.
Keeps == /\ db.seeded \subseteq db'.seeded /\ db.lines <= db'.lines
         /\ db.people \subseteq db'.people \/ Travelers \in db'.seeded
NothingIsWiped == [][Keeps]_vars

\* The seed is there whole, not at all, or as the catalog alone, and never
\* twice.
SeedIsWholeOnce ==
    /\ db.seeded \in {{}, {Packages}, Sections}
    /\ db.lines = (IF Bookings \in db.seeded THEN 1 ELSE 0)

\* Violated. Where the ledger says the last migration is applied, the audit
\* view has the columns it adds.
LedgerSpeaksOfTheView == Newest \in db.ledger => db.view = "full"

\* Violated. A seed run after a turn made the traveler's stub overrides it: it
\* is not refused for the stub.
SeedReplacesTheStub ==
    \A o \in Operators :
      run[o].script = "seed" /\ run[o].at = "refused" =>
        "placeholder" \notin db.people \/ db.seeded # {} \/ "decoy" \in db.people

\* Violated. Where initialization was refused for existing tables, migrations
\* can upgrade them.
RefusedMeansUpgradable ==
    \A o \in Operators :
      run[o].script = "init" /\ run[o].at = "refused" => db.base

-----------------------------------------------------------------------------
(* The inductive invariant.                                                *)

Applied == Len(db.effects)

LedgerIsInOrder == /\ db.effects = [i \in 1 .. Applied |-> i]
                   /\ db.ledger = 1 .. Applied

\* Nothing is in the tables before they are.
EmptyBeforeInit == ~db.base => db.seeded = {} /\ db.lines = 0 /\ db.people = {}

InitFits(o) == /\ run[o].at \in {"look again", "ddl"} => advisory["init"] = o
               /\ run[o].at = "ddl" => ~db.base

\* A run has consecutive migrations to do. The first one is the next of the ledger
\* or was applied since by another run; about to commit, it is the next.
MigrationFits(o) ==
    LET todo == run[o].todo IN
    run[o].at \in {"statements", "mark", "commit"} =>
        /\ todo \in Seq(Migrations) /\ todo # <<>>
        /\ \A i \in 1 .. Len(todo) : todo[i] = todo[1] + i - 1
        /\ IF run[o].script = "dry" THEN run[o].at = "statements" ELSE todo[1] <= Applied + 1
        /\ run[o].at = "commit" => keys[todo[1]] = o /\ todo[1] > Applied

\* A seed that found the tables empty still has them to itself.
SeedFits(o) ==
    /\ run[o].at \in {"empty?", "write"} => advisory["seed"] = o
    /\ run[o].at = "write" /\ (run[o].todo = <<>> \/ run[o].script = "seed") => db.base
    /\ run[o].at = "write" /\ run[o].script = "seed" => db.seeded = {} /\ db.lines = 0

IInv ==
    /\ TypeOK /\ LedgerIsInOrder /\ EmptyBeforeInit /\ SeedIsWholeOnce
    /\ \A o \in Operators : InitFits(o) /\ MigrationFits(o) /\ SeedFits(o)
=============================================================================
