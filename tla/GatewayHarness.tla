--------------------------- MODULE GatewayHarness ---------------------------
(***************************************************************************)
(* The throwaway Gateway of scripts/gateway_harness: one live run creates  *)
(* two roles, two functions, a Gateway with a target, a policy engine with *)
(* two policies, probes them and deletes them in a finally block; a later  *)
(* --teardown deletes what a run left, from its saved ledger.              *)
(***************************************************************************)
EXTENDS Naturals, Sequences, SequencesExt, FiniteSets

CONSTANTS MaxFaults,  \* bound: failed or unanswered calls, failed writes, deaths
          MaxPasted   \* bound: foreign entries pasted into the ledger file

BoundsAreNatural == MaxFaults \in Nat /\ MaxPasted \in Nat

VARIABLES cloud,   \* resources that exist in the account
          logs,    \* functions that have a log group
          joined,  \* the Gateway enforces the policy engine
          file,    \* entries of ledger.json, in the order they were added
          pc,      \* what the process of this run is doing
          step,    \* how many steps of create() are done
          entries, \* Ledger.entries in the process
          todo,    \* places in entries that teardown has left
          owned,   \* _owned: tag checks already made, by anchor
          groups,  \* _log_groups
          left,    \* leftovers
          code,    \* exit code so far
          hit,     \* a call of this process failed (history)
          faults,  \* faults so far
          pasted   \* entries pasted so far

vars == <<cloud, logs, joined, file, pc, step, entries, todo, owned, groups, left,
          code, hit, faults, pasted>>
process == <<step, entries, todo, owned, groups, left, code, hit>>
account == <<cloud, logs, joined>>

(* A resource carries the tag of its run; a child is checked through its   *)
(* parent, and only ids the service chose are unknown before the answer.   *)
Of(run, kind, name) == [run |-> run, kind |-> kind, name |-> name]
Mine(kind, name) == Of("mine", kind, name)
Role == {Mine("iam-role", "lambda"), Mine("iam-role", "gateway")}
Function == {Mine("lambda", "echo"), Mine("lambda", "interceptor")}
Gateway == Mine("gateway", "gateway")
Engine == Mine("policy-engine", "engine")
Binding == Mine("policy", "binding")

Steps == <<Mine("iam-role", "lambda"), Mine("iam-role", "gateway"),
           Mine("lambda", "echo"), Mine("lambda", "interceptor"), Gateway,
           Mine("target", "echo"), Engine, Mine("policy", "permit_all"),
           Binding>>
Ours == ToSet(Steps)
Neighbour == {Of("other", "iam-role", "gateway"), Of("other", "gateway", "gateway"),
              Of("other", "target", "echo")}

Named(r) == r.kind \in {"iam-role", "lambda"}

Anchor(r) == CASE r.kind = "target" -> Of(r.run, "gateway", "gateway")
               [] r.kind = "policy" -> Of(r.run, "policy-engine", "engine")
               [] OTHER -> r

-----------------------------------------------------------------------------
Init == /\ cloud = Neighbour /\ logs = {} /\ joined = FALSE
        /\ file = <<>> /\ pc = "idle" /\ step = 0 /\ entries = <<>> /\ todo = {}
        /\ owned = {} /\ groups = {} /\ left = {} /\ code = "none" /\ hit = FALSE
        /\ faults = 0 /\ pasted = 0

Fault == faults < MaxFaults /\ faults' = faults + 1 /\ hit' = TRUE
NoFault == UNCHANGED <<faults, hit>>

(* run_live after the guards: the ledger is saved before the first call. *)
Start == /\ pc = "idle" /\ code = "none"
         /\ pc' = "create" /\ code' = "fail"
         /\ UNCHANGED <<account, file, step, entries, todo, owned, groups, left, hit,
                        faults, pasted>>

(* Ledger.add: the entry is in memory even when the file is not written. *)
Note(r, then) ==
    /\ entries' = Append(entries, r)
    /\ \/ file' = Append(file, r) /\ pc' = then /\ NoFault /\ code' = code
       \/ file' = file /\ pc' = "failed" /\ Fault /\ code' = "raised"

NoteNamed == /\ pc = "create" /\ step < Len(Steps) /\ Named(Steps[step + 1])
             /\ Note(Steps[step + 1], "call")
             /\ UNCHANGED <<account, step, todo, owned, groups, left, pasted>>

Callable == \/ pc = "call"
            \/ pc = "create" /\ step < Len(Steps) /\ ~Named(Steps[step + 1])

(* The answer came; a resource whose id the service chose is noted next.   *)
Created == /\ Callable
           /\ cloud' = cloud \union {Steps[step + 1]}
           /\ IF Named(Steps[step + 1]) THEN pc' = "create" /\ step' = step + 1
              ELSE pc' = "note" /\ step' = step
           /\ UNCHANGED <<logs, joined, file, entries, todo, owned, groups, left, code, hit,
                          faults, pasted>>

(* A create or wait that failed leaves the resource or not. The refusal of *)
(* the binding rule is caught; an answer that never came is not.           *)
CreateFails ==
    /\ Callable /\ Fault
    /\ cloud' \in {cloud, cloud \union {Steps[step + 1]}}
    /\ IF Steps[step + 1] = Binding /\ cloud' = cloud
       THEN pc' = "create" /\ step' = step + 1
       ELSE pc' = "failed" /\ step' = step
    /\ UNCHANGED <<logs, joined, file, entries, todo, owned, groups, left, code, pasted>>

NoteCreated == /\ pc = "note" /\ Note(Steps[step + 1], "create")
               /\ step' = step + 1
               /\ UNCHANGED <<account, todo, owned, groups, left, pasted>>

\* The wait after the entry was added gives up; a refused binding rule is told.
WaitFails == /\ pc = "create" /\ step > 0 /\ Steps[step].kind # "iam-role" /\ Fault
             /\ pc' = IF Steps[step].name = "binding" THEN "create" ELSE "failed"
             /\ UNCHANGED <<account, file, step, entries, todo, owned, groups, left, code,
                            pasted>>

(* _update_gateway attaches the engine; the probes invoke both functions,  *)
(* unless the binding rule was refused: then none is sent and the run fails. *)
Probe == /\ pc = "create" /\ step = Len(Steps)
         /\ pc' = "failed"
         /\ joined' = (Gateway \in cloud)
         /\ \/ ~hit /\ logs' = logs \union Function /\ code' = "pass" /\ NoFault
            \/ hit /\ logs' = logs /\ code' = "fail" /\ NoFault
            \/ logs' \in {logs, logs \union (Function \intersect cloud)}
               /\ code' \in {"fail", "raised"} /\ Fault
         /\ UNCHANGED <<cloud, file, step, entries, todo, owned, groups, left, pasted>>

-----------------------------------------------------------------------------
Kinds == <<"target", "gateway", "policy", "policy-engine", "lambda", "iam-role">>

KindBefore(r, q) == \E k, n \in 1..Len(Kinds) : k < n /\ Kinds[k] = r.kind /\ Kinds[n] = q.kind

\* Mutant: the order in which they were created.
CreationOrder(i, j) == i < j

\* newest first within each kind
TeardownOrder(i, j) == \/ KindBefore(entries[i], entries[j])
                       \/ entries[i].kind = entries[j].kind /\ i > j

(* The finally block, or --teardown with a ledger it could read.           *)
BeginTeardown ==
    /\ pc = "failed"
    /\ IF entries = <<>> THEN pc' = "ended" /\ UNCHANGED todo
       ELSE pc' = "delete" /\ todo' = DOMAIN entries
    /\ UNCHANGED <<account, file, step, entries, owned, groups, left, code, hit, faults,
                   pasted>>

TeardownFile ==
    /\ pc \in {"idle", "ended"} /\ code \notin {"none", "pass"} /\ file # <<>>
    /\ pc' = "delete" /\ entries' = file /\ todo' = DOMAIN file
    /\ owned' = {} /\ groups' = {} /\ left' = {} /\ code' = "pass" /\ hit' = FALSE
    /\ UNCHANGED <<account, file, step, faults, pasted>>

\* what the service refuses to delete: a parent with children, an engine in use
Held(r) == \/ \E c \in cloud : c # r /\ Anchor(c) = r
           \/ r = Engine /\ joined /\ Gateway \in cloud

\* _tag_matches: an anchor that exists and carries this run's tag
Tagged(r) == r \in cloud /\ r.run = "mine"

\* _is_ours: a child's anchor is read once, every anchor again for its own deletion
IsOurs(r) == IF Anchor(r) # r /\ Anchor(r) \in owned THEN TRUE ELSE Tagged(Anchor(r))

Refused(r) == ~IsOurs(r) /\ Anchor(r).run # "mine" /\ (Named(r) \/ Anchor(r) \in cloud)

(* One entry; whatever goes wrong with it is collected and the rest goes on. *)
Entry(i) == /\ pc = "delete" /\ \A j \in todo \ {i} : TeardownOrder(i, j)
            /\ todo' = todo \ {i}
            /\ UNCHANGED <<file, pc, step, entries, code, pasted, logs, joined>>

GoneEntry == \E i \in todo : LET r == entries[i] IN
    /\ Entry(i) /\ ~IsOurs(r) /\ ~Refused(r)
    /\ groups' = IF r.kind = "lambda" THEN groups \union {r} ELSE groups
    /\ UNCHANGED <<cloud, owned, left>> /\ NoFault

ForeignEntry == \E i \in todo : LET r == entries[i] IN
    /\ Entry(i) /\ Refused(r) /\ left' = left \union {r}
    /\ UNCHANGED <<cloud, owned, groups>> /\ NoFault

DeletedEntry == \E i \in todo : LET r == entries[i] IN
    /\ Entry(i) /\ IsOurs(r) /\ ~Held(r)
    /\ cloud' = cloud \ {r} /\ owned' = owned \union {Anchor(r)}
    /\ groups' = IF r.kind = "lambda" THEN groups \union {r} ELSE groups
    /\ UNCHANGED left /\ NoFault

\* the tag read, the delete or the wait for it to be gone fails
FailedEntry == \E i \in todo : LET r == entries[i] IN
    /\ Entry(i) /\ IsOurs(r) /\ left' = left \union {r} /\ UNCHANGED groups
    /\ IF Held(r) THEN UNCHANGED cloud /\ owned' = owned \union {Anchor(r)} /\ NoFault
       ELSE cloud' \in {cloud, cloud \ {r}} /\ owned' \in {owned, owned \union {Anchor(r)}}
            /\ Fault

DeleteLogGroups ==
    /\ pc = "delete" /\ todo = {} /\ pc' = "ended"
    /\ \/ logs' = logs \ groups /\ left' = left /\ NoFault
       \/ \E g \in groups \intersect logs :
             logs' = logs \ (groups \ {g}) /\ left' = left \union {g} /\ Fault
    /\ code' = IF code # "raised" /\ left' # {} THEN "leftovers" ELSE code
    /\ UNCHANGED <<cloud, joined, file, step, entries, todo, owned, groups, pasted>>

-----------------------------------------------------------------------------
(* Ctrl-C in create() still tears down, and is raised again after it; one  *)
(* in the teardown, or a kill anywhere, ends the process.                  *)
Interrupt == /\ pc \in {"create", "call", "note"} /\ Fault
             /\ pc' = "failed" /\ code' = "raised"
             /\ UNCHANGED <<account, file, step, entries, todo, owned, groups, left, pasted>>

Die == /\ pc \notin {"idle", "ended"} /\ Fault
       /\ pc' = "ended" /\ code' = "died"
       /\ UNCHANGED <<account, file, step, entries, todo, owned, groups, left, pasted>>

(* Somebody pastes an entry of another run's ledger into this one.         *)
Paste == /\ pc = "ended" /\ pasted < MaxPasted /\ pasted' = pasted + 1
         /\ \E r \in Neighbour : file' = Append(file, r)
         /\ UNCHANGED <<account, pc, process, faults>>

Proceed == NoteNamed \/ Created \/ NoteCreated \/ Probe \/ BeginTeardown \/ GoneEntry
           \/ ForeignEntry \/ DeletedEntry \/ FailedEntry \/ DeleteLogGroups
Next == Start \/ CreateFails \/ WaitFails \/ TeardownFile \/ Interrupt \/ Die \/ Paste
        \/ Proceed
Spec == Init /\ [][Next]_vars

-----------------------------------------------------------------------------
TypeOK == /\ cloud \subseteq Ours \union Neighbour /\ logs \subseteq Function
          /\ joined \in BOOLEAN
          /\ pc \in {"idle", "create", "call", "note", "failed", "delete", "ended"}
          /\ step \in 0..Len(Steps)
          /\ \A s \in {file, entries} : ToSet(s) \subseteq Ours \union Neighbour
          /\ todo \subseteq DOMAIN entries
          /\ owned \subseteq Ours \union Neighbour /\ groups \subseteq Function
          /\ left \subseteq Ours \union Neighbour /\ hit \in BOOLEAN
          /\ code \in {"none", "pass", "fail", "raised", "leftovers", "died"}
          /\ (code = "none") = (pc = "idle")
          /\ faults \in 0..MaxFaults /\ pasted \in 0..MaxPasted

(* No teardown deletes what another run made, whatever entries its ledger  *)
(* holds: the tag it reads is the one of the parent of that very entry.    *)
OthersAreKept == Neighbour \subseteq cloud

(* A role or a function that exists is in the ledger file, so a process    *)
(* killed between the create call and the next line leaves none untracked. *)
NamedAreTracked == \A r \in cloud \intersect (Role \union Function) : r \in ToSet(file)

(* A command that ends with exit 0 or 1 has left nothing its ledger lists, *)
(* log groups of functions an earlier teardown deleted included.           *)
CleanExitIsClean ==
    pc = "ended" /\ code \in {"pass", "fail"} =>
        \A r \in ToSet(entries) : r.run = "mine" => r \notin cloud /\ r \notin logs

(* One undisturbed teardown is enough: it leaves nothing of this run but   *)
(* what hangs on a resource no ledger entry tells it of.                   *)
OnePassIsEnough ==
    pc = "ended" /\ code = "leftovers" /\ ~hit =>
        \A r \in left : r.run = "mine" =>
            \E c \in cloud : c \notin ToSet(entries) /\ Anchor(c) = r

(* resources.py:3-4: "Every create call records what it made in a ledger   *)
(* before the next call, so a failure half way still tears down exactly    *)
(* what exists."                                                           *)
TearsDownWhatExists ==
    pc = "ended" /\ code \in {"pass", "fail"} => cloud = Neighbour

(* What hangs on an untracked child cannot be deleted.                     *)
LedgerIsEmpty == \A r \in ToSet(file) : r.run = "mine" /\ r \in cloud =>
                    \E c \in cloud : c \notin ToSet(file) /\ Held(r)

-----------------------------------------------------------------------------
(* The inductive invariant.                                                *)
Known == /\ TypeOK /\ file \in Seq(Ours \union Neighbour) /\ entries \in Seq(Ours \union Neighbour)
         /\ left \union groups \subseteq ToSet(entries) /\ \A r \in owned : r.run = "mine"

(* A child exists only under its parent.                                   *)
ParentsStay == \A r \in cloud : Anchor(r) \in cloud

(* While the run creates, it has made the steps it is past and noted them. *)
Creating == pc \in {"create", "call", "note"}
Untouched == pc = "idle" => file = <<>> /\ entries = <<>> /\ step = 0 /\ cloud = Neighbour
NotedInOrder ==
    Creating =>
        /\ file = entries
        /\ \A k \in 1..step : Steps[k] = Binding \/ Steps[k] \in cloud
        /\ \A r \in cloud \intersect Ours :
              r \in ToSet(entries) \/ (pc = "note" /\ r = Steps[step + 1])
        /\ pc = "call" => step < Len(Steps) /\ Named(Steps[step + 1])
                          /\ Steps[step + 1] \in ToSet(entries)
        /\ pc = "note" => step < Len(Steps) /\ ~Named(Steps[step + 1])
                          /\ Steps[step + 1] \in cloud
JoinedIsNoted ==
    joined => /\ pc \in {"failed", "delete", "ended"}
              /\ cloud \intersect Ours \subseteq ToSet(file) \intersect ToSet(entries)

(* Teardown has left or deleted every entry it is past.                    *)
NothingLeftYet == pc \in {"idle", "create", "call", "note", "failed"} => left = {}
DoneWith(r) == r \in left \/ (r \notin cloud /\ (r.kind = "lambda" => r \in groups))
PastIsDone ==
    pc = "delete" =>
        \A i \in DOMAIN entries \ todo : entries[i].run = "mine" => DoneWith(entries[i])
LeftIsHeld ==
    pc \in {"delete", "ended"} /\ ~hit =>
        \A r \in left : r.run = "mine" => \E c \in cloud : c \notin ToSet(entries) /\ Anchor(c) = r

IInv == /\ Known /\ OthersAreKept /\ NamedAreTracked /\ ParentsStay
        /\ Untouched /\ NotedInOrder /\ JoinedIsNoted
        /\ NothingLeftYet /\ PastIsDone /\ LeftIsHeld /\ CleanExitIsClean

=============================================================================
