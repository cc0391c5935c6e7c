---------------------------- MODULE LoginRotation ----------------------------
(***************************************************************************)
(* The scripts that give the service logins and the workflow login a       *)
(* password (scripts/provision_service_logins.py and                       *)
(* provision_workflow_login.py).  A run sets the role's verifier in        *)
(* Postgres, overwrites the secret with the password, writes a new default *)
(* version of the policy, then connects with the secret; a verified run    *)
(* records the secret in meridian/.env.  Postgres, Secrets Manager, IAM    *)
(* and the file are four places with no transaction across them, and any   *)
(* call may be the last one of a run.  A password is named after the run   *)
(* that generated it; a dry run changes nothing and is left out.           *)
(***************************************************************************)
EXTENDS Integers, FiniteSets

CONSTANTS
    Runs,        \* executions of either script with --apply --write-env
    Logins,      \* the roles; a run of --login all is one run per role
    InPlace,     \* the roles whose script rewrites .env in place: the workflow
    NoRun,       \* no password was ever set
    MaxVersions, \* versions a managed policy may have: MAX_POLICY_VERSIONS
    Attempts,    \* VERIFY_ATTEMPTS
    MaxFaults,   \* bound: calls that fail and runs that are killed
    Together     \* may two runs be in progress at the same time?

ScriptsKnown == InPlace \subseteq Logins /\ NoRun \notin Runs
(* IAM keeps the default version of a policy and at least one more.        *)
LimitsKnown ==
    /\ MaxVersions \in Nat /\ MaxVersions > 1
    /\ Attempts \in Nat /\ Attempts > 0
    /\ Together \in BOOLEAN

VARIABLES
    pc,        \* how far each run is
    login,     \* the role each run is for
    found,     \* what a run found at its start: [secret, policy |-> BOOLEAN]
    attempt,   \* queries as the login that failed
    lines,     \* the .env lines a run read
    verifier,  \* the password each role's verifier is of
    secret,    \* the password in each role's secret
    versions,  \* the versions of each role's policy; the newest is the default
    env,       \* the roles .env has a line for
    last,      \* the run that last changed a role's verifier or secret
    alone,     \* did no other run overlap this one?
    broken,    \* did a call of this run fail, or was it killed?
    faults

vars == <<pc, login, found, attempt, lines, verifier, secret, versions, env,
          last, alone, broken, faults>>

-----------------------------------------------------------------------------

Ended == {"done", "failed"}
InProgress(r) == pc[r] \notin Ended \cup {"idle"}
Newest(S) == CHOOSE v \in S : \A w \in S : w <= v
Oldest(S) == CHOOSE v \in S : \A w \in S : v <= w

(* An account before, in or after its first rotation: a policy may be new, *)
(* or have all the versions it may have.                                   *)
Init ==
    /\ pc = [r \in Runs |-> "idle"]
    /\ login \in [Runs -> Logins]
    /\ found = [r \in Runs |-> [secret |-> FALSE, policy |-> FALSE]]
    /\ attempt = [r \in Runs |-> 0]
    /\ lines = [r \in Runs |-> {}]
    /\ verifier = [l \in Logins |-> NoRun]
    /\ secret = [l \in Logins |-> NoRun]
    /\ \E n \in {0, MaxVersions} : versions = [l \in Logins |-> 1..n]
    /\ env = {}
    /\ last = [l \in Logins |-> NoRun]
    /\ alone = [r \in Runs |-> TRUE]
    /\ broken = [r \in Runs |-> FALSE]
    /\ faults = 0

Goto(r, there) == pc' = [pc EXCEPT ![r] = there]

Find(r) ==
    /\ pc[r] = "idle"
    /\ Together \/ \A o \in Runs : ~InProgress(o)
    /\ Goto(r, "found")
    /\ found' = [found EXCEPT ![r] = [secret |-> secret[login[r]] # NoRun,
                                      policy |-> versions[login[r]] # {}]]
    /\ alone' = [o \in Runs |->
                   alone[o] /\ IF o = r THEN \A p \in Runs : ~InProgress(p)
                                        ELSE ~InProgress(o)]
    /\ UNCHANGED <<login, attempt, lines, verifier, secret, versions, env, last,
                   broken, faults>>

(* ALTER ROLE ... LOGIN PASSWORD.                                          *)
SetLogin(r) ==
    /\ pc[r] = "found"
    /\ Goto(r, "set")
    /\ verifier' = [verifier EXCEPT ![login[r]] = r]
    /\ last' = [last EXCEPT ![login[r]] = r]
    /\ UNCHANGED <<login, found, attempt, lines, secret, versions, env, alone,
                   broken, faults>>

(* A secret that was not there is created, which fails when another run    *)
(* has created it since.                                                   *)
StoreSecret(r) ==
    /\ pc[r] = "set"
    /\ IF found[r].secret \/ secret[login[r]] = NoRun
       THEN /\ Goto(r, "stored")
            /\ secret' = [secret EXCEPT ![login[r]] = r]
            /\ last' = [last EXCEPT ![login[r]] = r]
       ELSE /\ Goto(r, "failed")
            /\ UNCHANGED <<secret, last>>
    /\ UNCHANGED <<login, found, attempt, lines, verifier, versions, env, alone,
                   broken, faults>>

Full(V) == Cardinality(V) >= MaxVersions

(* list_policy_versions and, at the limit, delete_policy_version of the    *)
(* oldest one that is not the default; nothing to list for a new policy.   *)
TrimPolicy(r) ==
    LET V == versions[login[r]] IN
    /\ pc[r] = "stored"
    /\ Goto(r, "trimmed")
    /\ versions' = IF found[r].policy /\ Full(V)
                   THEN [versions EXCEPT ![login[r]] = V \ {Oldest(V \ {Newest(V)})}]
                   ELSE versions
    /\ UNCHANGED <<login, found, attempt, lines, verifier, secret, env, last,
                   alone, broken, faults>>

(* create_policy, or create_policy_version as the default.  IAM refuses a  *)
(* policy that exists, and a version beyond the limit.                     *)
WritePolicy(r) ==
    LET V == versions[login[r]] IN
    /\ pc[r] = "trimmed"
    /\ IF IF found[r].policy THEN Cardinality(V) < MaxVersions ELSE V = {}
       THEN /\ Goto(r, "granted")
            /\ versions' = [versions EXCEPT ![login[r]] =
                              V \cup {IF V = {} THEN 1 ELSE Newest(V) + 1}]
       ELSE /\ Goto(r, "failed")
            /\ UNCHANGED versions
    /\ UNCHANGED <<login, found, attempt, lines, verifier, secret, env, last,
                   alone, broken, faults>>

-----------------------------------------------------------------------------
(* The login is exercised with the secret as it is now.                    *)

Connects(l) == secret[l] = verifier[l]

\* Mutant: any row proves the login, whoever it ran as.
VerifiesAnyway(r) == pc[r] = "granted"
Verifies(r) == pc[r] = "granted" /\ Connects(login[r])

Verify(r) ==
    /\ Verifies(r)
    /\ Goto(r, "verified")
    /\ UNCHANGED <<login, found, attempt, lines, verifier, secret, versions, env,
                   last, alone, broken, faults>>

(* A query that cannot connect is tried again, VERIFY_ATTEMPTS in all.  A  *)
(* secret that is right may need a moment before it can be read, which the *)
(* script takes to be fewer attempts than it makes.                        *)
CannotConnect(r) ==
    /\ pc[r] = "granted"
    /\ ~Connects(login[r]) \/ attempt[r] < Attempts - 1
    /\ attempt' = [attempt EXCEPT ![r] = @ + 1]
    /\ IF attempt'[r] = Attempts THEN Goto(r, "failed") ELSE UNCHANGED pc
    /\ UNCHANGED <<login, found, lines, verifier, secret, versions, env, last,
                   alone, broken, faults>>

-----------------------------------------------------------------------------
(* write_env: the lines are read, and the file is replaced by one with the *)
(* role's line.  The workflow's script opens the file itself for writing,  *)
(* which empties it first.                                                 *)

ReadEnv(r) ==
    /\ pc[r] = "verified"
    /\ Goto(r, "read")
    /\ lines' = [lines EXCEPT ![r] = env]
    /\ UNCHANGED <<login, found, attempt, verifier, secret, versions, env, last,
                   alone, broken, faults>>

OpensInPlace(r) == pc[r] = "read" /\ login[r] \in InPlace

OpenEnv(r) ==
    /\ OpensInPlace(r)
    /\ Goto(r, "opened")
    /\ env' = {}
    /\ UNCHANGED <<login, found, attempt, lines, verifier, secret, versions, last,
                   alone, broken, faults>>

WriteEnv(r) ==
    /\ pc[r] = IF login[r] \in InPlace THEN "opened" ELSE "read"
    /\ Goto(r, "done")
    /\ env' = lines[r] \cup {login[r]}
    /\ UNCHANGED <<login, found, attempt, lines, verifier, secret, versions, last,
                   alone, broken, faults>>

-----------------------------------------------------------------------------

(* A call to AWS fails, or the run is killed.  The call it was making may  *)
(* have taken effect: that is the same failure one step later.             *)
Break(r) ==
    /\ faults < MaxFaults
    /\ InProgress(r)
    /\ Goto(r, "failed")
    /\ broken' = [broken EXCEPT ![r] = TRUE]
    /\ faults' = faults + 1
    /\ UNCHANGED <<login, found, attempt, lines, verifier, secret, versions, env,
                   last, alone>>

Provision(r) == \/ Find(r) \/ SetLogin(r) \/ StoreSecret(r) \/ TrimPolicy(r)
                \/ WritePolicy(r) \/ Verify(r) \/ CannotConnect(r)

Next == \E r \in Runs :
            \/ Provision(r)
            \/ ReadEnv(r) \/ OpenEnv(r) \/ WriteEnv(r)
            \/ Break(r)

Spec == Init /\ [][Next]_vars

-----------------------------------------------------------------------------
(* Properties.                                                             *)

TypeOK ==
    /\ pc \in [Runs -> {"idle", "found", "set", "stored", "trimmed", "granted",
                        "verified", "read", "opened", "done", "failed"}]
    /\ login \in [Runs -> Logins]
    /\ attempt \in [Runs -> 0..Attempts]
    /\ verifier \in [Logins -> Runs \cup {NoRun}]
    /\ secret \in [Logins -> Runs \cup {NoRun}]
    /\ env \subseteq Logins
    /\ last \in [Logins -> Runs \cup {NoRun}]

(* However runs of one role overlap and break off: when the run that       *)
(* touched the role last ended with its login verified, the secret has the *)
(* password Postgres accepts.  A role that is left unusable always leaves  *)
(* a run that says so (provision_login, _verify_login).                    *)
LastVerifiedWorks ==
    \A l \in Logins :
        last[l] # NoRun /\ pc[last[l]] \in {"verified", "read", "opened", "done"}
            => Connects(l)

(* "Re-running rotates the password and repairs a half-finished run": a    *)
(* run that overlaps no other fails only when a call of its own failed,    *)
(* whatever the runs before it left behind, a policy at its limit          *)
(* included.                                                               *)
RerunRepairs ==
    \A r \in Runs : pc[r] = "failed" /\ alone[r] => broken[r]

(* No line that .env had is lost by a run that is killed while it writes   *)
(* (write_env writes a temporary file and renames it), as long as runs     *)
(* follow one another; the workflow's script gives no such promise.        *)
KeepsLines == env \subseteq env' \/ \E r \in Runs : login[r] \in InPlace /\ InProgress(r)
EnvKeepsItsLines == [][KeepsLines]_vars

(* A run that ended has its line in .env, and another run's write leaves   *)
(* it there: "Replace or append the one env_key line in env_file,          *)
(* atomically" (provision_service_logins.py:292).                          *)
EveryLineStays ==
    \A r \in Runs : pc[r] = "done" => login[r] \in env

-----------------------------------------------------------------------------
(* The inductive invariant.                                                *)

Known ==
    /\ found \in [Runs -> [secret : BOOLEAN, policy : BOOLEAN]]
    /\ lines \in [Runs -> SUBSET Logins]
    /\ versions \in [Logins -> SUBSET Nat]
    /\ alone \in [Runs -> BOOLEAN] /\ broken \in [Runs -> BOOLEAN]

(* IAM keeps consecutive versions, and never more than it may: only the     *)
(* oldest one is deleted.                                                  *)
VersionsFit ==
    \A l \in Logins : \E o, n \in Nat :
        versions[l] = o..n /\ n - o < MaxVersions

AttemptsLeft == \A r \in Runs : pc[r] # "failed" => attempt[r] < Attempts
LastIsItsOwn == \A l \in Logins : last[l] # NoRun => login[last[l]] = l

AloneIsAlone ==
    \A r, o \in Runs : alone[r] /\ InProgress(r) /\ InProgress(o) => o = r
OneInProgress ==
    ~Together => \A r, o \in Runs : InProgress(r) /\ InProgress(o) => o = r

(* What a run that overlaps no other found is still so, and what it set    *)
(* is still set.                                                           *)
FindsAll(r) ==
    /\ pc[r] \in {"found", "set"} => (found[r].secret <=> secret[login[r]] # NoRun)
    /\ pc[r] \in {"found", "set", "stored", "trimmed"} =>
           (found[r].policy <=> versions[login[r]] # {})
    /\ pc[r] \in {"set", "stored", "trimmed", "granted"} => verifier[login[r]] = r
    /\ pc[r] \in {"stored", "trimmed", "granted"} => secret[login[r]] = r
    /\ pc[r] = "trimmed" => Cardinality(versions[login[r]]) < MaxVersions
    /\ pc[r] = "failed" => broken[r]
AloneFindsAll == \A r \in Runs : alone[r] => FindsAll(r)

LinesAreRead ==
    ~Together => \A r \in Runs : pc[r] = "read" /\ login[r] \notin InPlace => lines[r] = env

IInv == /\ TypeOK /\ Known /\ VersionsFit /\ AttemptsLeft /\ LastIsItsOwn /\ LastVerifiedWorks
        /\ AloneIsAlone /\ OneInProgress /\ AloneFindsAll /\ LinesAreRead
=============================================================================
