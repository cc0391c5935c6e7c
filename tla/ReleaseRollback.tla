--------------------------- MODULE ReleaseRollback ---------------------------
(* `release_identity.py rollback`: hop by hop the saved configuration is put back
   and read back, in the reverse of the release order. A run may die anywhere and
   is then run again. The holds Lambda keeps the secret parameter it read at its
   cold start, so a restored parameter owes it a restart, and the result file
   carries that debt from one run to the next. Source paths are below meridian/. *)
EXTENDS Naturals, Sequences

CONSTANTS Snaps,      \* the snapshots of the replaced release
          MaxFaults   \* bound on deaths, failed writes and unreadable files

RollbackAssumption == /\ Snaps # {} /\ Snaps \cap {"none", "broken"} = {}
                      /\ MaxFaults \in Nat

VARIABLES live,      \* each hop as it is: "saved", or what the release left
          cache,     \* the parameter the running holds Lambda has read
          result,    \* rollback-result.json
          run,       \* the rollback in progress
          replaced,  \* the saved Gateway no longer exists under its saved id
          faults
vars == <<live, cache, result, run, replaced, faults>>

Steps == <<"site", "service", "roles", "gateway", "runtime", "stack", "ssm", "holds", "catalog">>
Hops  == {Steps[i] : i \in 1..Len(Steps)}
Needs == [s \in Hops |-> CASE s \in {"runtime", "stack"} -> {"gateway"}
                            [] s = "holds" -> {"ssm"}
                            [] OTHER -> {}]
\* No restore here: CloudFormation's, and, once the Gateway was replaced, the
\* hops whose saved copy names the Gateway that is gone.
ByHand(s) == s \in {"roles", "stack"} \/ (replaced /\ s \in {"service", "gateway", "runtime"})
Values    == {"saved", "released"}
Statuses  == {"unchanged", "restored", "manual", "failed", "skipped"}
NoRun     == [snap |-> "none"]
NoResult  == [snap |-> "none", owed |-> FALSE, code |-> "none"]
Broken    == [snap |-> "broken", owed |-> TRUE, code |-> "none"]

Init == /\ live \in [Hops -> Values]
        /\ cache = live["ssm"]
        /\ result = NoResult /\ run = NoRun
        /\ replaced \in BOOLEAN
        /\ faults = 0

Step  == Steps[Len(run.done) + 1]
In(phase) == run # NoRun /\ Len(run.done) < Len(Steps) /\ run.phase = phase
Fault == faults < MaxFaults /\ faults' = faults + 1
Failed == {Steps[i] : i \in {j \in 1..Len(run.done) : run.done[j] = "failed"}}
Ends(status, owed) ==
  run' = [run EXCEPT !.done = Append(@, status), !.phase = "check", !.owed = owed]

\* Mutant: only a file of a finished run is believed.
PendingOfFinished(s) == result.snap \in {s, "broken"} /\ result.owed /\ result.code # "none"
PreviousPending(s) == result.snap \in {s, "broken"} /\ result.owed

Start(s) ==
  /\ run = NoRun
  /\ run' = [snap |-> s, done |-> <<>>, phase |-> "check", owed |-> PreviousPending(s)]
  /\ UNCHANGED <<live, cache, result, replaced, faults>>

Skip == /\ In("check")
        /\ Needs[Step] \cap Failed # {}
        /\ Ends("skipped", run.owed)
        /\ UNCHANGED <<live, cache, result, replaced, faults>>
\* The hop as it is against the saved copy; the holds Lambda also owes a restart.
Differs == live[Step] # "saved" \/ (Step = "holds" /\ run.owed)
Compares == In("check") /\ Needs[Step] \cap Failed = {}
Compare ==
  /\ Compares
  /\ CASE ~Differs     -> Ends("unchanged", run.owed)
       [] Differs /\ ByHand(Step) -> Ends("manual", run.owed)
       [] OTHER        -> run' = [run EXCEPT !.phase = "write", !.owed = @ \/ Step = "ssm"]
  /\ UNCHANGED <<live, cache, result, replaced, faults>>
CompareFails == /\ Compares
                /\ Ends("failed", run.owed)
                /\ Fault
                /\ UNCHANGED <<live, cache, result, replaced>>

Journal == result' = [snap |-> run.snap, owed |-> run.owed, code |-> "none"]
WriteAhead ==
  /\ In("write")
  /\ IF Step = "ssm" THEN Journal ELSE UNCHANGED result
  /\ run' = [run EXCEPT !.phase = "send"]
  /\ UNCHANGED <<live, cache, replaced, faults>>
\* An environment sent to the holds Lambda starts it afresh: it reads the parameter.
Sends == /\ live' = [live EXCEPT ![Step] = "saved"]
         /\ cache' = IF Step = "holds" THEN live["ssm"] ELSE cache
Send == /\ In("send")
        /\ Sends
        /\ run' = [run EXCEPT !.phase = "read"]
        /\ UNCHANGED <<result, replaced, faults>>
\* AWS refuses the write: nothing changed for the hop.
SendFails == /\ In("send")
             /\ Ends("failed", run.owed)
             /\ Fault
             /\ UNCHANGED <<live, cache, result, replaced>>
ReadBack == /\ In("read")
            /\ Ends("restored", run.owed /\ Step # "holds")
            /\ UNCHANGED <<live, cache, result, replaced, faults>>
\* The environment afterwards is not the one sent, or the attempts run out.
ReadBackFails == /\ In("read")
                 /\ \E lost \in BOOLEAN :
                      /\ live' = IF lost THEN [live EXCEPT ![Step] = "released"] ELSE live
                      /\ Ends("failed", run.owed /\ (lost \/ Step # "holds"))
                 /\ Fault
                 /\ UNCHANGED <<cache, result, replaced>>

Code == IF \E i \in 1..Len(run.done) : run.done[i] \in {"failed", "manual"} THEN "one" ELSE "zero"
Finish == /\ run # NoRun /\ Len(run.done) = Len(Steps)
          /\ result' = [snap |-> run.snap, owed |-> run.owed, code |-> Code]
          /\ run' = NoRun
          /\ UNCHANGED <<live, cache, replaced, faults>>
Die == /\ run # NoRun
       /\ run' = NoRun
       /\ Fault
       /\ UNCHANGED <<live, cache, result, replaced>>
Unreadable == /\ result \notin {NoResult, Broken} /\ run = NoRun
              /\ result' = Broken
              /\ Fault
              /\ UNCHANGED <<live, cache, run, replaced>>

\* The platform starts the holds Lambda afresh when it likes; the operator runs
\* the printed remedy of the hops that are restored by hand.
ColdStart == /\ cache' = live["ssm"]
             /\ UNCHANGED <<live, result, run, replaced, faults>>
Remedy(s) == /\ run = NoRun /\ ByHand(s)
             /\ live' = [live EXCEPT ![s] = "saved"]
             /\ UNCHANGED <<cache, result, run, replaced, faults>>

Working == \/ Skip \/ Compare \/ WriteAhead \/ Send \/ ReadBack \/ Finish
Faulty  == \/ CompareFails \/ SendFails \/ ReadBackFails \/ Die \/ Unreadable
Next == \/ Working \/ Faulty \/ ColdStart
        \/ \E s \in Snaps : Start(s)
        \/ \E s \in Hops : Remedy(s)
Spec == Init /\ [][Next]_vars

-----------------------------------------------------------------------------
Rollbacks == [snap: Snaps, done: Seq(Statuses), phase: {"check", "write", "send", "read"},
              owed: BOOLEAN]
TypeOK ==
  /\ live \in [Hops -> Values] /\ cache \in Values /\ replaced \in BOOLEAN
  /\ result \in {NoResult, Broken} \cup [snap: Snaps, owed: BOOLEAN, code: {"none", "zero", "one"}]
  /\ run = NoRun \/ (/\ run \in Rollbacks
                     /\ Len(run.done) <= Len(Steps)
                     /\ Len(run.done) = Len(Steps) => run.phase = "check")
  /\ faults \in 0..MaxFaults

\* "A holds restart that is still owed is kept in the result file, so a later run
\* does it": while the Lambda runs on a parameter that was replaced, the run in
\* progress or the file knows it, whatever died in between.
RestartIsOwed ==
  (live["ssm"] = "saved" /\ cache # "saved") => (run # NoRun /\ run.owed) \/ result.owed

\* A run that ends with code 0 left every hop as saved, and the holds Lambda on
\* the saved parameter: "Rollback complete: every hop is as saved".
Completes == (result' # result /\ result'.code = "zero")
               => (\A s \in Hops : live[s] = "saved") /\ cache = "saved"
CompleteIsComplete == [][Completes]_vars

Unsuccessful == result.code # "zero"
Restarted == cache = "saved"

-----------------------------------------------------------------------------
(* The inductive invariant, for the rollbacks from one snapshot: the result file *)
(* is believed only by a run of the snapshot that it names.                      *)
OneSnapshot == \A s, t \in Snaps : s = t

\* A restart that is owed is in the file, so a death loses nothing, and in the run.
DebtIsKnown ==
  live["ssm"] = "saved" /\ cache # "saved" => result.owed /\ (run # NoRun => run.owed)

\* The debt is noted before the parameter is written, in the run and then in the file.
DebtComesFirst ==
  run # NoRun /\ Len(run.done) < Len(Steps) /\ Step = "ssm" =>
    /\ run.phase \in {"write", "send", "read"} => run.owed
    /\ run.phase \in {"send", "read"} => result.owed

\* The write that is being read back took effect, and a restart read the parameter.
SentIsSaved ==
  In("read") => live[Step] = "saved" /\ (Step = "holds" => cache = live["ssm"])

\* A hop this run called unchanged or restored stays as saved while it runs.
DoneIsSaved ==
  run # NoRun =>
    \A i \in 1..Len(run.done) :
      run.done[i] \in {"unchanged", "restored"} =>
        /\ live[Steps[i]] = "saved"
        /\ Steps[i] = "holds" /\ live["ssm"] = "saved" => cache = "saved"

\* A hop is skipped only after another one failed.
SkipsAfterFailure ==
  run # NoRun =>
    \A i \in 1..Len(run.done) :
      run.done[i] = "skipped" => \E j \in 1..Len(run.done) : run.done[j] = "failed"

IInv == /\ TypeOK /\ DebtIsKnown /\ DebtComesFirst /\ SentIsSaved /\ DoneIsSaved
        /\ SkipsAfterFailure
=============================================================================
