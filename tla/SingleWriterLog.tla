--------------------------- MODULE SingleWriterLog ---------------------------
(***************************************************************************)
(* What the execution lease and the snapshot fence promise together: one   *)
(* writer at a time extends one history.  A writer owns the log at most    *)
(* once; while it does, each entry it appends was computed from the newest *)
(* one; once it has been retired, by its own release, by a takeover or by  *)
(* a stop, it never writes again.                                          *)
(***************************************************************************)
EXTENDS Naturals, Sequences

CONSTANT Writers

VARIABLES
    owners,     \* the writer that owns the log: a set with at most one element
    retired,    \* the writers that owned it before
    log         \* entries, each with its writer and the length it was computed from

vars == <<owners, retired, log>>

Init == owners = {} /\ retired = {} /\ log = <<>>

\* A takeover retires the old owner in the same step.
Acquire(w) ==
    /\ w \notin retired \cup owners
    /\ owners' = {w}
    /\ retired' = retired \cup owners
    /\ UNCHANGED log

Retire(w) ==
    /\ w \in owners
    /\ owners' = owners \ {w}
    /\ retired' = retired \cup {w}
    /\ UNCHANGED log

Write(w) ==
    /\ w \in owners
    /\ log' = Append(log, [by |-> w, base |-> Len(log)])
    /\ UNCHANGED <<owners, retired>>

Next == \E w \in Writers : Acquire(w) \/ Retire(w) \/ Write(w)

Spec == Init /\ [][Next]_vars

=============================================================================
