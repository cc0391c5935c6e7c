--------------------------- MODULE CheckpointSaver ---------------------------
(***************************************************************************)
(* examples/langgraph/aurora_dataapi_saver.py: workers run one thread of a *)
(* LangGraph workflow and keep it in checkpoints, checkpoint_blobs and     *)
(* checkpoint_writes through the Data API, a value longer than one window  *)
(* in several statements. aput commits each statement; aput_writes runs a  *)
(* batch in one transaction.                                               *)
(***************************************************************************)
EXTENDS Naturals, Sequences, SequencesExt, FiniteSets

CONSTANTS Workers,
          Overlap,     \* a worker may be taken over while it is still running
          MaxStarts,   \* bound: times a worker is started
          MaxVersion   \* bound: steps of the workflow

ConstantsAreUsable == /\ IsFiniteSet(Workers) /\ Overlap \in BOOLEAN
                      /\ MaxStarts \in Nat /\ MaxVersion \in Nat

VARIABLES checkpoints, \* rows visible: id, version of the channel, base checkpoint
          blobs,       \* channel version -> segments
          writes,      \* committed rows: <<checkpoint, row>> -> segments
          pc, base, value, id,   \* per worker: what it does, on which checkpoint
          size, parts, \* per worker: the windowed read of the channel
          tx,          \* per worker: rows its open transaction wrote
          row, seg,    \* per worker: the statement of the batch it is at
          starts

vars == <<checkpoints, blobs, writes, pc, base, value, id, size, parts, tx, row, seg, starts>>
reading == <<size, parts>>
batch == <<tx, row, seg>>

NoCheckpoint == [id |-> 0, version |-> 0, parent |-> 0]
Latest == CHOOSE c \in checkpoints : \A d \in checkpoints : d.id <= c.id
Ids == {c.id : c \in checkpoints} \union {id[w] : w \in Workers}

\* checkpoint ids grow with time, whoever makes them
NewId(w) == 1 + CHOOSE m \in Ids : \A n \in Ids : n <= m

Segments == 2                                   \* a value longer than one window
Whole(v) == [i \in 1..Segments |-> <<v, i>>]    \* split_for_write

Batches == [resume |-> <<"answer">>, task |-> <<"first", "second">>]

Reserved(b) == b = "resume"   \* WRITES_IDX_MAP: a latest-value slot

Init == /\ checkpoints = {NoCheckpoint} /\ blobs = <<>> /\ writes = <<>>
        /\ pc = [w \in Workers |-> "idle"] /\ base = [w \in Workers |-> NoCheckpoint]
        /\ value = [w \in Workers |-> <<>>] /\ id = [w \in Workers |-> 0]
        /\ size = [w \in Workers |-> 0] /\ parts = [w \in Workers |-> <<>>]
        /\ tx = [w \in Workers |-> <<>>] /\ row = [w \in Workers |-> 1]
        /\ seg = [w \in Workers |-> 1] /\ starts = 0

To(w, where) == pc' = [pc EXCEPT ![w] = where]

(* aget_tuple: the newest row, then its channel in windows of the size     *)
(* read first, outside a transaction.                                      *)
Load(w) == /\ pc[w] = "idle" /\ starts < MaxStarts /\ starts' = starts + 1
           /\ Latest.version < MaxVersion          \* the workflow has not ended
           /\ Overlap \/ \A x \in Workers : pc[x] \in {"idle", "dead"}
           /\ base' = [base EXCEPT ![w] = Latest]
           /\ IF Latest = NoCheckpoint
              THEN To(w, "resume") /\ UNCHANGED size
              ELSE /\ size' = [size EXCEPT ![w] = Len(blobs[Latest.version])]
                   /\ To(w, "read")
           /\ parts' = [parts EXCEPT ![w] = <<>>]
           /\ UNCHANGED <<checkpoints, blobs, writes, value, id, batch>>

Read(w) == /\ pc[w] = "read"
           /\ LET at == Len(parts[w]) + 1  stored == blobs[base[w].version] IN
              IF Len(parts[w]) = size[w]
              THEN To(w, "resume") /\ UNCHANGED parts
              ELSE IF at > Len(stored)
              THEN To(w, "idle") /\ UNCHANGED parts   \* the wrong length is an error
              ELSE parts' = [parts EXCEPT ![w] = Append(@, stored[at])] /\ UNCHANGED pc
           /\ UNCHANGED <<checkpoints, blobs, writes, base, value, id, size, batch, starts>>

-----------------------------------------------------------------------------
(* aput_writes, one transaction for the batch; a row another transaction   *)
(* wrote and has not committed is waited for.                              *)
Key(w) == <<base[w].id, Batches[pc[w]][row[w]]>>
Locked(w) == \E x \in Workers \ {w} : Key(w) \in DOMAIN tx[x]
InBatch(w) == pc[w] \in DOMAIN Batches /\ row[w] <= Len(Batches[pc[w]])
Mine(w) == <<base[w].version + 1, w>>
Put(f, k, v) == [x \in DOMAIN f \union {k} |-> IF x = k THEN v ELSE f[x]]

NextRow(w) == /\ row' = [row EXCEPT ![w] = @ + 1] /\ seg' = [seg EXCEPT ![w] = 1]

(* The first segment: RETURNING tells whether this statement wrote the row. *)
Insert(w) ==
    /\ InBatch(w) /\ seg[w] = 1 /\ ~Locked(w)
    /\ IF Key(w) \in DOMAIN writes /\ ~Reserved(pc[w])
       THEN NextRow(w) /\ UNCHANGED tx
       ELSE /\ tx' = [tx EXCEPT ![w] = Put(@, Key(w), <<Whole(Mine(w))[1]>>)]
            /\ seg' = [seg EXCEPT ![w] = 2] /\ UNCHANGED row
    /\ UNCHANGED <<checkpoints, blobs, writes, pc, base, value, id, reading, starts>>

Saved(w) == [k \in DOMAIN writes \union DOMAIN tx[w] |->
                IF k \in DOMAIN tx[w] THEN tx[w][k] ELSE writes[k]]

AppendRest(w) ==
    /\ InBatch(w) /\ seg[w] > 1
    /\ IF seg[w] > Segments THEN NextRow(w) /\ UNCHANGED tx
       ELSE /\ tx' = [tx EXCEPT ![w] = Put(@, Key(w), Append(@[Key(w)], Whole(Mine(w))[seg[w]]))]
            /\ seg' = [seg EXCEPT ![w] = @ + 1] /\ UNCHANGED row
    /\ UNCHANGED <<checkpoints, blobs, writes, pc, base, value, id, reading, starts>>

(* The batch is in; after the task's writes the step is put.               *)
Commit(w) ==
    /\ pc[w] \in DOMAIN Batches /\ row[w] > Len(Batches[pc[w]])
    /\ writes' = Saved(w) /\ tx' = [tx EXCEPT ![w] = <<>>]
    /\ row' = [row EXCEPT ![w] = 1] /\ UNCHANGED seg
    /\ IF pc[w] = "resume" THEN To(w, "task") /\ UNCHANGED <<value, id>>
       ELSE /\ To(w, "blob") /\ value' = [value EXCEPT ![w] = Mine(w)]
            /\ id' = [id EXCEPT ![w] = NewId(w)]
    /\ UNCHANGED <<checkpoints, blobs, base, reading, starts>>

(* BaseException: a cancelled or failed batch is rolled back.              *)
Cancel(w) ==
    /\ pc[w] \in DOMAIN Batches
    /\ tx' = [tx EXCEPT ![w] = <<>>] /\ row' = [row EXCEPT ![w] = 1]
    /\ seg' = [seg EXCEPT ![w] = 1] /\ To(w, "idle")
    /\ UNCHANGED <<checkpoints, blobs, writes, base, value, id, reading, starts>>

-----------------------------------------------------------------------------
\* Mutant: the row is written after the first segment of the blob.
PutBlobLate(w) ==
    /\ pc[w] = "blob" /\ UNCHANGED <<row, seg>> /\ To(w, "row")
    /\ blobs' = Put(blobs, base[w].version + 1, <<Whole(value[w])[1]>>)
    /\ UNCHANGED <<checkpoints, writes, base, value, id, reading, tx, starts>>

(* aput: the blob in autocommitted segments, then the row that shows it.   *)
PutBlob(w) ==
    /\ pc[w] = "blob" /\ UNCHANGED row
    /\ blobs' = Put(blobs, base[w].version + 1,
                    IF seg[w] = 1 THEN <<Whole(value[w])[1]>>
                    ELSE Append(blobs[base[w].version + 1], Whole(value[w])[seg[w]]))
    /\ IF seg[w] < Segments THEN seg' = [seg EXCEPT ![w] = @ + 1] /\ UNCHANGED pc
       ELSE seg' = [seg EXCEPT ![w] = 1] /\ To(w, "row")
    /\ UNCHANGED <<checkpoints, writes, base, value, id, reading, tx, starts>>

PutRow(w) ==
    /\ pc[w] = "row"
    /\ LET c == [id |-> id[w], version |-> base[w].version + 1, parent |-> base[w].id] IN
       /\ checkpoints' = checkpoints \union {c} /\ base' = [base EXCEPT ![w] = c]
       /\ To(w, IF c.version < MaxVersion THEN "task" ELSE "idle")
    /\ UNCHANGED <<blobs, writes, value, id, reading, batch, starts>>

(* A killed process: the server rolls its transaction back in time.        *)
Die(w) == /\ pc[w] \notin {"idle", "dead"} /\ To(w, "dead")
          /\ UNCHANGED <<checkpoints, blobs, writes, base, value, id, reading, batch, starts>>
Expire(w) == /\ pc[w] = "dead" /\ To(w, "idle")
             /\ tx' = [tx EXCEPT ![w] = <<>>] /\ row' = [row EXCEPT ![w] = 1]
             /\ seg' = [seg EXCEPT ![w] = 1]
             /\ UNCHANGED <<checkpoints, blobs, writes, base, value, id, reading, starts>>

Next == \E w \in Workers : \/ Load(w) \/ Read(w) \/ Insert(w) \/ AppendRest(w) \/ Commit(w)
                           \/ Cancel(w) \/ PutBlob(w) \/ PutRow(w) \/ Die(w) \/ Expire(w)
Spec == Init /\ [][Next]_vars
-----------------------------------------------------------------------------
Values == (1..MaxVersion) \X Workers

TypeOK == /\ \A c \in checkpoints : c.id \in Nat /\ c.version \in 0..MaxVersion
          /\ \A c, d \in checkpoints : c.id = d.id => c = d
          /\ DOMAIN blobs \subseteq 1..MaxVersion
          /\ \A w \in Workers : /\ pc[w] \in {"idle", "read", "resume", "task", "blob", "row", "dead"}
                                /\ base[w] \in checkpoints /\ seg[w] \in 1..Segments + 1
                                /\ row[w] \in 1..3 /\ Len(parts[w]) <= size[w]
          /\ starts \in 0..MaxStarts

(* A committed write is one value in full, whoever was killed or cancelled *)
(* between its segments and however often the batch was put again.         *)
WritesAreWhole == \A k \in DOMAIN writes : \E v \in Values : writes[k] = Whole(v)

(* A task's writes are all there or none is, and are of one attempt.       *)
BatchIsWhole ==
    \A c \in checkpoints :
        LET task == {<<c.id, r>> : r \in ToSet(Batches.task)} IN
        task \intersect DOMAIN writes # {} =>
            \E v \in Values : \A k \in task : k \in DOMAIN writes /\ writes[k][1][1] = v

(* Only the answer is a latest-value slot: task output is never replaced.  *)
KeepsOutput == \A k \in DOMAIN writes : k[2] # "answer" => writes'[k] = writes[k]
OutputIsKept == [][KeepsOutput]_vars

(* Only a worker at work, or one that was killed, blocks a takeover.       *)
CancelledHoldsNoLock == \A w \in Workers : tx[w] # <<>> => pc[w] # "idle"

(* A checkpoint that can be seen can be read back, in full and as one      *)
(* value, by a worker that resumes from it; with one worker at a time.     *)
VisibleIsWhole ==
    /\ \A c \in checkpoints \ {NoCheckpoint} :
          c.version \in DOMAIN blobs /\ \E v \in Values : blobs[c.version] = Whole(v)
    /\ \A w \in Workers : pc[w] = "resume" /\ base[w] # NoCheckpoint =>
          \E v \in Values : parts[w] = Whole(v)

(* aurora_dataapi_saver.py:314: "These are immutable versioned blobs read  *)
(* outside a transaction." The comment on the batch (:468) expects a       *)
(* cancelled worker and its takeover at the same time.                     *)
BlobsAreImmutable ==
    [][\A c \in checkpoints \ {NoCheckpoint} : blobs'[c.version] = blobs[c.version]]_vars

-----------------------------------------------------------------------------
(* The inductive invariant.                                                *)
Pieces == Values \X (1..Segments)
AtWork(w) == pc[w] \notin {"idle", "dead"}

Known ==
    /\ checkpoints \subseteq [id : Nat, version : 0..MaxVersion, parent : Nat]
    /\ NoCheckpoint \in checkpoints
    /\ \A v \in DOMAIN blobs : blobs[v] \in Seq(Pieces)
    /\ pc \in [Workers -> {"idle", "read", "resume", "task", "blob", "row", "dead"}]
    /\ base \in [Workers -> checkpoints] /\ id \in [Workers -> Nat]
    /\ size \in [Workers -> Nat] /\ parts \in [Workers -> Seq(Pieces)]
    /\ row \in [Workers -> 1..3] /\ seg \in [Workers -> 1..Segments + 1]
    /\ DOMAIN value = Workers /\ DOMAIN tx = Workers
    /\ \A w \in Workers : AtWork(w) => base[w].version < MaxVersion

(* An id is newer than every one before it, and only one worker's.         *)
IdsAreNew ==
    /\ \E c \in checkpoints : \A d \in checkpoints : d.id <= c.id
    /\ \E m \in Ids : \A n \in Ids : n <= m
    /\ \A c \in checkpoints : c.id = 0 => c = NoCheckpoint
    /\ \A w \in Workers : pc[w] \in {"blob", "row"} =>
          /\ id[w] # 0 /\ \A c \in checkpoints : c.id # id[w]
          /\ \A x \in Workers \ {w} : pc[x] \in {"blob", "row"} => id[x] # id[w]

(* What a worker's transaction has of its batch, by the statement it is at. *)
Holds(w, keys) == DOMAIN tx[w] = keys
Has(w, k) == tx[w][k] = Whole(Mine(w))
Began(w, k) == IF seg[w] = 2 THEN tx[w][k] = <<Whole(Mine(w))[1]>> ELSE Has(w, k)
Answer(w) == <<base[w].id, "answer">>
Output(w, r) == <<base[w].id, r>>

ResumeFits(w) ==
    pc[w] = "resume" =>
        \/ row[w] = 1 /\ seg[w] = 1 /\ Holds(w, {})
        \/ row[w] = 1 /\ seg[w] > 1 /\ Holds(w, {Answer(w)}) /\ Began(w, Answer(w))
        \/ row[w] = 2 /\ seg[w] = 1 /\ Holds(w, {Answer(w)}) /\ Has(w, Answer(w))
TaskFits(w) ==
    LET first == Output(w, "first")  second == Output(w, "second") IN
    pc[w] = "task" =>
        \/ row[w] = 1 /\ seg[w] = 1 /\ Holds(w, {})
        \/ row[w] = 1 /\ seg[w] > 1 /\ Holds(w, {first}) /\ Began(w, first)
        \/ row[w] = 2 /\ seg[w] = 1 /\ Holds(w, {first}) /\ Has(w, first)
        \/ row[w] = 2 /\ seg[w] > 1 /\ Holds(w, {first, second}) /\ Has(w, first) /\ Began(w, second)
        \/ row[w] = 3 /\ seg[w] = 1 /\ Holds(w, {first, second}) /\ Has(w, first) /\ Has(w, second)
        \/ row[w] > 1 /\ seg[w] = 1 /\ Holds(w, {}) /\ {first, second} \subseteq DOMAIN writes
RestFits(w) ==
    /\ pc[w] \notin {"resume", "task", "dead"} => tx[w] = <<>> /\ row[w] = 1
    /\ pc[w] \in {"idle", "read", "row"} => seg[w] = 1
    /\ pc[w] = "blob" => seg[w] \in 1..2 /\ value[w] = Mine(w)
    /\ pc[w] = "row" => value[w] = Mine(w)

(* A row is locked by one transaction, and output that is saved by none.   *)
LocksAreApart ==
    /\ \A w, x \in Workers : w # x => DOMAIN tx[w] \intersect DOMAIN tx[x] = {}
    /\ \A w \in Workers : \A k \in DOMAIN tx[w] : k[2] # "answer" => k \notin DOMAIN writes

OutputIsWhole ==
    \A n \in Nat :
        \/ <<n, "first">> \notin DOMAIN writes /\ <<n, "second">> \notin DOMAIN writes
        \/ /\ <<n, "first">> \in DOMAIN writes /\ <<n, "second">> \in DOMAIN writes
           /\ \E v \in Values : /\ writes[<<n, "first">>] = Whole(v)
                               /\ writes[<<n, "second">>] = Whole(v)

(* The blobs, whose versions are there before a row shows them.            *)
BlobsAreThere ==
    /\ \A c \in checkpoints : c # NoCheckpoint => c.version \in DOMAIN blobs
    /\ \A w \in Workers :
          /\ pc[w] = "read" => base[w] # NoCheckpoint
          /\ pc[w] = "row" \/ (pc[w] = "blob" /\ seg[w] = 2) =>
                base[w].version + 1 \in DOMAIN blobs

(* One worker at a time: it starts from the newest checkpoint, and what it  *)
(* writes nobody can see yet.                                               *)
OneAtWork == \A w, x \in Workers : AtWork(w) /\ AtWork(x) => w = x
OfTheNewest(w) ==
    AtWork(w) => \A c \in checkpoints : c.id <= base[w].id /\ c.version <= base[w].version
Newer(w) == pc[w] \in {"blob", "row"} => \A c \in checkpoints : c.id < id[w]
VersionsFollow == \A c, d \in checkpoints : c.id < d.id => c.version < d.version
ReadsAsWritten(w) ==
    pc[w] = "read" =>
        /\ size[w] = Segments
        /\ \A i \in 1..Len(parts[w]) : parts[w][i] = blobs[base[w].version][i]
PutsWhole(w) ==
    /\ pc[w] = "blob" /\ seg[w] = 2 => blobs[base[w].version + 1] = <<Whole(Mine(w))[1]>>
    /\ pc[w] = "row" => blobs[base[w].version + 1] = Whole(Mine(w))
AloneFits ==
    /\ OneAtWork /\ VersionsFollow /\ VisibleIsWhole
    /\ \A w \in Workers : OfTheNewest(w) /\ Newer(w) /\ ReadsAsWritten(w) /\ PutsWhole(w)

IInv == /\ TypeOK /\ Known /\ IdsAreNew /\ WritesAreWhole /\ LocksAreApart /\ OutputIsWhole
        /\ \A w \in Workers : ResumeFits(w) /\ TaskFits(w) /\ RestFits(w)
        /\ BlobsAreThere
        /\ ~Overlap => AloneFits
=============================================================================
