------------------------------- MODULE Journal -------------------------------
(***************************************************************************)
(* The receipt journal, src/tl/receipts/journal.py, with its unlocked       *)
(* readers (read_receipts in src/tl/receipts/metrics.py).                   *)
(*                                                                          *)
(* Any number of processes call append_batch, recover and read_receipts on  *)
(* one ledger.  A call is a sequence of steps, interleaved with the others, *)
(* and may end at any of them: the process dies, or an operating-system     *)
(* error is raised.  Either way the flock goes and the files stay.          *)
(***************************************************************************)
EXTENDS Integers, Sequences, SequencesExt

CONSTANTS
    Records,                \* the receipts a caller may append
    Procs,                  \* the processes that use the ledger
    Batches,                \* the batches a caller may append
    NoProc,                 \* the flock is free
    NoIntent                \* there is no pending file

(* The ledger as bytes.  A receipt is one canonical JSON line; a process    *)
(* may stop in the middle of writing a line, so a line is kept as two cells: *)
(* its head, and its tail, which carries the newline.  A file is a sequence *)
(* of cells.  Two receipts have the same id exactly when they are the same  *)
(* receipt, because the id is the hash of the record (receipt_id): a        *)
(* receipt therefore stands for its own id.                                 *)
Cell == Records \X {"head", "tail"}

(* The bytes of a batch: one line per record, in the order given. *)
Lines(records) ==
    [i \in 1 .. 2 * Len(records) |->
        <<records[(i + 1) \div 2], IF i % 2 = 1 THEN "head" ELSE "tail">>]

(* The records of a content that consists of whole lines. *)
RecordsOf(content) == [k \in 1 .. Len(content) \div 2 |-> content[2 * k][1]]

Distinct(records) == \A i, j \in 1 .. Len(records) : records[i] = records[j] => i = j

(* parse_receipts accepts: no cut line, and no receipt id twice. *)
Parses(content) ==
    /\ Len(content) % 2 = 0
    /\ content = Lines(RecordsOf(content))
    /\ Distinct(RecordsOf(content))

ASSUME BatchesAssumption == Batches \subseteq Seq(Records) \ {<< >>}
ASSUME NoProcAssumption == NoProc \notin Procs

(* The append intent: what the ledger held when it was written (base_size   *)
(* and base_sha256 determine it) and the bytes to be added to it.           *)
Intent == [base : Seq(Cell), payload : Seq(Cell)]

ASSUME NoIntentAssumption == NoIntent \notin Intent

VARIABLES
    file,                   \* the bytes of the ledger file
    pending,                \* the intent in <ledger>.pending.json
    audits,                 \* the intents in <ledger>.batches, named by hash
    lockFile,               \* the header of <ledger>.oslock, or a legacy .lock
    lock,                   \* the process that holds the flock
    pc,                     \* the step a process is at
    batch,                  \* append_batch: the records to append
    previous,               \* append_batch: the ledger as it read it
    remaining,              \* _finish: the bytes still to be written
    seen                    \* what each process last got from read_receipts

disk == <<file, pending, audits>>
locals == <<batch, previous, remaining>>
vars == <<file, pending, audits, lockFile, lock, pc, batch, previous,
          remaining, seen>>

Locked == {"append", "publish", "recover", "finish", "write"}
Steps == Locked \cup {"idle", "read"}

Whole(intent) == intent.base \o intent.payload

(* Where the ledger is bound to end up: the pending rename is the commit.   *)
Committed == IF pending = NoIntent THEN file ELSE Whole(pending)

Init ==
    /\ file = << >>
    /\ pending = NoIntent
    /\ audits = {}
    /\ lockFile \in {"empty", "v1", "foreign", "legacy"}
    /\ lock = NoProc
    /\ pc = [p \in Procs |-> "idle"]
    /\ batch = [p \in Procs |-> << >>]
    /\ previous = [p \in Procs |-> << >>]
    /\ remaining = [p \in Procs |-> << >>]
    /\ seen = [p \in Procs |-> << >>]
-----------------------------------------------------------------------------
(* Mutation: the flock is taken without looking whether another holds it.  *)
AcquireUnlocked(p, step) ==
    /\ pc[p] = "idle"
    /\ lockFile \in {"empty", "v1"}
    /\ lock' = p
    /\ lockFile' = "v1"
    /\ pc' = [pc EXCEPT ![p] = step]

(* ledger_lock: flock, without waiting; an empty lock file gets its header, *)
(* and a legacy lock or an unknown header refuses the call.                 *)
Acquire(p, step) ==
    /\ pc[p] = "idle"
    /\ lock = NoProc
    /\ lockFile \in {"empty", "v1"}
    /\ lock' = p
    /\ lockFile' = "v1"
    /\ pc' = [pc EXCEPT ![p] = step]

(* Mutation: the flock outlives the call. *)
LeaveLocked(p) ==
    /\ pc' = [pc EXCEPT ![p] = "idle"]
    /\ batch' = [batch EXCEPT ![p] = << >>]
    /\ previous' = [previous EXCEPT ![p] = << >>]
    /\ remaining' = [remaining EXCEPT ![p] = << >>]
    /\ UNCHANGED <<lock, lockFile>>

(* A call returns, raises or dies: the lock goes, the files stay. *)
Leave(p) ==
    /\ lock' = IF lock = p THEN NoProc ELSE lock
    /\ pc' = [pc EXCEPT ![p] = "idle"]
    /\ batch' = [batch EXCEPT ![p] = << >>]
    /\ previous' = [previous EXCEPT ![p] = << >>]
    /\ remaining' = [remaining EXCEPT ![p] = << >>]
    /\ UNCHANGED lockFile

BeginAppend(p) ==
    /\ Acquire(p, "append")
    /\ \E records \in Batches : batch' = [batch EXCEPT ![p] = records]
    /\ UNCHANGED <<disk, previous, remaining, seen>>

(* append_batch up to the durable temporary intent: it refuses while an     *)
(* append is pending, and parses the ledger as the batch would leave it.    *)
PrepareIntent(p) ==
    /\ pc[p] = "append"
    /\ IF pending = NoIntent /\ Parses(file \o Lines(batch[p]))
       THEN /\ previous' = [previous EXCEPT ![p] = file]
            /\ pc' = [pc EXCEPT ![p] = "publish"]
            /\ UNCHANGED <<lock, lockFile, batch, remaining>>
       ELSE Leave(p)
    /\ UNCHANGED <<disk, seen>>

(* The rename that publishes the intent: the commit point. *)
Publish(p) ==
    /\ pc[p] = "publish"
    /\ pending' = [base |-> previous[p], payload |-> Lines(batch[p])]
    /\ pc' = [pc EXCEPT ![p] = "finish"]
    /\ UNCHANGED <<file, audits, lock, lockFile, locals, seen>>

BeginRecover(p) ==
    /\ Acquire(p, "recover")
    /\ UNCHANGED <<disk, locals, seen>>

(* recover: with no pending intent it parses the ledger and reports clean.  *)
Inspect(p) ==
    /\ pc[p] = "recover"
    /\ IF pending = NoIntent
       THEN Leave(p)
       ELSE /\ pc' = [pc EXCEPT ![p] = "finish"]
            /\ UNCHANGED <<lock, lockFile, locals>>
    /\ UNCHANGED <<disk, seen>>

(* The checks of _finish: the ledger is the intent's base followed by a     *)
(* prefix of its payload, and the result parses.                            *)
FinishAccepts(content, intent) ==
    /\ IsPrefix(intent.base, content)
    /\ IsPrefix(content, Whole(intent))
    /\ Parses(Whole(intent))

(* Mutation: recovery writes the whole payload again. *)
CheckIntentFromTheStart(p) ==
    /\ pc[p] = "finish"
    /\ IF pending # NoIntent /\ FinishAccepts(file, pending)
       THEN /\ remaining' = [remaining EXCEPT ![p] = pending.payload]
            /\ pc' = [pc EXCEPT ![p] = "write"]
            /\ UNCHANGED <<lock, lockFile, batch, previous>>
       ELSE Leave(p)
    /\ UNCHANGED <<disk, seen>>

CheckIntent(p) ==
    /\ pc[p] = "finish"
    /\ IF pending # NoIntent /\ FinishAccepts(file, pending)
       THEN /\ remaining' = [remaining EXCEPT ![p] =
                  SubSeq(Whole(pending), Len(file) + 1, Len(Whole(pending)))]
            /\ pc' = [pc EXCEPT ![p] = "write"]
            /\ UNCHANGED <<lock, lockFile, batch, previous>>
       ELSE Leave(p)
    /\ UNCHANGED <<disk, seen>>

(* The operating system takes any non-empty part of what is left to write.  *)
WriteSome(p) ==
    /\ pc[p] = "write"
    /\ \E n \in 1 .. Len(remaining[p]) :
          /\ file' = file \o SubSeq(remaining[p], 1, n)
          /\ remaining' = [remaining EXCEPT ![p] =
                 SubSeq(remaining[p], n + 1, Len(remaining[p]))]
    /\ UNCHANGED <<pending, audits, lock, lockFile, pc, batch, previous, seen>>

(* Everything is on disk: the intent is renamed into the audit directory.   *)
Archive(p) ==
    /\ pc[p] = "write"
    /\ remaining[p] = << >>
    /\ IF pending \notin audits \cup {NoIntent}
       THEN /\ audits' = audits \cup {pending}
            /\ pending' = NoIntent
       ELSE UNCHANGED <<audits, pending>>
    /\ Leave(p)
    /\ UNCHANGED <<file, seen>>

(* read_receipts: it takes no lock.  It looks for a pending intent first,   *)
(* and reads the ledger in a later step.                                    *)
BeginRead(p) ==
    /\ pc[p] = "idle"
    /\ pending = NoIntent
    /\ pc' = [pc EXCEPT ![p] = "read"]
    /\ UNCHANGED <<disk, lock, lockFile, locals, seen>>

Read(p) ==
    /\ pc[p] = "read"
    /\ seen' = IF Parses(file) THEN [seen EXCEPT ![p] = file] ELSE seen
    /\ pc' = [pc EXCEPT ![p] = "idle"]
    /\ UNCHANGED <<disk, lock, lockFile, locals>>

(* The process is killed, or a step raises an operating-system error. *)
Crash(p) ==
    /\ pc[p] # "idle"
    /\ Leave(p)
    /\ UNCHANGED <<disk, seen>>

Step(p) ==
    \/ PrepareIntent(p)
    \/ Publish(p)
    \/ Inspect(p)
    \/ CheckIntent(p)
    \/ WriteSome(p)
    \/ Archive(p)
    \/ Read(p)

Next == \E p \in Procs :
    \/ BeginAppend(p)
    \/ BeginRecover(p)
    \/ BeginRead(p)
    \/ Step(p)
    \/ Crash(p)

Spec == Init /\ [][Next]_vars

(* A running call takes its next step, and an operator who is told that     *)
(* "ledger recovery required" keeps calling recover.                        *)
FairSpec ==
    /\ Spec
    /\ \A p \in Procs : WF_vars(Step(p))
    /\ \A p \in Procs : SF_vars(BeginRecover(p))

-----------------------------------------------------------------------------
(* Every variable holds what the code stores in it: whole cells, intents    *)
(* with a base and a payload, at most one holder of the flock.              *)
TypeOK ==
    /\ file \in Seq(Cell)
    /\ pending \in Intent \cup {NoIntent}
    /\ audits \in SUBSET Intent
    /\ lockFile \in {"empty", "v1", "foreign", "legacy"}
    /\ lock \in Procs \cup {NoProc}
    /\ pc \in [Procs -> Steps]
    /\ batch \in [Procs -> Batches \cup {<< >>}]
    /\ previous \in [Procs -> Seq(Cell)]
    /\ remaining \in [Procs -> Seq(Cell)]
    /\ seen \in [Procs -> Seq(Cell)]

(* append_batch and recover, whatever their interleaving and wherever they  *)
(* die, behave as one step that adds the whole batch: the rename of the     *)
(* intent.  In particular a batch is never lost, split or added twice.      *)
Log == INSTANCE AtomicLedger WITH log <- RecordsOf(Committed)
AppendsAreAtomic == Log!Spec

(* The ledger, with its pending append completed, always parses: no line is *)
(* cut and no receipt id appears twice, even when a caller who does not     *)
(* know whether its append happened appends the same batch again.           *)
LedgerParses == Parses(Committed)

(* recover never answers "ledger recovery mismatch" or "append audit        *)
(* already exists": whatever died, the ledger is the base of the pending    *)
(* intent and a prefix of its payload, so the operator is never stuck.      *)
RecoveryIsPossible ==
    pending # NoIntent => FinishAccepts(file, pending) /\ pending \notin audits

(* The ledger is never past repair: it parses once its pending append is    *)
(* completed, and that append can be completed.                             *)
LedgerIsRecoverable == LedgerParses /\ RecoveryIsPossible

(* An unlocked reader only ever gets receipts that are committed for good.  *)
ReadsAreCommitted == \A p \in Procs : IsPrefix(seen[p], Committed)

(* Once calls stop dying, an operator who keeps calling recover gets rid of *)
(* the pending append that blocks every other one: no call keeps the flock. *)
PendingIsCompleted ==
    <>[][\A p \in Procs : ~ Crash(p)]_vars
        => (pending # NoIntent ~> pending = NoIntent)
=============================================================================
