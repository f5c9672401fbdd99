------------------------------ MODULE MetricRuns ------------------------------
(***************************************************************************)
(* Metric runs, their restatement, replay and archives (tl/metrics/        *)
(* engine.py and changes.py, tl/receipts/archive.py).  A run executes its  *)
(* definitions on a frozen snapshot, writes manifest and rows, and appends *)
(* the receipts last; a restatement compares two runs and is a run of its  *)
(* own.  Meanwhile events arrive, the execution artifacts are edited and   *)
(* committed, and the process dies.  The ledger is what AtomicLedger       *)
(* promises: the receipts of a run are appended together, and once.  An    *)
(* archive is put together from a run and the stream, and needs no state.  *)
(***************************************************************************)
EXTENDS Restatement

CONSTANTS
    Callers,      \* processes that execute one command after the other
    FirstEvents,  \* the stream as it is at first
    Cutoffs,      \* knowledge cutoffs that reports ask for
    MaxReports,   \* bound: metric runs
    MaxRuns       \* bound: run directories

StreamIsOfEvents == FirstEvents \in Seq(Events)
CutoffsAreTimes == Cutoffs \subseteq Nat

VARIABLES
    stream,    \* the events on record, by position
    tree,      \* contents of the execution artifacts in the working tree
    head,      \* ... and in the commit checked out
    runs,      \* run directories from their manifest on
    ledger,    \* the runs whose receipts are in the ledger
    call       \* what each process is about to do

vars == <<stream, tree, head, runs, ledger, call>>

Idle == [step |-> "idle"]
Members(s) == {s[i] : i \in 1 .. Len(s)}
RunIds == 1 .. Len(runs)

Init ==
    /\ stream = FirstEvents
    /\ tree \in Versions /\ head = tree
    /\ runs = <<>> /\ ledger = {}
    /\ call = [c \in Callers |-> Idle]

End(c) == call' = [call EXCEPT ![c] = Idle]

\* Mutation: the watermark is not applied.
Unfrozen(source, known, watermark) == {e \in Members(source) : e.at < known}

Snapshot(source, known, watermark) ==
    {e \in Members(SubSeq(source, 1, watermark)) : e.at < known}

(***************************************************************************)
(* The world around the commands.                                          *)
(***************************************************************************)
Arrive(e) ==
    /\ e \notin Members(stream)
    /\ stream' = Append(stream, e)
    /\ UNCHANGED <<tree, head, runs, ledger, call>>

\* No edit restores, within one command, what an earlier one replaced.
Edit(v) ==
    /\ v # tree
    /\ \A c \in Callers : call[c] # Idle => call[c].artifacts # v
    /\ tree' = v
    /\ UNCHANGED <<stream, head, runs, ledger, call>>

Commit ==
    /\ head # tree
    /\ head' = tree
    /\ UNCHANGED <<stream, tree, runs, ledger, call>>

\* The process dies, or the command is refused for a reason of its own.
Die(c) ==
    /\ call[c] # Idle
    /\ End(c)
    /\ UNCHANGED <<stream, tree, head, runs, ledger>>

(***************************************************************************)
(* read_run and replay.  A revision keeps what was committed for good.     *)
(***************************************************************************)
Readable(r) == r \in ledger /\ runs[r].stage = "rows"

\* Done by the current artifacts v if they are the recorded ones, else in a process
\* of its own by those of the recorded revision, which may nest.
Performable(run, v, stack) ==
    \/ run.artifacts = v
    \/ /\ run.artifacts \notin stack /\ Cardinality(stack) < 8
       /\ run.revision = run.artifacts
Nested(run, v, stack) == IF run.artifacts = v THEN stack ELSE stack \union {run.artifacts}

\* The snapshot, the queries and every row come out as recorded.
Reproduces(run, v, source) ==
    LET events == Snapshot(source, run.known, run.watermark)
    IN  /\ events = run.inputs /\ Consistent(events)
        /\ run.query = <<v, v>>
        /\ run.rows = Population(v, events)

MetricReplays(r, v, stack) ==
    /\ Readable(r)
    /\ Performable(runs[r], v, stack)
    /\ Reproduces(runs[r], runs[r].artifacts, stream)

BridgeReplays(r, v, stack) ==
    LET w == runs[r].artifacts
        old == runs[r].old
        new == runs[r].new
    IN  /\ Readable(r)
        /\ Performable(runs[r], v, stack)
        /\ \A run \in {old, new} : MetricReplays(run, w, Nested(runs[r], v, stack))
        /\ Bridge(runs[old], runs[new], w) = runs[r].result

Replays(r) ==
    IF runs[r].kind = "metric" THEN MetricReplays(r, tree, {}) ELSE BridgeReplays(r, tree, {})

(***************************************************************************)
(* run_metrics.                                                            *)
(***************************************************************************)
\* Definitions are loaded, the artifacts hashed and compared with the revision.
Begin(c) ==
    /\ call[c] = Idle /\ Len(runs) < MaxRuns
    /\ Cardinality({r \in RunIds : runs[r].kind = "metric"}) < MaxReports
    /\ call' = [call EXCEPT ![c] = [step |-> "open", artifacts |-> tree, revision |-> head]]
    /\ UNCHANGED <<stream, tree, head, runs, ledger>>

\* The session freezes its snapshot and reads the scaffolds; all queries run.
Execute(c, known, watermark) ==
    LET events == Snapshot(stream, known, watermark)
        query == <<call[c].artifacts, tree>>
    IN  /\ call[c].step = "open"
        /\ IF Consistent(events)
           THEN call' = [call EXCEPT ![c] =
                    [step |-> "seal", artifacts |-> call[c].artifacts, run |->
                        [kind |-> "metric", stage |-> "manifest",
                         artifacts |-> call[c].artifacts, revision |-> call[c].revision,
                         known |-> known, watermark |-> watermark, inputs |-> events,
                         query |-> query, rows |-> Population(tree, events)]]]
           ELSE End(c)
        /\ UNCHANGED <<stream, tree, head, runs, ledger>>

\* Mutation: the artifacts are not looked at again.
SealUnseen(c) ==
    /\ call[c].step = "seal" /\ Len(runs) < MaxRuns
    /\ runs' = Append(runs, call[c].run)
    /\ call' = [call EXCEPT ![c] = [step |-> "rows", artifacts |-> call[c].artifacts, id |-> Len(runs) + 1]]
    /\ UNCHANGED <<stream, tree, head, ledger>>

\* If the artifacts are still the same they are retained, and the manifest written.
Seal(c) ==
    /\ call[c].step = "seal" /\ Len(runs) < MaxRuns
    /\ IF tree = call[c].artifacts
       THEN /\ runs' = Append(runs, call[c].run)
            /\ call' = [call EXCEPT ![c] =
                  [step |-> "rows", artifacts |-> call[c].artifacts, id |-> Len(runs) + 1]]
       ELSE End(c) /\ UNCHANGED runs
    /\ UNCHANGED <<stream, tree, head, ledger>>

WriteRows(c) ==
    /\ call[c].step = "rows"
    /\ runs' = [runs EXCEPT ![call[c].id].stage = "rows"]
    /\ call' = [call EXCEPT ![c].step = "append"]
    /\ UNCHANGED <<stream, tree, head, ledger>>

\* A restatement looks at the artifacts once more, a metric run does not.
AppendReceipts(c) ==
    /\ call[c].step = "append"
    /\ IF runs[call[c].id].kind = "bridge" /\ tree # call[c].artifacts
       THEN UNCHANGED ledger
       ELSE ledger' = ledger \union {call[c].id}
    /\ End(c)
    /\ UNCHANGED <<stream, tree, head, runs>>

(***************************************************************************)
(* restate.                                                                *)
(***************************************************************************)
\* Both runs are read and performed again, entirely; the newer one knows more.
Comparable(old, new) ==
    /\ \A r \in {old, new} : r \in ledger /\ runs[r].kind = "metric" /\ Replays(r)
    /\ runs[old].known <= runs[new].known /\ runs[old].watermark <= runs[new].watermark
    /\ runs[old].inputs \subseteq runs[new].inputs

\* Which of the rows that changed are accounted for without an evaluation.
Compare(c, old, new) ==
    LET method == Method(runs[old], runs[new], tree)
    IN  /\ call[c] = Idle /\ Len(runs) < MaxRuns
        /\ Comparable(old, new)
        /\ call' = [call EXCEPT ![c] =
              [step |-> "evaluate", artifacts |-> tree, old |-> old, new |-> new,
               waiting |-> IF method = "proven_minimum_group_set" THEN Changed(runs[old], runs[new]) ELSE {},
               causes |-> [k \in Changed(runs[old], runs[new]) |->
                    Cause(IF method = "definition_change" THEN method ELSE "unresolved_candidates", {})],
               left |-> SUBSET Groups(Newly(runs[old], runs[new])), invalid |-> {}]]
        /\ UNCHANGED <<stream, tree, head, runs, ledger>>

Evaluating(c) == call[c].step = "evaluate" /\ call[c].waiting # {} /\ call[c].left # {}

\* Mutation: the largest sets come first.
EvaluateLargest(c) ==
    LET old == runs[call[c].old]
        new == runs[call[c].new]
        D == CHOOSE E \in call[c].left : \A F \in call[c].left : E = F \/ Precedes(F, E)
        found == {k \in call[c].waiting : Explains(tree, old, new, D, k)}
    IN  /\ Evaluating(c)
        /\ call' = [call EXCEPT
              ![c].left = @ \ {D},
              ![c].invalid = IF Consistent(Without(old, new, D)) THEN @ ELSE @ \union {D},
              ![c].waiting = @ \ found,
              ![c].causes = [k \in DOMAIN @ |->
                    IF k \in found THEN Cause("proven_minimum_group_set", D) ELSE @[k]]]
        /\ UNCHANGED <<stream, tree, head, runs, ledger>>

\* One subset of the late documents, the smallest ones first.
Evaluate(c) ==
    LET old == runs[call[c].old]
        new == runs[call[c].new]
        D == FirstOf(call[c].left)
        found == {k \in call[c].waiting : Explains(tree, old, new, D, k)}
    IN  /\ Evaluating(c)
        /\ call' = [call EXCEPT
              ![c].left = @ \ {D},
              ![c].invalid = IF Consistent(Without(old, new, D)) THEN @ ELSE @ \union {D},
              ![c].waiting = @ \ found,
              ![c].causes = [k \in DOMAIN @ |->
                    IF k \in found THEN Cause("proven_minimum_group_set", D) ELSE @[k]]]
        /\ UNCHANGED <<stream, tree, head, runs, ledger>>

\* persist: the revision is taken now.
SealBridge(c) ==
    /\ call[c].step = "evaluate" /\ ~Evaluating(c) /\ Len(runs) < MaxRuns
    /\ IF tree = call[c].artifacts
       THEN /\ runs' = Append(runs,
                  [kind |-> "bridge", stage |-> "manifest", artifacts |-> tree, revision |-> head,
                   old |-> call[c].old, new |-> call[c].new,
                   result |-> Result(runs[call[c].old], runs[call[c].new], call[c].causes, call[c].invalid)])
            /\ call' = [call EXCEPT ![c] = [step |-> "rows", artifacts |-> tree, id |-> Len(runs) + 1]]
       ELSE End(c) /\ UNCHANGED runs
    /\ UNCHANGED <<stream, tree, head, ledger>>

(***************************************************************************)
(* Archives of metric runs.                                                *)
(***************************************************************************)
\* What create_archive puts together: the run and its receipts, the code of the
\* recorded revision, and the complete prefix of the stream.
Archive(r) == [run |-> runs[r], source |-> SubSeq(stream, 1, runs[r].watermark)]
Archivable(r) ==
    /\ Readable(r) /\ runs[r].kind = "metric"
    /\ runs[r].revision = runs[r].artifacts
    /\ Snapshot(stream, runs[r].known, runs[r].watermark) = runs[r].inputs

\* The source is restored to a new stream, and the run performed on it by its
\* own code, whatever the working tree and the stream have become.
ArchiveReplays(a) ==
    a.run.revision = a.run.artifacts /\ Reproduces(a.run, a.run.artifacts, a.source)

\* A run takes all that is on record (an older watermark is that of an earlier run),
\* and no run is restated against itself, which changes nothing.
Next ==
    \/ \E e \in Events : Arrive(e)
    \/ \E v \in Versions : Edit(v)
    \/ Commit
    \/ \E c \in Callers :
          \/ Begin(c) \/ Seal(c) \/ WriteRows(c) \/ AppendReceipts(c)
          \/ \E known \in Cutoffs : Execute(c, known, Len(stream))
          \/ \E old, new \in RunIds : old # new /\ Compare(c, old, new)
          \/ Evaluate(c) \/ SealBridge(c) \/ Die(c)

Spec == Init /\ [][Next]_vars

(***************************************************************************)
(* Properties.                                                             *)
(***************************************************************************)
\* Every receipt of artifacts that were committed can be performed again for good,
\* whatever has arrived, been edited or died since; a receipt of uncommitted ones
\* as long as they are in the working tree; and an archive of it replays by itself.
ReceiptsReplay ==
    /\ \A r \in ledger :
          runs[r].artifacts \in {runs[r].revision, tree} => Replays(r)
    /\ \A r \in ledger : Archivable(r) => ArchiveReplays(Archive(r))

\* What a restatement names as the cause of a changed row is sufficient, and no
\* smaller group of late documents is; and where it had to look for a cause it
\* has found one, since all late documents together explain the newer run.
AttributionIsMinimal ==
    \A r \in ledger : runs[r].kind = "bridge" =>
        LET old == runs[runs[r].old]
            new == runs[runs[r].new]
            late == Groups(Newly(old, new))
        IN  \A k \in Changed(old, new) :
              LET cause == runs[r].result.causes[k]
              IN  /\ cause.status = Method(old, new, runs[r].artifacts)
                  /\ cause.status = "proven_minimum_group_set" =>
                        /\ Explains(new.artifacts, old, new, cause.docs, k)
                        /\ \A D \in SUBSET late :
                              Explains(new.artifacts, old, new, D, k) => Cardinality(cause.docs) <= Cardinality(D)
=============================================================================
