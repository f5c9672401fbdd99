----------------------------- MODULE PairedTrial -----------------------------
(***************************************************************************)
(* The worker of a paired trial (tl/bigquery/baseline_runner.py) in place  *)
(* of the one TrialSuite promises.  It runs both architectures on one      *)
(* frozen source, between two looks at the source, attributes every job    *)
(* the recorder has reserved to one of them, compares their outputs and    *)
(* seals what came out of it (tl/bigquery/engine.py, boundary_evidence.py). *)
(* Meanwhile the source and the code can be edited; an edit is not undone. *)
(***************************************************************************)
EXTENDS TrialSuite

VARIABLES
    source,   \* the source table: "frozen", or "edited" below the watermark
    code,     \* the execution artifacts: "pinned" by the exports, or "edited"
    work      \* what each worker has done

pairVars == <<vars, source, code, work>>

Architectures == {"baseline", "native"}
Sealed(i) == trial[i] \in {"equivalent", "different"}

\* architecture_order alternates between the trials of a plan.
Sequence(i) == IF i % 2 = 1 THEN <<"baseline", "native">> ELSE <<"native", "baseline">>

\* Of the projections and of the queries of the native side there are two, so that an
\* edit can come in between.
Stage(architecture) ==
    IF architecture = "baseline" THEN <<"projection", "projections", "dbt_build", "outputs">>
    ELSE <<"source_snapshot", "query", "queries", "source_recheck">>

Program(i) == <<"source_before", "source_checks">> \o Stage(Sequence(i)[1]) \o Stage(Sequence(i)[2])
              \o <<"comparison", "source_after", "export_postflight">>

IsQuery(step) == step \notin {"comparison", "export_postflight"}
Owner(step) == IF step \in {"source_snapshot", "query", "queries", "source_recheck"} THEN "native" ELSE "baseline"
Opens(step) == step \in {"source_before", "source_checks", "projection", "source_snapshot", "source_after"}
Closes(step) == step \in {"source_before", "source_checks", "outputs", "source_recheck", "source_after"}
Fingerprinted(step) == step \in {"source_before", "source_snapshot", "source_recheck", "source_after"}
Derives(step) == step \in {"projection", "projections", "query", "queries"}

\* What a derivation is made of: the rows it reads, and the artifacts it executes.
Conditions == [source : {"frozen", "edited"}, code : {"pinned", "edited"}]
Now == [source |-> source, code |-> code]
Intended == [source |-> "frozen", code |-> "pinned"]

Unstarted == [pc |-> "admit", at |-> 1, jobs |-> 0, offset |-> 0, attributed |-> [a \in Architectures |-> {}],
              from |-> [a \in Architectures |-> {}], equal |-> FALSE, records |-> "none",
              ledger |-> {}, status |-> "running"]

Running(i, pc) == worker[i] = "running" /\ trial[i] = "partial" /\ work[i].pc = pc
Elsewhere == <<suite, driver, reader, launches, worker>>

PairInit ==
    /\ Init
    /\ source = "frozen" /\ code = "pinned"
    /\ work = [i \in Trials |-> Unstarted]

-----------------------------------------------------------------------------
(***************************************************************************)
(* Attribution: the jobs reserved since the offset belong to the owner of  *)
(* the window, whether it succeeds or not, and a job whose submission is   *)
(* uncertain like any other.                                               *)
(***************************************************************************)
Open(w, step) == IF Opens(step) THEN [w EXCEPT !.offset = w.jobs] ELSE w
Captured(w, step, jobs) == [w.attributed EXCEPT ![Owner(step)] = @ \union (w.offset + 1) .. jobs]

\* The ways a step fails: before or after a job was reserved for it.
Fail(w, step) ==
    IF IsQuery(step)
    THEN {[w EXCEPT !.pc = "refresh", !.status = "failed", !.jobs = jobs,
                    !.attributed = Captured(Open(w, step), step, jobs)] : jobs \in {w.jobs, w.jobs + 1}}
    ELSE {[w EXCEPT !.pc = "refresh", !.status = "failed", !.records = records] :
              records \in IF step = "comparison" THEN {"none", "some"} ELSE {w.records}}

Succeed(w, step) ==
    LET opened == Open(w, step)
        jobs == IF IsQuery(step) THEN w.jobs + 1 ELSE w.jobs
    IN  [opened EXCEPT
            !.at = @ + 1, !.jobs = jobs,
            !.attributed = IF Closes(step) THEN Captured(opened, step, jobs) ELSE @,
            !.from[Owner(step)] = IF Derives(step) THEN @ \union {Now} ELSE @,
            !.records = IF step = "comparison" THEN "all" ELSE @,
            !.ledger = IF step = "source_recheck" THEN @ \union {"native"} ELSE @]

\* Mutation: no export_postflight: the exports were verified when they were retained.
VerifiedOnce(step) == Fingerprinted(step) => source = "frozen"

\* What a step insists on: fingerprint and read_export.
Admitted(step) ==
    /\ Fingerprinted(step) => source = "frozen"
    /\ step = "export_postflight" => code = "pinned"

-----------------------------------------------------------------------------
\* Mutation: mkdir with exist_ok=True.
StartOver(i) ==
    /\ code = "pinned" /\ worker[i] = "running"
    /\ trial' = [trial EXCEPT ![i] = "partial"]
    /\ work' = [work EXCEPT ![i] = Unstarted]
    /\ UNCHANGED <<Elsewhere, source, code>>

\* preflight, and a directory that must not be there.
Start(i) ==
    /\ code = "pinned"
    /\ WorkerStarts(i)
    /\ UNCHANGED <<source, code, work>>

\* The exports are copied and the copies verified again; a failure goes straight to the end.
Admit(i) ==
    /\ Running(i, "admit")
    /\ work' = [work EXCEPT ![i] = IF code = "pinned" THEN [@ EXCEPT !.pc = "run"]
                                   ELSE [@ EXCEPT !.pc = "ledger", !.status = "failed"]]
    /\ UNCHANGED <<vars, source, code>>

RunStep(i) ==
    /\ Running(i, "run")
    /\ LET w == work[i]
           step == Program(i)[w.at]
       IN  \/ \E w2 \in Fail(w, step) : work' = [work EXCEPT ![i] = w2]
          \/ /\ Admitted(step)
             /\ \E equal \in IF step = "comparison" THEN BOOLEAN ELSE {w.equal} :
                  LET w2 == [Succeed(w, step) EXCEPT !.equal = equal]
                  IN  work' = [work EXCEPT ![i] =
                        IF w.at < Len(Program(i)) THEN w2
                        ELSE [w2 EXCEPT !.pc = "refresh",
                                        !.status = IF equal THEN "equivalent" ELSE "different"]]
    /\ UNCHANGED <<vars, source, code>>

\* refresh of the job evidence, then verify_job_attribution, whatever happened before.
Refresh(i) ==
    /\ Running(i, "refresh")
    /\ LET w == work[i]
           verified == /\ w.attributed["baseline"] \cap w.attributed["native"] = {}
                       /\ w.attributed["baseline"] \union w.attributed["native"] = 1 .. w.jobs
       IN  \/ verified /\ work' = [work EXCEPT ![i].pc = "ledger"]
          \/ work' = [work EXCEPT ![i].pc = "ledger", ![i].status = "failed"]
    /\ UNCHANGED <<vars, source, code>>

\* The receipts made so far are appended, those of a trial that failed included.
AppendRecords(i) ==
    /\ Running(i, "ledger")
    /\ \/ work' = [work EXCEPT ![i].pc = "seal",
                               ![i].ledger = IF work[i].records = "none" THEN @ ELSE @ \union {"baseline"}]
       \/ work[i].records # "none" /\ work' = [work EXCEPT ![i].pc = "seal", ![i].status = "failed"]
    /\ UNCHANGED <<vars, source, code>>

\* boundary_evidence.record: the receipt is exposed after everything it seals.
Seal(i) ==
    /\ Running(i, "seal")
    /\ trial' = [trial EXCEPT ![i] = IF work[i].status = "equivalent" THEN "equivalent" ELSE "different"]
    /\ UNCHANGED <<Elsewhere, source, code, work>>

Exit(i) == WorkerExits(i) /\ UNCHANGED <<source, code, work>>

Edit ==
    /\ \/ source = "frozen" /\ source' = "edited" /\ UNCHANGED code
       \/ code = "pinned" /\ code' = "edited" /\ UNCHANGED source
    /\ UNCHANGED <<vars, work>>

Suite ==
    /\ \/ \E d \in Drivers :
             \/ Preflight(d) \/ MakeRoot(d) \/ WriteAdmission(d) \/ Bind(d)
             \/ Check(d) \/ Reserve(d) \/ Launch(d) \/ Collect(d) \/ Interrupt(d)
             \/ Finish(d) \/ WriteExecution(d) \/ Crash(d)
       \/ BeginReport \/ ReadTrial \/ ReadLedger \/ Conclude
    /\ UNCHANGED <<source, code, work>>

PairNext ==
    \/ Suite \/ Edit
    \/ \E i \in Trials : Start(i) \/ Admit(i) \/ RunStep(i) \/ Refresh(i) \/ AppendRecords(i) \/ Seal(i) \/ Exit(i)

PairSpec == PairInit /\ [][PairNext]_pairVars

-----------------------------------------------------------------------------
\* A trial that is sealed as equivalent compared what both architectures made of the
\* frozen source alone, each derivation while the retained exports still were the pinned
\* ones, and its ledger has the receipts of both: no edit of source or code between any
\* two of its queries went unnoticed.
EquivalentIsBacked ==
    \A i \in Trials : trial[i] = "equivalent" =>
        /\ work[i].equal
        /\ \A a \in Architectures : work[i].from[a] = {Intended}
        /\ work[i].ledger = Architectures /\ work[i].records = "all"

\* Each job that may have cost something belongs to exactly one architecture of its
\* trial, in the seal of a trial that failed as well.
JobsAreAttributed ==
    \A i \in Trials : Sealed(i) =>
        LET attributed == work[i].attributed
        IN  /\ attributed["baseline"] \cap attributed["native"] = {}
            /\ attributed["baseline"] \union attributed["native"] = 1 .. work[i].jobs

\* What is sealed of a pair is so: its data, its code, its receipts and its cost.
PairsAreBacked == EquivalentIsBacked /\ JobsAreAttributed

\* The worker keeps the promise its driver and the reports are judged by.
ImplementsSuite == Spec
=============================================================================
