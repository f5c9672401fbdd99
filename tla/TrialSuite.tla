------------------------------ MODULE TrialSuite ------------------------------
(***************************************************************************)
(* The driver of the paired trials, src/tl/bigquery/baseline_suite.py.  A   *)
(* plan that is pinned by its hash names one fresh output directory and its *)
(* trials, in order.  run reserves the cap of a whole trial in a ledger,    *)
(* launches its worker, judges what it sealed and records the outcome; a    *)
(* trial that fails stops the suite, and nothing resumes it.  report reads  *)
(* the files, without a lock, whenever somebody asks for it.                *)
(*                                                                          *)
(* Hashes, exports, bindings and job rows that disagree are the choice of a *)
(* check or a result that fails.                                            *)
(***************************************************************************)
EXTENDS Integers, Sequences, FiniteSets

CONSTANTS
    Drivers,                \* processes that call run with this plan
    N,                      \* the trials of the plan
    Cap,                    \* maximum_run_bytes_billed, of one trial
    Allowance,              \* aggregate_maximum_bytes_billed
    None

Trials == 1 .. N

ASSUME TrialsAssumption == N \in Nat \ {0}
ASSUME PlanAssumption == Cap \in Nat /\ Allowance \in Nat /\ Allowance >= N * Cap  \* load_plan

VARIABLES
    suite,                  \* the files of the output directory
    trial,                  \* what each worker has left under trials/
    worker,                 \* the worker processes: "none", "running" or an exit code
    driver,                 \* the calls of run
    reader,                 \* a call of report
    launches                \* how often each trial was launched (history)

vars == <<suite, trial, worker, driver, reader, launches>>

(* Lines of reservations.jsonl. *)
Bound == [event |-> "suite_bound"]
ReservedRow(i, total) == [event |-> "trial_reserved", trial |-> i, total |-> total]
FinishedRow(i, bytes, status) == [event |-> "trial_finished", trial |-> i, bytes |-> bytes, status |-> status]

Resting == [pc |-> "idle", index |-> 1, reserved |-> 0, held |-> 0, outcomes |-> <<>>, status |-> "failed"]
Unread == [pc |-> "idle", next |-> 1, sealed |-> {}, kept |-> {}, ok |-> FALSE, outcomes |-> <<>>,
           total |-> 0, result |-> "none"]

Init ==
    /\ suite = [made |-> FALSE, admission |-> FALSE, rows |-> <<>>, cut |-> FALSE, execution |-> None]
    /\ trial = [i \in Trials |-> "absent"]
    /\ worker = [i \in Trials |-> "none"]
    /\ driver = [d \in Drivers |-> Resting]
    /\ reader = Unread
    /\ launches = [i \in Trials |-> 0]

(* _append: written and synced; or it fails, after the row, a part of it or *)
(* nothing.                                                                 *)
AppendRow(row) == suite' = [suite EXCEPT !.rows = Append(@, row)]
FailToAppend(row) ==
    \/ AppendRow(row)
    \/ suite' = [suite EXCEPT !.cut = TRUE]
    \/ UNCHANGED suite

Goto(d, pc) == driver' = [driver EXCEPT ![d].pc = pc]
End(d) == driver' = [driver EXCEPT ![d] = Resting]
Outcome(d, status) == driver' = [driver EXCEPT ![d].pc = "finish", ![d].status = status]

-----------------------------------------------------------------------------
(* run, up to the fresh check of preflight_plan. *)
Preflight(d) ==
    /\ driver[d].pc = "idle"
    /\ ~ suite.made
    /\ \A i \in Trials : trial[i] = "absent"
    /\ Goto(d, "make")
    /\ UNCHANGED <<suite, trial, worker, reader, launches>>

(* Mutation: mkdir with exist_ok=True. *)
MakeRootAnyway(d) ==
    /\ driver[d].pc = "make"
    /\ suite' = [suite EXCEPT !.made = TRUE]
    /\ Goto(d, "admit")
    /\ UNCHANGED <<trial, worker, reader, launches>>

(* mkdir(exist_ok=False): another run may have come first. *)
MakeRoot(d) ==
    /\ driver[d].pc = "make"
    /\ IF suite.made THEN End(d) /\ UNCHANGED suite
       ELSE suite' = [suite EXCEPT !.made = TRUE] /\ Goto(d, "admit")
    /\ UNCHANGED <<trial, worker, reader, launches>>

(* plan.json, binding.json and admission.json. *)
WriteAdmission(d) ==
    /\ driver[d].pc = "admit"
    /\ suite' = [suite EXCEPT !.admission = TRUE]
    /\ Goto(d, "bind")
    /\ UNCHANGED <<trial, worker, reader, launches>>

Bind(d) ==
    /\ driver[d].pc = "bind"
    /\ \/ AppendRow(Bound) /\ Goto(d, "check")
       \/ FailToAppend(Bound) /\ End(d)
    /\ UNCHANGED <<trial, worker, reader, launches>>

(* The checks before a launch: exports, runtime, directory and allowance. *)
Check(d) ==
    LET i == driver[d].index IN
    /\ driver[d].pc = "check"
    /\ \/ /\ trial[i] = "absent"
          /\ driver[d].reserved + Cap <= Allowance
          /\ driver' = [driver EXCEPT ![d].pc = "reserve", ![d].reserved = @ + Cap, ![d].held = Cap]
       \/ driver' = [driver EXCEPT ![d].pc = "finish", ![d].held = 0, ![d].status = "failed"]
    /\ UNCHANGED <<suite, trial, worker, reader, launches>>

Reserve(d) ==
    LET row == ReservedRow(driver[d].index, driver[d].reserved) IN
    /\ driver[d].pc = "reserve"
    /\ \/ AppendRow(row) /\ Goto(d, "launch")
       \/ FailToAppend(row) /\ Outcome(d, "failed")
    /\ UNCHANGED <<trial, worker, reader, launches>>

(* _launch: the log is opened with "x", the worker is started, or neither. *)
Launch(d) ==
    LET i == driver[d].index IN
    /\ driver[d].pc = "launch"
    /\ \/ /\ worker' = [worker EXCEPT ![i] = "running"]
          /\ launches' = [launches EXCEPT ![i] = @ + 1]
          /\ Goto(d, "wait")
       \/ Outcome(d, "failed") /\ UNCHANGED <<worker, launches>>
    /\ UNCHANGED <<suite, trial, reader>>

(* The worker has exited; _retained_trial judges what it sealed. *)
Collect(d) ==
    LET i == driver[d].index IN
    /\ driver[d].pc = "wait"
    /\ worker[i] # "running"
    /\ Outcome(d, IF worker[i] = "zero" /\ trial[i] = "equivalent" THEN "equivalent" ELSE "failed")
    /\ UNCHANGED <<suite, trial, worker, reader, launches>>

(* An interrupt of the driver: subprocess.run kills the worker. *)
Interrupt(d) ==
    /\ driver[d].pc = "wait"
    /\ worker' = [worker EXCEPT ![driver[d].index] = IF @ = "running" THEN "other" ELSE @]
    /\ Outcome(d, "failed")
    /\ UNCHANGED <<suite, trial, reader, launches>>

(* The outcome is recorded, the reservation retained; a failure is the end. *)
Finish(d) ==
    LET i == driver[d].index
        row == FinishedRow(i, driver[d].held, driver[d].status)
        more == driver[d].status = "equivalent" /\ i < N IN
    /\ driver[d].pc = "finish"
    /\ \/ /\ AppendRow(row)
          /\ driver' = [driver EXCEPT ![d].outcomes = Append(@, driver[d].status),
                                      ![d].pc = IF more THEN "check" ELSE "execution",
                                      ![d].index = IF more THEN @ + 1 ELSE @]
       \/ FailToAppend(row) /\ End(d)
    /\ UNCHANGED <<trial, worker, reader, launches>>

(* execution.json; half of it reads like none of it. *)
WriteExecution(d) ==
    /\ driver[d].pc = "execution"
    /\ suite' = [suite EXCEPT !.execution = [outcomes |-> driver[d].outcomes, total |-> driver[d].reserved]]
    /\ End(d)
    /\ UNCHANGED <<trial, worker, reader, launches>>

(* The driver dies: its files stay, and so does its worker. *)
Crash(d) ==
    /\ driver[d].pc # "idle"
    /\ End(d)
    /\ \/ UNCHANGED suite
       \/ driver[d].pc \in {"bind", "reserve", "finish"} /\ suite' = [suite EXCEPT !.cut = TRUE]
    /\ UNCHANGED <<trial, worker, reader, launches>>

(* A worker creates its directory, seals a result in it, and exits.         *)
WorkerStarts(i) ==
    /\ worker[i] = "running" /\ trial[i] = "absent"
    /\ trial' = [trial EXCEPT ![i] = "partial"]
    /\ UNCHANGED <<suite, worker, driver, reader, launches>>

WorkerSeals(i) ==
    /\ worker[i] = "running" /\ trial[i] = "partial"
    /\ \E result \in {"equivalent", "different"} : trial' = [trial EXCEPT ![i] = result]
    /\ UNCHANGED <<suite, worker, driver, reader, launches>>

WorkerExits(i) ==
    /\ worker[i] = "running"
    /\ \E code \in {"zero", "other"} :
          /\ code = "zero" => trial[i] \in {"equivalent", "different"}
          /\ worker' = [worker EXCEPT ![i] = code]
    /\ UNCHANGED <<suite, trial, driver, reader, launches>>

-----------------------------------------------------------------------------
(* report: without plan.json, or without admission.json, it is incomplete. *)
BeginReport ==
    /\ reader.pc = "idle"
    /\ suite.admission
    /\ reader' = [Unread EXCEPT !.pc = "trials"]
    /\ UNCHANGED <<suite, trial, worker, driver, launches>>

(* Mutation: every sealed trial is kept. *)
ReadTrialSealed ==
    LET i == reader.next
        here == IF trial[i] \in {"equivalent", "different"} THEN {i} ELSE {} IN
    /\ reader.pc = "trials"
    /\ reader' = [reader EXCEPT !.sealed = @ \cup here, !.kept = @ \cup here,
                                !.next = IF i < N THEN @ + 1 ELSE @,
                                !.pc = IF i < N THEN "trials" ELSE "ledger"]
    /\ UNCHANGED <<suite, trial, worker, driver, launches>>

(* _trial_observation and _retained_trial, of one trial after the other. *)
ReadTrial ==
    LET i == reader.next IN
    /\ reader.pc = "trials"
    /\ reader' = [reader EXCEPT
                    !.sealed = IF trial[i] \in {"equivalent", "different"} THEN @ \cup {i} ELSE @,
                    !.kept = IF trial[i] = "equivalent" THEN @ \cup {i} ELSE @,
                    !.next = IF i < N THEN @ + 1 ELSE @,
                    !.pc = IF i < N THEN "trials" ELSE "ledger"]
    /\ UNCHANGED <<suite, trial, worker, driver, launches>>

(* _control_evidence accepts the k-th row after the header: reservations    *)
(* and outcomes alternate, and nothing follows an outcome that failed.      *)
RowAccepted(rows, k, sealed) ==
    LET i == (k + 1) \div 2
        row == rows[k] IN
    /\ i <= N
    /\ IF row.event = "trial_reserved"
       THEN /\ k % 2 = 1
            /\ row.trial = i /\ row.total = i * Cap /\ row.total <= Allowance
       ELSE /\ row.event = "trial_finished"
            /\ row.trial = i
            /\ row.bytes = IF k % 2 = 0 THEN Cap ELSE 0
            /\ row.status = "failed" => k = Len(rows)
            /\ row.status = "equivalent" => k % 2 = 0 /\ i \in sealed

OutcomesOf(rows) ==
    LET finished == SelectSeq(rows, LAMBDA row : row.event = "trial_finished")
    IN  [k \in DOMAIN finished |-> finished[k].status]

ReadLedger ==
    LET body == Tail(suite.rows)
        pending == suite.rows[Len(suite.rows)].event = "trial_reserved" IN
    /\ reader.pc = "ledger"
    /\ reader' = IF /\ suite.rows # <<>> /\ ~ suite.cut
                    /\ suite.rows[1] = Bound
                    /\ \A k \in 1 .. Len(body) : RowAccepted(body, k, reader.sealed)
                    /\ ~ pending
                    /\ Len(OutcomesOf(body)) = N
                 THEN [reader EXCEPT !.pc = "execution", !.ok = TRUE, !.outcomes = OutcomesOf(body),
                                     !.total = ((Len(body) + 1) \div 2) * Cap]
                 ELSE [reader EXCEPT !.pc = "execution"]
    /\ UNCHANGED <<suite, trial, worker, driver, launches>>

Conclude ==
    /\ reader.pc = "execution"
    /\ reader' = [Unread EXCEPT !.result =
                    IF /\ reader.ok /\ reader.kept = Trials
                       /\ suite.execution = [outcomes |-> reader.outcomes, total |-> reader.total]
                    THEN "measured" ELSE "incomplete"]
    /\ UNCHANGED <<suite, trial, worker, driver, launches>>

Next ==
    \/ \E d \in Drivers :
          \/ Preflight(d) \/ MakeRoot(d) \/ WriteAdmission(d) \/ Bind(d)
          \/ Check(d) \/ Reserve(d) \/ Launch(d) \/ Collect(d) \/ Interrupt(d)
          \/ Finish(d) \/ WriteExecution(d) \/ Crash(d)
    \/ \E i \in Trials : WorkerStarts(i) \/ WorkerSeals(i) \/ WorkerExits(i)
    \/ BeginReport \/ ReadTrial \/ ReadLedger \/ Conclude

Spec == Init /\ [][Next]_vars

-----------------------------------------------------------------------------
(* Trials cost money: whatever runs race for the plan and whatever dies, no *)
(* trial is launched twice, and all launches fit the plan's allowance.      *)
LaunchesFitTheAllowance ==
    /\ \A i \in Trials : launches[i] <= 1
    /\ Cap * Cardinality({i \in Trials : launches[i] > 0}) <= Allowance

(* A measured suite has launched every trial, all of them sealed an         *)
(* equivalent result, and the driver saw all but the last one succeed (the  *)
(* outcome of the last may be a failure: the report goes by its seal).      *)
MeasuredIsComplete ==
    reader.result = "measured" =>
        \A i \in Trials :
            /\ launches[i] = 1 /\ trial[i] = "equivalent"
            /\ i < N => FinishedRow(i, Cap, "equivalent") \in {suite.rows[k] : k \in 1 .. Len(suite.rows)}

=============================================================================
