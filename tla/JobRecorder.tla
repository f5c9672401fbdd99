----------------------------- MODULE JobRecorder -----------------------------
(***************************************************************************)
(* The boundary between an in-process dbt run and BigQuery,                 *)
(* src/tl/bigquery/baseline_jobs.py (DbtJobRecorder): every query job is    *)
(* reserved in an append-only ledger before it is submitted, and a          *)
(* reservation is never given back.                                         *)
(*                                                                          *)
(* The threads of dbt share one recorder; its mutex makes a check and the   *)
(* row it appends one step.  A recorder may be abandoned at any time and    *)
(* another one resumes its ledger.  The ledger stands for what _read makes  *)
(* of it; rows that nobody reads back (resubmit, budget_refused,            *)
(* submission, uncertain, metadata reads, context_closed, child scans) only *)
(* matter in that they can be cut short as well.  A row that follows a cut  *)
(* one is on record, but in a file that _read refuses.                      *)
(***************************************************************************)
EXTENDS Integers, FiniteSets

CONSTANTS
    Threads,                \* dbt threads that use the recorder
    Jobs,                   \* job IDs
    Payloads,               \* configurations, SQL included
    DryRuns,                \* the payloads with dryRun
    Cap,                    \* maximum_bytes_billed, of one job
    Allowance,              \* maximum_run_bytes_billed
    None

ASSUME DryRunsAssumption == DryRuns \subseteq Payloads
ASSUME JobsAssumption == IsFiniteSet(Jobs)
ASSUME BytesAssumption == Cap \in Nat /\ Allowance \in Nat

VARIABLES
    ledger,                 \* the reservation ledger on disk
    active,                 \* a recorder holds the lock and guards the SDK
    memory,                 \* its _jobs (with observations) and _rejected
    pc,                     \* the step a thread is at
    work,                   \* the job and payload it submits, what it saw
    wire,                   \* jobs.insert requests BigQuery may still see
    server                  \* the jobs BigQuery has accepted

vars == <<ledger, active, memory, pc, work, wire, server>>

(* "good": whole rows, numbered without a gap.  "unsynced": the same, but   *)
(* the writer of the last row was told that it failed and will reuse its    *)
(* number.  "bad": cut or misnumbered, refused for good.                    *)
Statuses == {"absent", "good", "unsynced", "bad"}

Seen == [state : {"RUNNING", "DONE"}, billed : 0 .. Cap]
Row == [payload : Payloads, observation : Seen \cup {None}]
ServerJob == [payload : Payloads, state : {"RUNNING", "DONE"}, billed : 0 .. Cap]

ASSUME NoneAssumption == None \notin Row \cup ServerJob \cup Jobs \cup Payloads

Empty == [jobs |-> [j \in Jobs |-> None], rejected |-> {}]
File(status, content) == [status |-> status, jobs |-> content.jobs, rejected |-> content.rejected]
Content(file) == [jobs |-> file.jobs, rejected |-> file.rejected]

Ceiling(payload) == IF payload \in DryRuns THEN 0 ELSE Cap
Reserved(content) == {j \in Jobs : content.jobs[j] # None}
Billable(content) == {j \in Reserved(content) : content.jobs[j].payload \notin DryRuns}
ReservedBytes(content) == Cap * Cardinality(Billable(content))

WithReservation(content, j, p) ==
    [content EXCEPT !.jobs[j] = [payload |-> p, observation |-> None]]
WithObservation(content, j, seen) == [content EXCEPT !.jobs[j].observation = seen]
WithRejection(content, j) == [content EXCEPT !.rejected = @ \cup {j}]

-----------------------------------------------------------------------------
(* _append: the row is written and synced; or the write fails, with the row *)
(* whole, cut, or not there, and the caller gets an exception.              *)
Append(content) ==
    ledger' = File(IF ledger.status = "good" THEN "good" ELSE "bad", content)

FailAppend(content) ==
    \/ ledger' = File(IF ledger.status = "good" THEN "unsynced" ELSE "bad", content)
    \/ ledger' = [ledger EXCEPT !.status = "bad"]
    \/ UNCHANGED ledger

Forget == [t \in Threads |-> [job |-> None, payload |-> None, seen |-> None, matches |-> TRUE]]
Idle == [t \in Threads |-> "idle"]

Init ==
    /\ ledger = File("absent", Empty)
    /\ active = FALSE
    /\ memory = Empty
    /\ pc = Idle
    /\ work = Forget
    /\ wire = {}
    /\ server = [j \in Jobs |-> None]

(* Mutation: a resumed run starts with a fresh budget. *)
EnterAfresh ==
    /\ ~ active
    /\ \/ ledger.status = "absent"
       \/ ledger.status \in {"good", "unsynced"} /\ ReservedBytes(Content(ledger)) <= Allowance
    /\ active' = TRUE
    /\ ledger' = [ledger EXCEPT !.status = "good"]
    /\ memory' = Empty
    /\ UNCHANGED <<pc, work, wire, server>>

(* __enter__ and _read: one recorder per ledger, which resumes what the     *)
(* ledger holds and refuses one that is cut, misnumbered or overdrawn.      *)
Enter ==
    /\ ~ active
    /\ \/ ledger.status = "absent"
       \/ ledger.status \in {"good", "unsynced"} /\ ReservedBytes(Content(ledger)) <= Allowance
    /\ active' = TRUE
    /\ ledger' = [ledger EXCEPT !.status = "good"]
    /\ memory' = Content(ledger)
    /\ UNCHANGED <<pc, work, wire, server>>

(* __exit__ appends a row and releases the lock; a process that dies may    *)
(* leave part of a row, or of the boundary row of a new ledger.             *)
Leave ==
    /\ active
    /\ Append(Content(ledger)) \/ FailAppend(Content(ledger))
    /\ active' = FALSE
    /\ memory' = Empty
    /\ pc' = Idle
    /\ work' = Forget
    /\ UNCHANGED <<wire, server>>

(* The call of a thread ends, with a result or an exception. *)
Done(t) ==
    /\ pc' = [pc EXCEPT ![t] = "idle"]
    /\ work' = [work EXCEPT ![t] = Forget[t]]

Failing(t) ==
    /\ pc' = [pc EXCEPT ![t] = "failed"]
    /\ UNCHANGED work

Submitting(t, j, p) ==
    /\ pc' = [pc EXCEPT ![t] = "submit"]
    /\ work' = [work EXCEPT ![t].job = j, ![t].payload = p]

(* Client.query up to the reservation of a new job ID. *)
Reserve(t, j, p) ==
    /\ pc[t] = "idle"
    /\ memory.jobs[j] = None
    /\ ReservedBytes(memory) + Ceiling(p) <= Allowance
    /\ \/ /\ Append(WithReservation(Content(ledger), j, p))
          /\ memory' = WithReservation(memory, j, p)
          /\ Submitting(t, j, p)
       \/ /\ FailAppend(WithReservation(Content(ledger), j, p))
          /\ UNCHANGED <<memory, pc, work>>
    /\ UNCHANGED <<active, wire, server>>

(* ... or of a known one, which must have the same payload. *)
Resubmit(t, j) ==
    /\ pc[t] = "idle"
    /\ memory.jobs[j] # None
    /\ \/ Append(Content(ledger)) /\ Submitting(t, j, memory.jobs[j].payload)
       \/ FailAppend(Content(ledger)) /\ UNCHANGED <<pc, work>>
    /\ UNCHANGED <<active, memory, wire, server>>

(* A row that nothing reads back, of a call without any other effect: a     *)
(* failed lookup, a metadata read, the refusal of a query over the          *)
(* allowance.                                                               *)
Note ==
    /\ \/ Reserved(memory) # {}
       \/ \E p \in Payloads : ReservedBytes(memory) + Ceiling(p) > Allowance
    /\ Append(Content(ledger)) \/ FailAppend(Content(ledger))
    /\ UNCHANGED <<active, memory, pc, work, wire, server>>

(* The SDK's jobs.insert through _api_guard: the reservation is looked up   *)
(* again, a row is appended and the request is sent.                        *)
Submit(t) ==
    /\ pc[t] = "submit"
    /\ memory.jobs[work[t].job].payload = work[t].payload
    /\ \/ /\ Append(Content(ledger))
          /\ wire' = IF work[t].payload \in DryRuns THEN wire
                     ELSE wire \cup {<<work[t].job, work[t].payload>>}
          /\ pc' = [pc EXCEPT ![t] = "sent"]
       \/ /\ FailAppend(Content(ledger))
          /\ pc' = [pc EXCEPT ![t] = "failed"]
          /\ UNCHANGED wire
    /\ UNCHANGED <<active, memory, work, server>>

Report(j) == [state |-> server[j].state, billed |-> server[j].billed]

(* BigQuery returns a job: this one, or one that is not what was reserved.  *)
See(t, j, seen, step) ==
    /\ pc' = [pc EXCEPT ![t] = step]
    /\ \E matches \in BOOLEAN :
          work' = [work EXCEPT ![t] = [@ EXCEPT !.job = j, !.seen = seen, !.matches = matches]]
    /\ UNCHANGED <<ledger, active, memory, wire, server>>

Answered(t) ==
    /\ pc[t] = "sent"
    /\ IF work[t].payload \in DryRuns
       THEN See(t, work[t].job, [state |-> "DONE", billed |-> 0], "observe")
       ELSE /\ server[work[t].job] # None
            /\ See(t, work[t].job, Report(work[t].job), "observe")

(* The request fails: the job may or may not run. *)
Unanswered(t) ==
    /\ pc[t] = "sent"
    /\ pc' = [pc EXCEPT ![t] = "failed"]
    /\ UNCHANGED <<ledger, active, memory, work, wire, server>>

(* get_job and refresh, or result and reload: only of a reserved job. *)
Look(t, j) ==
    /\ pc[t] = "idle"
    /\ memory.jobs[j] # None
    /\ server[j] # None
    /\ \E step \in {"observe", "observe_only"} : See(t, j, Report(j), step)

DryRun(j) == memory.jobs[j].payload \in DryRuns

(* _observe: what was returned is compared with the reservation, outside    *)
(* the mutex and after the call; the identity of a dry run is not.  query   *)
(* and get_job note the exception that a rejection raises, result does not. *)
Observe(t) ==
    /\ pc[t] \in {"observe", "observe_only"}
    /\ LET j == work[t].job
           accepted == work[t].matches \/ DryRun(j)
           Update(content) == IF accepted THEN WithObservation(content, j, work[t].seen)
                              ELSE WithRejection(content, j)
       IN  \/ /\ Append(Update(Content(ledger)))
              /\ memory' = Update(memory)
              /\ IF accepted \/ pc[t] = "observe_only" THEN Done(t) ELSE Failing(t)
           \/ /\ FailAppend(Update(Content(ledger)))
              /\ UNCHANGED memory
              /\ IF pc[t] = "observe_only" THEN Done(t) ELSE Failing(t)
    /\ UNCHANGED <<active, wire, server>>

(* _failure: the reservation stays. *)
Fail(t) ==
    /\ pc[t] = "failed"
    /\ Append(Content(ledger)) \/ FailAppend(Content(ledger))
    /\ Done(t)
    /\ UNCHANGED <<active, memory, wire, server>>

(* BigQuery runs a job ID once; a request may be lost, or arrive after its  *)
(* sender has given up; a job is billed at most its maximum_bytes_billed.   *)
Accept(r) ==
    /\ server' = IF server[r[1]] = None
                 THEN [server EXCEPT ![r[1]] = [payload |-> r[2], state |-> "RUNNING", billed |-> 0]]
                 ELSE server
    /\ wire' = wire \ {r}
    /\ UNCHANGED <<ledger, active, memory, pc, work>>

Lose(r) ==
    /\ wire' = wire \ {r}
    /\ UNCHANGED <<ledger, active, memory, pc, work, server>>

Finish(j) ==
    /\ server[j] # None /\ server[j].state = "RUNNING"
    /\ \E bytes \in 0 .. Cap :
          server' = [server EXCEPT ![j].state = "DONE", ![j].billed = bytes]
    /\ UNCHANGED <<ledger, active, memory, pc, work, wire>>

Next ==
    \/ Enter
    \/ Leave
    \/ active /\ Note
    \/ active /\ \E t \in Threads :
          \/ \E j \in Jobs : \/ \E p \in Payloads : Reserve(t, j, p)
                             \/ Resubmit(t, j)
                             \/ Look(t, j)
          \/ Submit(t)
          \/ Answered(t)
          \/ Unanswered(t)
          \/ Observe(t)
          \/ Fail(t)
    \/ \E r \in wire : Accept(r) \/ Lose(r)
    \/ \E j \in Jobs : Finish(j)

Spec == Init /\ [][Next]_vars

-----------------------------------------------------------------------------
(* Types.  A thread that is in a call works on a job ID; it submits a       *)
(* payload.                                                                 *)
TypeOK ==
    /\ ledger \in [status : Statuses, jobs : [Jobs -> Row \cup {None}], rejected : SUBSET Jobs]
    /\ active \in BOOLEAN
    /\ memory \in [jobs : [Jobs -> Row \cup {None}], rejected : SUBSET Jobs]
    /\ pc \in [Threads -> {"idle", "submit", "sent", "observe", "observe_only", "failed"}]
    /\ work \in [Threads -> [job : Jobs \cup {None}, payload : Payloads \cup {None},
                            seen : Seen \cup {None}, matches : BOOLEAN]]
    /\ wire \subseteq Jobs \X (Payloads \ DryRuns)
    /\ server \in [Jobs -> ServerJob \cup {None}]
    /\ \A t \in Threads : pc[t] # "idle" => work[t].job \in Jobs
    /\ \A t \in Threads : pc[t] \in {"submit", "sent"} => work[t].payload \in Payloads
    /\ \A t \in Threads : pc[t] \in {"observe", "observe_only"} => work[t].seen \in Seen

-----------------------------------------------------------------------------
(* Mutation: a job without an observation is not counted as unknown. *)
CompleteWithoutUnknown ==
    \A j \in Reserved(memory) :
        ~ DryRun(j) /\ memory.jobs[j].observation # None =>
            memory.jobs[j].observation.state = "DONE" /\ j \notin memory.rejected

(* summary: complete_billed_total. *)
Complete ==
    \A j \in Reserved(memory) : ~ DryRun(j) =>
        /\ memory.jobs[j].observation # None
        /\ memory.jobs[j].observation.state = "DONE"
        /\ j \notin memory.rejected

(* _api_guard: the metadata of a job's destination may be read. *)
Grants(j) ==
    /\ memory.jobs[j] # None
    /\ memory.jobs[j].observation # None
    /\ memory.jobs[j].observation.state = "DONE"
    /\ ~ DryRun(j)
    /\ j \notin memory.rejected

Charged == {r \in Jobs \X Payloads : r \in wire \/ (server[r[1]] # None /\ server[r[1]].payload = r[2])}

(* Whatever dies and is resumed, and whatever requests arrive late, all the *)
(* jobs that run or still may run cost at most the allowance of the run.    *)
JobsFitTheAllowance ==
    Cap * Cardinality(Charged) <= Allowance

(* BigQuery only runs what the ledger on disk has reserved, under that ID   *)
(* and with that payload: an auditor finds every job that could be billed.  *)
JobsAreOnRecord ==
    \A j \in Jobs : server[j] # None =>
        ledger.jobs[j] # None /\ ledger.jobs[j].payload = server[j].payload

(* A summary that calls its billed total complete has the final bill of     *)
(* every job of the run, those of earlier sessions and lost answers too.    *)
CompleteTotalsAreTrue ==
    active /\ Complete =>
        \A j \in Jobs :
            /\ server[j] # None => /\ memory.jobs[j] # None
                                   /\ memory.jobs[j].observation =
                                         [state |-> server[j].state, billed |-> server[j].billed]
            /\ \A r \in wire : server[r[1]] # None

(* A destination is readable only for a job that was seen to be done and    *)
(* that was never, in any session on record, returned as something else.    *)
GrantsAreBacked ==
    active /\ ledger.status = "good" =>
        \A j \in Jobs : Grants(j) =>
            /\ j \notin ledger.rejected
            /\ server[j] # None /\ server[j].state = "DONE"

(* The allowance holds over all sessions, and an auditor can see that it    *)
(* does: every job BigQuery took is on record, under its payload.           *)
AllowanceIsKept == JobsFitTheAllowance /\ JobsAreOnRecord

(* What the recorder concludes from its observations is so: a total it      *)
(* calls complete, and a job whose destination it opens.                    *)
ConclusionsAreTrue == CompleteTotalsAreTrue /\ GrantsAreBacked
=============================================================================
