---------------------------- MODULE Walkthrough ----------------------------
(***************************************************************************)
(* The rehearsal of the learning loop without a cloud,                      *)
(* src/tl/evolution/walkthrough.py.  run sends a script to a gateway of its *)
(* own: events that are admitted, in between events that must be refused    *)
(* for the reason that the script names and leave the stream as it was, and *)
(* the work that the events speak of.  It ends with a seal over what it has *)
(* retained.  replay judges a directory in which anything may have been     *)
(* changed since, under the code of the day.                                *)
(*                                                                          *)
(* run takes a new or empty directory, so that a directory is of one call.  *)
(***************************************************************************)
EXTENDS LearningEvents, FiniteSets, SequencesExt

CONSTANTS
    None,
    MaxEdits,       \* bound: edits of the code
    MaxAltered      \* bound: changes in the directory

VARIABLES
    walk,           \* run: its step, the inspection it asks for, the code it began with
    archived,       \* the code that run began with can be brought back from Git
    rows,           \* the learning stream
    receipts,       \* what is retained and receipted, by its kind
    code,           \* the version of the code in the checkout
    altered         \* what was changed in the directory after run

vars == <<walk, archived, rows, receipts, code, altered>>

(***************************************************************************)
(* Why the gateway refuses: the first check that fails.                     *)
(***************************************************************************)
Check(holds, reason) == [holds |-> holds, reason |-> reason]
New(seen, i) == Check(Once(seen, i), "phase_already_recorded")
Known(seen, i, id, kind) == Check(Ref(seen, i, id, kind) # {}, "reference")

Checks(seen, i) ==
    LET row == seen[i]
        kind == row.kind
    IN  CASE kind = "finding_submitted" -> <<New(seen, i)>>
          [] kind = "finding_verified" ->
                <<New(seen, i), Known(seen, i, row.finding, "finding_submitted"),
                  Check(Verified(seen, i), "own_finding")>>
          [] kind = "candidate_proposed" ->
                <<New(seen, i), Known(seen, i, row.verification, "finding_verified"),
                  Check(Proposed(seen, i), "confirmed_failure")>>
          [] kind = "candidate_evaluated" ->
                <<New(seen, i), Known(seen, i, row.proposal, "candidate_proposed"),
                  Check(row.form # "target" /\ Evaluated(seen, i), "native_candidate")>>
          [] kind = "trial_authorized" ->
                <<New(seen, i), Check(row.form # "limits", "limits"),
                  Check(row.form # "signature", "signature"),
                  Check(Authorized(seen, i), "approval")>>
          [] kind = "inspection_requested" ->
                <<Check(~Absent(seen, i, "finding_submitted"), "population")>>
          [] kind = "trial_started" ->
                <<New(seen, i), Known(seen, i, row.authorization, "trial_authorized"),
                  Known(seen, i, row.inspection, "inspection_requested"),
                  Check(FirstInspection(seen, i, row.inspection, row.authorization), "first_next_inspection"),
                  Check(Started(seen, i), "revoked,_expired_or_changed")>>
          [] kind = "trial_completed" ->
                <<New(seen, i), Known(seen, i, row.trial, "trial_started"),
                  Check(Completed(seen, i), "claimed_runner")>>
          [] kind = "trial_revoked" ->
                <<New(seen, i), Known(seen, i, row.authorization, "trial_authorized"),
                  Check(Revoked(seen, i), "retroactively")>>

Failing(seen, i) == SelectSeq(Checks(seen, i), LAMBDA c : ~c.holds)
(* Mutation: the checks of an event are made in another order. *)
LastFailing(seen, i) == IF Failing(seen, i) = << >> THEN None ELSE Last(Failing(seen, i)).reason
Reason(seen, i) == IF Failing(seen, i) = << >> THEN None ELSE Head(Failing(seen, i)).reason

Refusal(event, role) ==
    IF ~(event.kind \in Kinds /\ Roles[event.kind] = role) THEN "principal"
    ELSE IF event.form = "envelope" THEN "content_hash"
    ELSE Reason(Append(rows, Arrived(Request(event, role, None))), Len(rows) + 1)

(***************************************************************************)
(* The script.                                                              *)
(***************************************************************************)
Case == "wrong_date"
Denied == "refuted_claim"

Admit(event) == [does |-> "admit", event |-> event, role |-> None, reason |-> None]
Refuse(event, role, reason) == [does |-> "refuse", event |-> event, role |-> role, reason |-> reason]
Do(what) == [does |-> what, event |-> None, role |-> None, reason |-> None]

Plan(watermark) == [Approval(Case, "approval") EXCEPT !.watermark = watermark]
Script ==
    << Admit(Finding(Case)),
       Refuse(Verification(Case, "confirmed"), "proposer", "principal"),
       Refuse(Misformed(Verification(Case, "confirmed"), "envelope"), "verifier", "content_hash"),
       Admit(Verification(Case, "confirmed")),
       Admit(Finding(Denied)), Admit(Verification(Denied, "refuted")),
       Refuse(Proposal(Denied), "proposer", "confirmed_failure"),
       Admit(Proposal(Case)),
       Do("evaluate"),
       Refuse(Misformed(Evaluation(Case), "target"), "verifier", "native_candidate"),
       Admit(Evaluation(Case)),
       Refuse(Misformed(Plan(6), "limits"), "reviewer", "limits"),
       Refuse(Misformed(Plan(6), "signature"), "reviewer", "signature"),
       Refuse(Plan(6), "proposer", "principal"),
       Admit(Plan(6)),
       Admit(Inspection(Case, "first")), Admit(Inspection(Case, "second")),
       Refuse(Claim(Case, "second", "claim_second"), "runner", "first_next_inspection"),
       Admit(Claim(Case, "first", "claim")),
       Do("measure"), Do("conclude"),
       Admit(Completion(Case, <<Case, "claim">>)),
       Refuse(Claim(Case, "second", "claim_again"), "runner", "phase_already_recorded"),
       Refuse(Revocation(Case), "reviewer", "retroactively"),
       Refuse([Finding(Case) EXCEPT !.kind = "candidate_promoted"], "runner", "principal"),
       Do("seal"), Do("summarize") >>
Current == Script[walk.step]

TypeOK ==
    /\ walk.at \in {"new", "running", "rehearsed", "failed", "stopped"}
    /\ walk.step \in 1 .. Len(Script)
    /\ walk.date \in {None, "month_start", "report_date"}
    /\ archived \in BOOLEAN
    /\ code \in 0 .. MaxEdits
    /\ DOMAIN receipts = {"evaluation", "measurement", "outcome", "seal", "summary"}

Init ==
    /\ walk = [at |-> "new", step |-> 1, date |-> None, code |-> 0]
    /\ archived \in BOOLEAN
    /\ rows = << >>
    /\ receipts = [kind \in {"evaluation", "measurement", "outcome", "seal", "summary"} |-> None]
    /\ code = 0
    /\ altered = {}

(***************************************************************************)
(* run                                                                      *)
(***************************************************************************)
Start(date) ==
    /\ walk.at = "new"
    /\ walk' = [walk EXCEPT !.at = "running", !.date = date, !.code = code]
    /\ UNCHANGED <<archived, rows, receipts, code, altered>>

Doing(what) == walk.at = "running" /\ Current.does = what
Onward == walk' = IF walk.step = Len(Script) THEN [walk EXCEPT !.at = "rehearsed"]
                  ELSE [walk EXCEPT !.step = @ + 1]
Break == walk' = [walk EXCEPT !.at = "failed"]
Retain(kind, content) == receipts' = [receipts EXCEPT ![kind] = content]

AdmitNext ==
    /\ Doing("admit")
    /\ IF Refusal(Current.event, Roles[Current.event.kind]) = None
         THEN /\ rows' = Append(rows, Arrived(Request(Current.event, Roles[Current.event.kind], None)))
              /\ Onward
         ELSE Break /\ UNCHANGED rows
    /\ UNCHANGED <<archived, receipts, code, altered>>

(* An event that should have been refused, and was not, has been written.   *)
RefuseNext ==
    /\ Doing("refuse")
    /\ LET refusal == Refusal(Current.event, Current.role)
       IN  /\ IF refusal = Current.reason THEN Onward ELSE Break
           /\ rows' = IF refusal # None THEN rows
                      ELSE Append(rows, Arrived(Request(Current.event, Current.role, None)))
    /\ UNCHANGED <<archived, receipts, code, altered>>

(* The candidate and the oracle answer the frozen cases, and agree or not.  *)
EvaluateCases(agree) ==
    /\ Doing("evaluate")
    /\ Retain("evaluation", [code |-> code, agree |-> agree])
    /\ IF agree THEN Onward ELSE Break
    /\ UNCHANGED <<archived, rows, code, altered>>

(* They answer the inspection of the claim; a disagreement is an outcome.   *)
Measure(agree) ==
    /\ Doing("measure")
    /\ Retain("measurement", [code |-> code, agree |-> agree])
    /\ Onward
    /\ UNCHANGED <<archived, rows, code, altered>>

Conclusions == {"failed", "improved", "inconclusive"}
NoneIsNoConclusion == None \notin Conclusions
OutcomeOf(measurement) ==
    CASE ~measurement.agree -> "failed"
      [] measurement.agree /\ walk.date = "month_start" -> "improved"
      [] OTHER -> "inconclusive"
Conclude ==
    /\ Doing("conclude")
    /\ Retain("outcome", OutcomeOf(receipts.measurement))
    /\ Onward
    /\ UNCHANGED <<archived, rows, code, altered>>

(* The report that run began with is computed again, under its own code.    *)
ReportReplays == walk.code = code \/ archived

(* The stream is written, read again and judged, and sealed with the rest.  *)
Seal ==
    /\ Doing("seal")
    /\ IF ReportReplays /\ Admissible(rows) THEN Onward /\ Retain("seal", receipts.outcome)
       ELSE Break /\ UNCHANGED receipts
    /\ UNCHANGED <<archived, rows, code, altered>>

(* walkthrough.json is the last that replay needs.                          *)
Summarize ==
    /\ Doing("summarize")
    /\ Retain("summary", receipts.outcome)
    /\ Onward
    /\ UNCHANGED <<archived, rows, code, altered>>

Stop ==
    /\ walk.at = "running"
    /\ walk' = [walk EXCEPT !.at = "stopped"]
    /\ UNCHANGED <<archived, rows, receipts, code, altered>>

Edit ==
    /\ code < MaxEdits
    /\ code' = code + 1
    /\ UNCHANGED <<walk, archived, rows, receipts, altered>>

(***************************************************************************)
(* What can be changed in the directory, and replay.  A change is of a       *)
(* content, and not forged in all that names it: who seals the whole anew    *)
(* has another walkthrough.                                                  *)
(***************************************************************************)
Copies == {"stream", "gateway", "plan", "signature"}
(* What a seal lists, or the report's run.json and its receipts.            *)
Runs == {"seal", "evaluation", "measurement", "outcome", "report"}
(* A receipt.json is written after its list was made, a file may be added,  *)
(* and the rows.jsonl of the report is not opened again.                    *)
Unlisted == {"receipt_file", "further_file", "report_receipts"}
(* The receipts that replay looks up, with any further observation of the   *)
(* report's run; and valid receipts of another run.                         *)
Ledger == {"receipts_used", "further_receipt"}
(* Rows the report sees; rows it does not, changed in place or added.       *)
Business == {"a_reported_row", "a_later_row", "another_row", "a_learning_row"}
Summary == {"receipt_named", "watermark", "the_rest"}
Beside == {"readme", "signer", "rejected_plan"}
Parts == Copies \cup Runs \cup Unlisted \cup Ledger \cup Business \cup Summary \cup Beside

Alter(part) ==
    /\ receipts.summary # None
    /\ Cardinality(altered) < MaxAltered
    /\ altered' = altered \cup {part}
    /\ UNCHANGED <<walk, archived, rows, receipts, code>>

Sealed ==
    /\ receipts.summary # None
    /\ altered \cap (Copies \cup {"seal", "receipts_used", "receipt_named"}) = {}

RebuildsState ==
    /\ Admissible(rows)
    /\ \E r \in ToSet(rows) : r.kind = "trial_completed"
    /\ receipts.outcome = receipts.seal

(* Mutation: a diagnostic is judged by the code of the day, whatever made it. *)
AnyCode(kind) == kind \notin altered
Reproduces(kind) == kind \notin altered /\ receipts[kind].code = code

(* The number of business rows is held to that of the summary.              *)
Separate ==
    /\ "a_learning_row" \notin altered
    /\ "another_row" \in altered <=> "watermark" \in altered

Replays ==
    /\ Sealed /\ RebuildsState
    /\ Reproduces("evaluation") /\ Reproduces("measurement")
    /\ "outcome" \notin altered
    /\ ReportReplays /\ altered \cap {"report", "a_reported_row"} = {}
    /\ Separate

Next ==
    \/ \E date \in {"month_start", "report_date"} : Start(date)
    \/ AdmitNext \/ RefuseNext \/ Conclude \/ Seal \/ Summarize \/ Stop \/ Edit
    \/ \E agree \in BOOLEAN : EvaluateCases(agree) \/ Measure(agree)
    \/ \E part \in Parts : Alter(part)

Spec == Init /\ [][Next]_vars

(***************************************************************************)
(* Properties.                                                              *)
(***************************************************************************)

(* Every event of the script is answered as the script says: a walkthrough  *)
(* fails only where the candidate and the oracle disagree or the report's   *)
(* code is gone, and it leaves the events that were to be admitted.         *)
ScriptIsFollowed ==
    /\ walk.at = "failed" =>
          receipts.evaluation # None /\ (~receipts.evaluation.agree \/ code # walk.code)
    /\ LET admitted == SelectSeq(SubSeq(Script, 1, walk.step - 1), LAMBDA s : s.does = "admit")
       IN  walk.at # "rehearsed" =>
             [i \in DOMAIN rows |-> rows[i].id] = [i \in DOMAIN admitted |-> admitted[i].event.id]

(* The outcome is that of the first inspection after the approval, under a  *)
(* passed evaluation, and the refuted claim went no further.                *)
OutcomeIsOfTheFirst ==
    receipts.outcome # None =>
        /\ receipts.evaluation.agree
        /\ \E i \in DOMAIN rows :
              rows[i].kind = "trial_started" /\ FirstInspection(rows, i, rows[i].inspection, rows[i].authorization)
        /\ Cardinality({r \in ToSet(rows) : r.kind = "trial_started"}) = 1
        /\ {r.kind : r \in {r \in ToSet(rows) : r.case = Denied}} = {"finding_submitted", "finding_verified"}

(* What a seal lists, replay looks up, or the report shows.                 *)
Evidence ==
    Copies \cup Runs \cup {"receipts_used", "receipt_named", "a_reported_row", "a_learning_row"}

(* What replay verifies has run to its seal, its diagnostics were made by   *)
(* one version of the code, which is that of the day, and nothing that is   *)
(* listed, looked up or reported was changed, alone or with other parts; a  *)
(* row was added only by one who changed the summary with it.               *)
ReplayTellsTheTruth ==
    Replays =>
        /\ receipts.seal # None /\ receipts.outcome = OutcomeOf(receipts.measurement)
        /\ receipts.evaluation.code = receipts.measurement.code /\ receipts.measurement.code = code
        /\ altered \cap Evidence = {}
        /\ "another_row" \in altered => "watermark" \in altered

(* "Any changed byte fails" (replay's docstring; docs/run.md:131 "fails on  *)
(* any changed byte"): the code compares some of what run has written, and  *)
(* neither what the seals do not list nor what the report does not see.     *)
AnyChangeIsSeen == Replays => altered = {}
=============================================================================
