------------------------- MODULE AdmissionRehearsal -------------------------
(***************************************************************************)
(* The rehearsal of a disposable learning deployment                        *)
(* (src/tl/evolution/native_acceptance.py): a script of registered cases,   *)
(* most of which must be refused, is sent to the live gateway, and after    *)
(* each case a fresh snapshot must show the rows of before and what the     *)
(* case may add, no less and no more.  The gateway judges events by         *)
(* Admission; a deployment may be blind to something.  Answers may be lost, *)
(* snapshots fail, and others append to the same stream.                    *)
(***************************************************************************)
EXTENDS LearningEvents, FiniteSets, SequencesExt

CONSTANTS
    None,
    Blindness,      \* what a deployment may overlook, "nothing" among it
    MaxOthers       \* rows that others append

VARIABLES
    blind,          \* what the deployment overlooks
    rows,           \* the stream, in the form of Admission
    disturbed,      \* somebody else appended, or an answer was lost (history)
    run             \* the rehearsal: its case, its requests, the last snapshot

vars == <<blind, rows, disturbed, run>>

Main == "main"
Halted == "revoked"
Refuted == "refuted"

(***************************************************************************)
(* The cases: their requests, the numbers of rows that may come of them and *)
(* the answers that are right.                                              *)
(***************************************************************************)
Case(requests, adds, answers) == [requests |-> requests, adds |-> adds, answers |-> answers]
One(event, role, adds, status) ==
    Case(<<Request(event, role, "valid")>>, adds, {<<status>>})
Accepted(event) == One(event, Roles[event.kind], 1, 200)
Refused(event) == One(event, Roles[event.kind], 0, 422)
Identified(token) == Case(<<Request(Finding(Main), "proposer", token)>>, 0, {<<401>>, <<403>>})

Script(winner) ==
    << Identified("none"), Identified("forged"), Identified("wrong"),
       Refused(Misformed(Finding(Main), "provenance")),
       Refused(Misformed(Finding(Main), "envelope")),
       One(Verification(Main, "confirmed"), "proposer", 0, 403),
       Refused(Verification(Main, "confirmed")),
       Accepted(Finding(Main)),
       One(Finding(Main), "proposer", 0, 200),
       Refused([Finding(Main) EXCEPT !.body = "conflicting"]),
       Accepted(Verification(Main, "confirmed")),
       Refused(Misformed(Proposal(Main), "scope")),
       Accepted(Proposal(Main)), Accepted(Evaluation(Main)),
       Refused([Approval(Main, "wrong-candidate") EXCEPT !.pin = "other"]),
       Refused(Misformed(Approval(Main, "expanded"), "limits")),
       Refused([Approval(Main, "expired") EXCEPT !.created = 0, !.expires = 0]),
       Refused(Misformed(Approval(Main, "approval"), "signature")),
       Accepted(Approval(Main, "approval")),
       Accepted(Inspection(Main, "inspection")), Accepted(Inspection(Main, "later")),
       Refused(Claim(Main, "later", "skip")),
       Case([k \in 1 .. 2 |->
               Request(Claim(Main, "inspection", IF k = 1 THEN "claim-a" ELSE "claim-b"), "runner", "valid")],
            1, {<<200, 422>>, <<422, 200>>}),
       Refused(Claim(Main, "inspection", "claim-again")),
       Accepted(Completion(Main, winner)),
       One(Completion(Main, winner), "runner", 0, 200),
       One([Completion(Main, winner) EXCEPT !.kind = "candidate_promoted"], "runner", 0, 403),
       Accepted(Finding(Halted)), Accepted(Verification(Halted, "confirmed")),
       Accepted(Proposal(Halted)), Accepted(Evaluation(Halted)),
       Accepted(Approval(Halted, "approval")), Accepted(Inspection(Halted, "inspection")),
       Accepted(Revocation(Halted)), Refused(Claim(Halted, "inspection", "claim")),
       Accepted(Finding(Refuted)), Accepted(Verification(Refuted, "refuted")),
       Refused(Proposal(Refuted)) >>
Length == Len(Script(None))
Current == Script(run.winner)[run.case]

TypeOK ==
    /\ blind \in Blindness
    /\ disturbed \in BOOLEAN
    /\ run.at \in {"new", "sending", "looking", "over"}
    /\ run.case \in 1 .. Length
    /\ run.result \in {None, "passed", "failed"}

Init ==
    /\ blind \in Blindness
    /\ rows = << >>
    /\ disturbed = FALSE
    /\ run = [at |-> "new", case |-> 1, answers |-> << >>, prefix |-> {}, winner |-> None, result |-> None]

(***************************************************************************)
(* The service.                                                             *)
(***************************************************************************)
Authenticates(request) ==
    \/ request.token = "valid"
    \/ request.token = "wrong" /\ blind = "audience"
    \/ request.token \in {"none", "forged"} /\ blind = "identity"
MaySend(request) ==
    \/ request.event.kind \in Kinds /\ Roles[request.event.kind] = request.role
    \/ request.event.kind \in Kinds /\ blind = "role"
WellFormed(event) == event.form = "sound" \/ event.form = blind

(* What a deployment that is blind to something takes the rows for. *)
Overlooked(seen) ==
    LET last == seen[Len(seen)]
        without(kinds) == Append(SelectSeq(Front(seen), LAMBDA r : r.kind \notin kinds), last)
    IN  CASE blind = "revocations" -> without({"trial_revoked"})
          [] blind = "claims" /\ last.kind = "trial_started" -> without({"trial_started"})
          [] blind = "inspections" ->
                SelectSeq(seen, LAMBDA r : \/ last.kind # "trial_started"
                                           \/ r.kind # "inspection_requested"
                                           \/ r.id = last.inspection)
          [] blind = "verdicts" ->
                [i \in DOMAIN seen |-> IF seen[i].kind = "finding_verified"
                                         THEN [seen[i] EXCEPT !.verdict = "confirmed"] ELSE seen[i]]
          [] blind = "pins" /\ last.kind = "trial_authorized" ->
                Append(Front(seen), [last EXCEPT !.pin = "candidate"])
          [] blind = "expiry" /\ last.kind = "trial_authorized" ->
                Append(Front(seen), [last EXCEPT !.created = 1, !.expires = 2])
          [] OTHER -> seen

Existing(event) == {r \in ToSet(rows) : r.id = event.id}
Same(r, event) == r.body = event.body /\ r.kind = event.kind

Serve(request) ==
    LET event == request.event
        row == Arrived(request)
        seen == Append(rows, row)
        stays(status) == [status |-> status, rows |-> rows]
    IN  CASE ~Authenticates(request) \/ ~MaySend(request) -> stays(403)
          [] Authenticates(request) /\ MaySend(request) /\ ~WellFormed(event) -> stays(422)
          [] Authenticates(request) /\ MaySend(request) /\ WellFormed(event) /\ Existing(event) # {} ->
                stays(IF \E r \in Existing(event) : Same(r, event) \/ blind = "conflicts"
                        THEN 200 ELSE 422)
          [] OTHER ->
                IF LET judged == Overlooked(seen) IN RowAdmitted(judged, Len(judged))
                  THEN [status |-> 200, rows |-> seen] ELSE stays(422)

(***************************************************************************)
(* The rehearsal.                                                           *)
(***************************************************************************)
Start ==
    /\ run.at = "new"
    /\ run' = [run EXCEPT !.at = "sending", !.prefix = ToSet(rows),
                          !.answers = [k \in DOMAIN Current.requests |-> None]]
    /\ UNCHANGED <<blind, rows, disturbed>>

Unanswered == {k \in DOMAIN run.answers : run.answers[k] = None}

Send(k) ==
    /\ run.at = "sending" /\ k \in Unanswered
    /\ LET served == Serve(Current.requests[k])
       IN  /\ rows' = served.rows
           /\ run' = [run EXCEPT !.answers[k] = served.status,
                                 !.at = IF Unanswered = {k} THEN "looking" ELSE "sending"]
    /\ UNCHANGED <<blind, disturbed>>

(* The request never arrives, or its answer never comes: neither is repeated. *)
LoseAnswer(k) ==
    /\ run.at = "sending" /\ k \in Unanswered
    /\ rows' \in {rows, Serve(Current.requests[k]).rows}
    /\ disturbed' = TRUE
    /\ run' = [run EXCEPT !.at = "over", !.result = "failed"]
    /\ UNCHANGED blind

(* A snapshot is of the whole stream, and the stream must be admissible. *)
Readable == Admissible(rows)

Added == ToSet(rows) \ run.prefix
Requested == {Current.requests[k].event.id : k \in DOMAIN Current.requests}

AddsWhatItMay ==
    /\ run.prefix \subseteq ToSet(rows)
    /\ Cardinality(Added) = Current.adds
    /\ {r.id : r \in Added} \subseteq Requested
Matched == AddsWhatItMay /\ run.answers \in Current.answers

(* Mutation: the rows of the last case are not part of what was there. *)
FollowingStale(winner) ==
    [run EXCEPT !.at = "sending", !.case = @ + 1, !.winner = winner,
                !.answers = [k \in DOMAIN Script(winner)[run.case + 1].requests |-> None]]
Following(winner) ==
    [run EXCEPT !.at = "sending", !.case = @ + 1, !.prefix = ToSet(rows), !.winner = winner,
                !.answers = [k \in DOMAIN Script(winner)[run.case + 1].requests |-> None]]

Pass ==
    /\ run.at = "looking" /\ Readable /\ Matched
    /\ IF run.case = Length
         THEN run' = [run EXCEPT !.at = "over", !.result = "passed"]
         ELSE IF Len(Current.requests) = 2
                THEN \E r \in Added : run' = Following(r.id)
                ELSE run' = Following(run.winner)
    /\ UNCHANGED <<blind, rows, disturbed>>

Fail ==
    /\ run.at = "looking" /\ ~(Readable /\ Matched)
    /\ run' = [run EXCEPT !.at = "over", !.result = "failed"]
    /\ UNCHANGED <<blind, rows, disturbed>>

FailToRead ==
    /\ run.at \in {"new", "looking"}
    /\ run' = [run EXCEPT !.at = "over", !.result = "failed"]
    /\ disturbed' = TRUE
    /\ UNCHANGED <<blind, rows>>

(* Another proposer uses the same deployment. *)
OthersSubmit(n) ==
    /\ run.at # "over"
    /\ Cardinality({r \in ToSet(rows) : r.case = "theirs"}) < n
    /\ rows' = Append(rows, Arrived(Request(Finding("theirs"), "proposer", "valid")))
    /\ disturbed' = (run.at # "new")
    /\ UNCHANGED <<blind, run>>

Next ==
    \/ Start \/ Pass \/ Fail \/ FailToRead
    \/ \E k \in 1 .. 2 : Send(k) \/ LoseAnswer(k)
    \/ OthersSubmit(MaxOthers)

Spec == Init /\ [][Next]_vars

(***************************************************************************)
(* Properties.                                                              *)
(***************************************************************************)

(* A rehearsal that passed saw a deployment that overlooks nothing, added   *)
(* each row of its script and one of two simultaneous claims, and nobody    *)
(* else added any in between.                                               *)
PassedSawEverything ==
    run.result = "passed" =>
        /\ blind = "nothing" /\ ~disturbed
        /\ Cardinality({r \in ToSet(rows) : r.kind = "trial_started"}) = 1
        /\ Cardinality({r \in ToSet(rows) : r.case # "theirs"})
             = FoldSeq(LAMBDA case, n : n + case.adds, 0, Script(None))

(* The script and the policy agree: a rehearsal that failed was disturbed,  *)
(* or the deployment is blind.                                              *)
FailedForAReason == run.result = "failed" => disturbed \/ blind # "nothing"

(* The result of a rehearsal is that of the deployment, either way.         *)
RehearsalTellsTheTruth == PassedSawEverything /\ FailedForAReason
=============================================================================
