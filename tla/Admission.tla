------------------------------ MODULE Admission ------------------------------
(***************************************************************************)
(* Which sequences of workflow events the learning gateway admits,          *)
(* src/tl/evolution/admission.py.  validate goes through the whole prefix   *)
(* and what is to be added, and judges every row by the rows before it and  *)
(* by its own arrival time.                                                 *)
(*                                                                          *)
(* A row has id, kind, case, actor, at (its arrival) and, as its kind has   *)
(* them, the IDs it refers to, a verdict, and a pin, which stands for all   *)
(* the hashes that must stay the same from the proposal to the trial.  What *)
(* body and _signed_plan refuse for its form, or for its signature, is not  *)
(* a row.                                                                   *)
(***************************************************************************)
EXTENDS Integers, Sequences

(* The rows before the i-th. *)
Before(rows, i) == {rows[k] : k \in 1 .. i - 1}
Own(rows, i) == {r \in Before(rows, i) : r.case = rows[i].case}

(* once: this phase is new in the case. *)
Once(rows, i) == \A r \in Own(rows, i) : r.kind # rows[i].kind

Absent(rows, i, kind) == \A r \in Own(rows, i) : r.kind # kind

(* ref: the earlier row of this kind, and of the same case. *)
Ref(rows, i, id, kind) == {r \in Own(rows, i) : r.id = id /\ r.kind = kind}

Verified(rows, i) ==
    \E finding \in Ref(rows, i, rows[i].finding, "finding_submitted") :
        finding.actor # rows[i].actor

Proposed(rows, i) ==
    \E verification \in Ref(rows, i, rows[i].verification, "finding_verified") :
        verification.verdict = "confirmed"

Evaluated(rows, i) ==
    \E proposal \in Ref(rows, i, rows[i].proposal, "candidate_proposed") :
        proposal.pin = rows[i].pin

Authorized(rows, i) ==
    LET row == rows[i] IN
    /\ \E proposal \in Ref(rows, i, row.proposal, "candidate_proposed") :
          proposal.pin = row.pin
    /\ \E evaluation \in Ref(rows, i, row.evaluation, "candidate_evaluated") :
          evaluation.proposal = row.proposal /\ evaluation.verdict = "passed"
    /\ row.watermark < i
    /\ \A r \in Before(rows, i) : r.kind = "trial_authorized" => r.nonce # row.nonce
    /\ row.created <= row.at /\ row.at <= row.expires

(* The first inspection after the authorization, wherever that is. *)
FirstInspection(rows, i, id, authorization) ==
    \E k \in 1 .. i - 1 :
        /\ rows[k].id = id
        /\ \E m \in 1 .. k - 1 : rows[m].id = authorization
                              /\ \A n \in m + 1 .. k - 1 :
                                    ~ (rows[n].kind = "inspection_requested" /\ rows[n].case = rows[i].case)

Started(rows, i) ==
    LET row == rows[i] IN
    \E authorization \in Ref(rows, i, row.authorization, "trial_authorized") :
        /\ Ref(rows, i, row.inspection, "inspection_requested") # {}
        /\ FirstInspection(rows, i, row.inspection, row.authorization)
        /\ Absent(rows, i, "trial_revoked")
        /\ row.at <= authorization.expires
        /\ row.pin = authorization.pin

Completed(rows, i) ==
    /\ \E trial \in Ref(rows, i, rows[i].trial, "trial_started") : trial.actor = rows[i].actor
    /\ Absent(rows, i, "trial_revoked")

Revoked(rows, i) ==
    /\ Ref(rows, i, rows[i].authorization, "trial_authorized") # {}
    /\ Absent(rows, i, "trial_completed")

RowAdmitted(rows, i) ==
    LET row == rows[i] IN
    /\ i > 1 => rows[i - 1].at <= row.at
    /\ \A r \in Before(rows, i) : r.id # row.id
    /\ \/ row.kind = "finding_submitted" /\ Once(rows, i)
       \/ row.kind = "finding_verified" /\ Once(rows, i) /\ Verified(rows, i)
       \/ row.kind = "candidate_proposed" /\ Once(rows, i) /\ Proposed(rows, i)
       \/ row.kind = "candidate_evaluated" /\ Once(rows, i) /\ Evaluated(rows, i)
       \/ row.kind = "trial_authorized" /\ Once(rows, i) /\ Authorized(rows, i)
       \/ row.kind = "inspection_requested" /\ ~ Absent(rows, i, "finding_submitted")
       \/ row.kind = "trial_started" /\ Once(rows, i) /\ Started(rows, i)
       \/ row.kind = "trial_completed" /\ Once(rows, i) /\ Completed(rows, i)
       \/ row.kind = "trial_revoked" /\ Once(rows, i) /\ Revoked(rows, i)

(* validate *)
Admissible(rows) == \A i \in 1 .. Len(rows) : RowAdmitted(rows, i)
=============================================================================
