--------------------------- MODULE LearningEvents ---------------------------
(***************************************************************************)
(* The events that the rehearsals of the learning loop send, and who may    *)
(* send them: src/tl/evolution/native_acceptance.py, to a deployment, and   *)
(* src/tl/evolution/walkthrough.py, to a gateway of its own.  body tells    *)
(* contents with one ID apart; form is what is wrong with an event that     *)
(* Admission, which sees well-formed rows, says nothing of.                 *)
(***************************************************************************)
EXTENDS Admission, TLC

Roles == [finding_submitted |-> "proposer", finding_verified |-> "verifier",
          candidate_proposed |-> "proposer", candidate_evaluated |-> "verifier",
          trial_authorized |-> "reviewer", inspection_requested |-> "proposer",
          trial_started |-> "runner", trial_completed |-> "runner", trial_revoked |-> "reviewer"]
Kinds == DOMAIN Roles

Event(kind, case, id) ==
    [kind |-> kind, case |-> case, id |-> <<case, id>>, body |-> "as first", form |-> "sound"]
Finding(case) == Event("finding_submitted", case, "finding")
Verification(case, verdict) ==
    Event("finding_verified", case, "verified")
        @@ [finding |-> <<case, "finding">>, verdict |-> verdict]
Proposal(case) ==
    Event("candidate_proposed", case, "proposal")
        @@ [verification |-> <<case, "verified">>, pin |-> "candidate"]
Evaluation(case) ==
    Event("candidate_evaluated", case, "evaluation")
        @@ [proposal |-> <<case, "proposal">>, verdict |-> "passed", pin |-> "candidate"]
Approval(case, id) ==
    Event("trial_authorized", case, id)
        @@ [proposal |-> <<case, "proposal">>, evaluation |-> <<case, "evaluation">>,
            pin |-> "candidate", watermark |-> 4, nonce |-> case, created |-> 1, expires |-> 2]
Inspection(case, id) == Event("inspection_requested", case, id)
Claim(case, inspection, id) ==
    Event("trial_started", case, id)
        @@ [authorization |-> <<case, "approval">>, inspection |-> <<case, inspection>>,
            pin |-> "candidate"]
Completion(case, winner) == Event("trial_completed", case, "completion") @@ [trial |-> winner]
Revocation(case) ==
    Event("trial_revoked", case, "revoke") @@ [authorization |-> <<case, "approval">>]

Misformed(event, form) == [event EXCEPT !.form = form]

Request(event, role, token) == [event |-> event, role |-> role, token |-> token]

(* The row that the gateway makes of an event. *)
Arrived(request) == request.event @@ [actor |-> request.role, at |-> 1]
=============================================================================
