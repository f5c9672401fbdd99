--------------------------- MODULE EvolutionTrial ---------------------------
(***************************************************************************)
(* The one run that a signed authorization allows, src/tl/evolution/        *)
(* trial.py, on the log of the learning gateway.  Workflow events arrive    *)
(* from other producers; runners take a snapshot of the log, claim the      *)
(* trial with an event of their own, execute only when that claim was       *)
(* accepted, seal the outcome and submit the completion.                    *)
(*                                                                          *)
(* The gateway is what IdempotentLog promises of it: an event is appended   *)
(* once, if the prefix with it is admissible; its answer can be lost, and a *)
(* request can be stored long after its sender has given up.                *)
(***************************************************************************)
EXTENDS Admission, FiniteSets

CONSTANTS
    Runners,                \* processes that call run, under the same producer
    Runner,                 \* that producer
    Events,                 \* what the other producers may submit, without arrival
    MaxClock,               \* bound: the last instant
    MaxClaims,              \* bound: claims made
    Statuses,               \* "improved", "inconclusive", "failed"
    None

(* Roles are separate: only the runners' producer starts and completes      *)
(* trials (gateway.py:127).  The ID of another producer's event is none of  *)
(* the uuids that claims will get.                                          *)
EventsAreOfOthers ==
    /\ MaxClaims \in Nat
    /\ \A event \in Events :
          /\ {"id", "kind"} \subseteq DOMAIN event
          /\ event.kind \notin {"trial_started", "trial_completed"}
          /\ event.kind = "trial_authorized" => "nonce" \in DOMAIN event
    /\ \A event, authorization \in Events : authorization.kind = "trial_authorized" =>
          \A n \in 0 .. MaxClaims : event.id # <<"trial", authorization.nonce, n>>

VARIABLES
    log,                    \* the admitted rows
    clock,                  \* the gateway's clock
    flight,                 \* events the gateway may still append
    runner,                 \* the calls of run
    claims,                 \* the number of claim IDs made: each is a fresh uuid
    receipts,               \* sealed outcomes in the local receipt ledger
    files,                  \* completion-event.json, kept for a retry
    executions              \* the claims under which a diagnostic was run (history)

vars == <<log, clock, flight, runner, claims, receipts, files, executions>>

Resting == [pc |-> "idle", authorization |-> None, inspection |-> None, claim |-> None, status |-> None]

Ids == {log[i].id : i \in 1 .. Len(log)}

(* An event with its arrival. *)
Arrived(event, at) == [f \in DOMAIN event \cup {"at"} |-> IF f = "at" THEN at ELSE event[f]]

Init ==
    /\ log = <<>>
    /\ clock = 0
    /\ flight = {}
    /\ runner = [r \in Runners |-> Resting]
    /\ claims = 0
    /\ receipts = {}
    /\ files = {}
    /\ executions = {}

Tick ==
    /\ clock < MaxClock
    /\ clock' = clock + 1
    /\ UNCHANGED <<log, flight, runner, claims, receipts, files, executions>>

(* Another producer's event is admitted as it arrives. *)
Admit(event) ==
    /\ Admissible(Append(log, Arrived(event, clock)))
    /\ log' = Append(log, Arrived(event, clock))
    /\ UNCHANGED <<clock, flight, runner, claims, receipts, files, executions>>

(* An event of a runner: appended if it is admissible, or it comes to       *)
(* nothing, which it also does when it is already there.                    *)
Land(row) ==
    /\ Admissible(Append(log, row))
    /\ log' = Append(log, row)
    /\ flight' = flight \ {row}
    /\ UNCHANGED <<clock, runner, claims, receipts, files, executions>>

Drop(row) ==
    /\ flight' = flight \ {row}
    /\ UNCHANGED <<log, clock, runner, claims, receipts, files, executions>>

-----------------------------------------------------------------------------
Goto(r, pc) == runner' = [runner EXCEPT ![r].pc = pc]
End(r) == runner' = [runner EXCEPT ![r] = Resting]

Row(id) == CHOOSE row \in {log[i] : i \in 1 .. Len(log)} : row.id = id
Consumed(case) == \E i \in 1 .. Len(log) : log[i].case = case
                    /\ log[i].kind \in {"trial_started", "trial_completed", "trial_revoked"}

(* Mutation: the claim of an authorization has a fixed ID. *)
SharedClaimIds(authorization) == {<<"trial", Row(authorization).nonce>>}

(* uuid: no two claims have the same ID. *)
ClaimIds(authorization) == {<<"trial", Row(authorization).nonce, claims>>}

(* run on its snapshot of the log, up to the claim event.  The candidate,   *)
(* the pull request and the export are checked too, and may be refused.     *)
Look(r) ==
    /\ runner[r].pc = "idle"
    /\ claims < MaxClaims
    /\ claims' = claims + 1
    /\ \E i, k \in 1 .. Len(log) :
          /\ log[i].kind = "trial_authorized"
          /\ ~ Consumed(log[i].case)
          /\ log[k].kind = "inspection_requested" /\ log[k].case = log[i].case /\ k > i
          /\ \A n \in i + 1 .. k - 1 : ~ (log[n].kind = "inspection_requested" /\ log[n].case = log[i].case)
          /\ clock <= log[i].expires
          /\ \E claim \in ClaimIds(log[i].id) :
                /\ runner' = [runner EXCEPT ![r] = [pc |-> "claim", authorization |-> log[i].id,
                                  inspection |-> log[k].id, claim |-> claim, status |-> None]]
    /\ UNCHANGED <<log, clock, flight, receipts, files, executions>>

ClaimEvent(r) ==
    LET authorization == Row(runner[r].authorization) IN
    [id |-> runner[r].claim, kind |-> "trial_started", case |-> authorization.case, actor |-> Runner,
     authorization |-> authorization.id, inspection |-> runner[r].inspection, pin |-> authorization.pin]

SubmitClaim(r) ==
    /\ runner[r].pc = "claim"
    /\ flight' = flight \cup {Arrived(ClaimEvent(r), clock)}
    /\ Goto(r, "claiming")
    /\ UNCHANGED <<log, clock, claims, receipts, files, executions>>

(* "accepted": the gateway has read the event back. *)
ClaimAccepted(r) ==
    /\ runner[r].pc = "claiming"
    /\ runner[r].claim \in Ids
    /\ Goto(r, "execute")
    /\ UNCHANGED <<log, clock, flight, claims, receipts, files, executions>>

(* Any other answer, or none: the runner gives up, whatever becomes of its  *)
(* claim.                                                                   *)
ClaimUnverified(r) ==
    /\ runner[r].pc = "claiming"
    /\ End(r)
    /\ UNCHANGED <<log, clock, flight, claims, receipts, files, executions>>

Execute(r) ==
    /\ runner[r].pc = "execute"
    /\ executions' = executions \cup {<<r, runner[r].claim>>}
    /\ \E status \in Statuses : runner' = [runner EXCEPT ![r].pc = "seal", ![r].status = status]
    /\ UNCHANGED <<log, clock, flight, claims, receipts, files>>

CompletionEvent(r) ==
    LET authorization == Row(runner[r].authorization) IN
    [id |-> <<"outcome", authorization.nonce>>, kind |-> "trial_completed", case |-> authorization.case,
     actor |-> Runner, trial |-> runner[r].claim, verdict |-> runner[r].status]

(* The outcome, a failure too, is a receipt before anybody is told of it. *)
Seal(r) ==
    /\ runner[r].pc = "seal"
    /\ receipts' = receipts \cup {[trial |-> runner[r].claim, verdict |-> runner[r].status]}
    /\ Goto(r, "complete")
    /\ UNCHANGED <<log, clock, flight, claims, files, executions>>

SubmitCompletion(r) ==
    /\ runner[r].pc = "complete"
    /\ files' = files \cup {CompletionEvent(r)}
    /\ flight' = flight \cup {Arrived(CompletionEvent(r), clock)}
    /\ End(r)
    /\ UNCHANGED <<log, clock, claims, receipts, executions>>

(* A submission whose answer is unknown is retried: same event file and ID. *)
Resubmit(event) ==
    /\ event.id \notin Ids
    /\ flight' = flight \cup {Arrived(event, clock)}
    /\ UNCHANGED <<log, clock, runner, claims, receipts, files, executions>>

Crash(r) ==
    /\ runner[r].pc # "idle"
    /\ End(r)
    /\ \/ UNCHANGED files
       \/ runner[r].pc = "complete" /\ files' = files \cup {CompletionEvent(r)}
    /\ UNCHANGED <<log, clock, flight, claims, receipts, executions>>

Next ==
    \/ Tick
    \/ \E event \in Events : Admit(event)
    \/ \E row \in flight : Land(row) \/ Drop(row)
    \/ \E r \in Runners :
          \/ Look(r) \/ SubmitClaim(r) \/ ClaimAccepted(r) \/ ClaimUnverified(r)
          \/ Execute(r) \/ Seal(r) \/ SubmitCompletion(r) \/ Crash(r)
    \/ \E event \in files : Resubmit(event)

Spec == Init /\ [][Next]_vars

-----------------------------------------------------------------------------
(* A signed authorization is good for one run: of all runners that race     *)
(* for it, or come back after a crash or a lost answer, at most one         *)
(* executes, once.                                                          *)
OneExecution ==
    \A x, y \in executions : Row(x[2]).authorization = Row(y[2]).authorization => x = y

Position(id) == CHOOSE i \in 1 .. Len(log) : log[i].id = id

(* These are IDs of rows of one case, of these kinds, in this order. *)
Chain(ids, kinds) ==
    /\ \A n \in 1 .. Len(ids) :
          /\ ids[n] \in Ids
          /\ Row(ids[n]).kind = kinds[n] /\ Row(ids[n]).case = Row(ids[1]).case
    /\ \A n \in 2 .. Len(ids) : Position(ids[n - 1]) < Position(ids[n])

(* What was executed had all of its authority when its claim was admitted:  *)
(* in its own case a finding, confirmed by somebody else, a candidate, a    *)
(* passed evaluation of that very candidate, an authorization of it that    *)
(* had not expired and was not revoked, and the first inspection after it.  *)
ExecutedIsAuthorized ==
    \A x \in executions :
        LET trial == Row(x[2])
            authorization == Row(trial.authorization)
            evaluation == Row(authorization.evaluation)
            proposal == Row(evaluation.proposal)
            verification == Row(proposal.verification)
            finding == Row(verification.finding)
        IN
        /\ Chain(<<verification.finding, proposal.verification, evaluation.proposal, authorization.evaluation,
                   trial.authorization, trial.inspection, x[2]>>,
                 <<"finding_submitted", "finding_verified", "candidate_proposed", "candidate_evaluated",
                   "trial_authorized", "inspection_requested", "trial_started">>)
        /\ verification.verdict = "confirmed" /\ verification.actor # finding.actor
        /\ evaluation.verdict = "passed"
        /\ {evaluation.pin, authorization.pin, trial.pin} = {proposal.pin}
        /\ trial.at <= authorization.expires
        /\ \A n \in 1 .. Len(log) : log[n].case = trial.case =>
              /\ log[n].kind = "inspection_requested" =>
                    \/ n <= Position(authorization.id)
                    \/ n >= Position(trial.inspection)
              /\ log[n].kind = "trial_revoked" => n > Position(trial.id)

(* A completion in the log reports an execution whose outcome is sealed in  *)
(* a receipt, as it was, and nobody had revoked the trial by then.          *)
CompletedIsMeasured ==
    \A i \in 1 .. Len(log) : log[i].kind = "trial_completed" =>
        /\ \E x \in executions : x[2] = log[i].trial
        /\ [trial |-> log[i].trial, verdict |-> log[i].verdict] \in receipts
        /\ \A n \in 1 .. Len(log) : ~ (log[n].kind = "trial_revoked" /\ log[n].case = log[i].case)

(* A trial that is announced as completed was measured, once, and with all  *)
(* of its authority.                                                        *)
TrialsAreAuthorized == OneExecution /\ ExecutedIsAuthorized /\ CompletedIsMeasured
=============================================================================
