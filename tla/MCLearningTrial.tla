--------------------------- MODULE MCLearningTrial ---------------------------
(* Harnesses that measure under pinned code or signed authority, for TLC.   *)
(* They share no state: a behaviour is of one of them.                      *)
(*   - the learning trial, with two packets whose order of collection and   *)
(*     of import is open;                                                   *)
(*   - the diagnostic trial: two runners race for the one authorized run of *)
(*     a case, among events that must be refused;                           *)
(*   - the rehearsal of a disposable deployment, and the walkthrough.       *)
EXTENDS LearningTrial, TLC

CONSTANTS
    Runners, Runner, Events, MaxClock, MaxClaims, Outcomes,
    Blindness, MaxOthers, MaxEdits, MaxAltered

VARIABLES
    system,
    log, minute, flight, runner, claims, receipts, files, executions,
    blind, rows, disturbed, run,
    walk, archived, learned, retained, version, altered

diagnosis == <<log, minute, flight, runner, claims, receipts, files, executions>>
rehearsal == <<blind, rows, disturbed, run>>
walkthrough == <<walk, archived, learned, retained, version, altered>>

Finding(id, case, actor) == [id |-> id, kind |-> "finding_submitted", case |-> case, actor |-> actor]
Verification(id, case, actor, finding, verdict) ==
    [id |-> id, kind |-> "finding_verified", case |-> case, actor |-> actor, finding |-> finding, verdict |-> verdict]
Proposal(id, case, verification) ==
    [id |-> id, kind |-> "candidate_proposed", case |-> case, actor |-> "proposer", verification |-> verification, pin |-> "pin"]
Evaluation(id, case, proposal, verdict, of) ==
    [id |-> id, kind |-> "candidate_evaluated", case |-> case, actor |-> "verifier", proposal |-> proposal,
     verdict |-> verdict, pin |-> of]
Authorization(id, case, proposal, evaluation, expires, nonce) ==
    [id |-> id, kind |-> "trial_authorized", case |-> case, actor |-> "proposer", proposal |-> proposal,
     evaluation |-> evaluation, pin |-> "pin", watermark |-> 4, created |-> 0, expires |-> expires, nonce |-> nonce]
Inspection(id, case) == [id |-> id, kind |-> "inspection_requested", case |-> case, actor |-> "proposer"]
Revocation(id, case, approval) ==
    [id |-> id, kind |-> "trial_revoked", case |-> case, actor |-> "verifier", authorization |-> approval]

MCEvents == {
    Finding(<<"f">>, "c", "proposer"),
    Verification(<<"v">>, "c", "verifier", <<"f">>, "confirmed"),
    Verification(<<"v">>, "c", "proposer", <<"f">>, "confirmed"),
    Proposal(<<"x">>, "c", <<"v">>),
    Evaluation(<<"e">>, "c", <<"x">>, "passed", "pin"),
    Evaluation(<<"e">>, "c", <<"x">>, "passed", "other"),
    Authorization(<<"a">>, "c", <<"x">>, <<"e">>, 0, "n"),
    Inspection(<<"i">>, "c"),
    Inspection(<<"j">>, "c"),
    Revocation(<<"k">>, "c", <<"a">>),
    Finding(<<"g">>, "d", "proposer"),
    Authorization(<<"b">>, "d", <<"x">>, <<"e">>, 1, "m")}

Diagnosis == INSTANCE EvolutionTrial WITH
    Statuses <- Outcomes, clock <- minute
ASSUME EventsAssumption == Diagnosis!EventsAreOfOthers
Rehearsal == INSTANCE AdmissionRehearsal
Walked == INSTANCE Walkthrough WITH rows <- learned, receipts <- retained, code <- version
ASSUME NoConclusionAssumption == Walked!NoneIsNoConclusion

MCSymmetry == Permutations(Callers) \cup Permutations(Runners)

MCInit ==
    /\ system \in {"trial", "diagnosis", "rehearsal", "walkthrough"}
    /\ Init /\ Diagnosis!Init /\ Rehearsal!Init /\ Walked!Init
    /\ system # "rehearsal" => blind = "nothing"
    /\ system # "walkthrough" => archived
MCNext ==
    /\ UNCHANGED system
    /\ \/ /\ system = "trial" /\ Next
          /\ UNCHANGED <<diagnosis, rehearsal, walkthrough>>
       \/ /\ system = "diagnosis" /\ Diagnosis!Next
          /\ UNCHANGED <<vars, rehearsal, walkthrough>>
       \/ /\ system = "rehearsal" /\ Rehearsal!Next
          /\ UNCHANGED <<vars, diagnosis, walkthrough>>
       \/ /\ system = "walkthrough" /\ Walked!Next
          /\ UNCHANGED <<vars, diagnosis, rehearsal>>
MCSpec == MCInit /\ [][MCNext]_<<system, vars, diagnosis, rehearsal, walkthrough>>

-----------------------------------------------------------------------------
(* One execution of a signed authorization, which had it in force, and no   *)
(* completion without it (evolution/trial.py).                              *)
TrialsAreAuthorized == Diagnosis!TrialsAreAuthorized
(* A passed rehearsal overlooked nothing, and a failed one had a reason     *)
(* (native_acceptance.py).                                                  *)
RehearsalTellsTheTruth == Rehearsal!RehearsalTellsTheTruth
(* A walkthrough follows its script, and its outcome is that of the first   *)
(* inspection after the approval (walkthrough.py, run).                     *)
ScriptIsFollowed == Walked!ScriptIsFollowed /\ Walked!OutcomeIsOfTheFirst
(* What replay verifies ran to its seal under the code of the day           *)
(* (walkthrough.py, replay).                                                *)
ReplayTellsTheTruth == Walked!ReplayTellsTheTruth
=============================================================================
