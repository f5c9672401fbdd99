----------------------------- MODULE MCTrialSuite -----------------------------
(* Programs that collect evidence in a directory of their own, for TLC: the  *)
(* suite with its workers, of which two drivers were given the same plan,    *)
(* the denial probes, and the challenge with two graders.  They share        *)
(* nothing: a behaviour is of one.                                           *)
EXTENDS PairedTrial, TLC

CONSTANTS
    Altered, Roles, Actions, Ceilings,
    Source, Missing, Strays, MaxStrays, Graders, Answers, Destinations

VARIABLES
    system,
    table, revision, run, effects, allowed, files, ledger, tampered,
    source_rows, prep, published, proof, pointer, receipts, grader, retention, scores, version

Denials == INSTANCE DenialProbes WITH source <- table, code <- revision

ASSUME DenialsAssumption == Denials!NamedOnce

denials == <<table, revision, run, effects, allowed, files, ledger, tampered>>

Challenged == INSTANCE Challenge WITH stream <- source_rows, ledger <- receipts, code <- version

ASSUME ChallengeAssumption == Challenged!ValuesAreApart

challenge == <<source_rows, prep, published, proof, pointer, receipts, grader, retention, scores, version>>

MCRoles == <<"producer">>
MCActions == <<"update", "copy_overwrite", "metadata_update", "cdc_delete">>

(* A close without its cash; rows of the period, of an earlier one, and of   *)
(* the period but known too late; an answer that is right and one that is not.*)
SourceRow(id, known, inside) == [id |-> id, known |-> known, inside |-> inside]
MCMissing == SourceRow("cash", TRUE, TRUE)
MCSource == {SourceRow("tokens", TRUE, TRUE), MCMissing}
MCStrays == {SourceRow("stray", TRUE, TRUE), SourceRow("earlier", TRUE, FALSE), SourceRow("late", FALSE, TRUE)}
Answer(first, second) == [fixture |-> "this", tasks |-> [failed_close |-> first, july_yield |-> second]]
MCAnswers == {Answer("exact", "in tolerance"), Answer("exact", "off")}

MCSymmetry == Permutations(Drivers) \cup Permutations(Graders) \cup Permutations(Destinations)

MCInit ==
    /\ system \in {"suite", "denials", "challenge"}
    /\ PairInit /\ Denials!Init /\ Challenged!Init
MCNext ==
    /\ UNCHANGED system
    /\ \/ system = "suite" /\ PairNext /\ UNCHANGED <<denials, challenge>>
       \/ system = "denials" /\ Denials!Next /\ UNCHANGED <<pairVars, challenge>>
       \/ system = "challenge" /\ Challenged!Next /\ UNCHANGED <<pairVars, denials>>
MCSpec == MCInit /\ [][MCNext]_<<system, pairVars, denials, challenge>>

-----------------------------------------------------------------------------
(* A sealed refusals_observed covers the matrix truly (denials.py), and what *)
(* verifies is what the run saw (boundary_evidence.py).                      *)
SealedIsTrue == Denials!SealedIsTrue
(* No attempt follows one that took effect, and the queries of a run fit its *)
(* reservation (denials.py).                                                 *)
ProbesAreBounded == Denials!ProbesAreBounded
(* A prepared challenge stays gradable, its closes settled, and graders do   *)
(* not refuse one another (challenge/engine.py, close.py, grade.py).         *)
ChallengeHolds == Challenged!ChallengeHolds
=============================================================================
