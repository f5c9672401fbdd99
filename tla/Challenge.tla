------------------------------ MODULE Challenge ------------------------------
(***************************************************************************)
(* The open-book reporting challenge (src/tl/challenge).  prepare makes a   *)
(* close of which a captured row is missing: the gate holds the first       *)
(* publication, recovery ingests the row and publishes, a retry changes     *)
(* nothing.  What both gates saw is frozen in a proof, whose receipt goes   *)
(* to the ledger before challenge.json points to it.  From then on graders  *)
(* re-perform the proof before they score an answer, and closes are called  *)
(* again, while others append to the source, the code is edited and         *)
(* processes die.  An append to the ledger is atomic, as AtomicLedger says; *)
(* the business half of the fixture replays by itself, as MetricRuns says.  *)
(***************************************************************************)
EXTENDS Integers, Sequences, FiniteSets, FiniteSetsExt, SequencesExt

CONSTANTS
    None,
    Source,         \* the captured rows: [id, known, inside]
    Missing,        \* the one of them that is not imported at first
    Strays,         \* rows that others may append
    MaxStrays,
    Graders,
    Answers,        \* [fixture, tasks]: how each task of an answer compares
    Destinations    \* directories for scorecards

(* The captured rows are finitely many, and None is nothing else.           *)
ValuesAreApart ==
    /\ IsFiniteSet(Source)
    /\ None \notin Graders
    /\ None \notin [inputs : SUBSET (Source \cup Strays), population : SUBSET (Source \cup Strays)]
    /\ \A g \in Graders : [by |-> g, card |-> None] # None

VARIABLES
    stream,         \* the source of the close, row by row
    prep,           \* the process that prepares
    published,      \* publication.json, or None
    proof,          \* run.json, or None
    pointer,        \* challenge.json exists
    ledger,         \* the receipts of the challenge
    grader,         \* the graders
    retention,      \* who holds the score-retention lock
    scores,         \* the score directories: None, or who made it and its scorecard
    code            \* the version of the code in the checkout

vars == <<stream, prep, published, proof, pointer, ledger, grader, retention, scores, code>>
fixture == <<prep, published, proof, pointer>>
grading == <<grader, retention, scores>>

(***************************************************************************)
(* close.py                                                                 *)
(***************************************************************************)
Positions(s, watermark) == {i \in 1 .. watermark : s[i].known}
Seen(s, watermark) == {s[i] : i \in Positions(s, watermark)}

(* Every captured row of the period is there, and no other.                 *)
Reconciles(rows) == {r \in rows : r.inside} = Source

Gate(s, watermark) ==
    [status |-> IF Reconciles(Seen(s, watermark)) THEN "ready" ELSE "held",
     inputs |-> Seen(s, watermark),
     watermark |-> Max({0} \cup Positions(s, watermark))]

(* What is on record already is not inserted again.                         *)
Ingested(s) == s \o SetToSeq(Source \ ToSet(s))

Publication(decision) ==
    IF decision.status = "held" THEN "held"
    ELSE IF published = None THEN "to be published"
    ELSE IF published.inputs # decision.inputs THEN "immutable"
    ELSE "already_published"

TypeOK ==
    /\ ToSet(stream) \subseteq Source \cup Strays
    /\ prep.at \in {"new", "captured", "imported", "held", "recovering", "publishing", "published",
                    "retried", "derived", "sealed", "ledgered", "over"}
    /\ pointer \in BOOLEAN /\ code \in 1 .. 2
    /\ retention \in Graders \cup {None}
    /\ \A g \in Graders : grader[g].at \in
          {"new", "verifying", "verified", "retaining", "retained", "writing", "over", "refused"}

(* A call of grade: its answer, where its scorecard goes, the receipts it    *)
(* read under the lock and the time it took.                                *)
Grading(at, answer, destination) ==
    [at |-> at, answer |-> answer, to |-> destination, retained |-> {}, elapsed |-> None]

Init ==
    /\ stream = << >>
    /\ prep = [at |-> "new", pins |-> None, failed |-> None, recovered |-> None, inserted |-> None]
    /\ published = None /\ proof = None /\ pointer = FALSE
    /\ ledger = {}
    /\ grader = [g \in Graders |-> Grading("new", None, None)]
    /\ retention = None
    /\ scores = [d \in Destinations |-> None]
    /\ code = 1

Step(from, to) == prep.at = from /\ prep' = [prep EXCEPT !.at = to]

Capture ==
    /\ prep.at = "new"
    /\ prep' = [prep EXCEPT !.at = "captured", !.pins = code]
    /\ UNCHANGED <<stream, published, proof, pointer, ledger, grading, code>>

Import ==
    /\ Step("captured", "imported")
    /\ stream' = stream \o SetToSeq(Source \ {Missing})
    /\ UNCHANGED <<published, proof, pointer, ledger, grading, code>>

(* The first publication is held; what the gate saw is retained.            *)
Hold ==
    /\ prep.at = "imported"
    /\ LET decision == Gate(stream, Len(stream))
       IN  /\ Publication(decision) = "held"
           /\ prep' = [prep EXCEPT !.at = "held", !.failed = decision]
    /\ UNCHANGED <<stream, published, proof, pointer, ledger, grading, code>>

Recover ==
    /\ Step("held", "recovering")
    /\ stream' = Ingested(stream)
    /\ UNCHANGED <<published, proof, pointer, ledger, grading, code>>

Admit ==
    /\ prep.at = "recovering"
    /\ LET decision == Gate(stream, Len(stream))
       IN  /\ Publication(decision) = "to be published"
           /\ prep' = [prep EXCEPT !.at = "publishing", !.recovered = decision]
    /\ UNCHANGED <<stream, published, proof, pointer, ledger, grading, code>>

(* The accounts are computed from the rows that were admitted.              *)
Publish ==
    /\ Step("publishing", "published")
    /\ published' = [inputs |-> prep.recovered.inputs,
                     population |-> Seen(stream, prep.recovered.watermark)]
    /\ UNCHANGED <<stream, proof, pointer, ledger, grading, code>>

(* The retry may be held; it must not insert, nor find a changed source.    *)
Retry ==
    /\ prep.at = "published"
    /\ Ingested(stream) = stream
    /\ Publication(Gate(stream, Len(stream))) # "immutable"
    /\ prep' = [prep EXCEPT !.at = "retried", !.inserted = 0]
    /\ UNCHANGED <<stream, published, proof, pointer, ledger, grading, code>>

(***************************************************************************)
(* engine.py: the proof, derived again from the frozen watermarks.          *)
(***************************************************************************)
Derives(failed, recovered) ==
    /\ LET before == Gate(stream, failed.watermark)
           after == Gate(stream, recovered.watermark)
       IN  /\ before.inputs = failed.inputs /\ before.status = "held"
           /\ after.inputs = recovered.inputs /\ after.status = "ready"
           /\ Source \ before.inputs = {Missing}
           /\ published.inputs = after.inputs
    /\ Seen(stream, recovered.watermark) = published.population

Derive ==
    /\ Step("retried", "derived")
    /\ Derives(prep.failed, prep.recovered)
    /\ UNCHANGED <<stream, published, proof, pointer, ledger, grading, code>>

(* No proof is made of code that was edited meanwhile.                      *)
WriteRun ==
    /\ Step("derived", "sealed")
    /\ code = prep.pins
    /\ proof' = [pins |-> prep.pins, failed |-> prep.failed, recovered |-> prep.recovered,
                 inserted |-> prep.inserted]
    /\ UNCHANGED <<stream, published, pointer, ledger, grading, code>>

Proof == [kind |-> "proof", of |-> proof]
AppendProof ==
    /\ Step("sealed", "ledgered")
    /\ ledger' = ledger \cup {Proof}
    /\ UNCHANGED <<stream, published, proof, pointer, grading, code>>

(* expected.json and, last, challenge.json, with the hashes of what it       *)
(* points to.                                                               *)
WritePointer ==
    /\ Step("ledgered", "over")
    /\ pointer' = TRUE
    /\ UNCHANGED <<stream, published, proof, ledger, grading, code>>

(* A check that fails, or death: the directory is not taken up again.       *)
Stop ==
    /\ prep.at \notin {"new", "over"}
    /\ prep' = [prep EXCEPT !.at = "over"]
    /\ UNCHANGED <<stream, published, proof, pointer, ledger, grading, code>>

Loads == pointer /\ Proof \in ledger
Verifies == Loads /\ code = proof.pins /\ Derives(proof.failed, proof.recovered)

(***************************************************************************)
(* close, called again: at one of the proof's watermarks, or to recover.    *)
(* What it answers; all that it could do is to ingest, or to publish.       *)
(***************************************************************************)
CloseAnswers(call) ==
    IF call = "recovery" THEN Publication(Gate(Ingested(stream), Len(Ingested(stream))))
    ELSE Publication(Gate(stream, proof[call].watermark))

(***************************************************************************)
(* grade.py                                                                 *)
(***************************************************************************)
Score(answer) ==
    IF answer.fixture = "this" /\ \A t \in DOMAIN answer.tasks : answer.tasks[t] \in {"exact", "in tolerance"}
    THEN "pass" ELSE "fail"

(* The score receipt is of the answer alone, the observation of its time.   *)
ScoreReceipt(answer) == [kind |-> "score", answer |-> answer, status |-> Score(answer)]
Observation(answer, elapsed) == [kind |-> "observation", answer |-> answer, elapsed |-> elapsed]

Goto(g, at) == grader' = [grader EXCEPT ![g].at = at]

BeginGrade(g, answer, destination) ==
    /\ pointer /\ grader[g].at = "new" /\ scores[destination] = None
    /\ grader' = [grader EXCEPT ![g] = Grading("verifying", answer, destination)]
    /\ UNCHANGED <<stream, fixture, ledger, retention, scores, code>>

(* All evidence is re-performed; other code than the fixture's may replay   *)
(* it, but not score.                                                       *)
Verify(g) ==
    /\ grader[g].at = "verifying" /\ Verifies
    /\ Goto(g, "verified")
    /\ UNCHANGED <<stream, fixture, ledger, retention, scores, code>>

(* Mutation: graders retain their scores beside one another. *)
NoLock == TRUE
RetentionIsFree == retention = None

ReadRetained(g) ==
    /\ grader[g].at = "verified" /\ RetentionIsFree
    /\ retention' = g
    /\ grader' = [grader EXCEPT ![g].at = "retaining", ![g].retained = ledger]
    /\ UNCHANGED <<stream, fixture, ledger, scores, code>>

Pending(g, elapsed) ==
    {ScoreReceipt(grader[g].answer), Observation(grader[g].answer, elapsed)} \ grader[g].retained

(* The ledger takes no receipt that it holds.                               *)
Retain(g, elapsed) ==
    /\ grader[g].at = "retaining"
    /\ IF Pending(g, elapsed) \cap ledger = {}
         THEN /\ ledger' = ledger \cup Pending(g, elapsed)
              /\ grader' = [grader EXCEPT ![g].at = "retained", ![g].elapsed = elapsed]
         ELSE UNCHANGED ledger /\ Goto(g, "refused")
    /\ retention' = None
    /\ UNCHANGED <<stream, fixture, scores, code>>

(* A destination that another grader has made meanwhile ends the call.      *)
MakeDestination(g) ==
    /\ grader[g].at = "retained"
    /\ IF scores[grader[g].to] = None
         THEN Goto(g, "writing") /\ scores' = [scores EXCEPT ![grader[g].to] = [by |-> g, card |-> None]]
         ELSE Goto(g, "over") /\ UNCHANGED scores
    /\ UNCHANGED <<stream, fixture, ledger, retention, code>>

WriteCard(g) ==
    /\ grader[g].at = "writing"
    /\ scores' = [scores EXCEPT ![grader[g].to].card =
          [score |-> ScoreReceipt(grader[g].answer),
           timing |-> Observation(grader[g].answer, grader[g].elapsed)]]
    /\ Goto(g, "over")
    /\ UNCHANGED <<stream, fixture, ledger, retention, code>>

DieGrading(g) ==
    /\ grader[g].at \notin {"new", "over", "refused"}
    /\ Goto(g, "over")
    /\ retention' = IF retention = g THEN None ELSE retention
    /\ UNCHANGED <<stream, fixture, ledger, scores, code>>

(***************************************************************************)
(* Everybody else.                                                          *)
(***************************************************************************)
OthersAppend(row) ==
    /\ prep.at # "new" /\ row \notin ToSet(stream)
    /\ Cardinality(ToSet(stream) \cap Strays) < MaxStrays
    /\ stream' = Append(stream, row)
    /\ UNCHANGED <<fixture, ledger, grading, code>>

Edit ==
    /\ code = 1
    /\ code' = 2
    /\ UNCHANGED <<stream, fixture, ledger, grading>>

Next ==
    \/ Capture \/ Import \/ Hold \/ Recover \/ Admit \/ Publish \/ Retry \/ Derive
    \/ WriteRun \/ AppendProof \/ WritePointer \/ Stop
    \/ \E g \in Graders :
          \/ \E answer \in Answers, d \in Destinations : BeginGrade(g, answer, d)
          \/ Verify(g) \/ ReadRetained(g) \/ MakeDestination(g) \/ WriteCard(g) \/ DieGrading(g)
          \/ \E elapsed \in 1 .. 2 : Retain(g, elapsed)
    \/ \E row \in Strays : OthersAppend(row)
    \/ Edit

Spec == Init /\ [][Next]_vars

(***************************************************************************)
(* Properties.                                                              *)
(***************************************************************************)

(* Accounts are published of the rows that the gate let through, whatever   *)
(* comes in after it.                                                       *)
PublishedIsReconciled ==
    published # None => published.population = published.inputs /\ Reconciles(published.population)

(* A prepared challenge is gradable for good, under the code it was made    *)
(* with: a directory that is pointed to holds all that is verified, and the *)
(* frozen watermarks lead to the close that failed and to the one that did  *)
(* not, whatever was appended since.                                        *)
PreparedStays == (pointer /\ code = proof.pins) => Verifies

(* The historical close is held for good, the published one stands, and     *)
(* nothing is published a second time.                                      *)
ClosesAreSettled ==
    Verifies =>
        /\ CloseAnswers("failed") = "held" /\ CloseAnswers("recovered") = "already_published"
        /\ CloseAnswers("recovery") # "to be published" /\ Ingested(stream) = stream

(* No grader is refused for what another one has retained, and a scorecard  *)
(* is that of its only writer, with both receipts in the ledger.            *)
ScoresAreRetained ==
    /\ \A g \in Graders : grader[g].at # "refused"
    /\ \A d \in Destinations : (scores[d] # None /\ scores[d].card # None) =>
          LET card == scores[d].card
              writer == grader[scores[d].by]
          IN  /\ {Proof, card.score, card.timing} \subseteq ledger
              /\ writer.to = d /\ card.score = ScoreReceipt(writer.answer)

ChallengeHolds ==
    PublishedIsReconciled /\ PreparedStays /\ ClosesAreSettled /\ ScoresAreRetained
=============================================================================
