------------------------------ MODULE MCControls ------------------------------
(* What is checked of the records and of their totals, for TLC: the source  *)
(* controls, the evidence bundle, and the comparisons with a baseline.      *)
(* They share no state: a behaviour is of one of them.                      *)
EXTENDS Integers, FiniteSets, TLC

CONSTANTS
    None, SourceFiles, Strays, MaxCaptures, MaxTests,
    Ledgers, Documents, Families, Cents, MaxGross, MaxEntries, MaxLines,
    ToCome, Months, Kinds, Outputs, Needs, Lenses, Versions, Asked, Roots, MaxCalls

VARIABLES
    system,
    rows, catalog, reading, captures, cutoffs, tests,
    entries, fees, erp, covered, bundle,
    table, code, base, comparison, started, recorded

controls == <<rows, catalog, reading, captures, cutoffs, tests>>
evidence == <<entries, fees, erp, covered, bundle>>
comparisons == <<table, code, base, comparison, started, recorded>>

-----------------------------------------------------------------------------
(* Source controls: a file with a duplicate and an event of another period, *)
(* one with a conflict, one with a line that cannot be read; an event comes *)
(* in beside its capture, or with none.                                     *)
Controls == INSTANCE SourceControls WITH stream <- rows
ASSUME SourcesAssumption == Controls!FilesAreRead

Line(id, body, arrival, inside) == [id |-> id, body |-> body, arrival |-> arrival, inside |-> inside]
lineA == Line(1, "x", 1, TRUE)
otherA == Line(1, "y", 1, TRUE)
lateB == Line(2, "x", 2, TRUE)
outside == Line(3, "x", 1, FALSE)
unreadable == Line(None, "x", 1, TRUE)
stray == Line(4, "x", 1, TRUE)
File(lines, whole) == [lines |-> lines, whole |-> whole]
MCSourceFiles == {File(<<lineA, lateB>>, TRUE), File(<<outside, lineA, lineA>>, TRUE),
                  File(<<lateB, otherA, lineA>>, TRUE), File(<<unreadable, lateB>>, FALSE)}
Beside(line, source) ==
    [id |-> line.id, body |-> line.body, arrival |-> line.arrival, inside |-> line.inside, source |-> source]
MCStrays == {Beside(lineA, "sim:one"), Beside(stray, "sim:two")}

-----------------------------------------------------------------------------
(* The evidence bundle: a control that asks for the bridge alone, one that  *)
(* also asks for approvals, which nothing generates.                        *)
MCAccount == [consumption |-> "4000", subscription |-> "4010"]
MCMatrix == [tieout |-> {"bridge"}, close |-> {"bridge", "approvals"}]
Bundles == INSTANCE EvidenceBundle WITH
    Sources <- Ledgers, Account <- MCAccount, Matrix <- MCMatrix
ASSUME CentsAssumption == Bundles!AmountsAreNumbers

-----------------------------------------------------------------------------
(* The comparisons: two kinds of event, of which one output needs both; one *)
(* row is of the month before, and may come in after the others.            *)
MCToCome ==
    {[id |-> 1, kind |-> "usage", month |-> 2, arrival |-> 1],
     [id |-> 2, kind |-> "credit", month |-> 1, arrival |-> 2]}
MCAsked ==
    {[known |-> 2, asof |-> 2, version |-> "v2"], [known |-> 2, asof |-> 1, version |-> "v2"],
     [known |-> 2, asof |-> 2, version |-> "v3"]}
MCKinds == <<"credit", "usage">>
MCOutputs == {"revenue", "nrr"}
MCNeeds == [o \in MCOutputs |-> IF o = "revenue" THEN {"usage", "credit"} ELSE {"usage"}]
Compared == INSTANCE Comparisons WITH stream <- table, call <- comparison
ASSUME OutputsAssumption == Compared!OutputsAreOfKinds
(* One call more, of one baseline, when all ask for the same.               *)
Retried == INSTANCE Comparisons WITH
    stream <- table, call <- comparison, MaxCalls <- MaxCalls + 1, Roots <- {"alone"},
    Asked <- {ask \in Asked : ask.asof = 2 /\ ask.version = "v2"}

MCSymmetry == Permutations(Roots)

-----------------------------------------------------------------------------
MCInit ==
    /\ system \in {"controls", "evidence", "comparisons", "retried"}
    /\ Controls!Init /\ Bundles!Init
    /\ IF system = "retried" THEN Retried!Init ELSE Compared!Init
    /\ system # "evidence" => fees = [i \in Ledgers \X Documents |-> 0] /\ ~covered
MCNext ==
    /\ UNCHANGED system
    /\ \/ system = "controls" /\ Controls!Next /\ UNCHANGED <<evidence, comparisons>>
       \/ system = "evidence" /\ Bundles!Next /\ UNCHANGED <<controls, comparisons>>
       \/ system = "comparisons" /\ Compared!Next /\ UNCHANGED <<controls, evidence>>
       \/ system = "retried" /\ Retried!Next /\ UNCHANGED <<controls, evidence>>
MCSpec == MCInit /\ [][MCNext]_<<system, controls, evidence, comparisons>>

(* A control test that passed speaks of the whole population, and of events *)
(* that were captured before they came in (controls/sources.py).            *)
(* A retained test can be performed again (controls/evidence.py reproduce). *)
ControlTestsHold == Controls!ControlTestsHold
(* A control passes exactly when its every artifact was generated and the   *)
(* gross revenue ties out, each fee counted once (controls/reconciliation.py*)
(* and controls/evidence.py).                                               *)
BundleTellsTheTruth == Bundles!BundleTellsTheTruth
(* Both sides of a comparison see the same rows, and a difference comes of  *)
(* the policies unless the baseline was kept, left half built or made for   *)
(* other dates or another definition (views/benchmark.py, dim_date.sql);    *)
(* the code it names has computed it, and it replays after its baseline is  *)
(* gone (compare/engine.py).                                                *)
ComparisonsHold == Compared!ComparisonsHold
=============================================================================
