---------------------------- MODULE SourceControls ----------------------------
(***************************************************************************)
(* The completeness control: a source file is captured before its events    *)
(* are ingested, the events are appended, a metric run freezes what it has  *)
(* seen, and the control test reconciles the frozen rows of the period with *)
(* the captured observations.  The test retains the bytes it read, so that  *)
(* it can be performed again.  Meanwhile others append, the same events are *)
(* brought in by another way, and the catalog is edited.                    *)
(***************************************************************************)
EXTENDS Integers, FiniteSets, Sequences

CONSTANTS
    None,
    SourceFiles,        \* source files: their lines, and whether they claim to
                        \* cover the whole of the period
    Strays,             \* rows that enter the stream beside the captures
    MaxCaptures, MaxTests

VARIABLES
    stream,             \* the rows, in their positions
    catalog,            \* the version of the activity catalog
    reading,            \* the capture under way: what it has read
    captures,           \* the captures on disk
    cutoffs,            \* the frozen cutoffs of metric runs
    tests               \* the retained control tests

vars == <<stream, catalog, reading, captures, cutoffs, tests>>

(* A file is read line by line; the ID of a line that can be read is not    *)
(* that of one that cannot.                                                 *)
FilesAreRead ==
    \A file \in SourceFiles :
        /\ Len(file.lines) \in Nat /\ DOMAIN file.lines = 1 .. Len(file.lines)
        /\ \A i \in DOMAIN file.lines : file.lines[i].id # None => file.lines[i].id \in Int

Sources == {"sim:one", "sim:two"}
Ids(rows) == {r.id : r \in rows}
Stored == {stream[i] : i \in DOMAIN stream}

TypeOK ==
    /\ catalog \in 1 .. 2
    /\ \A i \in DOMAIN stream : stream[i].inside \in BOOLEAN
    /\ \A c \in captures : c.watermark \in 0 .. Len(stream)
    /\ \A f \in cutoffs : f.watermark \in 0 .. Len(stream)

Init ==
    /\ stream = << >>
    /\ catalog = 1
    /\ reading = None
    /\ captures = {} /\ cutoffs = {} /\ tests = {}

-----------------------------------------------------------------------------
(* A line is an event with its arrival, or cannot be read.  A second line   *)
(* of an ID is measured against the first.                                  *)
Earlier(lines, i) == {j \in 1 .. i - 1 : lines[j].id = lines[i].id}
SameLine(l, m) == l.body = m.body /\ l.arrival = m.arrival /\ l.inside = m.inside
Standing(lines, i) ==
    CASE lines[i].id = None -> "rejected"
      [] lines[i].id # None /\ Earlier(lines, i) = {} -> "accepted"
      [] OTHER -> LET first == CHOOSE j \in Earlier(lines, i) :
                                  \A k \in Earlier(lines, i) : j <= k
                  IN  IF SameLine(lines[i], lines[first]) THEN "duplicate" ELSE "conflict"
Observed(c, standings) ==
    {c.lines[i] : i \in {j \in DOMAIN c.lines : Standing(c.lines, j) \in standings}}

(* The file is read first, then the length of the stream, then its IDs: an  *)
(* event that has come in by then is no longer evidence of its source.      *)
ReadFile ==
    /\ reading = None /\ Cardinality(captures) < MaxCaptures
    /\ \E file \in SourceFiles, source \in Sources :
          reading' = [lines |-> file.lines, source |-> source, whole |-> file.whole,
                      catalog |-> catalog, watermark |-> None, before |-> Ids(Stored)]
    /\ UNCHANGED <<stream, catalog, captures, cutoffs, tests>>
ReadWatermark ==
    /\ reading # None /\ reading.watermark = None
    /\ reading' = [reading EXCEPT !.watermark = Len(stream)]
    /\ UNCHANGED <<stream, catalog, captures, cutoffs, tests>>
Named(c) == {c.lines[i].id : i \in DOMAIN c.lines}
Capture ==
    /\ reading # None /\ reading.watermark # None
    /\ captures' = IF Named(reading) \cap Ids(Stored) = {}
                   THEN captures \cup {reading} ELSE captures
    /\ reading' = None
    /\ UNCHANGED <<stream, catalog, cutoffs, tests>>

(* A capture is loaded under the catalog it was made with, or not at all.   *)
Loadable(c) == c.catalog = catalog

RowOf(line, source) ==
    [id |-> line.id, body |-> line.body, arrival |-> line.arrival,
     inside |-> line.inside, source |-> source]
(* An ID that is stored with another content stops the append; what is      *)
(* stored already is not stored again, the rest in the order of the IDs.    *)
Admits(rows) == \A r \in rows, s \in Stored : r.id = s.id => r = s
Rank(rows, r) == Cardinality({s \in rows : s.id <= r.id})
InOrder(rows) == [n \in 1 .. Cardinality(rows) |-> CHOOSE r \in rows : Rank(rows, r) = n]
Ingest(c) ==
    /\ Loadable(c)
    /\ Observed(c, {"conflict"}) = {}
    /\ LET rows == {RowOf(l, c.source) : l \in Observed(c, {"accepted"})}
       IN  Admits(rows) /\ stream' = stream \o InOrder(rows \ Stored)
    /\ UNCHANGED <<catalog, reading, captures, cutoffs, tests>>

(* Rows that come by another way: of no capture, or of a captured ID.       *)
OthersAppend ==
    /\ \E r \in Strays : Admits({r}) /\ r \notin Stored /\ stream' = Append(stream, r)
    /\ UNCHANGED <<catalog, reading, captures, cutoffs, tests>>

EditCatalog ==
    /\ catalog = 1
    /\ catalog' = 2
    /\ UNCHANGED <<stream, reading, captures, cutoffs, tests>>

(* A metric run freezes its watermark and the time up to which it knows.    *)
Freeze ==
    /\ cutoffs = {}
    /\ \E known \in {r.arrival : r \in Stored} :
          cutoffs' = {[watermark |-> Len(stream), known |-> known]}
    /\ UNCHANGED <<stream, catalog, reading, captures, tests>>

-----------------------------------------------------------------------------
(* Mutation: the watermark is not applied to the rows of the period. *)
ByArrival(f) == {i \in DOMAIN stream : stream[i].inside /\ stream[i].arrival <= f.known}

(* The rows of the period that a cutoff sees: those that reconcile with it. *)
Table(f) ==
    {i \in 1 .. f.watermark : stream[i].inside /\ stream[i].arrival <= f.known}

Population(c) == {l \in Observed(c, {"accepted"}) : l.inside}
Overlapping(chosen) ==
    \E c, d \in chosen :
        c # d /\ (c.source = d.source \/ Ids(Population(c)) \cap Ids(Population(d)) # {})

Missing(table, c) == {l \in Population(c) : \A i \in table : stream[i].id # l.id}
Altered(table, c) ==
    {l \in Population(c) : \E i \in table :
        stream[i].id = l.id /\ stream[i] # RowOf(l, c.source)}
NotBefore(table, c) ==
    {l \in Population(c) : \E i \in table : stream[i].id = l.id /\ i <= c.watermark}
Unexpected(table, chosen) ==
    {i \in table : \A c \in chosen : stream[i].id \notin Ids(Population(c))}
Reconciles(table, chosen) ==
    /\ \A c \in chosen :
          /\ c.whole
          /\ Observed(c, {"rejected", "conflict"}) = {}
          /\ Missing(table, c) = {}
          /\ Altered(table, c) = {}
          /\ NotBefore(table, c) = {}
    /\ Unexpected(table, chosen) = {}

(* What the test says of a cutoff and the captures attached to it.          *)
Verdict(f, chosen) ==
    IF chosen = {} THEN "not_run"
    ELSE IF (\E c \in chosen : ~Loadable(c)) \/ Overlapping(chosen) THEN "refused"
    ELSE IF Reconciles(Table(f), chosen) THEN "passed" ELSE "failed"

(* Captured events that came after the end of the period, and whether the   *)
(* run saw them.                                                            *)
LateArrivals(f, chosen, end) ==
    {[id |-> l.id, visible |-> \E i \in Table(f) : stream[i].id = l.id] :
        l \in {m \in UNION {Population(c) : c \in chosen} : m.arrival >= end}}
PeriodEnd == 2

(* The attachments are retained with the verdict, in the receipt ledger.    *)
Collect ==
    /\ Cardinality(tests) < MaxTests
    /\ \E f \in cutoffs, chosen \in SUBSET captures :
          /\ Verdict(f, chosen) # "refused"
          /\ tests' = tests \cup {[cutoff |-> f, attachments |-> chosen,
                                   verdict |-> Verdict(f, chosen),
                                   late |-> LateArrivals(f, chosen, PeriodEnd)]}
    /\ UNCHANGED <<stream, catalog, reading, captures, cutoffs>>

Next ==
    \/ ReadFile \/ ReadWatermark \/ Capture
    \/ \E c \in captures : Ingest(c)
    \/ OthersAppend \/ EditCatalog \/ Freeze \/ Collect

Spec == Init /\ [][Next]_vars

-----------------------------------------------------------------------------
(* A test that passed vouches for the period: the rows the run saw are the  *)
(* captured events, one for one, and no source file was read when any of    *)
(* its events had already been in the stream.                               *)
PassedIsThePopulation ==
    \A t \in tests : t.verdict = "passed" =>
        LET seen == {stream[i] : i \in Table(t.cutoff)}
            captured == UNION {{RowOf(l, c.source) : l \in Population(c)} : c \in t.attachments}
        IN  /\ seen = captured
            /\ Cardinality(Table(t.cutoff)) = Cardinality(captured)
            /\ \A c \in t.attachments : c.before \cap Ids(Population(c)) = {}

(* Performed again from what it retained, a test says what it said, the     *)
(* late arrivals included, whatever has been appended and ingested since;   *)
(* at most it refuses, because the catalog is another.                      *)
TestsAreReperformable ==
    \A t \in tests :
        /\ Verdict(t.cutoff, t.attachments) \in {t.verdict, "refused"}
        /\ LateArrivals(t.cutoff, t.attachments, PeriodEnd) = t.late

(* A control test says what is so of its population, and does so again.     *)
ControlTestsHold == PassedIsThePopulation /\ TestsAreReperformable
=============================================================================
