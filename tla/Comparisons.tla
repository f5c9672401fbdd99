----------------------------- MODULE Comparisons -----------------------------
(***************************************************************************)
(* Comparisons of the reporting outputs with an independent baseline.  A    *)
(* call freezes a cutoff of the stream, computes the outputs from the rows  *)
(* it sees (the spine), brings the same rows into the raw tables of a       *)
(* baseline database, lets dbt build the models that are selected, compares *)
(* output by output and records what it found.  Two programs do so: one in  *)
(* a single session, one with a fresh process for each side, in either      *)
(* order.  An incremental call works on a baseline that an earlier call     *)
(* has left; a call may die or fail between any two of its steps.           *)
(*                                                                          *)
(* Both sides implement the same policies: an output is the rows, the dates *)
(* and the NRR definition it is computed from, and the version of the code  *)
(* that computed it.  Outputs made of the same are the same; those made of  *)
(* different things count as different.                                     *)
(***************************************************************************)
EXTENDS Integers, Sequences, FiniteSets

CONSTANTS
    None,
    ToCome,             \* rows that may be appended: [id, kind, month, arrival]
    Months,             \* the months a row or a cutoff may be of
    Kinds,              \* the activities with a raw table, in their order
    Outputs,            \* the registered outputs
    Needs,              \* the kinds an output is computed from
    Lenses,             \* the outputs behind int_nrr_lenses+
    Versions,           \* the NRR definitions: v2, v3
    Asked,              \* what calls ask for: [known, asof, version]
    Roots,              \* directories of baseline databases
    MaxCalls

VARIABLES
    stream,             \* the rows, in their positions
    code,               \* the version of the code in the working tree
    base,               \* the baseline databases, or None
    call,               \* the comparison under way
    started,            \* calls begun so far
    recorded            \* the comparisons whose receipts are in the ledger

vars == <<stream, code, base, call, started, recorded>>

AllKinds == {Kinds[i] : i \in DOMAIN Kinds}
(* A baseline database: its raw tables; the two models that have no raw     *)
(* parent, dim_date of the dates of a call and int_nrr_lenses of its NRR    *)
(* definition; the outputs; whether they are those of the raw tables; and   *)
(* the calendars of the calls since the one that built it in full.          *)
Made ==
    [rows : SUBSET ToCome, calendars : SUBSET SUBSET Months, floor : Versions \cup {None}, code : 1 .. 2]
Bases ==
    [raw : [AllKinds -> (SUBSET ToCome) \cup {None}],
     dim_date : (SUBSET Months) \cup {None}, lenses : Versions \cup {None},
     models : [Outputs -> Made \cup {None}],
     whole : BOOLEAN, calendars : SUBSET SUBSET Months]
(* There are raw tables, and an output is computed from them.               *)
OutputsAreOfKinds ==
    /\ None \notin Bases
    /\ Len(Kinds) \in Nat \ {0} /\ DOMAIN Kinds = 1 .. Len(Kinds)
    /\ Lenses \subseteq Outputs /\ "dim_date" \notin Outputs /\ "int_nrr_lenses" \notin Outputs
    /\ \A ask \in Asked : ask.version \in Versions
    /\ \A o \in Outputs : Needs[o] \subseteq AllKinds
Rows(S, kinds) == {e \in S : e.kind \in kinds}
Visible(f) ==
    {stream[i] : i \in {j \in 1 .. f.watermark : stream[j].arrival <= f.known /\ stream[j].month <= f.asof}}
(* The months from that of the first row seen to the one of the cutoff.     *)
Calendar(f) ==
    {m \in Months : m <= f.asof /\ (m = f.asof \/ \E e \in Visible(f) : e.month <= m)}
Floor(o, version) == IF o \in Lenses THEN version ELSE None
Idle == [at |-> "idle"]
Empty ==
    [raw |-> [k \in AllKinds |-> None], dim_date |-> None, lenses |-> None,
     models |-> [o \in Outputs |-> None], whole |-> FALSE, calendars |-> {}]

TypeOK ==
    /\ code \in 1 .. 2
    /\ base \in [Roots -> Bases \cup {None}]
    /\ call.at \in {"idle", "spine", "project", "build", "judge", "record"}
    /\ \A r \in recorded : r.status \in {"equivalent", "different"}

Init ==
    /\ stream = << >>
    /\ code = 1
    /\ base = [r \in Roots |-> None]
    /\ call = Idle
    /\ started = 0
    /\ recorded = {}

(* Rows come in any order of arrival.                                       *)
AppendEvent ==
    /\ \E e \in ToCome : (\A i \in DOMAIN stream : stream[i] # e) /\ stream' = Append(stream, e)
    /\ UNCHANGED <<code, base, call, started, recorded>>
Edit ==
    /\ code = 1
    /\ code' = 2
    /\ UNCHANGED <<stream, base, call, started, recorded>>

-----------------------------------------------------------------------------
(* The cutoff is frozen once, and handed to whatever reads the stream: how  *)
(* far, what was known when, up to which month; and the NRR definition.     *)
Freeze(ask) ==
    [watermark |-> Len(stream), known |-> ask.known, asof |-> ask.asof, version |-> ask.version]

Begin(program, mode, order, root, ask) ==
    /\ call = Idle /\ started < MaxCalls
    /\ call' = [at |-> IF program = "session" \/ order = "baseline_first" THEN "project" ELSE "spine",
                program |-> program, mode |-> mode, order |-> order, root |-> root,
                pins |-> code, frozen |-> Freeze(ask), spine |-> None,
                next |-> 1, changed |-> {}, sound |-> FALSE, rebuilt |-> {}, baseline |-> None]
    /\ started' = started + 1
    /\ UNCHANGED <<stream, code, base, recorded>>
BeginInSession(mode, root, ask) == Begin("session", mode, "baseline_first", root, ask)
BeginWithWorkers(mode, order, root, ask) ==
    Visible(Freeze(ask)) # {} /\ Begin("workers", mode, order, root, ask)

Spine(f, version) ==
    [o \in Outputs |-> [rows |-> Rows(Visible(f), Needs[o]), calendars |-> {Calendar(f)},
                        floor |-> Floor(o, f.version), code |-> version]]

(* Mutation: the worker reads the stream as it stands. *)
OwnCutoff(f) == [f EXCEPT !.watermark = Len(stream)]
WorkerCutoff(f) == f

(* A worker is a new process: it loads the code it finds, and reads the     *)
(* stream at the cutoff it is given.                                        *)
SpineInWorker ==
    /\ call.at = "spine"
    /\ call' = [call EXCEPT !.at = IF call.order = "baseline_first" THEN "judge" ELSE "project",
                            !.spine = Spine(WorkerCutoff(call.frozen), code)]
    /\ UNCHANGED <<stream, code, base, started, recorded>>

-----------------------------------------------------------------------------
(* The raw tables, kind by kind: each statement commits by itself.  A full  *)
(* projection replaces them; the workers' asks for an empty destination.    *)
Kind == Kinds[call.next]
Projecting(mode) == call.at = "project" /\ call.mode = mode /\ call.next <= Len(Kinds)
Opened == IF base[call.root] = None THEN Empty ELSE base[call.root]
WithRaw(db, kind, raw, whole) ==
    [raw |-> [db.raw EXCEPT ![kind] = raw], dim_date |-> db.dim_date, lenses |-> db.lenses,
     models |-> db.models, whole |-> whole, calendars |-> db.calendars]
ReplaceKind ==
    /\ Projecting("full")
    /\ call.program = "workers" /\ call.next = 1 => base[call.root] = None
    /\ base' = [base EXCEPT ![call.root] =
                   WithRaw(Opened, Kind, Rows(Visible(call.frozen), {Kind}), FALSE)]
    /\ call' = [call EXCEPT !.next = @ + 1, !.sound = TRUE]
    /\ UNCHANGED <<stream, code, started, recorded>>

(* An increment may only add: a raw row that the cutoff does not see stops  *)
(* it, at the kind where it is found.                                       *)
Monotone == Opened.raw[Kind] # None /\ Opened.raw[Kind] \subseteq Visible(call.frozen)
IncreaseKind ==
    /\ Projecting("incremental") /\ Monotone
    /\ LET fresh == Rows(Visible(call.frozen), {Kind}) \ base[call.root].raw[Kind]
       IN  /\ base' = [base EXCEPT ![call.root] =
                           WithRaw(@, Kind, @.raw[Kind] \cup fresh, @.whole /\ fresh = {})]
           /\ call' = [call EXCEPT !.next = @ + 1,
                                   !.changed = IF fresh = {} THEN @ ELSE @ \cup {Kind},
                                   !.sound = IF call.next = 1 THEN base[call.root].whole ELSE @]
    /\ UNCHANGED <<stream, code, started, recorded>>
EndProjection ==
    /\ call.at = "project" /\ call.next > Len(Kinds)
    /\ call.mode = "incremental" => call.changed # {}
    /\ call' = [call EXCEPT !.at = "build"]
    /\ UNCHANGED <<stream, code, base, started, recorded>>
KeepSource ==
    /\ call.at = "project" /\ call.mode = "definition" /\ base[call.root] # None
    /\ call' = [call EXCEPT !.at = "build", !.sound = base[call.root].whole]
    /\ UNCHANGED <<stream, code, base, started, recorded>>

(* dbt builds what is selected: everything, what follows the sources that   *)
(* changed, or the lenses and what follows them.  It is told the dates and  *)
(* the definition of this call, whatever it selects.                        *)
Models == Outputs \cup {"dim_date", "int_nrr_lenses"}
Selected ==
    CASE call.mode = "full" -> Models
      [] call.mode = "definition" -> Lenses \cup {"int_nrr_lenses"}
      [] OTHER -> {o \in Outputs : Needs[o] \cap call.changed # {}}
Parents(o) == IF o \in Lenses THEN {"dim_date", "int_nrr_lenses"} ELSE {"dim_date"}
Db == base[call.root]
Told == Calendar(call.frozen)
DimDate == IF call.mode = "full" THEN Told ELSE Db.dim_date
NrrLenses == IF call.mode = "incremental" THEN Db.lenses ELSE call.frozen.version
Built(o) == [rows |-> UNION {Db.raw[k] : k \in Needs[o]}, calendars |-> {DimDate, Told},
             floor |-> Floor(o, NrrLenses), code |-> code]
Buildable(o) ==
    /\ \A k \in Needs[o] : Db.raw[k] # None
    /\ DimDate # None /\ (o \in Lenses => NrrLenses # None)
WithModels(S, whole) ==
    [raw |-> Db.raw, whole |-> whole,
     dim_date |-> IF "dim_date" \in S THEN DimDate ELSE Db.dim_date,
     lenses |-> IF "int_nrr_lenses" \in S THEN NrrLenses ELSE Db.lenses,
     models |-> [o \in Outputs |-> IF o \in S THEN Built(o) ELSE Db.models[o]],
     calendars |-> IF call.mode = "full" THEN {Told} ELSE Db.calendars \cup {Told}]
Build ==
    /\ call.at = "build" /\ \A o \in Selected \cap Outputs : Buildable(o)
    /\ base' = [base EXCEPT ![call.root] = WithModels(Selected, call.sound)]
    /\ call' = [call EXCEPT !.rebuilt = Selected \cap Outputs,
                            !.at = IF call.program = "workers" /\ call.order = "baseline_first"
                                   THEN "spine" ELSE "judge"]
    /\ UNCHANGED <<stream, code, started, recorded>>
(* A model or a test fails, or dbt dies: what was built stays.  A model is  *)
(* built after its parents.                                                 *)
BuildSome ==
    /\ call.at = "build"
    /\ \E S \in SUBSET Selected :
          /\ \A o \in S \cap Outputs : Buildable(o) /\ Parents(o) \cap Selected \subseteq S
          /\ base' = [base EXCEPT ![call.root] = WithModels(S, FALSE)]
    /\ call' = Idle
    /\ UNCHANGED <<stream, code, started, recorded>>

-----------------------------------------------------------------------------
(* The outputs are compared row for row; what was read is retained.         *)
Judge ==
    /\ call.at = "judge" /\ \A o \in Outputs : base[call.root].models[o] # None
    /\ call' = [call EXCEPT !.at = "record",
                            !.spine = IF call.program = "session" THEN Spine(call.frozen, call.pins) ELSE @,
                            !.baseline = base[call.root].models]
    /\ UNCHANGED <<stream, code, base, started, recorded>>

Agree(left, right) ==
    \A o \in Outputs : /\ left[o].rows = right[o].rows
                       /\ left[o].calendars = right[o].calendars /\ left[o].floor = right[o].floor
Status(left, right) == IF Agree(left, right) THEN "equivalent" ELSE "different"

(* The receipts come last, and only if the code is still the pinned one.    *)
Record ==
    /\ call.at = "record" /\ code = call.pins
    /\ recorded' = recorded \cup
          {[mode |-> call.mode, root |-> call.root, pins |-> call.pins, frozen |-> call.frozen,
            spine |-> call.spine, baseline |-> call.baseline, rebuilt |-> call.rebuilt,
            sound |-> call.sound, calendars |-> Db.calendars, lenses |-> Db.lenses,
            status |-> Status(call.spine, call.baseline)]}
    /\ call' = Idle
    /\ UNCHANGED <<stream, code, base, started>>

(* A check that fails, dbt or its tests, or the death of a process.         *)
Abort ==
    /\ call # Idle
    /\ call' = Idle
    /\ UNCHANGED <<stream, code, base, started, recorded>>

(* Between calls, a suite copies the database of a call, or lets it go.     *)
Clone(r, s) ==
    /\ call = Idle /\ base[r] # None /\ base[s] = None
    /\ base' = [base EXCEPT ![s] = base[r]]
    /\ UNCHANGED <<stream, code, call, started, recorded>>
Release(r) ==
    /\ call = Idle /\ base[r] # None
    /\ base' = [base EXCEPT ![r] = None]
    /\ UNCHANGED <<stream, code, call, started, recorded>>

Modes == {"full", "incremental", "definition"}
Next ==
    \/ AppendEvent \/ Edit
    \/ \E mode \in Modes, root \in Roots, ask \in Asked :
          \/ BeginInSession(mode, root, ask)
          \/ \E order \in {"baseline_first", "spine_first"} :
                BeginWithWorkers(mode, order, root, ask)
    \/ SpineInWorker
    \/ ReplaceKind \/ IncreaseKind \/ EndProjection \/ KeepSource
    \/ Build \/ BuildSome \/ Judge \/ Record \/ Abort
    \/ \E r, s \in Roots : Clone(r, s)
    \/ \E r \in Roots : Release(r)

Spec == Init /\ [][Next]_vars

-----------------------------------------------------------------------------
(* replay: the spine is computed again at the recorded cutoff, the baseline *)
(* is what the run retained; under other code the archive is asked.         *)
ReplaySpine(r) == Spine(r.frozen, code) = r.spine

Replayed(r) ==
    IF code # r.pins THEN "historical"
    ELSE IF ReplaySpine(r) THEN Status(r.spine, r.baseline)
    ELSE "mismatch"

-----------------------------------------------------------------------------
(* The two sides see the same rows, whatever is appended between their      *)
(* readings: a difference comes from the policies, unless the call kept the *)
(* source of an earlier cutoff, worked on a baseline that some call had     *)
(* left half built, or increased one whose dim_date or int_nrr_lenses are   *)
(* not its own: since it was built in full, some call had other dates (a    *)
(* later month, or a row before the first one), or the last to build the    *)
(* lenses had another definition.                                           *)
DifferenceIsReal ==
    \A r \in recorded :
        r.status = "different" =>
            \/ r.mode = "definition" \/ ~r.sound
            \/ r.calendars # {Calendar(r.frozen)} \/ r.lenses # r.frozen.version

(* The code a comparison is filed under has computed the spine and every    *)
(* model that the call built.                                               *)
PopulationsAreAttributed ==
    \A r \in recorded :
        /\ \A o \in Outputs : r.spine[o].code = r.pins
        /\ \A o \in r.rebuilt : r.baseline[o].code = r.pins

(* What was recorded can be verified for good, when the stream has grown    *)
(* and the baseline has been built anew or deleted.                         *)
ComparisonsReplay == \A r \in recorded : Replayed(r) \in {r.status, "historical"}

(* A comparison holds: both sides saw the same rows, named code made it,    *)
(* and it replays.                                                          *)
ComparisonsHold == DifferenceIsReal /\ PopulationsAreAttributed /\ ComparisonsReplay
=============================================================================
