---------------------------- MODULE UsageEvidence ----------------------------
(***************************************************************************)
(* What a private application root keeps of the usage imported into it     *)
(* (tl/reporting/application.py, tl/usage/importer.py): the identity in    *)
(* its configuration, the events on record, and the evidence beside them,  *)
(* from which every event can be made again; and what a report makes of    *)
(* the events (tl/usage/sql).  UsageImport has the commands that write     *)
(* them.                                                                   *)
(***************************************************************************)
EXTENDS Integers, Sequences, Functions

CONSTANTS
    Unknown,         \* a counter that is not known
    Accounts, Sessions,
    Logs,         \* what a session log may say, line by line: a counter, or Unknown
    ReportWindows \* windows of reports

ASSUME LogsAssumption == Logs \subseteq Seq(Nat \union {Unknown})
ASSUME WindowsAssumption == ReportWindows \subseteq [start : Int, end : Int]

VARIABLES
    config,   \* the configuration: "absent", "cut" or the identity it names
    stream,   \* the events on record
    samples,  \* the samples taken, with the account they are claimed for
    packets,  \* the retained packet of each sample
    failures  \* the retained failure records

Bound(identity) == [kind |-> "application_bound", identity |-> identity]

Observed == {e \in stream : e.kind = "usage_observed"}

\* events_for, with the actor that the append adds: one event per line.  The packet's
\* hash is part of it and not of its ID.
EventsFor(n, o) ==
    {[kind |-> "usage_observed", account |-> samples[n].account, session |-> samples[n].session,
      line |-> i, quantity |-> samples[n].lines[i], packet |-> n, actor |-> o] :
        i \in 1 .. Len(samples[n].lines)}

\* A stream belongs to the identity its root's configuration names, whichever calls of
\* initialize were cut off: it has one binding, and no other event without it.
OneIdentity ==
    stream # {} => {e \in stream : e.kind = "application_bound"} = {Bound(config)}

\* verify_packets: the evidence of every event is there, and the event can be made of
\* it again, at any moment a report may ask and whoever died while importing.
EvidencePerforms ==
    /\ \A e \in stream : e.kind = "usage_coverage" =>
          [sample |-> e.sample, actor |-> e.actor] \in failures
    /\ \A e \in Observed : packets[e.packet] = "whole" /\ e \in EventsFor(e.packet, e.actor)

\* However imports overlap, a line of a session is on record once per account: a later
\* sample neither adds to what was admitted first nor restates it.
FirstAdmissionStands ==
    \A e, f \in Observed :
        e.account = f.account /\ e.session = f.session /\ e.line = f.line => e = f

-----------------------------------------------------------------------------
(* The queries of a usage report (tl/usage/sql).  A client keeps one running *)
(* counter per session; the report adds up the growth between neighbouring   *)
(* readings that both lie in its window.  A reading is a record with the     *)
(* instant at, the line of the session log it stood on and the quantity,     *)
(* which may be Unknown.                                                        *)

\* window.py: half-open, whatever the calendar and the time zone.
Within(r, window) == window.start <= r.at /\ r.at < window.end

Earlier(r, s) == r.at < s.at \/ (r.at = s.at /\ r.line < s.line)

\* intervals.sql: every reading with the one before it, which may lie before the window.
Previous(r, readings) ==
    {p \in readings : Earlier(p, r) /\ \A q \in readings : ~ (Earlier(p, q) /\ Earlier(q, r))}

Counted(r, p) ==
    IF Unknown \in {r.quantity, p.quantity} THEN "missing_counter"
    ELSE IF r.quantity < p.quantity THEN "counter_reset" ELSE "observed"

\* Mutation: an interval belongs to the window its end lies in.
StatusAtEnd(r, readings, window) ==
    IF Previous(r, readings) = {} THEN "opening_balance"
    ELSE Counted(r, CHOOSE q \in Previous(r, readings) : TRUE)

Status(r, readings, window) ==
    IF Previous(r, readings) = {} THEN "opening_balance"
    ELSE LET p == CHOOSE q \in Previous(r, readings) : TRUE
         IN  IF p.at < window.start THEN "crosses_window_boundary" ELSE Counted(r, p)

Measured(readings, window) ==
    {r \in readings : Within(r, window) /\ Status(r, readings, window) = "observed"}

Growth(r, readings) == r.quantity - (CHOOSE q \in Previous(r, readings) : TRUE).quantity

\* usage_tokens.sql: unknown as soon as a counter is missing or has been reset.
Tokens(readings, window) ==
    LET statuses == {Status(r, readings, window) : r \in {s \in readings : Within(s, window)}}
        measured == Measured(readings, window)
    IN  IF statuses \cap {"missing_counter", "counter_reset"} # {} \/ measured = {} THEN Unknown
        ELSE SumFunction([r \in measured |-> Growth(r, readings)])

\* What the report is to say: how far the counter has come from the first reading
\* in the window to the last one.
LastReading(readings) == CHOOSE r \in readings : \A s \in readings \ {r} : Earlier(s, r)
FirstReading(readings) == CHOOSE r \in readings : \A s \in readings \ {r} : Earlier(r, s)
SpanOf(readings, window) ==
    LET inside == {r \in readings : Within(r, window)}
    IN  LastReading(inside).quantity - FirstReading(inside).quantity

\* The readings of a session on record, a line of the log being written at each instant.
Readings(account, session) ==
    {[at |-> e.line, line |-> e.line, quantity |-> e.quantity] :
        e \in {f \in Observed : f.account = account /\ f.session = session}}

\* A number in a report is the growth of the counter from the first reading in its
\* window to the last, and is not given when a counter in between was missing or reset.
GrowthIsWithinTheWindow ==
    \A a \in Accounts, s \in Sessions, window \in ReportWindows :
        LET readings == Readings(a, s)
            tokens == Tokens(readings, window)
        IN  tokens # Unknown => tokens = SpanOf(readings, window)
=============================================================================
