----------------------------- MODULE StreamStore -----------------------------
(***************************************************************************)
(* The canonical event stream, src/tl/stream/store.py, with the application *)
(* binding of src/tl/stream/binding.py and the frozen snapshots of          *)
(* StreamReader.                                                            *)
(*                                                                          *)
(* Writers hold database connections: a call runs in one transaction over   *)
(* the table it saw at its start, and the database refuses, at the latest   *)
(* at COMMIT, a row whose key or position another transaction has taken.    *)
(* Connections of different processes exclude each other, which only takes  *)
(* interleavings away.                                                      *)
(***************************************************************************)
EXTENDS Integers, Sequences, FiniteSets

CONSTANTS
    Writers,                \* connections that append
    Apps,                   \* application identities a stream can be bound to
    NoApp,                  \* no binding; a source outside every application
    Timelines, Bodies,      \* an event's customer and activity, and the rest of it
    Calls,                  \* what a writer may be asked to append
    Backups,                \* row sets a writer may be asked to restore
    BatchSize,              \* rows per INSERT
    MaxClock,               \* bound: the last instant
    Horizons,               \* pairs <<reporting date, knowledge cutoff>> in use
    NoCall, NoResult

Instant == 0 .. MaxClock
Lane == {"sim", "dev"}
Incoming == [id : Nat, ts : Nat, timeline : Timelines, body : Bodies, marker : BOOLEAN, at : Nat]
Row == [id : Nat, ts : Nat, timeline : Timelines, body : Bodies, marker : BOOLEAN,
        recorded : Nat, source : Apps \cup {NoApp}, lane : Lane, pos : Nat \ {0}]

ASSUME NoAppAssumption == NoApp \notin Apps
ASSUME BatchSizeAssumption == BatchSize \in Nat \ {0}
ASSUME MaxClockAssumption == MaxClock \in Nat
ASSUME CallsAssumption ==
    Calls \subseteq [lane : Lane, source : Apps \cup {NoApp}, binding : Apps \cup {NoApp},
                     newWorld : BOOLEAN, initializing : BOOLEAN, events : Seq(Incoming)]
(* A backup is an export of a table, whose key is the event ID.             *)
ASSUME BackupsAssumption ==
    \A rows \in Backups : /\ rows \subseteq Row /\ IsFiniteSet(rows)
                          /\ \A r, q \in rows : r.id = q.id => r = q

VARIABLES
    exists,                 \* the database file has its schema
    table,                  \* the committed rows of stream.activity
    clock,                  \* datetime.now
    pc,                     \* the step a writer is at
    call,                   \* what it was asked to append or restore
    arrival,                \* the instant its append call took at its start
    base,                   \* the committed table its transaction sees
    staged,                 \* the rows its transaction has inserted
    done,                   \* the events it has consumed
    acked,                  \* the last call reported done, with its watermark
    reader,                 \* a snapshot between its two connections
    frozen                  \* a snapshot a report retains, with its result

writing == <<pc, call, arrival, base, staged, done>>
reading == <<reader, frozen>>
vars == <<exists, table, clock, writing, acked, reading>>

Ids(rows) == {r.id : r \in rows}
Top(rows) == IF rows = {} THEN 0
             ELSE CHOOSE n \in {r.pos : r \in rows} : \A r \in rows : r.pos <= n

(* Everything of a row but its position, which the INSERT assigns. *)
Content(r) == [id |-> r.id, ts |-> r.ts, timeline |-> r.timeline, body |-> r.body,
               marker |-> r.marker, recorded |-> r.recorded, source |-> r.source,
               lane |-> r.lane]

At(content, pos) == [id |-> content.id, ts |-> content.ts,
    timeline |-> content.timeline, body |-> content.body,
    marker |-> content.marker, recorded |-> content.recorded,
    source |-> content.source, lane |-> content.lane, pos |-> pos]

(* prepare_row: the row a call makes of an event.  A live event is recorded *)
(* at the start of the call, a simulated one at its simulated arrival.      *)
Prepared(c, now, e) ==
    [id |-> e.id, ts |-> e.ts, timeline |-> e.timeline, body |-> e.body,
     marker |-> e.marker, recorded |-> IF c.lane = "sim" THEN e.at ELSE now,
     source |-> c.source, lane |-> c.lane]

-----------------------------------------------------------------------------
(* check_binding: an unbound connection refuses a stream with any trace of  *)
(* an application; a bound one wants the marker of its application in       *)
(* position 1 and no row of another origin.  The marker's body names the    *)
(* application.                                                             *)
Traces(rows) == {r \in rows : r.marker \/ r.source # NoApp}

BoundTo(rows, app) ==
    /\ \E m \in Traces(rows) : /\ m.marker
                               /\ m.pos = 1
                               /\ m.body = app
                               /\ m.source = app
                               /\ \A r \in Traces(rows) : m.pos <= r.pos
                               /\ \A r \in rows : r.marker => r.id = m.id
    /\ \A r \in rows : r.source = app /\ r.lane = "dev"

CheckBinding(rows, app, initializing) ==
    IF app = NoApp THEN Traces(rows) = {}
    ELSE (initializing /\ rows = {}) \/ BoundTo(rows, app)

-----------------------------------------------------------------------------
Init ==
    /\ exists = FALSE
    /\ table = {}
    /\ clock = 0
    /\ pc = [w \in Writers |-> "idle"]
    /\ call = [w \in Writers |-> NoCall]
    /\ arrival = [w \in Writers |-> 0]
    /\ base = [w \in Writers |-> {}]
    /\ staged = [w \in Writers |-> {}]
    /\ done = [w \in Writers |-> 0]
    /\ acked = NoCall
    /\ reader = NoCall
    /\ frozen = NoResult

Tick ==
    /\ clock < MaxClock
    /\ clock' = clock + 1
    /\ UNCHANGED <<exists, table, writing, acked, reading>>

(* Stream.init: CREATE TABLE IF NOT EXISTS, in its own connection. *)
CreateStream ==
    /\ ~ exists
    /\ exists' = TRUE
    /\ UNCHANGED <<table, clock, writing, acked, reading>>

(* The call returns, raises (ROLLBACK) or its process dies. *)
Leave(w) ==
    /\ pc' = [pc EXCEPT ![w] = "idle"]
    /\ call' = [call EXCEPT ![w] = NoCall]
    /\ arrival' = [arrival EXCEPT ![w] = 0]
    /\ base' = [base EXCEPT ![w] = {}]
    /\ staged' = [staged EXCEPT ![w] = {}]
    /\ done' = [done EXCEPT ![w] = 0]

(* append, append_simulation: the instant is taken before the connection.   *)
StartAppend(w) ==
    /\ pc[w] = "idle"
    /\ \E c \in Calls : call' = [call EXCEPT ![w] = c]
    /\ arrival' = [arrival EXCEPT ![w] = clock]
    /\ pc' = [pc EXCEPT ![w] = "called"]
    /\ UNCHANGED <<exists, table, clock, base, staged, done, acked, reading>>

(* _write: BEGIN, the binding check, and the refusal of a second world. *)
BeginWrite(w) ==
    /\ pc[w] = "called"
    /\ IF /\ exists
          /\ CheckBinding(table, call[w].binding, call[w].initializing)
          /\ call[w].newWorld => table = {}
       THEN /\ base' = [base EXCEPT ![w] = table]
            /\ pc' = [pc EXCEPT ![w] = "load"]
            /\ UNCHANGED <<call, arrival, staged, done>>
       ELSE Leave(w)
    /\ UNCHANGED <<exists, table, clock, acked, reading>>

View(w) == base[w] \cup staged[w]

(* The rows of the next batch of a call, without positions. *)
NextBatch(w) ==
    {Prepared(call[w], arrival[w], call[w].events[i]) : i \in
        {j \in 1 .. Len(call[w].events) : done[w] < j /\ j <= done[w] + BatchSize}}

(* An admitted row and an incoming one of the same key disagree.  A live    *)
(* retry has a new arrival time; a simulated one must repeat it.            *)
Disagrees(new, old) ==
    /\ new.id = old.id
    /\ \/ [Content(old) EXCEPT !.recorded = new.recorded] # new
       \/ new.lane = "sim" /\ new.recorded # old.recorded

(* prepare_row and _insert_batch accept the batch. *)
BatchAccepted(rows, batch, newWorld) ==
    /\ \A r \in batch : r.recorded >= r.ts
    /\ \A r, q \in batch : r.id = q.id => r = q
    /\ IF newWorld THEN Ids(batch) \cap Ids(rows) = {}
       ELSE \A r \in batch, s \in rows : ~ Disagrees(r, s)

(* The ANTI JOIN, and dense positions in the order of the keys. *)
Fresh(rows, batch) == {r \in batch : r.id \notin Ids(rows)}
Placed(rows, batch) ==
    {At(r, Top(rows) + Cardinality({q \in Fresh(rows, batch) : q.id <= r.id})) :
        r \in Fresh(rows, batch)}

(* Mutation: every batch is committed on its own. *)
InsertBatchAndCommit(w) ==
    /\ pc[w] = "load"
    /\ done[w] < Len(call[w].events)
    /\ IF BatchAccepted(View(w), NextBatch(w), call[w].newWorld)
       THEN /\ table' = table \cup Placed(View(w), NextBatch(w))
            /\ base' = [base EXCEPT ![w] = table']
            /\ done' = [done EXCEPT ![w] = @ + BatchSize]
            /\ UNCHANGED <<pc, call, arrival, staged>>
       ELSE Leave(w) /\ UNCHANGED table
    /\ UNCHANGED <<exists, clock, acked, reading>>

InsertBatch(w) ==
    /\ pc[w] = "load"
    /\ done[w] < Len(call[w].events)
    /\ IF BatchAccepted(View(w), NextBatch(w), call[w].newWorld)
       THEN /\ staged' = [staged EXCEPT ![w] = @ \cup Placed(View(w), NextBatch(w))]
            /\ done' = [done EXCEPT ![w] = @ + BatchSize]
            /\ UNCHANGED <<pc, call, arrival, base>>
       ELSE Leave(w)
    /\ UNCHANGED <<exists, table, clock, acked, reading>>

(* Mutation: positions are not UNIQUE. *)
NoKeyClash(w) == \A r \in staged[w], s \in table \ base[w] : r.id # s.id

(* PRIMARY KEY and UNIQUE, against what was committed meanwhile. *)
NoClash(w) ==
    \A r \in staged[w], s \in table \ base[w] : r.id # s.id /\ r.pos # s.pos

Commit(w) ==
    /\ pc[w] = "load"
    /\ done[w] >= Len(call[w].events)
    /\ IF CheckBinding(View(w), call[w].binding, FALSE) /\ NoClash(w)
       THEN /\ table' = table \cup staged[w]
            /\ acked' = [call |-> call[w], watermark |-> Top(View(w))]
       ELSE UNCHANGED <<table, acked>>
    /\ Leave(w)
    /\ UNCHANGED <<exists, clock, reading>>

(* restore: a new path, a complete prefix 1..n, then init() creates the     *)
(* file in a connection of its own.                                         *)
StartRestore(w) ==
    /\ pc[w] = "idle"
    /\ ~ exists
    /\ exists' = TRUE
    /\ \E rows \in Backups, app \in Apps \cup {NoApp} :
          /\ {r.pos : r \in rows} = 1 .. Cardinality(rows)
          /\ \A r \in rows : r.recorded >= r.ts
          /\ staged' = [staged EXCEPT ![w] = rows]
          /\ call' = [call EXCEPT ![w] = [binding |-> app]]
    /\ pc' = [pc EXCEPT ![w] = "restore"]
    /\ UNCHANGED <<table, clock, arrival, base, done, acked, reading>>

(* ... and its rows are inserted, with their positions, in one transaction. *)
CommitRestore(w) ==
    /\ pc[w] = "restore"
    /\ table' = IF CheckBinding(table \cup staged[w], call[w].binding, FALSE) /\ NoClash(w)
                THEN table \cup staged[w] ELSE table
    /\ Leave(w)
    /\ UNCHANGED <<exists, clock, acked, reading>>

Crash(w) ==
    /\ pc[w] # "idle"
    /\ Leave(w)
    /\ UNCHANGED <<exists, table, clock, acked, reading>>

-----------------------------------------------------------------------------
(* logical_sql: the rows known at the cutoff, about events before the end   *)
(* of the reporting date, within the watermark; among them each event's     *)
(* occurrence number and the time of the next one on its timeline.          *)
Visible(asof, cutoff, watermark) ==
    {r \in table : r.recorded < cutoff /\ r.ts < asof /\ r.pos <= watermark}

Before(r, q) == r.ts < q.ts \/ (r.ts = q.ts /\ r.id < q.id)

Windows(rows) ==
    {[id |-> r.id,
      occurrence |-> 1 + Cardinality({q \in rows : q.timeline = r.timeline /\ Before(q, r)}),
      later |-> {q.ts : q \in {p \in rows : /\ p.timeline = r.timeline
                                            /\ Before(r, p)
                                            /\ ~ \E o \in rows : /\ o.timeline = r.timeline
                                                                 /\ Before(r, o)
                                                                 /\ Before(o, p)}}] : r \in rows}

(* Mutation: occurrence and next event are those of the unfiltered view.    *)
SnapshotFilteredLast(asof, cutoff, watermark) ==
    {o \in Windows(table) : o.id \in Ids(Visible(asof, cutoff, watermark))}

Snapshot(asof, cutoff, watermark) == Windows(Visible(asof, cutoff, watermark))

(* attach_snapshot: one connection reads the latest position and checks the *)
(* requested watermark against it; the source is attached again later.      *)
ReadLatest ==
    /\ exists
    /\ reader = NoCall
    /\ \E app \in Apps \cup {NoApp} : CheckBinding(table, app, FALSE)
    /\ \E h \in Horizons, watermark \in 0 .. Top(table) :
          reader' = [asof |-> h[1], cutoff |-> h[2], watermark |-> watermark]
    /\ UNCHANGED <<exists, table, clock, writing, acked, frozen>>

Attach ==
    /\ reader # NoCall
    /\ frozen' = [of |-> reader,
                  result |-> Snapshot(reader.asof, reader.cutoff, reader.watermark)]
    /\ reader' = NoCall
    /\ UNCHANGED <<exists, table, clock, writing, acked>>

Next ==
    \/ Tick
    \/ CreateStream
    \/ \E w \in Writers : \/ StartAppend(w)
                          \/ BeginWrite(w)
                          \/ InsertBatch(w)
                          \/ Commit(w)
                          \/ StartRestore(w)
                          \/ CommitRestore(w)
                          \/ Crash(w)
    \/ ReadLatest
    \/ Attach

Spec == Init /\ [][Next]_vars

-----------------------------------------------------------------------------
(* Positions are 1..n, and each is that of an event of its own: what restore  *)
(* demands of a backup, what the warehouse gateway and its laptop writer take *)
(* offsets from, and what makes a watermark name one prefix.  Writers number  *)
(* from what was committed when they began.                                   *)
PositionsNumberTheEvents ==
    /\ {r.pos : r \in table} = 1 .. Cardinality(table)
    /\ \A r, q \in table : r.id = q.id => r = q

(* A commit adds what one call still lacked, whole: no batch of a call is   *)
(* visible without the others.                                              *)
CallsAreAtomic ==
    [][\E w \in Writers :
          \/ pc[w] = "restore" /\ table' = staged[w]
          \/ /\ pc[w] = "load"
             /\ Ids(table') = Ids(table) \cup Ids({call[w].events[i] :
                                   i \in 1 .. Len(call[w].events)})]_table

(* Whoever was told a watermark finds every event of the call within it.    *)
AckedEventsAreInPrefix ==
    acked # NoCall =>
        \A i \in 1 .. Len(acked.call.events) :
            LET event == acked.call.events[i]
            IN  \E r \in table :
                    /\ r.id = event.id
                    /\ r.pos <= acked.watermark
                    /\ ~ Disagrees(Prepared(acked.call, r.recorded, event), r)

(* A stream is unbound, or bound to one application from its first row on,  *)
(* although every writer checks the binding only in its own transaction.    *)
OneApplication ==
    Traces(table) = {} \/ \E app \in Apps : BoundTo(table, app)

(* A report that retained its watermark finds the same rows, occurrence     *)
(* numbers and next events whenever it is replayed, late events included.   *)
FrozenSnapshotIsStable ==
    frozen # NoResult =>
        Snapshot(frozen.of.asof, frozen.of.cutoff, frozen.of.watermark) = frozen.result

(* The committed table is one that every later writer can extend: numbered  *)
(* and keyed without gaps, and of one application.                          *)
TableIsSound == PositionsNumberTheEvents /\ OneApplication

(* What a watermark covers is settled when it is told: the events of the    *)
(* call that was told it, and the snapshot a report freezes at it.          *)
WatermarksAreFinal == AckedEventsAreInPrefix /\ FrozenSnapshotIsStable
=============================================================================
