------------------------------- MODULE Writer -------------------------------
(***************************************************************************)
(* The replication of a local stream to the BigQuery source table,          *)
(* src/tl/bigquery/writer.py.  append compares the table with the prefix    *)
(* it was given and sends what is missing, in chunks, on a committed write  *)
(* stream of its own, whose name and base position it keeps in a file, so   *)
(* that a later call goes on with the same offsets.  Calls exclude each     *)
(* other by the lock of that file; a request they have sent does not.       *)
(*                                                                          *)
(* A row stands for all its columns, its position and its key included.     *)
(* Refusals of the query budget, of the schema or of the credentials are    *)
(* the choice of a call that dies.                                          *)
(***************************************************************************)
EXTENDS Integers, Sequences, FiniteSets

CONSTANTS
    Databases,              \* local databases, copies and restored backups
    Rows,
    Local,                  \* [Databases -> Seq(Rows)]: the stream of each
    Callers,                \* processes that call append with one state file
    Chunk,                  \* rows of one request (4096)
    MaxStreams,             \* bound: write streams created
    MaxFlight,              \* bound: requests under way
    None

\* A row says at which position of its stream it stands (validated_prefix).
ASSUME LocalAssumption ==
    /\ Local \in [Databases -> Seq(Rows)]
    /\ \A d, e \in Databases : \A i \in 1 .. Len(Local[d]), j \in 1 .. Len(Local[e]) :
          Local[d][i] = Local[e][j] => i = j
ASSUME ChunkAssumption == Chunk \in Nat \ {0}

VARIABLES
    cloud,                  \* the rows of the source table, as they came
    lengths,                \* the length of each write stream
    file,                   \* the state file: [stream, base], or None
    flight,                 \* append requests the service may still store
    call,                   \* the calls of append
    answer                  \* what the last call of each said: [db, watermark]

vars == <<cloud, lengths, file, flight, call, answer>>

Files == [stream : Nat \ {0}, base : Nat]
Requests == [caller : Callers \cup {None}, stream : Nat \ {0}, offset : Nat, rows : Seq(Rows)]
Answers == [db : Databases, watermark : Nat]

ASSUME NoneAssumption == None \notin Files \cup Callers \cup Databases \cup Answers

Prefix(d, n) == SubSeq(Local[d], 1, n)

Resting == [pc |-> "idle", db |-> None, watermark |-> 0, existing |-> 0, stream |-> 1, base |-> 0, stored |-> FALSE]

(* The table may hold rows already, from a transport that is over. *)
Init ==
    /\ \E d \in Databases : \E n \in 0 .. Len(Local[d]) : cloud = Prefix(d, n)
    /\ lengths = << >>
    /\ file = None
    /\ flight = {}
    /\ call = [c \in Callers |-> Resting]
    /\ answer = [c \in Callers |-> None]

Set(c, record) == call' = [call EXCEPT ![c] = record]

(* The call is over; what it has sent stays under way. *)
Orphaned(c) == {IF r.caller = c THEN [r EXCEPT !.caller = None] ELSE r : r \in flight}
End(c) == Set(c, Resting) /\ flight' = Orphaned(c)

(* append returns. *)
Return(c) ==
    /\ answer' = [answer EXCEPT ![c] = [db |-> call[c].db, watermark |-> call[c].watermark]]
    /\ End(c)

LockIsFree == \A c \in Callers : call[c].pc \in {"idle", "lock"}

-----------------------------------------------------------------------------
(* validated_prefix reads the stream before the lock is taken. *)
Begin(c) ==
    /\ call[c].pc = "idle"
    /\ \E d \in Databases : \E n \in 0 .. Len(Local[d]) :
          Set(c, [Resting EXCEPT !.pc = "lock", !.db = d, !.watermark = n])
    /\ answer' = [answer EXCEPT ![c] = None]
    /\ UNCHANGED <<cloud, lengths, file, flight>>

(* ledger_lock: a call that finds it held raises. *)
Lock(c) ==
    /\ call[c].pc = "lock"
    /\ IF LockIsFree THEN Set(c, [call[c] EXCEPT !.pc = "compare"]) /\ UNCHANGED flight ELSE End(c)
    /\ UNCHANGED <<cloud, lengths, file, answer>>

(* fingerprint of a query ORDER BY position: the same rows, none of them twice. *)
Matches(d, n) ==
    /\ Len(cloud) = n
    /\ {cloud[i] : i \in 1 .. n} = {Local[d][i] : i \in {k \in 1 .. Len(Local[d]) : k <= n}}

Compare(c) ==
    LET n == Len(cloud) IN
    /\ call[c].pc = "compare"
    /\ \/ /\ n > call[c].watermark \/ ~ Matches(call[c].db, n)
          /\ End(c)
          /\ UNCHANGED answer
       \/ /\ n = call[c].watermark /\ Matches(call[c].db, n)
          /\ Return(c)
       \/ /\ n < call[c].watermark /\ Matches(call[c].db, n)
          /\ Set(c, [call[c] EXCEPT !.pc = "state", !.existing = n])
          /\ UNCHANGED <<flight, answer>>
    /\ UNCHANGED <<cloud, lengths, file>>

(* The saved stream is used again, from the row the table lacks. *)
Resume(c) ==
    /\ call[c].pc = "state"
    /\ file # None
    /\ IF call[c].existing >= file.base
       THEN /\ Set(c, [call[c] EXCEPT !.pc = "send", !.stream = file.stream, !.base = file.base])
            /\ UNCHANGED flight
       ELSE End(c)
    /\ UNCHANGED <<cloud, lengths, file, answer>>

(* Mutation: every call opens a stream of its own. *)
CreateAnyway(c) ==
    /\ call[c].pc = "state"
    /\ Len(lengths) < MaxStreams
    /\ lengths' = Append(lengths, 0)
    /\ Set(c, [call[c] EXCEPT !.pc = "save", !.stream = Len(lengths) + 1, !.base = call[c].existing])
    /\ UNCHANGED <<cloud, file, flight, answer>>

(* create_write_stream, based at the rows that are there. *)
Create(c) ==
    /\ call[c].pc = "state"
    /\ file = None
    /\ Len(lengths) < MaxStreams
    /\ lengths' = Append(lengths, 0)
    /\ Set(c, [call[c] EXCEPT !.pc = "save", !.stream = Len(lengths) + 1, !.base = call[c].existing])
    /\ UNCHANGED <<cloud, file, flight, answer>>

(* _save: the name of the stream is on disk before anything is sent. *)
Save(c) ==
    /\ call[c].pc = "save"
    /\ file' = [stream |-> call[c].stream, base |-> call[c].base]
    /\ Set(c, [call[c] EXCEPT !.pc = "send"])
    /\ UNCHANGED <<cloud, lengths, flight, answer>>

Upto(c) ==
    IF call[c].existing + Chunk < call[c].watermark THEN call[c].existing + Chunk ELSE call[c].watermark

(* The next chunk, at its offset in the stream; a request may be lost.      *)
Send(c) ==
    /\ call[c].pc = "send"
    /\ call[c].existing < call[c].watermark
    /\ flight' = IF Cardinality(flight) < MaxFlight
                 THEN flight \cup {[caller |-> c, stream |-> call[c].stream,
                                    offset |-> call[c].existing - call[c].base,
                                    rows |-> SubSeq(Local[call[c].db], call[c].existing + 1, Upto(c))]}
                 ELSE flight
    /\ Set(c, [call[c] EXCEPT !.pc = "wait", !.stored = FALSE])
    /\ UNCHANGED <<cloud, lengths, file, answer>>

(* The service answers with the offset of the request. *)
Acknowledged(c) ==
    /\ call[c].pc = "wait"
    /\ call[c].stored
    /\ Set(c, [call[c] EXCEPT !.pc = "send", !.existing = Upto(c)])
    /\ UNCHANGED <<cloud, lengths, file, flight, answer>>

(* All is sent and answered: the table is read once more. *)
Recheck(c) ==
    /\ call[c].pc = "send"
    /\ call[c].existing >= call[c].watermark
    /\ IF Matches(call[c].db, call[c].watermark) THEN Return(c) ELSE End(c) /\ UNCHANGED answer
    /\ UNCHANGED <<cloud, lengths, file>>

(* The process dies, or a query, a request or a deadline of it fails. *)
Die(c) ==
    /\ call[c].pc # "idle"
    /\ End(c)
    /\ UNCHANGED <<cloud, lengths, file, answer>>

(* The service stores a request whole, at the end of its write stream only, *)
(* which may be long after its sender has given up.                         *)
Land(r) ==
    /\ r.offset = lengths[r.stream]
    /\ lengths' = [lengths EXCEPT ![r.stream] = @ + Len(r.rows)]
    /\ cloud' = cloud \o r.rows
    /\ flight' = flight \ {r}
    /\ call' = [c \in Callers |-> IF c = r.caller THEN [call[c] EXCEPT !.stored = TRUE] ELSE call[c]]
    /\ UNCHANGED <<file, answer>>

Drop(r) ==
    /\ flight' = flight \ {r}
    /\ UNCHANGED <<cloud, lengths, file, call, answer>>

Next ==
    \/ \E c \in Callers :
          \/ Begin(c) \/ Lock(c) \/ Compare(c) \/ Resume(c) \/ Create(c) \/ Save(c)
          \/ Send(c) \/ Acknowledged(c) \/ Recheck(c) \/ Die(c)
    \/ \E r \in flight : Land(r) \/ Drop(r)

Spec == Init /\ [][Next]_vars

-----------------------------------------------------------------------------
(* Types of the table, the state file, the requests and the calls. *)
Calls == [
    pc : {"idle", "lock", "compare", "state", "save", "send", "wait"},
    db : Databases \cup {None}, watermark : Nat, existing : Nat,
    stream : Nat \ {0}, base : Nat, stored : BOOLEAN]

TypeOK ==
    /\ cloud \in Seq(Rows)
    /\ lengths \in Seq(Nat)
    /\ file \in Files \cup {None}
    /\ flight \subseteq Requests
    /\ call \in [Callers -> Calls]
    /\ answer \in [Callers -> Answers \cup {None}]

(* Whatever dies, and however late a request is stored, the table is the    *)
(* prefix of one local stream: nothing twice, nothing left out, and never   *)
(* rows of two databases that have gone different ways.                     *)
CloudIsAPrefix ==
    \E d \in Databases : Len(cloud) <= Len(Local[d]) /\ cloud = Prefix(d, Len(cloud))

(* A call that says "appended" or "already_present" has its stream in the   *)
(* table, up to its watermark, for good.                                    *)
AnswersAreTrue ==
    \A c \in Callers : answer[c] # None =>
        /\ answer[c].watermark <= Len(cloud)
        /\ SubSeq(cloud, 1, answer[c].watermark) = Prefix(answer[c].db, answer[c].watermark)

(* Replication is exact: the table is a prefix, and what a call was told of *)
(* it stays true.                                                           *)
ReplicationIsExact == CloudIsAPrefix /\ AnswersAreTrue

=============================================================================
