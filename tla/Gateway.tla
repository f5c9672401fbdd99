------------------------------- MODULE Gateway -------------------------------
(***************************************************************************)
(* The append gateway, src/tl/bigquery/gateway.py.                          *)
(*                                                                          *)
(* Every HTTP request is an append call in a thread, or a server, of its    *)
(* own; the calls share nothing but the source table.  A call reads the     *)
(* exact prefix, sends what is missing with the prefix's length as the      *)
(* storage offset, and reads again whatever the answer was.  The storage    *)
(* service stores a request only at its own current length.  A request can  *)
(* be lost, be stored long after its call gave up on it, and its            *)
(* acknowledgment can be lost.                                              *)
(***************************************************************************)
EXTENDS AppendRequests

CONSTANTS
    Threads,                \* the calls that run at the same time
    MaxAttempts,            \* max_attempts
    MaxRows,                \* max_prefix_rows
    MaxClock,               \* bound: the last instant
    MaxFlight,              \* bound: RPCs under way at once; one more is lost
    Admissible(_),          \* the admission policy accepts a complete prefix
    NoThread, NoCall, NoAnswer

ASSUME MaxAttemptsAssumption == MaxAttempts \in Nat \ {0}
ASSUME MaxRowsAssumption == MaxRows \in Nat \ {0}
ASSUME MaxClockAssumption == MaxClock \in Nat
ASSUME NoThreadAssumption == NoThread \notin Threads
ASSUME EmptyPrefixAssumption == Admissible(<< >>)

VARIABLES
    log,                    \* the source table, in the order of its stream
    clock,                  \* Gateway.now
    flight,                 \* append RPCs the storage service may still see
    pc,                     \* the step a call is at
    call,                   \* the locals of a running call
    answer                  \* the last response of a thread, with its request

vars == <<log, clock, flight, pc, call, answer>>

Row == [id : Nat, body : Bodies, actor : DOMAIN Emits, recorded : Nat, pos : Nat]

(* An AppendRows request: the call that sent it (nobody's, when the call    *)
(* has ended and the thread serves another), the number of its attempt.     *)
Rpc == [thread : Threads \cup {NoThread}, attempt : Nat, offset : Nat, rows : Seq(Row)]

(* The locals of append: `stored` is not one of them, it remembers which    *)
(* attempt of the call the storage service has stored, if any.              *)
Call == [request : Requests, now : Nat, attempts : 0 .. MaxAttempts, duplicates : Int,
         sent : Nat, acknowledged : Nat, uncertain : BOOLEAN, stored : 0 .. MaxAttempts]

NewCall(q, now) ==
    [request |-> q, now |-> now, attempts |-> 0, duplicates |-> 0, sent |-> 0,
     acknowledged |-> 0, uncertain |-> FALSE, stored |-> 0]

(* _prefix: what the gateway demands of the source before it uses it.       *)
Readable(prefix) ==
    /\ Len(prefix) <= MaxRows
    /\ \A i \in DOMAIN prefix : /\ prefix[i].pos = i
                                /\ prefix[i].actor \in DOMAIN Emits
                                /\ prefix[i].body \in Emits[prefix[i].actor]
    /\ \A i, j \in DOMAIN prefix : prefix[i].id = prefix[j].id => i = j

(* Mutation: the content of an admitted key is not compared. *)
EquivalentByKey(row, e, actor) == TRUE

(* _equivalent: everything but position and arrival time. *)
Equivalent(row, e, actor) == Same(row, e, actor)

Conflicts(prefix, q) ==
    \E e \in q.events, i \in DOMAIN prefix :
        prefix[i].id = e.id /\ ~ Equivalent(prefix[i], e, q.actor)

(* The rows a call would add to a prefix, with the positions they get. *)
Pending(prefix, c) ==
    {[i \in DOMAIN order |->
        [id |-> order[i].id, body |-> order[i].body, actor |-> c.request.actor,
         recorded |-> c.now, pos |-> Len(prefix) + i]] :
     order \in InOrder(Missing(prefix, c.request))}

-----------------------------------------------------------------------------
Init ==
    /\ log = << >>
    /\ clock = 0
    /\ flight = {}
    /\ pc = [t \in Threads |-> "idle"]
    /\ call = [t \in Threads |-> NoCall]
    /\ answer = [t \in Threads |-> NoAnswer]

Tick ==
    /\ clock < MaxClock
    /\ clock' = clock + 1
    /\ UNCHANGED <<log, flight, pc, call, answer>>

(* What a thread has sent stays under way when its call is forgotten. *)
Orphaned(t) ==
    {IF r.thread = t THEN [r EXCEPT !.thread = NoThread, !.attempt = 0] ELSE r : r \in flight}

(* append up to the loop: the arrival time is taken once, and the whole     *)
(* request is validated before anything is read or sent.                    *)
Start(t) ==
    /\ pc[t] = "idle"
    /\ \E q \in Requests :
          IF Permitted(q) /\ Consistent(q)
          THEN /\ pc' = [pc EXCEPT ![t] = "read"]
               /\ call' = [call EXCEPT ![t] = NewCall(q, clock)]
               /\ answer' = [answer EXCEPT ![t] = NoAnswer]
          ELSE /\ answer' = [answer EXCEPT ![t] =
                     [status |-> IF Permitted(q) THEN "rejected" ELSE "denied",
                      request |-> q, stored |-> 0]]
               /\ UNCHANGED <<pc, call>>
    /\ flight' = Orphaned(t)
    /\ UNCHANGED <<log, clock>>

Answer(t, response) ==
    /\ answer' = [answer EXCEPT ![t] = response]
    /\ pc' = [pc EXCEPT ![t] = "idle"]
    /\ call' = [call EXCEPT ![t] = NoCall]
    /\ UNCHANGED <<log, clock, flight>>

(* The responses other than success carry no count.  `stored` is not sent:  *)
(* it says which attempt of the call was stored by then, if any.            *)
Refusal(t, status) ==
    Answer(t, [status |-> status, request |-> call[t].request, stored |-> call[t].stored])

(* The query fails, or the source is not what the gateway demands: a        *)
(* refusal before the first append, an unverified append after it.          *)
FailRead(t) ==
    /\ pc[t] = "read"
    /\ Refusal(t, IF call[t].attempts = 0 THEN "rejected" ELSE "unverified")

(* The prefix was read, and holds none of the keys with another content.    *)
Compared(t) ==
    /\ pc[t] = "read"
    /\ Readable(log)
    /\ ~ Conflicts(log, call[t].request)

RefuseConflict(t) ==
    /\ pc[t] = "read"
    /\ Readable(log)
    /\ Conflicts(log, call[t].request)
    /\ Refusal(t, "rejected")

(* The policy refuses the rows, or they would not fit. *)
RefusePending(t) ==
    /\ Compared(t)
    /\ \A rows \in Pending(log, call[t]) :
          \/ ~ Admissible(log \o rows)
          \/ rows # << >> /\ Len(log) + Len(rows) > MaxRows
    /\ Refusal(t, "rejected")

Duplicates(t) ==
    IF call[t].attempts = 0
    THEN Cardinality(call[t].request.events) - Cardinality(Missing(log, call[t].request))
    ELSE call[t].duplicates

(* The only success: a read of the prefix that holds everything. *)
Accept(t) ==
    /\ Compared(t)
    /\ Missing(log, call[t].request) = {}
    /\ Admissible(log)
    /\ Answer(t, [status |-> "accepted",
                  request |-> call[t].request,
                  watermark |-> Len(log),
                  accepted |-> Cardinality(call[t].request.events),
                  duplicates |-> Duplicates(t),
                  acknowledged |-> call[t].acknowledged,
                  reconciled |-> call[t].uncertain])

(* The rows pass all checks against the prefix as this attempt read it.     *)
Passes(t, rows) ==
    /\ rows \in Pending(log, call[t])
    /\ rows # << >>
    /\ Admissible(log \o rows)
    /\ Len(log) + Len(rows) <= MaxRows

Exhaust(t) ==
    /\ Compared(t)
    /\ \E rows \in Pending(log, call[t]) : Passes(t, rows)
    /\ call[t].attempts = MaxAttempts
    /\ Refusal(t, "unverified")

Send(t, rows) ==
    /\ flight' = IF Cardinality(flight) < MaxFlight
                 THEN flight \cup {[thread |-> t, attempt |-> call[t].attempts + 1,
                                    offset |-> Len(log), rows |-> rows]}
                 ELSE flight
    /\ call' = [call EXCEPT ![t].attempts = @ + 1, ![t].sent = Len(rows),
                             ![t].duplicates = Duplicates(t)]
    /\ pc' = [pc EXCEPT ![t] = "wait"]
    /\ UNCHANGED <<log, clock, answer>>

(* Mutation: the policy judges the first attempt only. *)
SubmitAdmittedOnce(t) ==
    /\ Compared(t)
    /\ call[t].attempts < MaxAttempts
    /\ \E rows \in Pending(log, call[t]) :
          /\ rows # << >>
          /\ call[t].attempts = 0 => Admissible(log \o rows)
          /\ Len(log) + Len(rows) <= MaxRows
          /\ Send(t, rows)

(* One bounded RPC at the offset of the prefix that was read. *)
Submit(t) ==
    /\ Compared(t)
    /\ call[t].attempts < MaxAttempts
    /\ \E rows \in Pending(log, call[t]) : Passes(t, rows) /\ Send(t, rows)

MarkStored(r) ==
    [t \in Threads |-> IF t = r.thread /\ pc[t] # "idle"
                       THEN [call[t] EXCEPT !.stored = r.attempt] ELSE call[t]]

(* Mutation: only the first row of a request is stored. *)
LandFirst(r) ==
    /\ r.offset = Len(log)
    /\ log' = Append(log, r.rows[1])
    /\ flight' = flight \ {r}
    /\ call' = MarkStored(r)
    /\ UNCHANGED <<clock, pc, answer>>

(* The storage service stores a request whole, at its own length only.      *)
Land(r) ==
    /\ r.offset = Len(log)
    /\ log' = log \o r.rows
    /\ flight' = flight \ {r}
    /\ call' = MarkStored(r)
    /\ UNCHANGED <<clock, pc, answer>>

(* It refuses the request, or never sees it. *)
Drop(r) ==
    /\ flight' = flight \ {r}
    /\ UNCHANGED <<log, clock, pc, call, answer>>

(* The acknowledgment, with the offset of the request, arrives in time. *)
Acknowledge(t) ==
    /\ pc[t] = "wait"
    /\ call[t].stored = call[t].attempts
    /\ call' = [call EXCEPT ![t].acknowledged = @ + call[t].sent]
    /\ pc' = [pc EXCEPT ![t] = "read"]
    /\ UNCHANGED <<log, clock, flight, answer>>

(* A refusal, a deadline or a lost acknowledgment: all the same to the call *)
Fail(t) ==
    /\ pc[t] = "wait"
    /\ call' = [call EXCEPT ![t].uncertain = TRUE]
    /\ pc' = [pc EXCEPT ![t] = "read"]
    /\ UNCHANGED <<log, clock, flight, answer>>

(* The server dies, or the client is gone. *)
Crash(t) ==
    /\ pc[t] # "idle"
    /\ pc' = [pc EXCEPT ![t] = "idle"]
    /\ call' = [call EXCEPT ![t] = NoCall]
    /\ flight' = Orphaned(t)
    /\ UNCHANGED <<log, clock, answer>>

Step(t) ==
    \/ FailRead(t)
    \/ RefuseConflict(t)
    \/ RefusePending(t)
    \/ Accept(t)
    \/ Exhaust(t)
    \/ Submit(t)
    \/ Acknowledge(t)
    \/ Fail(t)

Next ==
    \/ Tick
    \/ \E t \in Threads : Start(t) \/ Step(t) \/ Crash(t)
    \/ \E r \in flight : Land(r) \/ Drop(r)

Spec == Init /\ [][Next]_vars

-----------------------------------------------------------------------------
(* The source holds rows of the schema, the RPCs are well formed, and a     *)
(* running call has a request it has validated.                             *)
TypeOK ==
    /\ log \in Seq(Row)
    /\ clock \in 0 .. MaxClock
    /\ flight \in SUBSET Rpc
    /\ pc \in [Threads -> {"idle", "read", "wait"}]
    /\ DOMAIN call = Threads /\ DOMAIN answer = Threads
    /\ \A t \in Threads :
          IF pc[t] = "idle" THEN call[t] = NoCall
          ELSE /\ call[t] \in Call
               /\ Permitted(call[t].request) /\ Consistent(call[t].request)
               /\ call[t].now <= clock
               /\ call[t].stored <= call[t].attempts

(* Nothing the gateway does makes the source unreadable to it: positions    *)
(* stay dense, keys unique, authors known and the row bound kept, whatever  *)
(* calls overlap and however late an RPC is stored.  There is no recovery   *)
(* from the contrary: every later call would be refused.                    *)
SourceStaysReadable == Readable(log)

(* Every append was admitted against the very prefix it extends, although   *)
(* the check and the append are two remote calls: the competitors of a      *)
(* claim see one winner.                                                    *)
LogIsAdmissible == Admissible(log)

(* "accepted" (200) is backed by the source: each event is within the       *)
(* watermark, with this content, under this author.                         *)
AcceptedIsStored ==
    \A t \in Threads :
        (answer[t] # NoAnswer /\ answer[t].status = "accepted") =>
            /\ answer[t].watermark <= Len(log)
            /\ \A e \in answer[t].request.events : \E i \in 1 .. answer[t].watermark :
                  log[i].id = e.id /\ Same(log[i], e, answer[t].request.actor)

(* "validation_rejected" (422) is final: no row of the call was stored, and *)
(* no RPC of it that is still under way can be.  A conflict may be found on *)
(* a later attempt, when an earlier RPC is still unanswered.                *)
RejectedStoresNothing ==
    \A t \in Threads :
        (answer[t] # NoAnswer /\ answer[t].status = "rejected") =>
            /\ answer[t].stored = 0
            /\ \A r \in flight : r.thread = t => r.offset < Len(log)

(* The source is sound for everybody who reads it after the gateway: it can *)
(* be read back, and as a whole satisfies the admission policy.             *)
SourceIsSound == SourceStaysReadable /\ LogIsAdmissible

(* A final answer is true for good: accepted events are there, of a         *)
(* rejected call there is nothing and nothing can come.                     *)
AnswersAreTrue == AcceptedIsStored /\ RejectedStoresNothing

(* Calls that overlap, fail, are retried or die behave as one log to which  *)
(* a request's missing events are added once, whole and in order.           *)
Events(rows) ==
    [i \in 1 .. Len(rows) |-> [id |-> rows[i].id, body |-> rows[i].body, actor |-> rows[i].actor]]
Promise == INSTANCE IdempotentLog WITH log <- Events(log)
AppendsAreIdempotent == Promise!Spec

=============================================================================
