---------------------------- MODULE GatewayProofs ----------------------------
(***************************************************************************)
(* Proofs about Gateway, for any threads, requests, bounds and policy.      *)
(***************************************************************************)
EXTENDS Gateway, SequenceTheorems, FiniteSetTheorems, TLAPS

-----------------------------------------------------------------------------
(* What a call relies on: its request is validated, its arrival time taken. *)
Valid(c) ==
    /\ c.request \in Requests
    /\ Permitted(c.request) /\ Consistent(c.request)
    /\ c.now \in Nat

(* The rows list what the prefix lacks of a request, by key, at the         *)
(* positions that follow it.                                                *)
Lists(rows, prefix, q) ==
    /\ \A k \in 1 .. Len(rows) :
          /\ rows[k].pos = Len(prefix) + k
          /\ rows[k].actor = q.actor
          /\ \E e \in Missing(prefix, q) : rows[k].id = e.id /\ rows[k].body = e.body
    /\ \A i, j \in 1 .. Len(rows) : i < j => rows[i].id < rows[j].id
    /\ \A e \in Missing(prefix, q) : \E k \in 1 .. Len(rows) :
          rows[k].id = e.id /\ rows[k].body = e.body

(* Every event of the request is in the log, as the request has it. *)
Covers(rows, q) ==
    \A e \in q.events : \E i \in 1 .. Len(rows) :
        rows[i].id = e.id /\ Same(rows[i], e, q.actor)

LEMMA SeqDomain ==
    ASSUME NEW S, NEW s \in Seq(S)
    PROVE  Len(s) \in Nat /\ DOMAIN s = 1 .. Len(s) /\ \A i \in 1 .. Len(s) : s[i] \in S
BY LenProperties, ElementOfSeq

LEMMA PendingRows ==
    ASSUME NEW prefix \in Seq(Row), NEW c, Valid(c), NEW rows \in Pending(prefix, c)
    PROVE  rows \in Seq(Row) /\ Lists(rows, prefix, c.request)
<1> DEFINE q == c.request
           missing == Missing(prefix, q)
<1>1. PICK order \in InOrder(missing) :
        rows = [i \in DOMAIN order |->
                  [id |-> order[i].id, body |-> order[i].body, actor |-> q.actor,
                   recorded |-> c.now, pos |-> Len(prefix) + i]]
    BY DEF Pending
<1>2. missing \subseteq q.events /\ IsFiniteSet(missing) /\ Cardinality(missing) \in Nat
    BY RequestsAssumption, FS_Subset, FS_CardinalityType DEF Valid, Missing
<1>3. DOMAIN order = 1 .. Cardinality(missing) /\ \A i \in DOMAIN order : order[i] \in missing
    BY <1>1 DEF InOrder
<1>4. \A e \in missing : e.id \in Nat /\ e.body \in Bodies
    BY <1>2, RequestsAssumption DEF Valid
<1>5. q.actor \in DOMAIN Emits /\ c.now \in Nat /\ Len(prefix) \in Nat
    BY LenProperties DEF Valid, Permitted
<1>6. \A i \in 1 .. Cardinality(missing) : rows[i] \in Row
    BY <1>1, <1>2, <1>3, <1>4, <1>5 DEF Row
<1>7. rows \in Seq(Row) /\ Len(rows) = Cardinality(missing)
    BY <1>1, <1>2, <1>3, <1>6
<1>8. \A k \in 1 .. Len(rows) :
        /\ order[k] \in missing
        /\ rows[k].id = order[k].id /\ rows[k].body = order[k].body
        /\ rows[k].actor = q.actor /\ rows[k].pos = Len(prefix) + k
    BY <1>1, <1>3, <1>7
<1>9. \A i, j \in 1 .. Len(rows) : i < j => rows[i].id < rows[j].id
    <2>1. \A i, j \in DOMAIN order : i < j => order[i].id < order[j].id
        BY <1>1 DEF InOrder
    <2> QED BY <2>1, <1>3, <1>7, <1>8
<1>10. \A e \in missing : \E k \in 1 .. Len(rows) :
          rows[k].id = e.id /\ rows[k].body = e.body
    <2>1. \A e \in missing : \E i \in DOMAIN order : order[i] = e
        BY <1>1 DEF InOrder
    <2> SUFFICES ASSUME NEW e \in missing
                 PROVE  \E k \in 1 .. Len(rows) : rows[k].id = e.id /\ rows[k].body = e.body
        OBVIOUS
    <2>2. PICK k \in DOMAIN order : order[k] = e
        BY <2>1
    <2>3. k \in 1 .. Len(rows)
        BY <1>3, <1>7
    <2> QED BY <2>2, <2>3, <1>8
<1> QED BY <1>7, <1>8, <1>9, <1>10 DEF Lists

LEMMA NothingPending ==
    ASSUME NEW prefix, NEW c, Missing(prefix, c.request) = {}
    PROVE  << >> \in Pending(prefix, c)
<1> DEFINE missing == Missing(prefix, c.request)
           none == << >>
<1>1. Cardinality(missing) = 0 /\ 1 .. 0 = {} /\ DOMAIN none = {}
    BY FS_EmptySet
<1>2. none \in [1 .. Cardinality(missing) -> missing]
    BY <1>1
<1>3. none \in InOrder(missing)
    BY <1>1, <1>2 DEF InOrder
<1>4. none = [i \in DOMAIN none |->
                  [id |-> none[i].id, body |-> none[i].body, actor |-> c.request.actor,
                   recorded |-> c.now, pos |-> Len(prefix) + i]]
    BY <1>1
<1> QED BY <1>3, <1>4 DEF Pending

(* The rows of a concatenation. *)
LEMMA Concat ==
    ASSUME NEW s \in Seq(Row), NEW t \in Seq(Row)
    PROVE  /\ s \o t \in Seq(Row)
           /\ Len(s \o t) = Len(s) + Len(t)
           /\ \A i \in 1 .. Len(s) : (s \o t)[i] = s[i]
           /\ \A k \in 1 .. Len(t) : (s \o t)[Len(s) + k] = t[k]
           /\ \A i \in 1 .. Len(s \o t) : \/ i \in 1 .. Len(s)
                                          \/ \E k \in 1 .. Len(t) : i = Len(s) + k
<1>1. Len(s) \in Nat /\ Len(t) \in Nat
    BY LenProperties
<1>2. /\ s \o t \in Seq(Row)
      /\ Len(s \o t) = Len(s) + Len(t)
      /\ \A i \in 1 .. Len(s) + Len(t) : (s \o t)[i] =
             IF i <= Len(s) THEN s[i] ELSE t[i - Len(s)]
    BY ConcatProperties
<1>3. \A i \in 1 .. Len(s) : (s \o t)[i] = s[i]
    BY <1>1, <1>2
<1>4. ASSUME NEW k \in 1 .. Len(t)
      PROVE  (s \o t)[Len(s) + k] = t[k]
    <2>1. /\ Len(s) + k \in 1 .. Len(s) + Len(t)
          /\ ~ (Len(s) + k <= Len(s))
          /\ (Len(s) + k) - Len(s) = k
        BY <1>1
    <2> QED BY <2>1, <1>2
<1>5. ASSUME NEW i \in 1 .. Len(s \o t), i \notin 1 .. Len(s)
      PROVE  \E k \in 1 .. Len(t) : i = Len(s) + k
    <2>1. i - Len(s) \in 1 .. Len(t) /\ i = Len(s) + (i - Len(s))
        BY <1>1, <1>2, <1>5
    <2> QED BY <2>1
<1> QED BY <1>2, <1>3, <1>4, <1>5

(* Rows that list what a prefix lacks keep it readable, and cover the       *)
(* request when the prefix did not contradict it.                           *)
LEMMA ListedRowsFit ==
    ASSUME NEW prefix \in Seq(Row), Readable(prefix),
           NEW q \in Requests, Permitted(q),
           NEW rows \in Seq(Row), Lists(rows, prefix, q),
           Len(prefix) + Len(rows) <= MaxRows
    PROVE  Readable(prefix \o rows)
<1> DEFINE s == prefix \o rows
<1>1. Len(prefix) \in Nat /\ Len(rows) \in Nat /\ DOMAIN prefix = 1 .. Len(prefix)
    BY SeqDomain
<1>2. /\ s \in Seq(Row) /\ Len(s) = Len(prefix) + Len(rows)
      /\ \A i \in 1 .. Len(prefix) : s[i] = prefix[i]
      /\ \A k \in 1 .. Len(rows) : s[Len(prefix) + k] = rows[k]
      /\ \A i \in 1 .. Len(s) : \/ i \in 1 .. Len(prefix)
                                \/ \E k \in 1 .. Len(rows) : i = Len(prefix) + k
    BY Concat
<1>3. DOMAIN s = 1 .. Len(s)
    BY <1>2, SeqDomain
<1> HIDE DEF s
<1>4. ASSUME NEW i \in 1 .. Len(s)
      PROVE  s[i].pos = i /\ s[i].actor \in DOMAIN Emits /\ s[i].body \in Emits[s[i].actor]
    <2>1. CASE i \in 1 .. Len(prefix)
        BY <2>1, <1>1, <1>2 DEF Readable
    <2>2. ASSUME NEW k \in 1 .. Len(rows), i = Len(prefix) + k
          PROVE  s[i].pos = i /\ s[i].actor \in DOMAIN Emits /\ s[i].body \in Emits[s[i].actor]
        <3>1. s[i] = rows[k] /\ rows[k].pos = i /\ rows[k].actor = q.actor
            BY <2>2, <1>2 DEF Lists
        <3>2. PICK e \in Missing(prefix, q) : rows[k].body = e.body
            BY DEF Lists
        <3>3. q.actor \in DOMAIN Emits /\ e.body \in Emits[q.actor]
            BY <3>2 DEF Permitted, Missing
        <3> QED BY <3>1, <3>2, <3>3
    <2> QED BY <2>1, <2>2, <1>2
<1>5. \A i \in 1 .. Len(prefix), k \in 1 .. Len(rows) : prefix[i].id # rows[k].id
    <2> SUFFICES ASSUME NEW i \in 1 .. Len(prefix), NEW k \in 1 .. Len(rows)
                 PROVE  prefix[i].id # rows[k].id
        OBVIOUS
    <2>1. PICK e \in Missing(prefix, q) : rows[k].id = e.id
        BY DEF Lists
    <2>2. prefix[i].id # e.id
        BY <2>1, <1>1 DEF Missing
    <2> QED BY <2>1, <2>2
<1>6. ASSUME NEW k \in 1 .. Len(rows), NEW l \in 1 .. Len(rows), rows[k].id = rows[l].id
      PROVE  k = l
    <2>1. rows[k] \in Row /\ rows[l] \in Row
        BY SeqDomain
    <2>2. rows[k].id \in Nat /\ rows[l].id \in Nat
        BY <2>1 DEF Row
    <2>3. \A i, j \in 1 .. Len(rows) : i < j => rows[i].id < rows[j].id
        BY DEF Lists
    <2>4. (k < l => rows[k].id < rows[l].id) /\ (l < k => rows[l].id < rows[k].id)
        BY <2>3
    <2> QED BY <2>2, <2>4, <1>1, <1>6
<1>7. ASSUME NEW i \in 1 .. Len(s), NEW j \in 1 .. Len(s), s[i].id = s[j].id
      PROVE  i = j
    <2>1. CASE i \in 1 .. Len(prefix) /\ j \in 1 .. Len(prefix)
        BY <2>1, <1>1, <1>2, <1>7 DEF Readable
    <2>2. ASSUME NEW k \in 1 .. Len(rows), i = Len(prefix) + k, j \in 1 .. Len(prefix)
          PROVE  FALSE
        BY <2>2, <1>2, <1>5, <1>7
    <2>3. ASSUME NEW k \in 1 .. Len(rows), j = Len(prefix) + k, i \in 1 .. Len(prefix)
          PROVE  FALSE
        BY <2>3, <1>2, <1>5, <1>7
    <2>4. ASSUME NEW k \in 1 .. Len(rows), i = Len(prefix) + k,
                 NEW l \in 1 .. Len(rows), j = Len(prefix) + l
          PROVE  i = j
        BY <2>4, <1>2, <1>6, <1>7
    <2> QED BY <2>1, <2>2, <2>3, <2>4, <1>2
<1> QED BY <1>2, <1>3, <1>4, <1>7 DEF Readable, s

LEMMA ListedRowsCover ==
    ASSUME NEW prefix \in Seq(Row), NEW q \in Requests, ~ Conflicts(prefix, q),
           NEW rows \in Seq(Row), Lists(rows, prefix, q)
    PROVE  Covers(prefix \o rows, q)
<1> SUFFICES ASSUME NEW e \in q.events
             PROVE  \E i \in 1 .. Len(prefix \o rows) :
                       /\ (prefix \o rows)[i].id = e.id
                       /\ Same((prefix \o rows)[i], e, q.actor)
    BY DEF Covers
<1>1. Len(prefix) \in Nat /\ Len(rows) \in Nat /\ DOMAIN prefix = 1 .. Len(prefix)
    BY SeqDomain
<1>2. CASE e \in Missing(prefix, q)
    <2>1. PICK k \in 1 .. Len(rows) : rows[k].id = e.id /\ rows[k].body = e.body
        BY <1>2 DEF Lists
    <2>2. (prefix \o rows)[Len(prefix) + k] = rows[k] /\ rows[k].actor = q.actor
        BY Concat DEF Lists
    <2>3. Len(prefix) + k \in 1 .. Len(prefix \o rows)
        BY <1>1, Concat
    <2> QED BY <2>1, <2>2, <2>3 DEF Same
<1>3. CASE e \notin Missing(prefix, q)
    <2>1. PICK i \in 1 .. Len(prefix) : prefix[i].id = e.id
        BY <1>1, <1>3 DEF Missing
    <2>2. Same(prefix[i], e, q.actor)
        BY <1>1, <2>1 DEF Conflicts, Equivalent
    <2>3. (prefix \o rows)[i] = prefix[i] /\ i \in 1 .. Len(prefix \o rows)
        BY <1>1, Concat
    <2> QED BY <2>1, <2>2, <2>3
<1> QED BY <1>2, <1>3

LEMMA CoveredHasNothingToDo ==
    ASSUME NEW prefix \in Seq(Row), Readable(prefix), NEW q, Covers(prefix, q)
    PROVE  ~ Conflicts(prefix, q) /\ Missing(prefix, q) = {}
<1>1. DOMAIN prefix = 1 .. Len(prefix)
    BY SeqDomain
<1> QED BY <1>1 DEF Readable, Covers, Conflicts, Missing, Equivalent

LEMMA StaysCovered ==
    ASSUME NEW prefix \in Seq(Row), NEW rows \in Seq(Row), NEW q, Covers(prefix, q)
    PROVE  Covers(prefix \o rows, q)
<1>1. Len(prefix) \in Nat /\ Len(rows) \in Nat
    BY SeqDomain
<1>2. \A i \in 1 .. Len(prefix) :
        i \in 1 .. Len(prefix \o rows) /\ (prefix \o rows)[i] = prefix[i]
    BY <1>1, Concat
<1> QED BY <1>2 DEF Covers

-----------------------------------------------------------------------------
(* The inductive invariant.  An RPC at the log's length was computed from   *)
(* this very log, because the log has only grown since it was read, and to  *)
(* grow is to leave every RPC under way behind.                             *)
Live(r) == r.offset = Len(log)

Fits(rows) ==
    /\ rows # << >>
    /\ Readable(log \o rows)
    /\ Admissible(log \o rows)
    /\ \E q \in Requests, now \in Nat :
          /\ Permitted(q) /\ Consistent(q) /\ ~ Conflicts(log, q)
          /\ rows \in Pending(log, NewCall(q, now))

FlightFits ==
    \A r \in flight : r.offset <= Len(log) /\ (Live(r) => Fits(r.rows))

(* What a running call has under way. *)
OwnRpcs ==
    \A t \in Threads, r \in flight : (pc[t] # "idle" /\ r.thread = t) =>
        /\ r.attempt \in 1 .. call[t].attempts
        /\ Live(r) => /\ r.rows \in Pending(log, call[t])
                      /\ ~ Conflicts(log, call[t].request)

StoredIsCovered ==
    \A t \in Threads : (pc[t] # "idle" /\ call[t].stored # 0) => Covers(log, call[t].request)

Watermarks ==
    \A t \in Threads : (answer[t] # NoAnswer /\ answer[t].status = "accepted") =>
        answer[t].watermark \in Nat

NotYetAnswered == \A t \in Threads : pc[t] # "idle" => answer[t] = NoAnswer

IInv ==
    /\ TypeOK
    /\ NotYetAnswered
    /\ SourceStaysReadable
    /\ LogIsAdmissible
    /\ FlightFits
    /\ OwnRpcs
    /\ StoredIsCovered
    /\ Watermarks
    /\ AcceptedIsStored
    /\ RejectedStoresNothing

LEMMA InitIInv == Init => IInv
<1> SUFFICES ASSUME Init PROVE IInv
    OBVIOUS
<1>1. log \in Seq(Row) /\ Len(log) = 0 /\ DOMAIN log = {}
    BY EmptySeq, SeqDomain DEF Init
<1>2. TypeOK
    BY <1>1, MaxClockAssumption DEF Init, TypeOK
<1>3. SourceStaysReadable
    BY <1>1, MaxRowsAssumption DEF SourceStaysReadable, Readable
<1>4. LogIsAdmissible
    BY EmptyPrefixAssumption DEF Init, LogIsAdmissible
<1>5. FlightFits /\ OwnRpcs /\ StoredIsCovered /\ Watermarks
      /\ AcceptedIsStored /\ RejectedStoresNothing /\ NotYetAnswered
    BY DEF Init, NotYetAnswered, FlightFits, OwnRpcs, StoredIsCovered, Watermarks,
           AcceptedIsStored, RejectedStoresNothing
<1> QED BY <1>2, <1>3, <1>4, <1>5 DEF IInv

(* The loop of a running call, and the prefix it reads, have their types.   *)
LEMMA RunningCall ==
    ASSUME IInv, NEW t \in Threads, pc[t] # "idle"
    PROVE  call[t] \in Call /\ Valid(call[t])
BY DEF IInv, TypeOK, Valid, Call

(* A step that answers touches neither the log nor the flights: the         *)
(* invariant holds if the answer is an honest one.                          *)
LEMMA AnswerStep ==
    ASSUME IInv, NEW t \in Threads, NEW a, Answer(t, a),
           (a # NoAnswer /\ a.status = "accepted") =>
               /\ a.watermark = Len(log)
               /\ Covers(log, a.request),
           (a # NoAnswer /\ a.status = "rejected") =>
               /\ a.stored = 0
               /\ \A r \in flight : r.thread = t => ~ Live(r)
    PROVE  IInv'
<1>1. UNCHANGED <<log, clock, flight>>
    BY DEF Answer
<1>2. /\ answer' = [answer EXCEPT ![t] = a]
      /\ pc' = [pc EXCEPT ![t] = "idle"]
      /\ call' = [call EXCEPT ![t] = NoCall]
    BY DEF Answer
<1>3. Len(log) \in Nat
    BY SeqDomain DEF IInv, TypeOK
<1>4. TypeOK'
    BY <1>1, <1>2 DEF IInv, TypeOK
<1>5. SourceStaysReadable' /\ LogIsAdmissible'
    BY <1>1 DEF IInv, SourceStaysReadable, LogIsAdmissible
<1>6. FlightFits'
    BY <1>1 DEF IInv, FlightFits, Live, Fits
<1>7. \A u \in Threads : pc'[u] # "idle" =>
        u # t /\ pc[u] = pc'[u] /\ call'[u] = call[u]
    BY <1>2 DEF IInv, TypeOK
<1>8. OwnRpcs' /\ StoredIsCovered'
    BY <1>1, <1>7 DEF IInv, OwnRpcs, StoredIsCovered, Live
<1>9. \A u \in Threads : u # t => answer'[u] = answer[u]
    BY <1>2 DEF IInv, TypeOK
<1>10. answer'[t] = a
    BY <1>2 DEF IInv, TypeOK
<1>11. Watermarks'
    BY <1>3, <1>9, <1>10 DEF IInv, Watermarks
<1>12. AcceptedIsStored'
    BY <1>1, <1>3, <1>9, <1>10 DEF IInv, AcceptedIsStored, Covers
<1>13. \A r \in flight : ~ Live(r) => r.offset < Len(log)
    <2>1. \A r \in flight : r.offset \in Nat /\ r.offset <= Len(log)
        BY DEF IInv, TypeOK, Rpc, FlightFits
    <2> QED BY <2>1, <1>3 DEF Live
<1>14. RejectedStoresNothing'
    BY <1>1, <1>9, <1>10, <1>13 DEF IInv, RejectedStoresNothing
<1>15. NotYetAnswered'
    BY <1>7, <1>9 DEF IInv, NotYetAnswered
<1> QED BY <1>4, <1>5, <1>6, <1>8, <1>11, <1>12, <1>14, <1>15 DEF IInv

LEMMA FailReadStep ==
    ASSUME IInv, NEW t \in Threads, FailRead(t)
    PROVE  IInv'
<1> DEFINE status == IF call[t].attempts = 0 THEN "rejected" ELSE "unverified"
           a == [status |-> status, request |-> call[t].request, stored |-> call[t].stored]
<1>1. pc[t] # "idle" /\ Answer(t, a)
    BY DEF FailRead, Refusal
<1>2. call[t] \in Call /\ call[t].stored <= call[t].attempts
    BY <1>1 DEF IInv, TypeOK
<1>3. ASSUME call[t].attempts = 0
      PROVE  call[t].stored = 0 /\ \A r \in flight : r.thread # t
    <2>1. call[t].stored = 0
        BY <1>2, <1>3, MaxAttemptsAssumption DEF Call
    <2>2. \A r \in flight : r.thread = t => r.attempt \in 1 .. 0
        BY <1>1, <1>3 DEF IInv, OwnRpcs
    <2> QED BY <2>1, <2>2
<1>4. a.status # "accepted"
    OBVIOUS
<1>5. a.status = "rejected" => a.stored = 0 /\ \A r \in flight : r.thread = t => ~ Live(r)
    BY <1>3
<1> HIDE DEF a
<1> QED BY <1>1, <1>4, <1>5, AnswerStep

LEMMA RefuseConflictStep ==
    ASSUME IInv, NEW t \in Threads, RefuseConflict(t)
    PROVE  IInv'
<1> DEFINE a == [status |-> "rejected", request |-> call[t].request, stored |-> call[t].stored]
<1>1. pc[t] # "idle" /\ Answer(t, a) /\ Readable(log) /\ Conflicts(log, call[t].request)
    BY DEF RefuseConflict, Refusal
<1>2. log \in Seq(Row)
    BY DEF IInv, TypeOK
<1>3. call[t].stored = 0
    <2>1. ~ Covers(log, call[t].request)
        BY <1>1, <1>2, CoveredHasNothingToDo
    <2> QED BY <2>1, <1>1 DEF IInv, StoredIsCovered
<1>4. \A r \in flight : r.thread = t => ~ Live(r)
    BY <1>1 DEF IInv, OwnRpcs
<1>5. a.status # "accepted" /\ a.stored = 0
    BY <1>3
<1> HIDE DEF a
<1> QED BY <1>1, <1>4, <1>5, AnswerStep

LEMMA RefusePendingStep ==
    ASSUME IInv, NEW t \in Threads, RefusePending(t)
    PROVE  IInv'
<1> DEFINE a == [status |-> "rejected", request |-> call[t].request, stored |-> call[t].stored]
<1>1. pc[t] # "idle" /\ Answer(t, a) /\ Readable(log)
    BY DEF RefusePending, Refusal, Compared
<1>2. log \in Seq(Row) /\ Len(log) \in Nat
    BY LenProperties DEF IInv, TypeOK
<1>3. \A rows \in Pending(log, call[t]) :
        \/ ~ Admissible(log \o rows)
        \/ rows # << >> /\ Len(log) + Len(rows) > MaxRows
    BY DEF RefusePending
<1>4. call[t].stored = 0
    <2>1. SUFFICES ASSUME Covers(log, call[t].request) PROVE FALSE
        BY <1>1 DEF IInv, StoredIsCovered
    <2>2. << >> \in Pending(log, call[t])
        BY <2>1, <1>1, <1>2, CoveredHasNothingToDo, NothingPending
    <2>3. log \o << >> = log
        BY <1>2, ConcatEmptySeq
    <2> QED BY <2>2, <2>3, <1>3 DEF IInv, LogIsAdmissible
<1>5. ASSUME NEW r \in flight, r.thread = t, Live(r)
      PROVE  FALSE
    <2>1. r.rows \in Pending(log, call[t]) /\ Fits(r.rows)
        BY <1>1, <1>5 DEF IInv, OwnRpcs, FlightFits
    <2>2. Admissible(log \o r.rows) /\ Len(log \o r.rows) <= MaxRows
        BY <2>1 DEF Fits, Readable
    <2>3. r.rows \in Seq(Row)
        BY DEF IInv, TypeOK, Rpc
    <2>4. Len(log \o r.rows) = Len(log) + Len(r.rows) /\ Len(r.rows) \in Nat
        BY <2>3, <1>2, Concat, LenProperties
    <2> QED BY <2>1, <2>2, <2>4, <1>2, <1>3, MaxRowsAssumption
<1>6. a.status # "accepted" /\ a.stored = 0
    BY <1>4
<1> HIDE DEF a
<1> QED BY <1>1, <1>5, <1>6, AnswerStep

LEMMA AcceptStep ==
    ASSUME IInv, NEW t \in Threads, Accept(t)
    PROVE  IInv'
<1> DEFINE a == [status |-> "accepted",
                 request |-> call[t].request,
                 watermark |-> Len(log),
                 accepted |-> Cardinality(call[t].request.events),
                 duplicates |-> Duplicates(t),
                 acknowledged |-> call[t].acknowledged,
                 reconciled |-> call[t].uncertain]
           q == call[t].request
<1>1. Answer(t, a) /\ Missing(log, q) = {} /\ ~ Conflicts(log, q)
    BY DEF Accept, Compared
<1>2. Covers(log, q)
    <2>1. DOMAIN log = 1 .. Len(log)
        BY SeqDomain DEF IInv, TypeOK
    <2> QED BY <2>1, <1>1 DEF Covers, Missing, Conflicts, Equivalent
<1>3. a.status # "rejected" /\ a.watermark = Len(log) /\ Covers(log, a.request)
    BY <1>2
<1> HIDE DEF a
<1> QED BY <1>1, <1>3, AnswerStep

LEMMA ExhaustStep ==
    ASSUME IInv, NEW t \in Threads, Exhaust(t)
    PROVE  IInv'
<1> DEFINE a == [status |-> "unverified", request |-> call[t].request, stored |-> call[t].stored]
<1>1. Answer(t, a)
    BY DEF Exhaust, Refusal
<1>2. a.status # "accepted" /\ a.status # "rejected"
    OBVIOUS
<1> HIDE DEF a
<1> QED BY <1>1, <1>2, AnswerStep

-----------------------------------------------------------------------------
(* What a thread leaves under way when it goes on to another call. *)
LEMMA Orphans ==
    ASSUME IInv, NEW t \in Threads, NEW r \in Orphaned(t)
    PROVE  /\ r \in Rpc
           /\ r.thread # t
           /\ r.offset <= Len(log)
           /\ Live(r) => Fits(r.rows)
           /\ r.thread # NoThread => r \in flight
<1>1. PICK s \in flight :
        r = IF s.thread = t THEN [s EXCEPT !.thread = NoThread, !.attempt = 0] ELSE s
    BY DEF Orphaned
<1>2. s \in Rpc /\ s.offset <= Len(log) /\ (Live(s) => Fits(s.rows))
    BY DEF IInv, TypeOK, FlightFits
<1>3. CASE s.thread = t
    <2>1. r.thread = NoThread /\ r.attempt = 0 /\ r.offset = s.offset /\ r.rows = s.rows
          /\ r \in Rpc
        BY <1>1, <1>2, <1>3 DEF Rpc
    <2> QED BY <2>1, <1>2, NoThreadAssumption DEF Live
<1>4. CASE s.thread # t
    BY <1>1, <1>2, <1>4 DEF Live
<1> QED BY <1>3, <1>4

LEMMA StartStep ==
    ASSUME IInv, NEW t \in Threads, Start(t)
    PROVE  IInv'
<1>1. PICK q \in Requests :
        IF Permitted(q) /\ Consistent(q)
        THEN /\ pc' = [pc EXCEPT ![t] = "read"]
             /\ call' = [call EXCEPT ![t] = NewCall(q, clock)]
             /\ answer' = [answer EXCEPT ![t] = NoAnswer]
        ELSE /\ answer' = [answer EXCEPT ![t] =
                   [status |-> IF Permitted(q) THEN "rejected" ELSE "denied",
                    request |-> q, stored |-> 0]]
             /\ UNCHANGED <<pc, call>>
    BY DEF Start
<1>2. pc[t] = "idle" /\ flight' = Orphaned(t) /\ UNCHANGED <<log, clock>>
    BY DEF Start
<1>3. clock \in Nat /\ clock <= MaxClock
    BY MaxClockAssumption DEF IInv, TypeOK
<1>4. Permitted(q) /\ Consistent(q) => NewCall(q, clock) \in Call /\ Valid(NewCall(q, clock))
    BY <1>3, MaxAttemptsAssumption DEF NewCall, Call, Valid
<1>5. \A u \in Threads : u # t =>
        pc'[u] = pc[u] /\ call'[u] = call[u] /\ answer'[u] = answer[u]
    BY <1>1 DEF IInv, TypeOK
<1>6. flight' \subseteq Rpc /\ \A r \in flight' :
        /\ r.thread # t
        /\ r.offset <= Len(log)
        /\ Live(r) => Fits(r.rows)
        /\ \A u \in Threads : r.thread = u => r \in flight
    BY <1>2, Orphans, NoThreadAssumption
<1>7. \/ pc'[t] = "read" /\ call'[t] = NewCall(q, clock) /\ answer'[t] = NoAnswer
         /\ Permitted(q) /\ Consistent(q)
      \/ /\ pc'[t] = "idle" /\ call'[t] = call[t]
         /\ answer'[t] = [status |-> IF Permitted(q) THEN "rejected" ELSE "denied",
                          request |-> q, stored |-> 0]
    BY <1>1, <1>2 DEF IInv, TypeOK
<1>8. TypeOK'
    <2>1. /\ DOMAIN call' = Threads /\ DOMAIN answer' = Threads
          /\ pc' \in [Threads -> {"idle", "read", "wait"}]
        BY <1>1 DEF IInv, TypeOK
    <2>2. NewCall(q, clock).request = q /\ NewCall(q, clock).now = clock
          /\ NewCall(q, clock).stored = 0 /\ NewCall(q, clock).attempts = 0
        BY DEF NewCall
    <2>3. \A u \in Threads :
            IF pc'[u] = "idle" THEN call'[u] = NoCall
            ELSE /\ call'[u] \in Call
                 /\ Permitted(call'[u].request) /\ Consistent(call'[u].request)
                 /\ call'[u].now <= clock
                 /\ call'[u].stored <= call'[u].attempts
        BY <1>2, <1>3, <1>4, <1>5, <1>7, <2>2 DEF IInv, TypeOK
    <2> QED BY <2>1, <2>3, <1>2, <1>6 DEF IInv, TypeOK
<1>9. SourceStaysReadable' /\ LogIsAdmissible'
    BY <1>2 DEF IInv, SourceStaysReadable, LogIsAdmissible
<1>10. FlightFits'
    BY <1>2, <1>6 DEF FlightFits, Live, Fits
<1>11. OwnRpcs'
    BY <1>2, <1>5, <1>6 DEF IInv, OwnRpcs, Live
<1>12. StoredIsCovered'
    BY <1>2, <1>5, <1>7 DEF IInv, StoredIsCovered, NewCall
<1>13. Watermarks' /\ AcceptedIsStored'
    BY <1>2, <1>5, <1>7 DEF IInv, Watermarks, AcceptedIsStored
<1>14. RejectedStoresNothing'
    BY <1>2, <1>5, <1>6, <1>7 DEF IInv, RejectedStoresNothing
<1>15. NotYetAnswered'
    BY <1>5, <1>7 DEF IInv, NotYetAnswered
<1> QED BY <1>8, <1>9, <1>10, <1>11, <1>12, <1>13, <1>14, <1>15 DEF IInv

LEMMA CrashStep ==
    ASSUME IInv, NEW t \in Threads, Crash(t)
    PROVE  IInv'
<1>1. flight' = Orphaned(t) /\ UNCHANGED <<log, clock, answer>>
    BY DEF Crash
<1>2. \A u \in Threads : u # t => pc'[u] = pc[u] /\ call'[u] = call[u]
    BY DEF IInv, TypeOK, Crash
<1>3. pc'[t] = "idle" /\ call'[t] = NoCall
    BY DEF IInv, TypeOK, Crash
<1>4. flight' \subseteq Rpc /\ \A r \in flight' :
        /\ r.thread # t
        /\ r.offset <= Len(log)
        /\ Live(r) => Fits(r.rows)
        /\ \A u \in Threads : r.thread = u => r \in flight
    BY <1>1, Orphans, NoThreadAssumption
<1>5. TypeOK'
    BY <1>1, <1>2, <1>3, <1>4 DEF IInv, TypeOK, Crash
<1>6. FlightFits'
    BY <1>1, <1>4 DEF FlightFits, Live, Fits
<1>7. OwnRpcs' /\ StoredIsCovered'
    BY <1>1, <1>2, <1>3, <1>4 DEF IInv, OwnRpcs, StoredIsCovered, Live
<1>8. Watermarks' /\ AcceptedIsStored' /\ SourceStaysReadable' /\ LogIsAdmissible'
    BY <1>1 DEF IInv, Watermarks, AcceptedIsStored, SourceStaysReadable, LogIsAdmissible
<1>9. RejectedStoresNothing'
    BY <1>1, <1>4 DEF IInv, RejectedStoresNothing
<1>10. NotYetAnswered'
    BY <1>1, <1>2, <1>3 DEF IInv, NotYetAnswered
<1> QED BY <1>5, <1>6, <1>7, <1>8, <1>9, <1>10 DEF IInv

-----------------------------------------------------------------------------
LEMMA TickStep ==
    ASSUME IInv, Tick
    PROVE  IInv'
<1>1. UNCHANGED <<log, flight, pc, call, answer>> /\ clock < MaxClock /\ clock' = clock + 1
    BY DEF Tick
<1>2. TypeOK'
    <2>1. clock \in Nat /\ clock' \in 0 .. MaxClock
        BY <1>1, MaxClockAssumption DEF IInv, TypeOK
    <2>2. \A t \in Threads : pc[t] # "idle" => call[t].now <= clock'
        BY <1>1, <2>1 DEF IInv, TypeOK, Call
    <2> QED BY <1>1, <2>1, <2>2 DEF IInv, TypeOK
<1> QED BY <1>1, <1>2 DEF IInv, NotYetAnswered, SourceStaysReadable, LogIsAdmissible, FlightFits, Live, Fits,
            OwnRpcs, StoredIsCovered, Watermarks, AcceptedIsStored, RejectedStoresNothing

(* A step that only advances the locals of a call. *)
LEMMA LocalStep ==
    ASSUME IInv, NEW t \in Threads, pc[t] # "idle",
           NEW c, call' = [call EXCEPT ![t] = c],
           NEW step \in {"read", "wait"}, pc' = [pc EXCEPT ![t] = step],
           UNCHANGED <<log, clock, flight, answer>>,
           c \in Call, c.request = call[t].request, c.now = call[t].now,
           c.stored = call[t].stored, c.attempts = call[t].attempts
    PROVE  IInv'
<1>1. \A u \in Threads : u # t => pc'[u] = pc[u] /\ call'[u] = call[u]
    BY DEF IInv, TypeOK
<1>2. pc'[t] = step /\ call'[t] = c
    BY DEF IInv, TypeOK
<1>3. TypeOK'
    BY <1>1, <1>2 DEF IInv, TypeOK
<1>4. Pending(log, c) = Pending(log, call[t])
    BY DEF Pending
<1>5. OwnRpcs'
    BY <1>1, <1>2, <1>4 DEF IInv, OwnRpcs, Live
<1>6. StoredIsCovered'
    BY <1>1, <1>2 DEF IInv, StoredIsCovered
<1>7. NotYetAnswered'
    BY <1>1 DEF IInv, NotYetAnswered
<1> QED BY <1>3, <1>5, <1>6, <1>7 DEF IInv, SourceStaysReadable, LogIsAdmissible, FlightFits, Live,
            Fits, Watermarks, AcceptedIsStored, RejectedStoresNothing

LEMMA AcknowledgeStep ==
    ASSUME IInv, NEW t \in Threads, Acknowledge(t)
    PROVE  IInv'
<1> DEFINE c == [call[t] EXCEPT !.acknowledged = @ + call[t].sent]
<1>1. pc[t] # "idle" /\ pc' = [pc EXCEPT ![t] = "read"]
      /\ UNCHANGED <<log, clock, flight, answer>>
    BY DEF Acknowledge
<1>2. call' = [call EXCEPT ![t] = c]
    BY DEF Acknowledge, IInv, TypeOK
<1>3. call[t] \in Call
    BY <1>1, RunningCall
<1>4. /\ c \in Call /\ c.request = call[t].request /\ c.now = call[t].now
      /\ c.stored = call[t].stored /\ c.attempts = call[t].attempts
    BY <1>3 DEF Call
<1> HIDE DEF c
<1> QED BY <1>1, <1>2, <1>4, LocalStep

LEMMA FailStep ==
    ASSUME IInv, NEW t \in Threads, Fail(t)
    PROVE  IInv'
<1> DEFINE c == [call[t] EXCEPT !.uncertain = TRUE]
<1>1. pc[t] # "idle" /\ pc' = [pc EXCEPT ![t] = "read"]
      /\ UNCHANGED <<log, clock, flight, answer>>
    BY DEF Fail
<1>2. call' = [call EXCEPT ![t] = c]
    BY DEF Fail, IInv, TypeOK
<1>3. call[t] \in Call
    BY <1>1, RunningCall
<1>4. /\ c \in Call /\ c.request = call[t].request /\ c.now = call[t].now
      /\ c.stored = call[t].stored /\ c.attempts = call[t].attempts
    BY <1>3 DEF Call
<1> HIDE DEF c
<1> QED BY <1>1, <1>2, <1>4, LocalStep

LEMMA SubmitStep ==
    ASSUME IInv, NEW t \in Threads, Submit(t)
    PROVE  IInv'
<1>1. PICK rows \in Pending(log, call[t]) : Passes(t, rows) /\ Send(t, rows)
    BY DEF Submit
<1> DEFINE c == [call[t] EXCEPT !.attempts = @ + 1, !.sent = Len(rows),
                                !.duplicates = Duplicates(t)]
           rpc == [thread |-> t, attempt |-> call[t].attempts + 1,
                   offset |-> Len(log), rows |-> rows]
<1>2. /\ pc[t] = "read" /\ Readable(log) /\ ~ Conflicts(log, call[t].request)
      /\ call[t].attempts < MaxAttempts
    BY DEF Submit, Compared
<1>3. /\ pc' = [pc EXCEPT ![t] = "wait"]
      /\ UNCHANGED <<log, clock, answer>>
      /\ flight' \subseteq flight \cup {rpc}
    BY <1>1 DEF Send
<1>4. call' = [call EXCEPT ![t] = c]
    BY <1>1 DEF Send, IInv, TypeOK
<1>5. call[t] \in Call /\ Valid(call[t]) /\ call[t].stored <= call[t].attempts
    BY <1>2, RunningCall DEF IInv, TypeOK
<1>6. log \in Seq(Row) /\ Len(log) \in Nat
    BY LenProperties DEF IInv, TypeOK
<1>7. rows \in Seq(Row) /\ Lists(rows, log, call[t].request) /\ Len(rows) \in Nat
    BY <1>1, <1>5, <1>6, PendingRows, LenProperties
<1>8. Duplicates(t) \in Int
    <2>1. /\ IsFiniteSet(call[t].request.events)
          /\ Missing(log, call[t].request) \subseteq call[t].request.events
        BY <1>5, RequestsAssumption DEF Valid, Missing
    <2>2. /\ Cardinality(call[t].request.events) \in Nat
          /\ Cardinality(Missing(log, call[t].request)) \in Nat
        BY <2>1, FS_Subset, FS_CardinalityType
    <2> QED BY <2>2, <1>5 DEF Duplicates, Call
<1>9. /\ c \in Call /\ c.request = call[t].request /\ c.now = call[t].now
      /\ c.stored = call[t].stored /\ c.attempts = call[t].attempts + 1
    <2>1. call[t].attempts + 1 \in 0 .. MaxAttempts
        BY <1>2, <1>5, MaxAttemptsAssumption DEF Call
    <2>2. [call[t] EXCEPT !.attempts = @ + 1] \in Call
        BY <2>1, <1>5 DEF Call
    <2>3. c = [[[call[t] EXCEPT !.attempts = @ + 1] EXCEPT !.sent = Len(rows)]
                 EXCEPT !.duplicates = Duplicates(t)]
        BY <1>5 DEF Call
    <2>4. c \in Call
        BY <2>2, <2>3, <1>7, <1>8 DEF Call
    <2> QED BY <2>3, <2>4, <1>5 DEF Call
<1>10. Fits(rows)
    <2>1. rows # << >> /\ Admissible(log \o rows) /\ Len(log) + Len(rows) <= MaxRows
        BY <1>1 DEF Passes
    <2>2. Readable(log \o rows)
        BY <1>2, <1>5, <1>6, <1>7, <2>1, ListedRowsFit DEF Valid
    <2>3. Pending(log, call[t]) = Pending(log, NewCall(call[t].request, call[t].now))
        BY DEF Pending, NewCall
    <2> QED BY <1>1, <1>2, <1>5, <2>1, <2>2, <2>3 DEF Fits, Valid
<1>11. rpc \in Rpc /\ rpc.thread = t /\ rpc.attempt = call[t].attempts + 1
       /\ rpc.offset = Len(log) /\ rpc.rows = rows
    BY <1>5, <1>6, <1>7 DEF Rpc, Call
<1> HIDE DEF c, rpc
<1>12. \A u \in Threads : u # t => pc'[u] = pc[u] /\ call'[u] = call[u]
    BY <1>3, <1>4 DEF IInv, TypeOK
<1>13. pc'[t] = "wait" /\ call'[t] = c
    BY <1>3, <1>4 DEF IInv, TypeOK
<1>14. TypeOK'
    <2>1. c.stored <= c.attempts
        BY <1>5, <1>9 DEF Call
    <2>2. /\ DOMAIN call' = Threads /\ DOMAIN answer' = Threads
          /\ pc' \in [Threads -> {"idle", "read", "wait"}]
          /\ flight' \subseteq Rpc
        BY <1>3, <1>4, <1>11 DEF IInv, TypeOK
    <2> QED BY <2>1, <2>2, <1>2, <1>3, <1>9, <1>12, <1>13 DEF IInv, TypeOK
<1>15. FlightFits'
    BY <1>3, <1>6, <1>10, <1>11 DEF IInv, FlightFits, Live, Fits
<1>16. Pending(log, c) = Pending(log, call[t])
    BY <1>9 DEF Pending
<1>17. OwnRpcs'
    <2> SUFFICES ASSUME NEW u \in Threads, NEW r \in flight', pc'[u] # "idle", r.thread = u
                 PROVE  /\ r.attempt \in 1 .. call'[u].attempts
                        /\ Live(r) => /\ r.rows \in Pending(log, call'[u])
                                      /\ ~ Conflicts(log, call'[u].request)
        BY <1>3 DEF OwnRpcs, Live
    <2>1. CASE u # t
        BY <2>1, <1>3, <1>11, <1>12 DEF IInv, OwnRpcs
    <2>2. CASE u = t /\ r = rpc
        BY <2>2, <1>1, <1>2, <1>5, <1>9, <1>11, <1>13, <1>16 DEF Call
    <2>3. CASE u = t /\ r \in flight
        <3>1. /\ r.attempt \in 1 .. call[t].attempts
              /\ Live(r) => r.rows \in Pending(log, call[t])
            BY <2>3, <1>2 DEF IInv, OwnRpcs
        <3> QED BY <3>1, <2>3, <1>2, <1>5, <1>9, <1>13, <1>16 DEF Call
    <2> QED BY <2>1, <2>2, <2>3, <1>3
<1>18. StoredIsCovered'
    BY <1>2, <1>3, <1>9, <1>12, <1>13 DEF IInv, StoredIsCovered
<1>19. Watermarks' /\ AcceptedIsStored' /\ SourceStaysReadable' /\ LogIsAdmissible'
    BY <1>3 DEF IInv, Watermarks, AcceptedIsStored, SourceStaysReadable, LogIsAdmissible
<1>20. RejectedStoresNothing'
    <2>1. answer[t] = NoAnswer
        BY <1>2 DEF IInv, NotYetAnswered
    <2> QED BY <2>1, <1>3, <1>11 DEF IInv, RejectedStoresNothing
<1>21. NotYetAnswered'
    BY <1>2, <1>3, <1>12 DEF IInv, NotYetAnswered
<1> QED BY <1>21, <1>14, <1>15, <1>17, <1>18, <1>19, <1>20 DEF IInv

LEMMA DropStep ==
    ASSUME IInv, NEW r \in flight, Drop(r)
    PROVE  IInv'
<1>1. flight' \subseteq flight /\ UNCHANGED <<log, clock, pc, call, answer>>
    BY DEF Drop
<1>2. TypeOK' /\ NotYetAnswered'
    BY <1>1 DEF IInv, TypeOK, NotYetAnswered
<1>3. FlightFits' /\ OwnRpcs' /\ RejectedStoresNothing'
    BY <1>1 DEF IInv, FlightFits, OwnRpcs, RejectedStoresNothing, Live, Fits
<1> QED BY <1>1, <1>2, <1>3 DEF IInv, SourceStaysReadable, LogIsAdmissible, StoredIsCovered,
            Watermarks, AcceptedIsStored

(* The step that matters: a live RPC makes the log longer, so that no other *)
(* RPC under way is live any more, and its own call is now covered.         *)
LEMMA LandStep ==
    ASSUME IInv, NEW r \in flight, Land(r)
    PROVE  IInv'
<1>1. /\ log' = log \o r.rows /\ flight' = flight \ {r} /\ call' = MarkStored(r)
      /\ UNCHANGED <<clock, pc, answer>>
      /\ Live(r)
    BY DEF Land, Live
<1>2. r \in Rpc /\ r.rows \in Seq(Row) /\ log \in Seq(Row)
    BY DEF IInv, TypeOK, Rpc
<1>3. Fits(r.rows)
    BY <1>1 DEF IInv, FlightFits
<1>4. /\ Len(log) \in Nat /\ Len(r.rows) \in Nat
      /\ log' \in Seq(Row) /\ Len(log') = Len(log) + Len(r.rows)
      /\ \A i \in 1 .. Len(log) : log'[i] = log[i]
    BY <1>1, <1>2, Concat, LenProperties
<1>5. Len(log) < Len(log')
    <2>1. Len(r.rows) # 0
        BY <1>2, <1>3, EmptySeq DEF Fits
    <2> QED BY <2>1, <1>4
<1>6. \A s \in flight : s.offset \in Nat /\ s.offset < Len(log')
    BY <1>4, <1>5 DEF IInv, TypeOK, FlightFits, Rpc
<1>7. \A t \in Threads :
        call'[t] = IF t = r.thread /\ pc[t] # "idle"
                   THEN [call[t] EXCEPT !.stored = r.attempt] ELSE call[t]
    BY <1>1 DEF MarkStored
<1>8. ASSUME NEW t \in Threads, t = r.thread, pc[t] # "idle"
      PROVE  /\ call'[t] \in Call /\ call'[t].request = call[t].request
             /\ call'[t].now = call[t].now /\ call'[t].attempts = call[t].attempts
             /\ call'[t].stored <= call[t].attempts
             /\ Covers(log', call[t].request)
    <2>1. call[t] \in Call /\ Valid(call[t])
        BY <1>8, RunningCall
    <2>2. /\ r.attempt \in 1 .. call[t].attempts
          /\ r.rows \in Pending(log, call[t]) /\ ~ Conflicts(log, call[t].request)
        BY <1>1, <1>8 DEF IInv, OwnRpcs
    <2>3. r.attempt \in 0 .. MaxAttempts /\ r.attempt <= call[t].attempts
        BY <2>1, <2>2, MaxAttemptsAssumption DEF Call
    <2>4. call'[t] = [call[t] EXCEPT !.stored = r.attempt]
        BY <1>7, <1>8
    <2>5. Lists(r.rows, log, call[t].request)
        BY <1>2, <2>1, <2>2, PendingRows
    <2>6. Covers(log', call[t].request)
        BY <1>1, <1>2, <2>1, <2>2, <2>5, ListedRowsCover DEF Valid
    <2> QED BY <2>1, <2>3, <2>4, <2>6 DEF Call
<1>9. TypeOK'
    <2>1. DOMAIN call' = Threads
        BY <1>1 DEF MarkStored
    <2>2. \A t \in Threads :
            IF pc[t] = "idle" THEN call'[t] = NoCall
            ELSE /\ call'[t] \in Call
                 /\ Permitted(call'[t].request) /\ Consistent(call'[t].request)
                 /\ call'[t].now <= clock
                 /\ call'[t].stored <= call'[t].attempts
        BY <1>7, <1>8 DEF IInv, TypeOK
    <2> QED BY <2>1, <2>2, <1>1, <1>4 DEF IInv, TypeOK
<1>10. SourceStaysReadable' /\ LogIsAdmissible'
    BY <1>1, <1>3 DEF Fits, SourceStaysReadable, LogIsAdmissible
<1>11. \A s \in flight' : s \in flight /\ s.offset < Len(log') /\ s.offset # Len(log')
    BY <1>1, <1>4, <1>6
<1>12. FlightFits'
    BY <1>4, <1>6, <1>11 DEF FlightFits, Live
<1>13. \A t \in Threads : pc[t] # "idle" => call'[t].attempts = call[t].attempts
    BY <1>7, <1>8
<1>14. OwnRpcs'
    BY <1>1, <1>11, <1>13 DEF IInv, OwnRpcs, Live
<1>15. StoredIsCovered'
    <2> SUFFICES ASSUME NEW t \in Threads, pc[t] # "idle", call'[t].stored # 0
                 PROVE  Covers(log', call'[t].request)
        BY <1>1 DEF StoredIsCovered
    <2>1. CASE t = r.thread
        BY <2>1, <1>8
    <2>2. CASE t # r.thread
        BY <2>2, <1>1, <1>2, <1>7, StaysCovered DEF IInv, StoredIsCovered
    <2> QED BY <2>1, <2>2
<1>16. Watermarks' /\ NotYetAnswered'
    BY <1>1 DEF IInv, Watermarks, NotYetAnswered
<1>17. AcceptedIsStored'
    <2> SUFFICES ASSUME NEW t \in Threads, answer[t] # NoAnswer, answer[t].status = "accepted"
                 PROVE  /\ answer[t].watermark <= Len(log')
                        /\ \A e \in answer[t].request.events : \E i \in 1 .. answer[t].watermark :
                              log'[i].id = e.id /\ Same(log'[i], e, answer[t].request.actor)
        BY <1>1 DEF AcceptedIsStored
    <2>1. answer[t].watermark \in Nat /\ answer[t].watermark <= Len(log)
        BY DEF IInv, Watermarks, AcceptedIsStored
    <2>2. \A i \in 1 .. answer[t].watermark : log'[i] = log[i]
        BY <2>1, <1>4
    <2> QED BY <2>1, <2>2, <1>4, <1>5 DEF IInv, AcceptedIsStored
<1>18. RejectedStoresNothing'
    BY <1>1, <1>11 DEF IInv, RejectedStoresNothing
<1> QED BY <1>9, <1>10, <1>12, <1>14, <1>15, <1>16, <1>17, <1>18 DEF IInv

-----------------------------------------------------------------------------
LEMMA NextIInv == IInv /\ [Next]_vars => IInv'
<1> SUFFICES ASSUME IInv, [Next]_vars PROVE IInv'
    OBVIOUS
<1>1. CASE Tick
    BY <1>1, TickStep
<1>2. ASSUME NEW t \in Threads, Start(t) \/ Step(t) \/ Crash(t)
      PROVE  IInv'
    BY <1>2, StartStep, CrashStep, FailReadStep, RefuseConflictStep, RefusePendingStep,
       AcceptStep, ExhaustStep, SubmitStep, AcknowledgeStep, FailStep DEF Step
<1>3. ASSUME NEW r \in flight, Land(r) \/ Drop(r)
      PROVE  IInv'
    BY <1>3, LandStep, DropStep
<1>4. CASE UNCHANGED vars
    BY <1>4 DEF vars, IInv, TypeOK, NotYetAnswered, SourceStaysReadable, LogIsAdmissible,
       FlightFits, Live, Fits, OwnRpcs, StoredIsCovered, Watermarks, AcceptedIsStored,
       RejectedStoresNothing
<1> QED BY <1>1, <1>2, <1>3, <1>4 DEF Next

LEMMA Invariance == Spec => []IInv
BY InitIInv, NextIInv, PTL DEF Spec

(* The source, the RPCs and the calls keep their types, whatever is lost,   *)
(* late or retried.                                                         *)
THEOREM TypeCorrect == Spec => []TypeOK
<1>1. IInv => TypeOK
    BY DEF IInv
<1> QED BY <1>1, Invariance, PTL

(* No append of the gateway ever makes the source unreadable to it.         *)
THEOREM SourceIsAlwaysReadable == Spec => []SourceStaysReadable
<1>1. IInv => SourceStaysReadable
    BY DEF IInv
<1> QED BY <1>1, Invariance, PTL

(* Whatever the admission policy is, the log as a whole satisfies it: the   *)
(* check before an append is as good as one made by the storage service.    *)
THEOREM LogIsAlwaysAdmissible == Spec => []LogIsAdmissible
<1>1. IInv => LogIsAdmissible
    BY DEF IInv
<1> QED BY <1>1, Invariance, PTL

(* A 200 response is true, and stays true. *)
THEOREM AcceptedIsAlwaysStored == Spec => []AcceptedIsStored
<1>1. IInv => AcceptedIsStored
    BY DEF IInv
<1> QED BY <1>1, Invariance, PTL

(* A 422 response is final: nothing of the call is stored, then or later.   *)
THEOREM RejectedNeverStores == Spec => []RejectedStoresNothing
<1>1. IInv => RejectedStoresNothing
    BY DEF IInv
<1> QED BY <1>1, Invariance, PTL

(* What readers of the source depend on, together.                          *)
THEOREM SourceIsAlwaysSound == Spec => []SourceIsSound
<1>1. IInv => SourceIsSound
    BY DEF IInv, SourceIsSound
<1> QED BY <1>1, Invariance, PTL

(* What a client depends on, together: both final answers are true.         *)
THEOREM AnswersAreAlwaysTrue == Spec => []AnswersAreTrue
<1>1. IInv => AnswersAreTrue
    BY DEF IInv, AnswersAreTrue
<1> QED BY <1>1, Invariance, PTL

-----------------------------------------------------------------------------
(* The abstract log: what the rows say without position and arrival time.   *)
EventRow == [id : Nat, body : Bodies, actor : DOMAIN Emits]

LEMMA EventsOfRows ==
    ASSUME NEW rows \in Seq(Row)
    PROVE  /\ Events(rows) \in Seq(EventRow)
           /\ Len(Events(rows)) = Len(rows)
           /\ DOMAIN Events(rows) = 1 .. Len(rows)
           /\ \A i \in 1 .. Len(rows) : Events(rows)[i] =
                 [id |-> rows[i].id, body |-> rows[i].body, actor |-> rows[i].actor]
<1>1. Len(rows) \in Nat /\ \A i \in 1 .. Len(rows) : rows[i] \in Row
    BY SeqDomain
<1>2. \A i \in 1 .. Len(rows) :
        [id |-> rows[i].id, body |-> rows[i].body, actor |-> rows[i].actor] \in EventRow
    BY <1>1 DEF Row, EventRow
<1> QED BY <1>1, <1>2 DEF Events

LEMMA EventsOfConcat ==
    ASSUME NEW s \in Seq(Row), NEW t \in Seq(Row)
    PROVE  Events(s \o t) = Events(s) \o Events(t)
<1>1. /\ Events(s) \in Seq(EventRow) /\ Events(t) \in Seq(EventRow)
      /\ Len(Events(s)) = Len(s) /\ Len(Events(t)) = Len(t)
      /\ Len(s) \in Nat /\ Len(t) \in Nat
    BY EventsOfRows, LenProperties
<1>2. s \o t \in Seq(Row) /\ Len(s \o t) = Len(s) + Len(t)
      /\ \A i \in 1 .. Len(s) + Len(t) : (s \o t)[i] = IF i <= Len(s) THEN s[i] ELSE t[i - Len(s)]
    BY ConcatProperties
<1>3. Events(s \o t) \in Seq(EventRow) /\ Len(Events(s \o t)) = Len(s) + Len(t)
    BY <1>2, EventsOfRows
<1>4. Events(s) \o Events(t) \in Seq(EventRow)
      /\ Len(Events(s) \o Events(t)) = Len(s) + Len(t)
      /\ \A i \in 1 .. Len(s) + Len(t) : (Events(s) \o Events(t))[i] =
            IF i <= Len(s) THEN Events(s)[i] ELSE Events(t)[i - Len(s)]
    <2> DEFINE es == Events(s)
               et == Events(t)
    <2>1. es \in Seq(EventRow) /\ et \in Seq(EventRow) /\ Len(es) = Len(s) /\ Len(et) = Len(t)
        BY <1>1
    <2> HIDE DEF es, et
    <2>2. es \o et \in Seq(EventRow)
          /\ Len(es \o et) = Len(es) + Len(et)
          /\ \A i \in 1 .. Len(es) + Len(et) : (es \o et)[i] =
                IF i <= Len(es) THEN es[i] ELSE et[i - Len(es)]
        BY <2>1, ConcatProperties
    <2>3. es \o et \in Seq(EventRow)
          /\ Len(es \o et) = Len(s) + Len(t)
          /\ \A i \in 1 .. Len(s) + Len(t) : (es \o et)[i] =
                IF i <= Len(s) THEN es[i] ELSE et[i - Len(s)]
        BY <2>1, <2>2
    <2> QED BY <2>3 DEF es, et
<1>5. ASSUME NEW i \in 1 .. Len(s) + Len(t)
      PROVE  Events(s \o t)[i] = (Events(s) \o Events(t))[i]
    <2>1. Events(s \o t)[i] = [id |-> (s \o t)[i].id, body |-> (s \o t)[i].body,
                               actor |-> (s \o t)[i].actor]
        BY <1>2, EventsOfRows
    <2>2. CASE i <= Len(s)
        <3>1. i \in 1 .. Len(s)
            BY <2>2, <1>1
        <3> QED BY <3>1, <2>1, <2>2, <1>2, <1>4, EventsOfRows
    <2>3. CASE ~ (i <= Len(s))
        <3>1. i - Len(s) \in 1 .. Len(t)
            BY <2>3, <1>1
        <3> QED BY <3>1, <2>1, <2>3, <1>2, <1>4, EventsOfRows
    <2> QED BY <2>2, <2>3
<1> QED BY <1>3, <1>4, <1>5, SeqEqual

(* A live RPC that fits is one Put of the abstract log. *)
LEMMA LandIsPut ==
    ASSUME NEW rows \in Seq(Row), log \in Seq(Row), Fits(rows), log' = log \o rows
    PROVE  \E q \in Requests : Promise!Put(q)
<1>1. PICK q \in Requests, now \in Nat :
        /\ Permitted(q) /\ Consistent(q) /\ ~ Conflicts(log, q)
        /\ rows \in Pending(log, NewCall(q, now))
    BY DEF Fits
<1>2. PICK order \in InOrder(Missing(log, q)) :
        rows = [i \in DOMAIN order |->
                  [id |-> order[i].id, body |-> order[i].body, actor |-> q.actor,
                   recorded |-> now, pos |-> Len(log) + i]]
    BY <1>1 DEF Pending, NewCall
<1>3. /\ DOMAIN log = 1 .. Len(log) /\ DOMAIN rows = 1 .. Len(rows)
      /\ DOMAIN Events(log) = 1 .. Len(log)
      /\ \A i \in 1 .. Len(log) : Events(log)[i] =
            [id |-> log[i].id, body |-> log[i].body, actor |-> log[i].actor]
    BY SeqDomain, EventsOfRows
<1>4. Promise!Missing(Events(log), q) = Missing(log, q)
    BY <1>3 DEF Promise!Missing, Missing
<1>5. order \in Promise!InOrder(Promise!Missing(Events(log), q))
    <2>1. Promise!InOrder(Missing(log, q)) = InOrder(Missing(log, q))
        BY DEF Promise!InOrder, InOrder, Promise!Cardinality, Cardinality
    <2> QED BY <2>1, <1>2, <1>4
<1>6. Events(rows) = [i \in DOMAIN order |->
                        [id |-> order[i].id, body |-> order[i].body, actor |-> q.actor]]
    <2>1. DOMAIN order = 1 .. Len(rows)
        BY <1>2, <1>3
    <2> QED BY <2>1, <1>2 DEF Events
<1>7. Events(log)' = Events(log) \o [i \in DOMAIN order |->
                        [id |-> order[i].id, body |-> order[i].body, actor |-> q.actor]]
    <2>1. Events(log)' = Events(log \o rows)
        BY DEF Events
    <2> QED BY <2>1, <1>6, EventsOfConcat
<1>8. Promise!Permitted(q) /\ Promise!Consistent(q)
    BY <1>1 DEF Promise!Permitted, Permitted, Promise!Consistent, Consistent
<1>9. \A i \in DOMAIN Events(log), e \in q.events :
        Events(log)[i].id = e.id => Promise!Same(Events(log)[i], e, q.actor)
    <2> SUFFICES ASSUME NEW i \in 1 .. Len(log), NEW e \in q.events, Events(log)[i].id = e.id
                 PROVE  Promise!Same(Events(log)[i], e, q.actor)
        BY <1>3
    <2>1. Events(log)[i].id = log[i].id /\ Events(log)[i].body = log[i].body
          /\ Events(log)[i].actor = log[i].actor
        BY <1>3
    <2>2. Same(log[i], e, q.actor)
        BY <2>1, <1>1, <1>3 DEF Conflicts, Equivalent
    <2> QED BY <2>1, <2>2 DEF Same, Promise!Same
<1> QED BY <1>5, <1>7, <1>8, <1>9 DEF Promise!Put

(* The gateway, its network and its crashes implement the idempotent log:   *)
(* every request is applied at most once, whole, in order, or not at all.   *)
THEOREM GatewayIsIdempotent == Spec => AppendsAreIdempotent
<1>1. Init => Promise!Init
    <2> SUFFICES ASSUME Init PROVE Events(log) = << >>
        BY DEF Promise!Init
    <2>1. log \in Seq(Row) /\ Len(log) = 0
        BY EmptySeq DEF Init
    <2>2. Events(log) \in Seq(EventRow) /\ Len(Events(log)) = 0
        BY <2>1, EventsOfRows
    <2> QED BY <2>2, EmptySeq
<1>2. IInv /\ [Next]_vars => [Promise!Next]_(Events(log))
    <2> SUFFICES ASSUME IInv, [Next]_vars
                 PROVE  Promise!Next \/ Events(log)' = Events(log)
        OBVIOUS
    <2>1. ASSUME NEW r \in flight, Land(r)
          PROVE  Promise!Next
        <3>1. log' = log \o r.rows /\ Live(r)
            BY <2>1 DEF Land, Live
        <3>2. Fits(r.rows) /\ r.rows \in Seq(Row) /\ log \in Seq(Row)
            BY <3>1 DEF IInv, FlightFits, TypeOK, Rpc
        <3> QED BY <3>1, <3>2, LandIsPut DEF Promise!Next
    <2>2. (\A r \in flight : ~ Land(r)) => UNCHANGED log
        BY DEF Next, vars, Tick, Start, Step, FailRead, RefuseConflict, RefusePending, Accept,
               Exhaust, Submit, Send, Acknowledge, Fail, Crash, Drop, Refusal, Answer
    <2>3. UNCHANGED log => Events(log)' = Events(log)
        BY DEF Events
    <2> QED BY <2>1, <2>2, <2>3
<1> QED BY <1>1, <1>2, Invariance, PTL DEF Spec, AppendsAreIdempotent, Promise!Spec
=============================================================================
