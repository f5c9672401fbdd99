---------------------------- MODULE WriterProofs ----------------------------
(* Proofs about Writer, for any databases, callers, size of a chunk and     *)
(* number of write streams and requests, and about GatewayAcceptance, for   *)
(* any fixture and any rows of other producers.                             *)
EXTENDS MCWriter, FiniteSetTheorems, SequenceTheorems, TLAPS

Holding == {"compare", "state", "save", "send", "wait"}
Sending == {"send", "wait"}

(* One call at a time is behind the lock, with a prefix of its database.    *)
OneHolds == \A b, c \in Callers : call[b].pc \in Holding /\ call[c].pc \in Holding => b = c
HasAPrefix ==
    \A c \in Callers : call[c].pc # "idle" =>
        call[c].db \in Databases /\ call[c].watermark <= Len(Local[call[c].db])

(* What came in since the saved stream was based came in through it.        *)
FileIsBased ==
    /\ file # None => file.stream \in DOMAIN lengths /\ file.base + lengths[file.stream] = Len(cloud)
    /\ file = None => flight = {} /\ \A c \in Callers : call[c].pc \notin Sending

(* A stream that is not saved yet is empty, based at the end of the table.  *)
SaveIsFresh ==
    \A c \in Callers :
        /\ call[c].pc = "state" /\ file = None => call[c].existing = Len(cloud)
        /\ call[c].pc = "save" =>
              /\ file = None
              /\ call[c].existing = Len(cloud) /\ call[c].base = Len(cloud)
              /\ call[c].stream \in DOMAIN lengths /\ lengths[call[c].stream] = 0

(* A call sends through the saved stream, from the rows it knows are there; *)
(* if nothing else has come in, the table agrees with its database.         *)
Reached(c) == IF call[c].pc = "wait" /\ call[c].stored THEN Upto(c) ELSE call[c].existing
CallFits ==
    \A c \in Callers :
        /\ call[c].pc \in {"state", "save", "send", "wait"} =>
              /\ Reached(c) <= Len(cloud)
              /\ Reached(c) = Len(cloud) => cloud = Prefix(call[c].db, Len(cloud))
        /\ call[c].pc \in Sending =>
              /\ call[c].stream = file.stream /\ call[c].base = file.base
              /\ call[c].base <= call[c].existing
        /\ call[c].pc = "wait" => call[c].existing < call[c].watermark

(* A request under way that still fits continues the table with the rows of *)
(* one database; the one that its caller waits for is the one it has sent.  *)
Continues(rows) ==
    \E d \in Databases : /\ Len(cloud) + Len(rows) <= Len(Local[d])
                         /\ cloud \o rows = Prefix(d, Len(cloud) + Len(rows))
FlightFits ==
    \A r \in flight :
        /\ r.stream = file.stream
        /\ Len(r.rows) > 0
        /\ file.base + r.offset <= Len(cloud)
        /\ file.base + r.offset = Len(cloud) => Continues(r.rows)
OwnRequest ==
    \A r \in flight, c \in Callers : r.caller = c =>
        /\ call[c].pc = "wait" /\ ~ call[c].stored
        /\ r.offset = call[c].existing - call[c].base
        /\ r.rows = SubSeq(Local[call[c].db], call[c].existing + 1, Upto(c))

IInv == /\ TypeOK /\ OneHolds /\ HasAPrefix /\ FileIsBased /\ SaveIsFresh /\ CallFits
        /\ FlightFits /\ OwnRequest /\ ReplicationIsExact

-----------------------------------------------------------------------------
(* Prefixes of a local stream.                                              *)
LEMMA PrefixRows ==
  ASSUME NEW d \in Databases, NEW n \in Nat, n <= Len(Local[d])
  PROVE  /\ Prefix(d, n) \in Seq(Rows)
         /\ Len(Prefix(d, n)) = n
         /\ \A i \in 1 .. n : Prefix(d, n)[i] = Local[d][i]
<1>1. Local[d] \in Seq(Rows)
  BY LocalAssumption
<1>2. \A i \in 1 .. n : Local[d][i] \in Rows
  BY <1>1, ElementOfSeq, LenProperties
<1>3. /\ Prefix(d, n) \in Seq(Rows)
      /\ Len(Prefix(d, n)) = IF 1 <= n THEN n - 1 + 1 ELSE 0
      /\ \A i \in 1 .. n - 1 + 1 : Prefix(d, n)[i] = Local[d][1 + i - 1]
  BY <1>2, SubSeqProperties DEF Prefix
<1> QED
  BY <1>3

LEMMA PrefixGrows ==
  ASSUME NEW d \in Databases, NEW n \in Nat, NEW m \in n .. Len(Local[d])
  PROVE  /\ SubSeq(Local[d], n + 1, m) \in Seq(Rows)
         /\ Len(SubSeq(Local[d], n + 1, m)) = m - n
         /\ Prefix(d, n) \o SubSeq(Local[d], n + 1, m) = Prefix(d, m)
<1>1. Local[d] \in Seq(Rows) /\ Len(Local[d]) \in Nat
  BY LocalAssumption, LenProperties
<1>2. \A i \in n + 1 .. m : Local[d][i] \in Rows
  BY <1>1, ElementOfSeq
<1>3. /\ SubSeq(Local[d], n + 1, m) \in Seq(Rows)
      /\ Len(SubSeq(Local[d], n + 1, m)) = IF n + 1 <= m THEN m - (n + 1) + 1 ELSE 0
  BY <1>1, <1>2, SubSeqProperties
<1>4. SubSeq(Local[d], 1, n) \o SubSeq(Local[d], n + 1, m) = SubSeq(Local[d], 1, m)
  BY <1>1, ConcatAdjacentSubSeq
<1> QED
  BY <1>1, <1>3, <1>4 DEF Prefix

(* A comparison that finds the same set of rows has found the same rows: a  *)
(* row says at which position it stands.                                    *)
LEMMA SameSetSamePrefix ==
  ASSUME TypeOK, CloudIsAPrefix, NEW d \in Databases, NEW n \in Nat,
         n <= Len(Local[d]), Matches(d, n)
  PROVE  Len(cloud) = n /\ cloud = Prefix(d, n)
<1>1. Len(cloud) = n /\ cloud \in Seq(Rows)
  BY DEF Matches, TypeOK
<1>2. PICK e \in Databases : n <= Len(Local[e]) /\ cloud = Prefix(e, n)
  BY <1>1 DEF CloudIsAPrefix
<1>3. \A i \in 1 .. n : cloud[i] = Local[e][i]
  BY <1>2, PrefixRows
<1>4. Len(Local[d]) \in Nat /\ Len(Local[e]) \in Nat
  BY LocalAssumption, LenProperties
<1>5. ASSUME NEW i \in 1 .. n PROVE cloud[i] = Local[d][i]
  <2>1. PICK j \in 1 .. Len(Local[d]) : j <= n /\ cloud[i] = Local[d][j]
    BY DEF Matches
  <2>2. i \in 1 .. Len(Local[e])
    BY <1>2, <1>4
  <2>3. j = i
    BY <1>3, <2>1, <2>2, LocalAssumption
  <2> QED
    BY <2>1, <2>3
<1>6. /\ Prefix(d, n) \in Seq(Rows) /\ Len(Prefix(d, n)) = n
      /\ \A i \in 1 .. n : Prefix(d, n)[i] = Local[d][i]
  BY PrefixRows
<1>7. cloud = Prefix(d, n)
  BY <1>1, <1>5, <1>6, SeqEqual
<1> QED
  BY <1>1, <1>7

LEMMA UptoIsNext ==
  ASSUME TypeOK, NEW c \in Callers, call[c].existing < call[c].watermark
  PROVE  /\ Upto(c) \in Nat
         /\ call[c].existing < Upto(c) /\ Upto(c) <= call[c].watermark
BY ChunkAssumption DEF TypeOK, Calls, Upto

-----------------------------------------------------------------------------
LEMMA InitHolds == Init => IInv
<1> SUFFICES ASSUME Init PROVE IInv
  OBVIOUS
<1>1. PICK d \in Databases : \E n \in 0 .. Len(Local[d]) : cloud = Prefix(d, n)
  BY DEF Init
<1>2. PICK n \in 0 .. Len(Local[d]) : cloud = Prefix(d, n)
  BY <1>1
<1>3. Len(Local[d]) \in Nat
  BY LocalAssumption, LenProperties
<1>4. cloud \in Seq(Rows) /\ Len(cloud) = n /\ n <= Len(Local[d])
  BY <1>2, <1>3, PrefixRows
<1>5. Resting \in Calls
  BY DEF Resting, Calls
<1>6. << >> \in Seq(Nat)
  BY EmptySeq
<1>7. TypeOK
  BY <1>4, <1>5, <1>6 DEF Init, TypeOK
<1>8. OneHolds /\ HasAPrefix /\ SaveIsFresh /\ CallFits /\ FileIsBased
  BY DEF Init, Resting, OneHolds, HasAPrefix, SaveIsFresh, CallFits, FileIsBased, Holding, Sending
<1>9. FlightFits /\ OwnRequest
  BY DEF Init, FlightFits, OwnRequest
<1>10. ReplicationIsExact
  BY <1>2, <1>4 DEF Init, ReplicationIsExact, CloudIsAPrefix, AnswersAreTrue
<1> QED
  BY <1>7, <1>8, <1>9, <1>10 DEF IInv

(* A call that is over leaves its requests behind, with nobody waiting.     *)
LEMMA Ends ==
  ASSUME IInv, NEW c \in Callers, End(c), UNCHANGED <<cloud, lengths, file>>,
         answer' \in [Callers -> Answers \cup {None}], AnswersAreTrue'
  PROVE  IInv'
<1> USE DEF IInv
<1>1. /\ call' \in [Callers -> Calls]
      /\ call'[c] = Resting
      /\ \A b \in Callers \ {c} : call'[b] = call[b]
  BY DEF End, Set, TypeOK, Resting, Calls
<1>2. ASSUME NEW r \in flight'
      PROVE  /\ r \in Requests /\ r.caller # c
             /\ \E q \in flight : /\ r.stream = q.stream /\ r.offset = q.offset /\ r.rows = q.rows
                                  /\ r.caller # None => r = q
  <2>1. PICK q \in flight : r = IF q.caller = c THEN [q EXCEPT !.caller = None] ELSE q
    BY DEF End, Orphaned
  <2>2. q \in Requests
    BY DEF TypeOK
  <2>3. c # None
    BY NoneAssumption
  <2> QED
    BY <2>1, <2>2, <2>3 DEF Requests
<1>3. TypeOK'
  BY <1>1, <1>2 DEF TypeOK
<1>4. OneHolds' /\ HasAPrefix'
  BY <1>1 DEF OneHolds, HasAPrefix, Resting, Holding
<1>5. FileIsBased'
  BY <1>1, <1>2 DEF FileIsBased, Resting, Sending
<1>6. SaveIsFresh'
  BY <1>1 DEF SaveIsFresh, Resting
<1>7. CallFits'
  BY <1>1 DEF CallFits, Reached, Upto, Resting, Sending
<1>8. FlightFits'
  BY <1>2 DEF FlightFits, Continues
<1>9. OwnRequest'
  <2> SUFFICES ASSUME NEW r \in flight', NEW b \in Callers, r.caller = b
               PROVE  /\ call'[b].pc = "wait" /\ ~ call'[b].stored
                      /\ r.offset = call'[b].existing - call'[b].base
                      /\ r.rows = SubSeq(Local[call'[b].db], call'[b].existing + 1, Upto(b)')
    BY DEF OwnRequest
  <2>1. b # c /\ b # None
    BY <1>2, NoneAssumption
  <2>2. r \in flight
    BY <1>2, <2>1
  <2> QED
    BY <1>1, <2>1, <2>2 DEF OwnRequest, Upto
<1>10. ReplicationIsExact'
  BY DEF ReplicationIsExact, CloudIsAPrefix
<1> QED
  BY <1>3, <1>4, <1>5, <1>6, <1>7, <1>8, <1>9, <1>10

LEMMA Refused ==
  ASSUME IInv, NEW c \in Callers, End(c), UNCHANGED <<cloud, lengths, file, answer>>
  PROVE  IInv'
<1>1. answer' \in [Callers -> Answers \cup {None}]
  BY DEF IInv, TypeOK
<1>2. AnswersAreTrue'
  BY DEF IInv, ReplicationIsExact, AnswersAreTrue
<1> QED
  BY <1>1, <1>2, Ends

(* A call returns only after the table was found to be its stream.          *)
LEMMA Returned ==
  ASSUME IInv, NEW c \in Callers, call[c].pc # "idle", Return(c), UNCHANGED <<cloud, lengths, file>>,
         Matches(call[c].db, call[c].watermark)
  PROVE  IInv'
<1> DEFINE a == [db |-> call[c].db, watermark |-> call[c].watermark]
<1>1. a.db \in Databases /\ a.watermark \in Nat /\ a.watermark <= Len(Local[a.db])
  BY DEF IInv, TypeOK, Calls, HasAPrefix
<1>2. Len(cloud) = a.watermark /\ cloud = Prefix(a.db, a.watermark)
  BY <1>1, SameSetSamePrefix DEF IInv, ReplicationIsExact
<1>3. SubSeq(cloud, 1, a.watermark) = cloud
  BY <1>2, SubSeqFull DEF IInv, TypeOK
<1>4. answer' = [answer EXCEPT ![c] = a] /\ End(c)
  BY DEF Return
<1>5. answer' \in [Callers -> Answers \cup {None}]
  BY <1>1, <1>4 DEF IInv, TypeOK, Answers
<1>6. AnswersAreTrue'
  BY <1>1, <1>2, <1>3, <1>4, NoneAssumption DEF IInv, TypeOK, ReplicationIsExact, AnswersAreTrue, Answers
<1> QED
  BY <1>4, <1>5, <1>6, Ends

-----------------------------------------------------------------------------
LEMMA BeginHolds ==
  ASSUME IInv, NEW c \in Callers, Begin(c)
  PROVE  IInv'
<1> USE DEF IInv
<1>0. PICK d \in Databases : \E n \in 0 .. Len(Local[d]) :
          call' = [call EXCEPT ![c] = [Resting EXCEPT !.pc = "lock", !.db = d, !.watermark = n]]
  BY DEF Begin, Set
<1>1. PICK n \in 0 .. Len(Local[d]) :
          call' = [call EXCEPT ![c] = [Resting EXCEPT !.pc = "lock", !.db = d, !.watermark = n]]
  BY <1>0
<1>2. n \in Nat /\ n <= Len(Local[d])
  BY LocalAssumption, LenProperties
<1> DEFINE new == [Resting EXCEPT !.pc = "lock", !.db = d, !.watermark = n]
<1>a. Resting \in Calls
  BY DEF Resting, Calls
<1>b. new \in Calls /\ new.pc = "lock" /\ new.db = d /\ new.watermark = n
  BY <1>2, <1>a DEF Calls
<1> HIDE DEF new
<1>3. /\ call' \in [Callers -> Calls]
      /\ call'[c].pc = "lock" /\ call'[c].db = d /\ call'[c].watermark = n
      /\ \A b \in Callers \ {c} : call'[b] = call[b]
  BY <1>1, <1>b DEF TypeOK, new
<1>4. /\ UNCHANGED <<cloud, lengths, file, flight>> /\ call[c].pc = "idle"
      /\ answer' = [answer EXCEPT ![c] = None]
  BY DEF Begin
<1>5. TypeOK'
  BY <1>3, <1>4 DEF TypeOK
<1>6. OneHolds' /\ HasAPrefix'
  BY <1>2, <1>3 DEF OneHolds, HasAPrefix, Holding
<1>7. FileIsBased' /\ SaveIsFresh' /\ FlightFits'
  BY <1>3, <1>4 DEF FileIsBased, SaveIsFresh, FlightFits, Continues, Sending
<1>8. CallFits'
  BY <1>3, <1>4 DEF CallFits, Reached, Upto, Sending
<1>9. OwnRequest'
  BY <1>3, <1>4 DEF OwnRequest, Upto
<1>10. ReplicationIsExact'
  BY <1>4 DEF TypeOK, ReplicationIsExact, CloudIsAPrefix, AnswersAreTrue
<1> QED
  BY <1>5, <1>6, <1>7, <1>8, <1>9, <1>10

LEMMA LockHolds ==
  ASSUME IInv, NEW c \in Callers, Lock(c)
  PROVE  IInv'
<1> USE DEF IInv
<1>1. CASE ~ LockIsFree
  BY <1>1, Refused DEF Lock
<1>2. CASE LockIsFree
  <2> DEFINE new == [call[c] EXCEPT !.pc = "compare"]
  <2>a. /\ call[c] \in Calls /\ call[c].pc = "lock"
        /\ Set(c, new) /\ UNCHANGED <<cloud, lengths, file, flight, answer>>
    BY <1>2 DEF Lock, TypeOK
  <2>b. /\ new \in Calls /\ new.pc = "compare"
        /\ new.db = call[c].db /\ new.watermark = call[c].watermark
    BY <2>a DEF Calls
  <2> HIDE DEF new
  <2>1. /\ call' \in [Callers -> Calls] /\ call'[c] = new /\ call[c].pc = "lock"
        /\ \A b \in Callers \ {c} : call'[b] = call[b] /\ call[b].pc \in {"idle", "lock"}
        /\ UNCHANGED <<cloud, lengths, file, flight, answer>>
    BY <1>2, <2>a, <2>b DEF LockIsFree, Set, TypeOK
  <2>2. TypeOK'
    BY <2>1 DEF TypeOK
  <2>3. call'[c].pc = "compare" /\ call'[c].db = call[c].db /\ call'[c].watermark = call[c].watermark
    BY <2>1, <2>b
  <2>4. OneHolds' /\ HasAPrefix'
    BY <2>1, <2>3 DEF OneHolds, HasAPrefix, Holding
  <2>5. FileIsBased' /\ SaveIsFresh' /\ FlightFits'
    BY <2>1, <2>3 DEF FileIsBased, SaveIsFresh, FlightFits, Continues, Sending
  <2>6. CallFits'
    BY <2>1, <2>3 DEF CallFits, Reached, Upto, Sending
  <2>7. OwnRequest'
    BY <2>1, <2>3 DEF OwnRequest, Upto
  <2>8. ReplicationIsExact'
    BY <2>1 DEF ReplicationIsExact, CloudIsAPrefix, AnswersAreTrue
  <2> QED
    BY <2>2, <2>4, <2>5, <2>6, <2>7, <2>8
<1> QED
  BY <1>1, <1>2

(* A step of the call behind the lock that keeps its database and watermark *)
(* and changes neither table nor answers: what it owes to the invariant.    *)
LEMMA Moves ==
  ASSUME IInv, NEW c \in Callers, call[c].pc \in Holding, NEW new \in Calls, new.pc \in Holding,
         Set(c, new), new.db = call[c].db, new.watermark = call[c].watermark,
         UNCHANGED <<cloud, answer>>
  PROVE  /\ call' \in [Callers -> Calls] /\ call'[c] = new
         /\ \A b \in Callers \ {c} : call'[b] = call[b] /\ call[b].pc \in {"idle", "lock"}
         /\ cloud' \in Seq(Rows) /\ answer' \in [Callers -> Answers \cup {None}]
         /\ OneHolds' /\ HasAPrefix' /\ ReplicationIsExact'
<1> USE DEF IInv
<1>1. /\ call' \in [Callers -> Calls] /\ call'[c] = new
      /\ \A b \in Callers \ {c} : call'[b] = call[b]
      /\ cloud' \in Seq(Rows) /\ answer' \in [Callers -> Answers \cup {None}]
  BY DEF Set, TypeOK
<1>2. \A b \in Callers \ {c} : call[b].pc \in {"idle", "lock"}
  BY DEF OneHolds, TypeOK, Calls, Holding
<1>3. OneHolds' /\ HasAPrefix'
  BY <1>1, <1>2 DEF OneHolds, HasAPrefix, Holding
<1>4. ReplicationIsExact'
  BY DEF ReplicationIsExact, CloudIsAPrefix, AnswersAreTrue
<1> QED
  BY <1>1, <1>2, <1>3, <1>4

LEMMA CompareHolds ==
  ASSUME IInv, NEW c \in Callers, Compare(c)
  PROVE  IInv'
<1> USE DEF IInv
<1> DEFINE n == Len(cloud)
<1>1. n \in Nat /\ call[c].pc = "compare" /\ call[c] \in Calls
  BY LenProperties DEF Compare, TypeOK
<1>2. CASE n > call[c].watermark \/ ~ Matches(call[c].db, n)
  <2>1. End(c) /\ UNCHANGED <<cloud, lengths, file, answer>>
    BY <1>1, <1>2 DEF Compare, Calls
  <2> QED
    BY <2>1, Refused
<1>3. CASE n = call[c].watermark /\ Matches(call[c].db, n)
  <2>1. Return(c) /\ UNCHANGED <<cloud, lengths, file>>
    BY <1>1, <1>3 DEF Compare, Calls
  <2> QED
    BY <1>1, <1>3, <2>1, Returned
<1>4. CASE n < call[c].watermark /\ Matches(call[c].db, n)
  <2> DEFINE new == [call[c] EXCEPT !.pc = "state", !.existing = n]
  <2>1. Set(c, new) /\ UNCHANGED <<cloud, lengths, file, flight, answer>>
    BY <1>1, <1>4 DEF Compare, Calls
  <2>2. /\ new \in Calls /\ new.pc = "state" /\ new.existing = n
        /\ new.db = call[c].db /\ new.watermark = call[c].watermark
    BY <1>1 DEF Calls
  <2>3. call[c].db \in Databases /\ n <= Len(Local[call[c].db])
    BY <1>1, <1>4, LocalAssumption, LenProperties DEF HasAPrefix, Calls
  <2>4. cloud = Prefix(call[c].db, n)
    BY <1>1, <1>4, <2>3, SameSetSamePrefix DEF ReplicationIsExact
  <2> HIDE DEF new
  <2>5. /\ call' \in [Callers -> Calls] /\ call'[c] = new
        /\ \A b \in Callers \ {c} : call'[b] = call[b] /\ call[b].pc \in {"idle", "lock"}
        /\ OneHolds' /\ HasAPrefix' /\ ReplicationIsExact'
    BY <1>1, <2>1, <2>2, Moves DEF Holding
  <2>6. TypeOK'
    BY <2>1, <2>5 DEF TypeOK
  <2>7. FileIsBased' /\ SaveIsFresh' /\ FlightFits'
    BY <2>1, <2>2, <2>5 DEF FileIsBased, SaveIsFresh, FlightFits, Continues, Sending
  <2>8. CallFits'
    BY <1>1, <2>1, <2>2, <2>4, <2>5 DEF CallFits, Reached, Upto, Sending
  <2>9. OwnRequest'
    BY <1>1, <2>1, <2>2, <2>5 DEF OwnRequest, Upto
  <2> QED
    BY <2>5, <2>6, <2>7, <2>8, <2>9
<1> QED
  BY <1>1, <1>2, <1>3, <1>4 DEF Calls

LEMMA ResumeHolds ==
  ASSUME IInv, NEW c \in Callers, Resume(c)
  PROVE  IInv'
<1> USE DEF IInv
<1>1. call[c].pc = "state" /\ call[c] \in Calls /\ file # None /\ file \in Files
  BY DEF Resume, TypeOK
<1>2. CASE ~ (call[c].existing >= file.base)
  BY <1>2, Refused DEF Resume
<1>3. CASE call[c].existing >= file.base
  <2> DEFINE new == [call[c] EXCEPT !.pc = "send", !.stream = file.stream, !.base = file.base]
  <2>1. Set(c, new) /\ UNCHANGED <<cloud, lengths, file, flight, answer>>
    BY <1>3 DEF Resume
  <2>2. /\ new \in Calls /\ new.pc = "send" /\ new.existing = call[c].existing
        /\ new.stream = file.stream /\ new.base = file.base
        /\ new.db = call[c].db /\ new.watermark = call[c].watermark
    BY <1>1 DEF Calls, Files
  <2> HIDE DEF new
  <2>3. /\ call' \in [Callers -> Calls] /\ call'[c] = new
        /\ \A b \in Callers \ {c} : call'[b] = call[b] /\ call[b].pc \in {"idle", "lock"}
        /\ OneHolds' /\ HasAPrefix' /\ ReplicationIsExact'
    BY <1>1, <2>1, <2>2, Moves DEF Holding
  <2>4. TypeOK'
    BY <2>1, <2>3 DEF TypeOK
  <2>5. FileIsBased' /\ SaveIsFresh' /\ FlightFits'
    BY <1>1, <2>1, <2>2, <2>3 DEF FileIsBased, SaveIsFresh, FlightFits, Continues, Sending
  <2>6. CallFits'
    BY <1>1, <1>3, <2>1, <2>2, <2>3 DEF CallFits, Reached, Upto, Sending, Calls, Files
  <2>7. OwnRequest'
    BY <1>1, <2>1, <2>2, <2>3 DEF OwnRequest, Upto
  <2> QED
    BY <2>3, <2>4, <2>5, <2>6, <2>7
<1> QED
  BY <1>2, <1>3

LEMMA CreateHolds ==
  ASSUME IInv, NEW c \in Callers, Create(c)
  PROVE  IInv'
<1> USE DEF IInv
<1> DEFINE new == [call[c] EXCEPT !.pc = "save", !.stream = Len(lengths) + 1, !.base = call[c].existing]
<1>1. /\ call[c].pc = "state" /\ call[c] \in Calls /\ file = None /\ flight = {}
      /\ lengths' = Append(lengths, 0) /\ Set(c, new) /\ UNCHANGED <<cloud, file, flight, answer>>
  BY DEF Create, TypeOK, FileIsBased
<1>2. /\ Len(lengths) \in Nat /\ lengths' \in Seq(Nat)
      /\ Len(lengths) + 1 \in DOMAIN lengths' /\ lengths'[Len(lengths) + 1] = 0
  BY <1>1, LenProperties, AppendProperties DEF TypeOK
<1>a. Len(lengths) + 1 \in Nat \ {0} /\ call[c].existing \in Nat
  BY <1>1, <1>2 DEF Calls
<1>3. /\ new \in Calls /\ new.pc = "save" /\ new.existing = call[c].existing
      /\ new.stream = Len(lengths) + 1 /\ new.base = call[c].existing
      /\ new.db = call[c].db /\ new.watermark = call[c].watermark
  BY <1>1, <1>a DEF Calls
<1> HIDE DEF new
<1>4. /\ call' \in [Callers -> Calls] /\ call'[c] = new
      /\ \A b \in Callers \ {c} : call'[b] = call[b] /\ call[b].pc \in {"idle", "lock"}
      /\ OneHolds' /\ HasAPrefix' /\ ReplicationIsExact'
  BY <1>1, <1>3, Moves DEF Holding
<1>5. TypeOK'
  BY <1>1, <1>2, <1>4 DEF TypeOK
<1>6. FileIsBased' /\ FlightFits' /\ OwnRequest'
  BY <1>1, <1>3, <1>4 DEF FileIsBased, FlightFits, OwnRequest, Sending
<1>7. SaveIsFresh'
  BY <1>1, <1>2, <1>3, <1>4 DEF SaveIsFresh
<1>8. CallFits'
  BY <1>1, <1>3, <1>4 DEF CallFits, Reached, Upto, Sending
<1> QED
  BY <1>4, <1>5, <1>6, <1>7, <1>8

LEMMA SaveHolds ==
  ASSUME IInv, NEW c \in Callers, Save(c)
  PROVE  IInv'
<1> USE DEF IInv
<1> DEFINE new == [call[c] EXCEPT !.pc = "send"]
<1>1. /\ call[c].pc = "save" /\ call[c] \in Calls /\ file = None /\ flight = {}
      /\ file' = [stream |-> call[c].stream, base |-> call[c].base]
      /\ Set(c, new) /\ UNCHANGED <<cloud, lengths, flight, answer>>
  BY DEF Save, TypeOK, FileIsBased, SaveIsFresh
<1>2. /\ file' \in Files /\ file' # None
      /\ file'.stream = call[c].stream /\ file'.base = call[c].base
  BY <1>1, NoneAssumption DEF Calls, Files
<1>3. /\ new \in Calls /\ new.pc = "send" /\ new.existing = call[c].existing
      /\ new.stream = call[c].stream /\ new.base = call[c].base
      /\ new.db = call[c].db /\ new.watermark = call[c].watermark
  BY <1>1 DEF Calls
<1> HIDE DEF new
<1>4. /\ call' \in [Callers -> Calls] /\ call'[c] = new
      /\ \A b \in Callers \ {c} : call'[b] = call[b] /\ call[b].pc \in {"idle", "lock"}
      /\ OneHolds' /\ HasAPrefix' /\ ReplicationIsExact'
  BY <1>1, <1>3, Moves DEF Holding
<1>5. TypeOK'
  BY <1>1, <1>2, <1>4 DEF TypeOK
<1>6. FileIsBased'
  BY <1>1, <1>2, <1>4 DEF FileIsBased, SaveIsFresh, TypeOK, Calls
<1>7. FlightFits' /\ OwnRequest' /\ SaveIsFresh'
  BY <1>1, <1>2, <1>3, <1>4 DEF FlightFits, OwnRequest, SaveIsFresh
<1>a. /\ call[c].existing = Len(cloud) /\ call[c].base = call[c].existing /\ Len(cloud) \in Nat
      /\ cloud = Prefix(call[c].db, Len(cloud))
  BY <1>1, LenProperties DEF SaveIsFresh, CallFits, Reached, TypeOK
<1>8. CallFits'
  BY <1>1, <1>2, <1>3, <1>4, <1>a DEF CallFits, Reached, Upto, Sending
<1> QED
  BY <1>4, <1>5, <1>6, <1>7, <1>8

-----------------------------------------------------------------------------
(* A request that is sent continues the table if nothing else has come in.  *)
LEMMA SendHolds ==
  ASSUME IInv, NEW c \in Callers, Send(c)
  PROVE  IInv'
<1> USE DEF IInv
<1> DEFINE new == [call[c] EXCEPT !.pc = "wait", !.stored = FALSE]
           rows == SubSeq(Local[call[c].db], call[c].existing + 1, Upto(c))
           q == [caller |-> c, stream |-> call[c].stream,
                 offset |-> call[c].existing - call[c].base, rows |-> rows]
<1>1. /\ call[c].pc = "send" /\ call[c] \in Calls /\ call[c].existing < call[c].watermark
      /\ flight' = flight \cup {q} \/ flight' = flight
      /\ Set(c, new) /\ UNCHANGED <<cloud, lengths, file, answer>>
  BY DEF Send, TypeOK
<1>2. /\ new \in Calls /\ new.pc = "wait" /\ ~ new.stored /\ new.existing = call[c].existing
      /\ new.stream = call[c].stream /\ new.base = call[c].base
      /\ new.db = call[c].db /\ new.watermark = call[c].watermark
  BY <1>1 DEF Calls
<1>3. /\ call[c].stream = file.stream /\ call[c].base = file.base /\ call[c].base <= call[c].existing
      /\ call[c].existing <= Len(cloud)
      /\ call[c].existing = Len(cloud) => cloud = Prefix(call[c].db, Len(cloud))
      /\ file # None
  BY <1>1 DEF CallFits, Reached, Sending, FileIsBased
<1>4. /\ call[c].existing \in Nat /\ call[c].base \in Nat /\ call[c].watermark \in Nat
      /\ call[c].stream \in Nat \ {0} /\ Upto(c) \in Nat
      /\ call[c].existing < Upto(c) /\ Upto(c) <= call[c].watermark
  BY <1>1, UptoIsNext DEF Calls
<1>5. /\ call[c].db \in Databases /\ Len(Local[call[c].db]) \in Nat
      /\ call[c].watermark <= Len(Local[call[c].db])
  BY <1>1, LocalAssumption, LenProperties DEF HasAPrefix
<1>6. /\ rows \in Seq(Rows) /\ Len(rows) = Upto(c) - call[c].existing
      /\ Prefix(call[c].db, call[c].existing) \o rows = Prefix(call[c].db, Upto(c))
  <2>1. Upto(c) \in call[c].existing .. Len(Local[call[c].db])
    BY <1>4, <1>5
  <2> QED
    BY <1>4, <1>5, <2>1, PrefixGrows
<1> HIDE DEF rows
<1>7. /\ q \in Requests /\ q.caller = c /\ q.stream = file.stream /\ q.rows = rows
      /\ q.offset = call[c].existing - call[c].base
  BY <1>3, <1>4, <1>6 DEF Requests
<1> HIDE DEF new, q
<1>8. /\ call' \in [Callers -> Calls] /\ call'[c] = new
      /\ \A b \in Callers \ {c} : call'[b] = call[b] /\ call[b].pc \in {"idle", "lock"}
      /\ OneHolds' /\ HasAPrefix' /\ ReplicationIsExact'
  BY <1>1, <1>2, Moves DEF Holding
<1>9. TypeOK'
  BY <1>1, <1>7, <1>8 DEF TypeOK
<1>10. FileIsBased' /\ SaveIsFresh'
  BY <1>1, <1>2, <1>3, <1>8 DEF FileIsBased, SaveIsFresh
<1>11. CallFits'
  BY <1>1, <1>2, <1>3, <1>8 DEF CallFits, Reached, Upto, Sending
<1>12. FlightFits'
  <2> SUFFICES ASSUME NEW r \in flight'
               PROVE  /\ r.stream = file.stream /\ Len(r.rows) > 0
                      /\ file.base + r.offset <= Len(cloud)
                      /\ file.base + r.offset = Len(cloud) => Continues(r.rows)
    BY <1>1 DEF FlightFits, Continues
  <2>1. CASE r \in flight
    BY <2>1 DEF FlightFits
  <2>2. CASE r = q
    <3>1. file.base + r.offset = call[c].existing /\ Len(r.rows) > 0 /\ r.stream = file.stream
      BY <1>3, <1>4, <1>6, <1>7, <2>2
    <3>2. ASSUME call[c].existing = Len(cloud) PROVE Continues(r.rows)
      <4>1. /\ Len(cloud) + Len(r.rows) = Upto(c) /\ Upto(c) <= Len(Local[call[c].db])
            /\ cloud \o r.rows = Prefix(call[c].db, Upto(c))
        <5>1. Len(cloud) + Len(r.rows) = Upto(c)
          <6>1. Len(r.rows) = Upto(c) - Len(cloud)
            BY <1>6, <1>7, <2>2, <3>2
          <6>2. Len(cloud) \in Nat /\ Upto(c) \in Nat
            BY <1>4, <3>2
          <6> QED
            BY <6>1, <6>2
        <5>2. Upto(c) <= Len(Local[call[c].db])
          BY <1>4, <1>5
        <5>3. cloud \o r.rows = Prefix(call[c].db, Upto(c))
          BY <1>3, <1>6, <1>7, <2>2, <3>2
        <5> QED
          BY <5>1, <5>2, <5>3
      <4> QED
        BY <1>5, <4>1 DEF Continues
    <3> QED
      BY <1>3, <3>1, <3>2
  <2> QED
    BY <1>1, <2>1, <2>2
<1>13. OwnRequest'
  <2> USE DEF rows
  <2> SUFFICES ASSUME NEW r \in flight', NEW b \in Callers, r.caller = b
               PROVE  /\ call'[b].pc = "wait" /\ ~ call'[b].stored
                      /\ r.offset = call'[b].existing - call'[b].base
                      /\ r.rows = SubSeq(Local[call'[b].db], call'[b].existing + 1, Upto(b)')
    BY DEF OwnRequest
  <2>1. r = q
    BY <1>1, <1>8 DEF OwnRequest
  <2>2. Upto(c)' = Upto(c)
    BY <1>2, <1>8 DEF Upto
  <2> QED
    BY <1>2, <1>7, <1>8, <2>1, <2>2
<1> QED
  BY <1>8, <1>9, <1>10, <1>11, <1>12, <1>13

LEMMA AcknowledgedHolds ==
  ASSUME IInv, NEW c \in Callers, Acknowledged(c)
  PROVE  IInv'
<1> USE DEF IInv
<1> DEFINE new == [call[c] EXCEPT !.pc = "send", !.existing = Upto(c)]
<1>1. /\ call[c].pc = "wait" /\ call[c].stored /\ call[c] \in Calls
      /\ Set(c, new) /\ UNCHANGED <<cloud, lengths, file, flight, answer>>
  BY DEF Acknowledged, TypeOK
<1>2. /\ Upto(c) \in Nat /\ call[c].existing < Upto(c) /\ call[c].base <= call[c].existing
      /\ Upto(c) <= Len(cloud) /\ Upto(c) = Len(cloud) => cloud = Prefix(call[c].db, Len(cloud))
      /\ call[c].existing \in Nat /\ call[c].base \in Nat
      /\ call[c].stream = file.stream /\ call[c].base = file.base /\ file # None
  BY <1>1, UptoIsNext DEF CallFits, Reached, Sending, Calls, FileIsBased
<1>3. /\ new \in Calls /\ new.pc = "send" /\ new.existing = Upto(c)
      /\ new.stream = call[c].stream /\ new.base = call[c].base
      /\ new.db = call[c].db /\ new.watermark = call[c].watermark
  BY <1>1, <1>2 DEF Calls
<1> HIDE DEF new
<1>4. /\ call' \in [Callers -> Calls] /\ call'[c] = new
      /\ \A b \in Callers \ {c} : call'[b] = call[b] /\ call[b].pc \in {"idle", "lock"}
      /\ OneHolds' /\ HasAPrefix' /\ ReplicationIsExact'
  BY <1>1, <1>3, Moves DEF Holding
<1>5. TypeOK'
  BY <1>1, <1>4 DEF TypeOK
<1>6. FileIsBased' /\ SaveIsFresh' /\ FlightFits'
  BY <1>1, <1>2, <1>3, <1>4 DEF FileIsBased, SaveIsFresh, FlightFits, Continues
<1>7. CallFits'
  BY <1>1, <1>2, <1>3, <1>4 DEF CallFits, Reached, Sending
<1>8. OwnRequest'
  BY <1>1, <1>4 DEF OwnRequest
<1> QED
  BY <1>4, <1>5, <1>6, <1>7, <1>8

LEMMA RecheckHolds ==
  ASSUME IInv, NEW c \in Callers, Recheck(c)
  PROVE  IInv'
<1>1. CASE Matches(call[c].db, call[c].watermark)
  BY <1>1, Returned DEF Recheck
<1>2. CASE ~ Matches(call[c].db, call[c].watermark)
  BY <1>2, Refused DEF Recheck
<1> QED
  BY <1>1, <1>2

(* Storing a request that still fits makes the table the longer prefix, and *)
(* leaves no other request that fits.                                       *)
LEMMA LandHolds ==
  ASSUME IInv, NEW r \in flight, Land(r)
  PROVE  IInv'
<1> USE DEF IInv
<1>1. /\ r \in Requests /\ r.rows \in Seq(Rows) /\ r.offset \in Nat /\ Len(r.rows) \in Nat
      /\ cloud \in Seq(Rows) /\ Len(cloud) \in Nat /\ lengths \in Seq(Nat)
      /\ call \in [Callers -> Calls]
  BY LenProperties DEF TypeOK, Requests
<1>2. /\ file # None /\ file.stream \in DOMAIN lengths /\ file.base \in Nat
      /\ file.base + lengths[file.stream] = Len(cloud)
      /\ r.stream = file.stream /\ Len(r.rows) > 0
  BY DEF TypeOK, FileIsBased, FlightFits, Files
<1>3. /\ lengths' = [lengths EXCEPT ![file.stream] = @ + Len(r.rows)]
      /\ cloud' = cloud \o r.rows /\ flight' = flight \ {r}
      /\ call' = [b \in Callers |-> IF b = r.caller THEN [call[b] EXCEPT !.stored = TRUE] ELSE call[b]]
      /\ UNCHANGED <<file, answer>>
      /\ file.base + r.offset = Len(cloud)
  BY <1>2 DEF Land
<1>4. cloud' \in Seq(Rows) /\ Len(cloud') = Len(cloud) + Len(r.rows)
  BY <1>1, <1>3, ConcatProperties
<1>5. /\ lengths' \in Seq(Nat) /\ DOMAIN lengths' = DOMAIN lengths
      /\ lengths'[file.stream] = lengths[file.stream] + Len(r.rows)
      /\ lengths[file.stream] \in Nat
  <2> DEFINE k == file.stream
             n == lengths[k] + Len(r.rows)
  <2>1. lengths \in Seq(Nat) /\ k \in 1 .. Len(lengths) /\ DOMAIN lengths = 1 .. Len(lengths)
    BY <1>1, <1>2, LenProperties
  <2>2. lengths[k] \in Nat
    BY <2>1, ElementOfSeq
  <2>3. n \in Nat /\ lengths' = [lengths EXCEPT ![k] = n]
    <3>1. n \in Nat
      BY <1>1, <2>2
    <3> QED
      BY <1>3, <3>1
  <2> HIDE DEF n
  <2>4. /\ [lengths EXCEPT ![k] = n] \in Seq(Nat) /\ Len([lengths EXCEPT ![k] = n]) = Len(lengths)
        /\ [lengths EXCEPT ![k] = n][k] = n
    BY <2>1, <2>3, ExceptSeq
  <2>5. lengths' \in Seq(Nat) /\ Len(lengths') = Len(lengths) /\ lengths'[k] = n
    BY <2>3, <2>4
  <2>6. DOMAIN lengths' = 1 .. Len(lengths')
    BY <2>5, LenProperties
  <2> QED
    BY <2>1, <2>2, <2>5, <2>6 DEF n
<1>6. /\ call' \in [Callers -> Calls]
      /\ \A b \in Callers : b # r.caller => call'[b] = call[b]
      /\ \A b \in Callers : /\ call'[b].pc = call[b].pc /\ call'[b].db = call[b].db
                            /\ call'[b].watermark = call[b].watermark /\ call'[b].existing = call[b].existing
                            /\ call'[b].stream = call[b].stream /\ call'[b].base = call[b].base
                            /\ Upto(b)' = Upto(b)
  <2>1. ASSUME NEW b \in Callers
        PROVE  /\ call'[b] \in Calls /\ b # r.caller => call'[b] = call[b]
               /\ call'[b].pc = call[b].pc /\ call'[b].db = call[b].db
               /\ call'[b].watermark = call[b].watermark /\ call'[b].existing = call[b].existing
               /\ call'[b].stream = call[b].stream /\ call'[b].base = call[b].base
    <3>1. call[b] \in Calls /\ call'[b] = IF b = r.caller THEN [call[b] EXCEPT !.stored = TRUE] ELSE call[b]
      BY <1>1, <1>3
    <3> QED
      BY <3>1 DEF Calls
  <2>2. call' \in [Callers -> Calls]
    <3>1. ASSUME NEW b \in Callers
          PROVE  (IF b = r.caller THEN [call[b] EXCEPT !.stored = TRUE] ELSE call[b]) \in Calls
      <4>1. call[b] \in Calls
        BY <1>1
      <4> QED
        BY <4>1 DEF Calls
    <3> QED
      BY <1>3, <3>1
  <2>3. \A b \in Callers : Upto(b)' = Upto(b)
    BY <2>1 DEF Upto
  <2> QED
    BY <2>1, <2>2, <2>3
<1>7. PICK d \in Databases : /\ Len(cloud) + Len(r.rows) <= Len(Local[d])
                            /\ cloud' = Prefix(d, Len(cloud) + Len(r.rows))
  BY <1>3 DEF FlightFits, Continues
<1>8. TypeOK'
  BY <1>3, <1>4, <1>5, <1>6 DEF TypeOK
<1>9. OneHolds' /\ HasAPrefix'
  BY <1>6 DEF OneHolds, HasAPrefix
<1>10. FileIsBased'
  <2>1. file.base + lengths'[file.stream] = Len(cloud')
    <3>1. file.base \in Nat /\ lengths[file.stream] \in Nat /\ Len(cloud) \in Nat /\ Len(r.rows) \in Nat
      BY <1>1, <1>2, <1>5
    <3>2. file.base + lengths[file.stream] = Len(cloud)
      BY <1>2
    <3>3. lengths'[file.stream] = lengths[file.stream] + Len(r.rows)
      BY <1>5
    <3>4. Len(cloud') = Len(cloud) + Len(r.rows)
      BY <1>4
    <3>5. file.base + lengths'[file.stream] = Len(cloud) + Len(r.rows)
      BY <3>1, <3>2, <3>3
    <3> QED
      BY <3>1, <3>2, <3>3, <3>4, <3>5
  <2> QED
    BY <1>2, <1>3, <1>5, <2>1 DEF FileIsBased
<1>11. SaveIsFresh'
  BY <1>2, <1>3, <1>6 DEF SaveIsFresh
<1>12. CallFits'
  <2> SUFFICES ASSUME NEW b \in Callers, call[b].pc \in {"state", "save", "send", "wait"}
               PROVE  /\ Reached(b)' <= Len(cloud')
                      /\ Reached(b)' = Len(cloud') => cloud' = Prefix(call[b].db, Len(cloud'))
    BY <1>3, <1>6 DEF CallFits, Sending
  <2>1. CASE b # r.caller
    <3>1. Reached(b)' = Reached(b) /\ Reached(b) <= Len(cloud)
      BY <1>6, <2>1 DEF Reached, CallFits
    <3>2. call[b] \in Calls
      BY <1>1
    <3>3. Reached(b) \in Int
      BY <3>2, ChunkAssumption DEF Reached, Upto, Calls
    <3> QED
      BY <1>1, <1>2, <1>4, <3>1, <3>3
  <2>2. CASE b = r.caller
    <3>1. /\ call[b].pc = "wait" /\ ~ call[b].stored /\ call[b] \in Calls
          /\ r.offset = call[b].existing - call[b].base
          /\ r.rows = SubSeq(Local[call[b].db], call[b].existing + 1, Upto(b))
      BY <1>1, <2>2 DEF OwnRequest
    <3>2. /\ call[b].existing = Len(cloud) /\ cloud = Prefix(call[b].db, Len(cloud))
          /\ call[b].existing < call[b].watermark
      <4>1. /\ call[b].base = file.base /\ call[b].existing < call[b].watermark
            /\ call[b].existing = Len(cloud) => cloud = Prefix(call[b].db, Len(cloud))
        BY <2>2, <3>1 DEF CallFits, Reached, Sending
      <4>2. call[b].existing \in Nat /\ call[b].base \in Nat
        BY <3>1 DEF Calls
      <4>3. file.base + (call[b].existing - call[b].base) = Len(cloud)
        BY <1>3, <3>1
      <4>4. call[b].existing = Len(cloud)
        BY <4>1, <4>2, <4>3
      <4> QED
        BY <4>1, <4>4
    <3>3. /\ call[b].db \in Databases /\ call[b].watermark <= Len(Local[call[b].db])
          /\ Len(Local[call[b].db]) \in Nat /\ call[b].watermark \in Nat
      BY <3>1, LocalAssumption, LenProperties DEF HasAPrefix, Calls
    <3>4. Upto(b) \in call[b].existing .. Len(Local[call[b].db])
      BY <1>1, <3>2, <3>3, UptoIsNext
    <3>5. Len(r.rows) = Upto(b) - Len(cloud) /\ cloud' = Prefix(call[b].db, Upto(b))
      <4> DEFINE next == SubSeq(Local[call[b].db], call[b].existing + 1, Upto(b))
      <4>1. /\ Len(next) = Upto(b) - call[b].existing
            /\ Prefix(call[b].db, call[b].existing) \o next = Prefix(call[b].db, Upto(b))
        <5>1. call[b].existing \in Nat
          BY <3>1 DEF Calls
        <5> QED
          BY <3>3, <3>4, <5>1, PrefixGrows
      <4> QED
        BY <1>3, <3>1, <3>2, <4>1
    <3>6. Reached(b)' = Upto(b)
      <4>1. call'[b].stored
        BY <1>3, <2>2, <3>1 DEF Calls
      <4> QED
        BY <1>6, <3>1, <4>1 DEF Reached
    <3>7. Len(cloud') = Upto(b)
      BY <1>1, <1>4, <3>4, <3>5
    <3> QED
      BY <3>5, <3>6, <3>7, <3>4, <3>3
  <2> QED
    BY <2>1, <2>2
<1>13. FlightFits'
  <2> SUFFICES ASSUME NEW q \in flight, q # r
               PROVE  /\ q.stream = file.stream /\ Len(q.rows) > 0
                      /\ file.base + q.offset <= Len(cloud')
                      /\ file.base + q.offset # Len(cloud')
    BY <1>3 DEF FlightFits
  <2>1. q.offset \in Nat
    BY DEF TypeOK, Requests
  <2>2. q.stream = file.stream /\ Len(q.rows) > 0 /\ file.base + q.offset <= Len(cloud)
    BY DEF FlightFits
  <2>3. /\ Len(cloud) \in Nat /\ Len(r.rows) \in Nat /\ Len(r.rows) > 0 /\ file.base \in Nat
        /\ Len(cloud') = Len(cloud) + Len(r.rows)
    BY <1>1, <1>2, <1>4
  <2> QED
    BY <2>1, <2>2, <2>3
<1>14. OwnRequest'
  <2> SUFFICES ASSUME NEW q \in flight, q # r, NEW b \in Callers, q.caller = b
               PROVE  b # r.caller
    BY <1>3, <1>6 DEF OwnRequest
  <2>1. ASSUME b = r.caller PROVE FALSE
    <3>1. q.offset = r.offset /\ q.rows = r.rows /\ q.stream = r.stream /\ q.caller = r.caller
      BY <1>2, <2>1 DEF OwnRequest, FlightFits
    <3>2. \A p \in Requests : p = [caller |-> p.caller, stream |-> p.stream, offset |-> p.offset, rows |-> p.rows]
      BY DEF Requests
    <3>3. q \in Requests
      BY DEF TypeOK
    <3> QED
      BY <1>1, <3>1, <3>2, <3>3
  <2> QED
    BY <2>1
<1>15. CloudIsAPrefix'
  BY <1>4, <1>7 DEF CloudIsAPrefix
<1>16. AnswersAreTrue'
  <2> SUFFICES ASSUME NEW c \in Callers, answer[c] # None
               PROVE  /\ answer[c].watermark <= Len(cloud')
                      /\ SubSeq(cloud', 1, answer[c].watermark) = SubSeq(cloud, 1, answer[c].watermark)
    BY <1>3 DEF AnswersAreTrue, ReplicationIsExact
  <2>1. answer[c].watermark \in Nat /\ answer[c].watermark <= Len(cloud)
    BY DEF TypeOK, Answers, AnswersAreTrue, ReplicationIsExact
  <2>2. CASE answer[c].watermark = 0
    BY <1>1, <1>4, <2>1, <2>2, SubSeqEmpty
  <2>3. CASE answer[c].watermark > 0
    BY <1>1, <1>3, <1>4, <2>1, <2>3, SubSeqOfConcat1
  <2> QED
    BY <2>1, <2>2, <2>3
<1> QED
  BY <1>8, <1>9, <1>10, <1>11, <1>12, <1>13, <1>14, <1>15, <1>16 DEF ReplicationIsExact

LEMMA DropHolds ==
  ASSUME IInv, NEW r \in flight, Drop(r)
  PROVE  IInv'
<1> USE DEF IInv, Drop
<1>1. TypeOK' /\ OneHolds' /\ HasAPrefix'
  BY DEF TypeOK, OneHolds, HasAPrefix
<1>2. FileIsBased' /\ SaveIsFresh'
  BY DEF FileIsBased, SaveIsFresh
<1>3. CallFits'
  BY DEF CallFits, Reached, Upto
<1>4. FlightFits' /\ OwnRequest'
  BY DEF FlightFits, OwnRequest, Continues, Upto
<1>5. ReplicationIsExact'
  BY DEF ReplicationIsExact, CloudIsAPrefix, AnswersAreTrue
<1> QED
  BY <1>1, <1>2, <1>3, <1>4, <1>5

LEMMA StutterHolds == IInv /\ UNCHANGED vars => IInv'
<1> SUFFICES ASSUME IInv, UNCHANGED vars PROVE IInv'
  OBVIOUS
<1> USE DEF IInv, vars
<1>1. TypeOK' /\ OneHolds' /\ HasAPrefix' /\ FileIsBased' /\ SaveIsFresh'
  BY DEF TypeOK, OneHolds, HasAPrefix, FileIsBased, SaveIsFresh
<1>2. CallFits' /\ FlightFits' /\ OwnRequest'
  BY DEF CallFits, Reached, Upto, FlightFits, OwnRequest, Continues
<1>3. ReplicationIsExact'
  BY DEF ReplicationIsExact, CloudIsAPrefix, AnswersAreTrue
<1> QED
  BY <1>1, <1>2, <1>3

LEMMA StepHolds == IInv /\ [Next]_vars => IInv'
<1> SUFFICES ASSUME IInv, [Next]_vars PROVE IInv'
  OBVIOUS
<1>1. ASSUME NEW c \in Callers, Begin(c) PROVE IInv'
  BY <1>1, BeginHolds
<1>2. ASSUME NEW c \in Callers, Lock(c) PROVE IInv'
  BY <1>2, LockHolds
<1>3. ASSUME NEW c \in Callers, Compare(c) PROVE IInv'
  BY <1>3, CompareHolds
<1>4. ASSUME NEW c \in Callers, Resume(c) PROVE IInv'
  BY <1>4, ResumeHolds
<1>5. ASSUME NEW c \in Callers, Create(c) PROVE IInv'
  BY <1>5, CreateHolds
<1>6. ASSUME NEW c \in Callers, Save(c) PROVE IInv'
  BY <1>6, SaveHolds
<1>7. ASSUME NEW c \in Callers, Send(c) PROVE IInv'
  BY <1>7, SendHolds
<1>8. ASSUME NEW c \in Callers, Acknowledged(c) PROVE IInv'
  BY <1>8, AcknowledgedHolds
<1>9. ASSUME NEW c \in Callers, Recheck(c) PROVE IInv'
  BY <1>9, RecheckHolds
<1>10. ASSUME NEW c \in Callers, Die(c) PROVE IInv'
  BY <1>10, Refused DEF Die
<1>11. ASSUME NEW r \in flight, Land(r) PROVE IInv'
  BY <1>11, LandHolds
<1>12. ASSUME NEW r \in flight, Drop(r) PROVE IInv'
  BY <1>12, DropHolds
<1>13. CASE UNCHANGED vars
  BY <1>13, StutterHolds
<1> QED
  BY <1>1, <1>2, <1>3, <1>4, <1>5, <1>6, <1>7, <1>8, <1>9, <1>10, <1>11, <1>12, <1>13 DEF Next

LEMMA Inductive == Spec => []IInv
  BY InitHolds, StepHolds, PTL DEF Spec

-----------------------------------------------------------------------------
(* Every step keeps the types of the table, the state file and the calls.   *)
THEOREM TypeCorrect == Spec => []TypeOK
<1>1. IInv => TypeOK
  BY DEF IInv
<1> QED
  BY <1>1, Inductive, PTL

(* However many calls replicate whatever databases, die at any step and     *)
(* leave requests behind that are stored at any later time: the table is    *)
(* the prefix of one local stream, and what a call has said stays true.     *)
THEOREM ReplicationIsAlwaysExact == Spec => []ReplicationIsExact
<1>1. IInv => ReplicationIsExact
  BY DEF IInv
<1> QED
  BY <1>1, Inductive, PTL

-----------------------------------------------------------------------------
(* The acceptance of the gateway.                                           *)
SourceRows == Acceptance!RowsNamed(Acceptance!Names \cup Acceptance!FixtureNames \cup {"other"})
ProbeTypes == [
    at : {"new", "looking", "minting", "asking", "waiting", "collected", "over"},
    case : 0 .. 12, original : Seq(SourceRows) \cup {None}, current : Seq(SourceRows) \cup {None},
    missing : SUBSET {3}, frozen : {None, 1, 2},
    status : {None, "failed", "partial", "gateway_cases_observed"}]
LifeTypes == [
    at : {"new", "pinned", "looking", "ready", "closing", "uncertain",
          "closed", "asking", "waiting", "collected", "over"},
    expected : Seq(SourceRows) \cup {None}, count : Nat \cup {None},
    finalization : {"not_run", "submitted_unknown", "acknowledged", "denied", "failed_or_unknown"},
    frozen : {None, 1, 2},
    status : {None, "failed", "uncertain", "closed_stream_refusal_observed"}]
AcceptanceTypeOK ==
    /\ fault \in Faults
    /\ source \in Seq(SourceRows)
    /\ open \in BOOLEAN
    /\ calls \in [1 .. 3 -> Acceptance!Calls \cup {None}]
    /\ probe \in ProbeTypes
    /\ life \in LifeTypes

(* The probe is in its cases, or through with them.                         *)
InTheCases ==
    \/ probe.at \in {"asking", "minting", "waiting"}
    \/ probe.at = "collected" /\ probe.status # "failed"
    \/ probe.at = "over" /\ probe.status \in {"gateway_cases_observed", "partial"}
CaseFits ==
    /\ probe.at \notin {"collected", "over"} => probe.status = None
    /\ probe.at = "collected" => probe.status \in {None, "failed"}
    /\ probe.at \in {"asking", "waiting"} => probe.case \in 1 .. 11
    /\ probe.at = "minting" => probe.case = 3
    /\ probe.at \in {"collected", "over"} /\ InTheCases => probe.case = 12
    /\ probe.status = "gateway_cases_observed" => probe.at = "over" /\ probe.missing = {}

(* What the cases before the k-th have added.                               *)
AddedIds(k) ==
    UNION {IF k > 4 THEN {"first"} ELSE {}, IF k > 9 THEN {"equal"} ELSE {},
           IF k > 10 THEN {"distinct-1", "distinct-2"} ELSE {}, IF k > 11 THEN {"rival"} ELSE {}}
AddedRows(k) ==
    IF k > 11 THEN 5 ELSE IF k > 10 THEN 4 ELSE IF k > 9 THEN 2 ELSE IF k > 4 THEN 1 ELSE 0
StartsWith(rows, start) ==
    /\ Len(start) <= Len(rows)
    /\ \A i \in 1 .. Len(start) : start[i] = rows[i]
ReadingsFit ==
    InTheCases =>
        LET before == Len(probe.original)
        IN  /\ probe.original \in Seq(SourceRows) /\ probe.current \in Seq(SourceRows)
            /\ StartsWith(probe.current, probe.original)
            /\ StartsWith(source, probe.current)
            /\ Len(probe.current) = before + AddedRows(probe.case)
            /\ {probe.current[i].id : i \in before + 1 .. Len(probe.current)} = AddedIds(probe.case)
            /\ \A i \in before + 1 .. Len(probe.current) : probe.current[i].actor = "producer"

(* The requests under way are those of the case, of which each is answered  *)
(* for a reason.                                                            *)
RequestsFit ==
    /\ probe.at \in {"new", "looking"} \/ (InTheCases /\ probe.at # "waiting") =>
          calls[1] = None /\ calls[2] = None
    /\ probe.at = "waiting" =>
          LET asks == Acceptance!Cases[probe.case].asks
          IN  \A i \in 1 .. 2 :
                 IF i \in DOMAIN asks
                 THEN calls[i] # None /\ calls[i].as = asks[i].as /\ calls[i].event = asks[i].event
                 ELSE calls[i] = None
HasReason(i) ==
    /\ calls[i].answer = "denied" => ~ Acceptance!Identified(calls[i].as)
    /\ calls[i].answer = "rejected" =>
          \/ ~ Acceptance!Valid(calls[i].event)
          \/ Acceptance!Contradicted(calls[i].event) /\ fault # "blind"
    /\ calls[i].answer = "accepted" /\ fault = "repeating" /\ probe.at = "waiting" =>
          Len(source) > Len(probe.current)
AnswersHaveReasons == \A i \in 1 .. 2 : calls[i] # None => HasReason(i)

(* What must be refused has one body; nobody but others adds a row where    *)
(* the service forgets.                                                     *)
ForgedIsOfOneBody ==
    /\ \A i \in DOMAIN source : source[i].id \in {"forged", "unknown"} => source[i].body = "US"
    /\ \A i \in 1 .. 3 : calls[i] # None =>
          (calls[i].event.id \in {"forged", "unknown"} => calls[i].event.body = "US")
ForgetfulAddsNothing ==
    InTheCases /\ fault = "forgetful" =>
        \A i \in Len(probe.current) + 1 .. Len(source) : source[i].actor = "other"

(* The faults that the cases before the k-th have excluded.                 *)
FaultsExcluded ==
    InTheCases =>
        /\ probe.case > 1 => fault # "open"
        /\ probe.case > 3 /\ probe.missing = {} => fault # "any_audience"
        /\ probe.case > 4 => fault # "forgetful"
        /\ probe.case > 5 => fault # "repeating"
        /\ probe.case > 6 => fault # "blind"
        /\ probe.case > 7 => fault # "trusting"
        /\ probe.case > 8 => fault # "lax"

(* A stream that is known to be closed is closed for good.                  *)
ClosedForGood ==
    /\ closing = "done" => ~ open
    /\ life.at \in {"closed", "asking", "waiting"} => closing = "done"
    /\ life.status = "closed_stream_refusal_observed" => ~ open /\ source = life.expected

AcceptanceInv ==
    /\ AcceptanceTypeOK /\ CaseFits /\ ReadingsFit /\ RequestsFit /\ AnswersHaveReasons
    /\ ForgedIsOfOneBody /\ ForgetfulAddsNothing /\ FaultsExcluded /\ ClosedForGood

-----------------------------------------------------------------------------
(* The table of the cases, row by row.                                      *)
AskedOnce(k, as, id, body) ==
    LET asks == Acceptance!Cases[k].asks
    IN  DOMAIN asks = {1} /\ asks[1].as = as /\ asks[1].event = [id |-> id, body |-> body]

LEMMA CasesAreEleven ==
  /\ Len(Acceptance!Cases) = 11
  /\ AskedOnce(1, "nobody", "first", "US") /\ Acceptance!Cases[1].answers = {<<"denied">>}
  /\ AskedOnce(2, "forger", "first", "US") /\ Acceptance!Cases[2].answers = {<<"denied">>}
  /\ AskedOnce(3, "stranger", "first", "US") /\ Acceptance!Cases[3].answers = {<<"denied">>}
  /\ AskedOnce(4, "producer", "first", "US") /\ Acceptance!Cases[4].answers = {<<"accepted">>}
  /\ AskedOnce(5, "producer", "first", "US") /\ Acceptance!Cases[5].answers = {<<"accepted">>}
  /\ AskedOnce(6, "producer", "first", "CA") /\ Acceptance!Cases[6].answers = {<<"rejected">>}
  /\ AskedOnce(7, "producer", "forged", "US") /\ Acceptance!Cases[7].answers = {<<"rejected">>}
  /\ AskedOnce(8, "producer", "unknown", "US") /\ Acceptance!Cases[8].answers = {<<"rejected">>}
<1>0. Len(Acceptance!Cases) = 11
  BY DEF Acceptance!Cases
<1>1. AskedOnce(1, "nobody", "first", "US") /\ Acceptance!Cases[1].answers = {<<"denied">>}
  BY DEF AskedOnce, Acceptance!Cases, Acceptance!Sole, Acceptance!Case, Acceptance!Event
<1>2. AskedOnce(2, "forger", "first", "US") /\ Acceptance!Cases[2].answers = {<<"denied">>}
  BY DEF AskedOnce, Acceptance!Cases, Acceptance!Sole, Acceptance!Case, Acceptance!Event
<1>3. AskedOnce(3, "stranger", "first", "US") /\ Acceptance!Cases[3].answers = {<<"denied">>}
  BY DEF AskedOnce, Acceptance!Cases, Acceptance!Sole, Acceptance!Case, Acceptance!Event
<1>4. AskedOnce(4, "producer", "first", "US") /\ Acceptance!Cases[4].answers = {<<"accepted">>}
  BY DEF AskedOnce, Acceptance!Cases, Acceptance!Sole, Acceptance!Case, Acceptance!Event
<1>5. AskedOnce(5, "producer", "first", "US") /\ Acceptance!Cases[5].answers = {<<"accepted">>}
  BY DEF AskedOnce, Acceptance!Cases, Acceptance!Sole, Acceptance!Case, Acceptance!Event
<1>6. AskedOnce(6, "producer", "first", "CA") /\ Acceptance!Cases[6].answers = {<<"rejected">>}
  BY DEF AskedOnce, Acceptance!Cases, Acceptance!Sole, Acceptance!Case, Acceptance!Event
<1>7. AskedOnce(7, "producer", "forged", "US") /\ Acceptance!Cases[7].answers = {<<"rejected">>}
  BY DEF AskedOnce, Acceptance!Cases, Acceptance!Sole, Acceptance!Case, Acceptance!Event
<1>8. AskedOnce(8, "producer", "unknown", "US") /\ Acceptance!Cases[8].answers = {<<"rejected">>}
  BY DEF AskedOnce, Acceptance!Cases, Acceptance!Sole, Acceptance!Case, Acceptance!Event
<1> QED
  BY <1>0, <1>1, <1>2, <1>3, <1>4, <1>5, <1>6, <1>7, <1>8

LEMMA TwoAskTogether ==
  ASSUME NEW k \in 9 .. 11
  PROVE  LET asks == Acceptance!Cases[k].asks
         IN  /\ DOMAIN asks = 1 .. 2
             /\ \A i \in 1 .. 2 : /\ asks[i].as = "producer"
                                  /\ asks[i].event.id \in {"equal", "distinct-1", "distinct-2", "rival"}
                                  /\ asks[i].event.body \in {"US", "CA"}
                                  /\ asks[i].event = [id |-> asks[i].event.id, body |-> asks[i].event.body]
<1>1. CASE k = 9
  BY <1>1 DEF Acceptance!Cases, Acceptance!Sole, Acceptance!Both, Acceptance!Case, Acceptance!Event
<1>2. CASE k = 10
  BY <1>2 DEF Acceptance!Cases, Acceptance!Sole, Acceptance!Both, Acceptance!Case, Acceptance!Event
<1>3. CASE k = 11
  BY <1>3 DEF Acceptance!Cases, Acceptance!Sole, Acceptance!Both, Acceptance!Case, Acceptance!Event
<1> DEFINE Together(n) ==
             LET asks == Acceptance!Cases[n].asks
             IN  /\ DOMAIN asks = 1 .. 2
                 /\ \A i \in 1 .. 2 : /\ asks[i].as = "producer"
                                      /\ asks[i].event.id \in {"equal", "distinct-1", "distinct-2", "rival"}
                                      /\ asks[i].event.body \in {"US", "CA"}
                                      /\ asks[i].event = [id |-> asks[i].event.id, body |-> asks[i].event.body]
<1>4. Together(k)
  BY <1>1, <1>2, <1>3
<1> QED
  BY <1>4

(* What a case may add, as events.                                          *)
AnEvent(id, body) == [id |-> id, body |-> body]
LEMMA AlternativesOfTheCases ==
  /\ \A k \in {1, 2, 3, 5, 6, 7, 8} : Acceptance!Cases[k].alternatives = {{}}
  /\ Acceptance!Cases[4].alternatives = {{AnEvent("first", "US")}}
  /\ Acceptance!Cases[9].alternatives = {{AnEvent("equal", "US")}}
  /\ Acceptance!Cases[10].alternatives = {{AnEvent("distinct-1", "US"), AnEvent("distinct-2", "US")}}
  /\ Acceptance!Cases[11].alternatives = {{AnEvent("rival", "US")}, {AnEvent("rival", "CA")}}
<1>1. \A k \in {1, 2, 3, 5, 6, 7, 8} : Acceptance!Cases[k].alternatives = {{}}
  BY DEF Acceptance!Cases, Acceptance!Sole, Acceptance!Both, Acceptance!Case, Acceptance!Event
<1>2. Acceptance!Cases[4].alternatives = {{AnEvent("first", "US")}}
  BY DEF AnEvent, Acceptance!Cases, Acceptance!Sole, Acceptance!Both, Acceptance!Case, Acceptance!Event
<1>3. Acceptance!Cases[9].alternatives = {{AnEvent("equal", "US")}}
  BY DEF AnEvent, Acceptance!Cases, Acceptance!Sole, Acceptance!Both, Acceptance!Case, Acceptance!Event
<1>4. Acceptance!Cases[10].alternatives = {{AnEvent("distinct-1", "US"), AnEvent("distinct-2", "US")}}
  <2>1. Acceptance!Cases[10].alternatives
            = {Acceptance!ToSet([i \in 1 .. 2 |-> AnEvent(IF i = 1 THEN "distinct-1" ELSE "distinct-2", "US")])}
    BY DEF AnEvent, Acceptance!Cases, Acceptance!Sole, Acceptance!Both, Acceptance!Case, Acceptance!Event
  <2>2. Acceptance!ToSet([i \in 1 .. 2 |-> AnEvent(IF i = 1 THEN "distinct-1" ELSE "distinct-2", "US")])
            = {AnEvent("distinct-1", "US"), AnEvent("distinct-2", "US")}
    BY DEF Acceptance!ToSet
  <2> QED
    BY <2>1, <2>2
<1>5. Acceptance!Cases[11].alternatives = {{AnEvent("rival", "US")}, {AnEvent("rival", "CA")}}
  BY DEF AnEvent, Acceptance!Cases, Acceptance!Sole, Acceptance!Both, Acceptance!Case, Acceptance!Event
<1> QED
  BY <1>1, <1>2, <1>3, <1>4, <1>5

LEMMA AcceptanceCounts ==
  ASSUME NEW S
  PROVE  Acceptance!Cardinality(S) = Cardinality(S)
BY DEF Cardinality, Acceptance!Cardinality

LEMMA AsksFit ==
  ASSUME NEW k \in 1 .. 11, NEW i \in DOMAIN Acceptance!Cases[k].asks
  PROVE  LET ask == Acceptance!Cases[k].asks[i]
         IN  /\ i \in 1 .. 2
             /\ ask.as \in {"nobody", "forger", "stranger", "producer"}
             /\ ask.event \in [id : Acceptance!Names, body : {"US", "CA"}]
             /\ ask.event.id \in {"forged", "unknown"} => ask.event.body = "US"
<1> DEFINE ask == Acceptance!Cases[k].asks[i]
<1>1. ASSUME NEW id \in Acceptance!Names, NEW body \in {"US", "CA"}, ask.event = [id |-> id, body |-> body]
      PROVE  /\ ask.event \in [id : Acceptance!Names, body : {"US", "CA"}]
             /\ ask.event.id = id /\ ask.event.body = body
  <2> HIDE DEF ask
  <2> QED
    BY <1>1
<1>2. CASE k \in 9 .. 11
  <2>1. i \in 1 .. 2
    BY <1>2, TwoAskTogether
  <2>2. /\ ask.as = "producer"
        /\ ask.event.id \in {"equal", "distinct-1", "distinct-2", "rival"}
        /\ ask.event.body \in {"US", "CA"}
        /\ ask.event = [id |-> ask.event.id, body |-> ask.event.body]
    BY <1>2, <2>1, TwoAskTogether
  <2>3. ask.event.id \in Acceptance!Names /\ ask.event.id \notin {"forged", "unknown"}
    BY <2>2 DEF Acceptance!Names
  <2>4. ask.event \in [id : Acceptance!Names, body : {"US", "CA"}]
    BY <1>1, <2>2, <2>3
  <2> QED
    BY <2>1, <2>2, <2>3, <2>4
<1>3. CASE k \in 1 .. 8
  <2>1. PICK as \in {"nobody", "forger", "stranger", "producer"}, id \in {"first", "forged", "unknown"}, body \in {"US", "CA"} :
           AskedOnce(k, as, id, body) /\ (id # "first" => body = "US")
    BY <1>3, CasesAreEleven
  <2>2. i = 1 /\ ask.as = as /\ ask.event = [id |-> id, body |-> body]
    BY <2>1 DEF AskedOnce
  <2>3. id \in Acceptance!Names
    BY DEF Acceptance!Names
  <2>4. /\ ask.event \in [id : Acceptance!Names, body : {"US", "CA"}]
        /\ ask.event.id = id /\ ask.event.body = body
    BY <1>1, <2>2, <2>3
  <2>5. id \in {"forged", "unknown"} => body = "US"
    BY <2>1
  <2>6. ask.as \in {"nobody", "forger", "stranger", "producer"}
    BY <2>2
  <2>7. ask.event.id \in {"forged", "unknown"} => ask.event.body = "US"
    BY <2>4, <2>5
  <2>8. i \in 1 .. 2
    BY <2>2
  <2> QED
    BY <2>4, <2>6, <2>7, <2>8
<1>4. k \in 1 .. 8 \/ k \in 9 .. 11
  OBVIOUS
<1> QED
  BY <1>2, <1>3, <1>4

LEMMA AlternativesAdd ==
  ASSUME NEW k \in 1 .. 11, NEW added \in Acceptance!Cases[k].alternatives
  PROVE  /\ Acceptance!Cardinality(added) \in Nat
         /\ AddedRows(k + 1) = AddedRows(k) + Acceptance!Cardinality(added)
         /\ AddedIds(k + 1) = AddedIds(k) \cup {e.id : e \in added}
<1> DEFINE ids == {e.id : e \in added}
           n == Cardinality(added)
<1> SUFFICES n \in Nat /\ AddedRows(k + 1) = AddedRows(k) + n /\ AddedIds(k + 1) = AddedIds(k) \cup ids
  BY AcceptanceCounts
<1>1. CASE k \in {1, 2, 3, 5, 6, 7, 8}
  <2>1. added = {}
    BY <1>1, AlternativesOfTheCases
  <2>2. n = 0 /\ ids = {}
    BY <2>1, FS_EmptySet
  <2>3. AddedIds(k + 1) = AddedIds(k)
    BY <1>1 DEF AddedIds
  <2> HIDE DEF ids, n
  <2> QED
    BY <1>1, <2>2, <2>3 DEF AddedRows
<1>2. ASSUME NEW id \in {"first", "equal", "rival"}, NEW body \in {"US", "CA"}, added = {AnEvent(id, body)}
      PROVE  n = 1 /\ ids = {id}
  <2>1. n = 1
    BY <1>2, FS_Singleton
  <2> QED
    BY <1>2, <2>1 DEF AnEvent
<1>3. CASE k = 4
  <2>1. n = 1 /\ ids = {"first"}
    BY <1>2, <1>3, AlternativesOfTheCases
  <2> HIDE DEF ids, n
  <2> QED
    BY <1>3, <2>1 DEF AddedRows, AddedIds
<1>4. CASE k = 9
  <2>1. n = 1 /\ ids = {"equal"}
    BY <1>2, <1>4, AlternativesOfTheCases
  <2> HIDE DEF ids, n
  <2> QED
    BY <1>4, <2>1 DEF AddedRows, AddedIds
<1>5. CASE k = 10
  <2>1. added = {AnEvent("distinct-1", "US"), AnEvent("distinct-2", "US")}
    BY <1>5, AlternativesOfTheCases
  <2>2. AnEvent("distinct-2", "US") \notin {AnEvent("distinct-1", "US")}
    BY DEF AnEvent
  <2>3. n = 2
    <3>1. IsFiniteSet({AnEvent("distinct-1", "US")}) /\ Cardinality({AnEvent("distinct-1", "US")}) = 1
      BY FS_Singleton
    <3>2. added = {AnEvent("distinct-1", "US")} \cup {AnEvent("distinct-2", "US")}
      BY <2>1
    <3> QED
      BY <2>2, <3>1, <3>2, FS_AddElement
  <2>4. ids = {"distinct-1", "distinct-2"}
    BY <2>1 DEF AnEvent
  <2> HIDE DEF ids, n
  <2> QED
    BY <1>5, <2>3, <2>4 DEF AddedRows, AddedIds
<1>6. CASE k = 11
  <2>1. n = 1 /\ ids = {"rival"}
    BY <1>2, <1>6, AlternativesOfTheCases
  <2> HIDE DEF ids, n
  <2> QED
    BY <1>6, <2>1 DEF AddedRows, AddedIds
<1> QED
  BY <1>1, <1>3, <1>4, <1>5, <1>6

-----------------------------------------------------------------------------
LEMMA AcceptanceInit ==
  ASSUME Acceptance!FixtureIsOlder, Acceptance!NoneIsApart, Acceptance!Init
  PROVE  AcceptanceInv
<1> USE DEF Acceptance!Init
<1>1. source \in Seq(SourceRows) /\ \A i \in DOMAIN source : source[i].id \in Acceptance!FixtureNames
  <2>1. source \in Seq(Acceptance!RowsNamed(Acceptance!FixtureNames))
    BY DEF Acceptance!FixtureIsOlder
  <2>2. \A i \in DOMAIN source : source[i] \in Acceptance!RowsNamed(Acceptance!FixtureNames)
    BY <2>1, ElementOfSeq, LenProperties
  <2>3. \A i \in DOMAIN source : source[i] \in SourceRows
    BY <2>2 DEF Acceptance!RowsNamed, SourceRows
  <2>4. source \in [1 .. Len(source) -> SourceRows] /\ Len(source) \in Nat
    BY <2>1, <2>3, LenProperties
  <2>5. source \in Seq(SourceRows)
    BY <2>4, SeqDef
  <2> QED
    BY <2>2, <2>5 DEF Acceptance!RowsNamed
<1>2. AcceptanceTypeOK
  <2>1. probe \in ProbeTypes
    BY DEF ProbeTypes
  <2>2. life \in LifeTypes
    BY DEF LifeTypes
  <2>3. calls \in [1 .. 3 -> Acceptance!Calls \cup {None}]
    BY DEF Acceptance!Stale
  <2> QED
    BY <1>1, <2>1, <2>2, <2>3 DEF AcceptanceTypeOK
<1>3. \A i \in 1 .. 3 : calls[i] = None
  BY DEF Acceptance!Stale
<1>4. probe.at = "new" /\ probe.status = None /\ ~ InTheCases
  BY DEF InTheCases
<1>5. CaseFits
  BY <1>4 DEF CaseFits, Acceptance!NoneIsApart, Acceptance!Statuses
<1>6. RequestsFit /\ ReadingsFit /\ ForgetfulAddsNothing /\ FaultsExcluded
  BY <1>3, <1>4 DEF RequestsFit, ReadingsFit, ForgetfulAddsNothing, FaultsExcluded
<1>7. AnswersHaveReasons
  BY <1>3 DEF AnswersHaveReasons
<1>8. ForgedIsOfOneBody
  BY <1>1, <1>3 DEF ForgedIsOfOneBody, Acceptance!FixtureIsOlder, Acceptance!Names
<1>9. ClosedForGood
  BY DEF ClosedForGood, Acceptance!NoneIsApart, Acceptance!Statuses
<1> QED
  BY <1>2, <1>5, <1>6, <1>7, <1>8, <1>9 DEF AcceptanceInv

-----------------------------------------------------------------------------
(* Rows come in at the end of the source.                                   *)
Grows(row) ==
    /\ open
    /\ row \in SourceRows
    /\ source' = Append(source, row)
    /\ row.id \in {"forged", "unknown"} => row.body = "US"
    /\ fault = "forgetful" => row.actor = "other"

LEMMA SourceGrows ==
  ASSUME AcceptanceTypeOK, NEW row, Grows(row)
  PROVE  /\ source' \in Seq(SourceRows)
         /\ Len(source') = Len(source) + 1 /\ Len(source) \in Nat
         /\ DOMAIN source = 1 .. Len(source) /\ DOMAIN source' = 1 .. Len(source')
         /\ \A i \in 1 .. Len(source) : source'[i] = source[i]
         /\ source'[Len(source')] = row
<1>1. source \in Seq(SourceRows) /\ row \in SourceRows /\ source' = Append(source, row)
  BY DEF AcceptanceTypeOK, Grows
<1>2. Len(source) \in Nat /\ DOMAIN source = 1 .. Len(source)
  BY <1>1, LenProperties
<1>3. /\ Append(source, row) \in Seq(SourceRows)
      /\ Len(Append(source, row)) = Len(source) + 1
      /\ \A i \in 1 .. Len(source) : Append(source, row)[i] = source[i]
      /\ Append(source, row)[Len(source) + 1] = row
  BY <1>1, <1>2, AppendProperties
<1>4. DOMAIN source' = 1 .. Len(source')
  BY <1>1, <1>3, LenProperties
<1> QED
  BY <1>1, <1>2, <1>3, <1>4

(* Requests that are answered are still the same.                           *)
SameRequests ==
    \A i \in 1 .. 3 : /\ calls'[i] = None <=> calls[i] = None
                      /\ calls[i] # None => calls'[i].as = calls[i].as /\ calls'[i].event = calls[i].event

(* What a sequence starts with, a longer one starts with too.               *)
LEMMA StillStarts ==
  ASSUME NEW first, NEW rows, NEW more,
         Len(first) \in Nat, Len(rows) \in Nat, Len(more) \in Nat,
         StartsWith(rows, first),
         Len(rows) <= Len(more), \A i \in 1 .. Len(rows) : more[i] = rows[i]
  PROVE  StartsWith(more, first)
BY DEF StartsWith

LEMMA ServiceKeeps ==
  ASSUME AcceptanceInv, UNCHANGED <<fault, open, closing, probe, life>>,
         calls' \in [1 .. 3 -> Acceptance!Calls \cup {None}], SameRequests,
         source' = source \/ \E row \in SourceRows : Grows(row)
  PROVE  /\ AcceptanceTypeOK' /\ CaseFits' /\ ReadingsFit' /\ RequestsFit'
         /\ ForgedIsOfOneBody' /\ ForgetfulAddsNothing' /\ FaultsExcluded' /\ ClosedForGood'
<1> USE DEF AcceptanceInv
<1>1. source \in Seq(SourceRows) /\ Len(source) \in Nat /\ DOMAIN source = 1 .. Len(source)
  BY LenProperties DEF AcceptanceTypeOK
<1>2. /\ source' \in Seq(SourceRows) /\ Len(source') \in Nat
      /\ DOMAIN source' = 1 .. Len(source')
      /\ Len(source) <= Len(source') /\ \A i \in 1 .. Len(source) : source'[i] = source[i]
  <2>1. CASE source' = source
    BY <1>1, <2>1
  <2>2. CASE \E row \in SourceRows : Grows(row)
    <3>1. PICK row \in SourceRows : Grows(row)
      BY <2>2
    <3> QED
      BY <1>1, <3>1, SourceGrows
  <2> QED
    BY <2>1, <2>2
<1>3. \A i \in Len(source) + 1 .. Len(source') :
         /\ source'[i].id \in {"forged", "unknown"} => source'[i].body = "US"
         /\ fault = "forgetful" => source'[i].actor = "other"
  <2>1. CASE source' = source
    BY <1>1, <2>1
  <2>2. CASE \E row \in SourceRows : Grows(row)
    <3>1. PICK row \in SourceRows : Grows(row)
      BY <2>2
    <3>2. Len(source') = Len(source) + 1 /\ source'[Len(source')] = row
      BY <3>1, SourceGrows
    <3>3. \A i \in Len(source) + 1 .. Len(source') : source'[i] = row
      BY <1>1, <3>2
    <3>4. /\ row.id \in {"forged", "unknown"} => row.body = "US"
          /\ fault = "forgetful" => row.actor = "other"
      BY <3>1 DEF Grows
    <3> QED
      BY <3>3, <3>4
  <2> QED
    BY <2>1, <2>2
<1>4. source' # source => open
  BY DEF Grows
<1>5. AcceptanceTypeOK'
  BY <1>2 DEF AcceptanceTypeOK
<1>6. CaseFits' /\ FaultsExcluded' /\ InTheCases' = InTheCases
  BY DEF CaseFits, FaultsExcluded, InTheCases
<1>7. ReadingsFit'
  <2> SUFFICES ASSUME InTheCases
               PROVE  StartsWith(source', probe.current)
    BY <1>6 DEF ReadingsFit, StartsWith
  <2>1. StartsWith(source, probe.current) /\ Len(probe.current) \in Nat
    BY LenProperties DEF ReadingsFit
  <2> QED
    BY <1>1, <1>2, <2>1, StillStarts
<1>8. RequestsFit'
  BY <1>6 DEF RequestsFit, SameRequests
<1>9. ForgedIsOfOneBody'
  <2>1. \A i \in DOMAIN source' : source'[i].id \in {"forged", "unknown"} => source'[i].body = "US"
    BY <1>1, <1>2, <1>3 DEF ForgedIsOfOneBody
  <2> QED
    BY <2>1 DEF ForgedIsOfOneBody, SameRequests
<1>10. ForgetfulAddsNothing'
  <2> SUFFICES ASSUME InTheCases, fault = "forgetful", NEW i \in Len(probe.current) + 1 .. Len(source')
               PROVE  source'[i].actor = "other"
    BY <1>6 DEF ForgetfulAddsNothing
  <2>1. Len(probe.current) \in Nat
    BY LenProperties DEF ReadingsFit
  <2> QED
    BY <1>1, <1>2, <1>3, <2>1 DEF ForgetfulAddsNothing
<1>11. ClosedForGood'
  BY <1>4 DEF ClosedForGood
<1> QED
  BY <1>5, <1>6, <1>7, <1>8, <1>9, <1>10, <1>11

-----------------------------------------------------------------------------
(* The service answers a request, or the caller gives up on it.             *)
IsAnswered(i, served, verdict) ==
    /\ calls' = [calls EXCEPT ![i] = [calls[i] EXCEPT !.served = served, !.answer = verdict]]

LEMMA AnswerIsKept ==
  ASSUME AcceptanceTypeOK, NEW i \in 1 .. 3, calls[i] # None, Acceptance!NoneIsApart,
         NEW served \in BOOLEAN, NEW verdict \in Acceptance!Verdicts, IsAnswered(i, served, verdict)
  PROVE  /\ calls' \in [1 .. 3 -> Acceptance!Calls \cup {None}]
         /\ SameRequests
         /\ calls'[i].answer = verdict
         /\ \A j \in 1 .. 3 : j # i => calls'[j] = calls[j]
<1>1. calls[i] \in Acceptance!Calls /\ calls \in [1 .. 3 -> Acceptance!Calls \cup {None}]
  BY DEF AcceptanceTypeOK
<1> DEFINE call1 == [calls[i] EXCEPT !.served = served, !.answer = verdict]
<1>2. /\ call1 \in Acceptance!Calls
      /\ call1.as = calls[i].as /\ call1.event = calls[i].event /\ call1.answer = verdict
  BY <1>1 DEF Acceptance!Calls
<1>3. call1 # None
  BY <1>2 DEF Acceptance!NoneIsApart
<1>4. calls' = [calls EXCEPT ![i] = call1]
  BY DEF IsAnswered
<1> HIDE DEF call1
<1>5. calls'[i] = call1 /\ \A j \in 1 .. 3 : j # i => calls'[j] = calls[j]
  BY <1>1, <1>4
<1>6. calls' \in [1 .. 3 -> Acceptance!Calls \cup {None}]
  BY <1>1, <1>2, <1>4
<1>7. SameRequests
  BY <1>2, <1>3, <1>5 DEF SameRequests
<1> QED
  BY <1>2, <1>5, <1>6, <1>7

LEMMA ServedAnswers ==
  ASSUME AcceptanceTypeOK, NEW i \in 1 .. 3, calls[i] # None,
         NEW verdict \in Acceptance!Verdicts, Acceptance!Served(i, verdict)
  PROVE  IsAnswered(i, TRUE, IF calls[i].answer = None THEN verdict ELSE calls[i].answer)
<1>1. calls[i] \in Acceptance!Calls /\ calls \in [1 .. 3 -> Acceptance!Calls \cup {None}]
  BY DEF AcceptanceTypeOK
<1> QED
  BY <1>1 DEF Acceptance!Served, IsAnswered, Acceptance!Calls

LEMMA ReasonsStand ==
  ASSUME AcceptanceInv, UNCHANGED <<fault, probe>>, NEW i \in 1 .. 3, calls[i] # None,
         calls'[i].as = calls[i].as, calls'[i].event = calls[i].event,
         calls'[i].answer = calls[i].answer, HasReason(i),
         source' = source \/ \E row \in SourceRows : Grows(row)
  PROVE  HasReason(i)'
<1> USE DEF AcceptanceInv
<1>1. source \in Seq(SourceRows) /\ Len(source) \in Nat /\ DOMAIN source = 1 .. Len(source)
  BY LenProperties DEF AcceptanceTypeOK
<1>2. /\ DOMAIN source \subseteq DOMAIN source' /\ \A j \in DOMAIN source : source'[j] = source[j]
      /\ Len(source) <= Len(source') /\ Len(source') \in Nat
  <2>1. CASE source' = source
    BY <1>1, <2>1
  <2>2. CASE \E row \in SourceRows : Grows(row)
    <3>1. PICK row \in SourceRows : Grows(row)
      BY <2>2
    <3> QED
      BY <1>1, <3>1, SourceGrows
  <2> QED
    BY <2>1, <2>2
<1>3. Acceptance!Identified(calls[i].as)' = Acceptance!Identified(calls[i].as)
  BY DEF Acceptance!Identified
<1>4. Acceptance!Valid(calls[i].event)' = Acceptance!Valid(calls[i].event)
  BY DEF Acceptance!Valid
<1>5. Acceptance!Contradicted(calls[i].event) => Acceptance!Contradicted(calls[i].event)'
  BY <1>2 DEF Acceptance!Contradicted, Acceptance!Held
<1>6. Len(source) > Len(probe.current) /\ probe.at = "waiting" => (Len(source) > Len(probe.current))'
  <2> SUFFICES ASSUME probe.at = "waiting", Len(source) > Len(probe.current)
               PROVE  Len(source') > Len(probe.current)
    OBVIOUS
  <2>1. Len(probe.current) \in Nat
    BY LenProperties DEF ReadingsFit, InTheCases
  <2> QED
    BY <1>1, <1>2, <2>1
<1> QED
  BY <1>3, <1>4, <1>5, <1>6 DEF HasReason

LEMMA VerdictsHaveReasons ==
  ASSUME AcceptanceInv, Acceptance!NoneIsApart, UNCHANGED <<fault, open, closing, probe, life>>,
         NEW i \in 1 .. 3, calls[i] # None, NEW verdict \in Acceptance!Verdicts,
         Acceptance!Served(i, verdict),
         source' = source \/ \E row \in SourceRows : Grows(row),
         verdict = "denied" => ~ Acceptance!Identified(calls[i].as),
         verdict = "rejected" =>
             \/ ~ Acceptance!Valid(calls[i].event)
             \/ Acceptance!Contradicted(calls[i].event) /\ fault # "blind",
         verdict = "accepted" /\ fault = "repeating" => source' # source
  PROVE  AcceptanceInv'
<1> USE DEF AcceptanceInv
<1> DEFINE given == IF calls[i].answer = None THEN verdict ELSE calls[i].answer
<1>1. given \in Acceptance!Verdicts /\ (calls[i].answer # None => given = calls[i].answer)
  BY DEF AcceptanceTypeOK, Acceptance!Calls
<1>2. IsAnswered(i, TRUE, given)
  BY ServedAnswers
<1> HIDE DEF given
<1>3. /\ calls' \in [1 .. 3 -> Acceptance!Calls \cup {None}]
      /\ SameRequests
      /\ calls'[i].answer = given
      /\ \A j \in 1 .. 3 : j # i => calls'[j] = calls[j]
  BY <1>1, <1>2, AnswerIsKept
<1>4. /\ AcceptanceTypeOK' /\ CaseFits' /\ ReadingsFit' /\ RequestsFit'
      /\ ForgedIsOfOneBody' /\ ForgetfulAddsNothing' /\ FaultsExcluded' /\ ClosedForGood'
  BY <1>3, ServiceKeeps
<1>5. \A j \in 1 .. 3 : calls[j] # None =>
         calls'[j] # None /\ calls'[j].as = calls[j].as /\ calls'[j].event = calls[j].event
  BY <1>3 DEF SameRequests
<1>6. \A j \in 1 .. 2 : j # i /\ calls[j] # None => HasReason(j)'
  <2> SUFFICES ASSUME NEW j \in 1 .. 2, j # i, calls[j] # None
               PROVE  HasReason(j)'
    OBVIOUS
  <2>1. calls'[j] = calls[j] /\ HasReason(j)
    BY <1>3 DEF AnswersHaveReasons
  <2> QED
    BY <2>1, ReasonsStand
<1>7. ASSUME i \in 1 .. 2, calls[i].answer # None
      PROVE  HasReason(i)'
  <2>1. calls'[i].answer = calls[i].answer /\ HasReason(i)
    BY <1>1, <1>3, <1>7 DEF AnswersHaveReasons
  <2> QED
    BY <1>5, <2>1, ReasonsStand
<1>8. ASSUME i \in 1 .. 2, calls[i].answer = None
      PROVE  HasReason(i)'
  <2>1. calls'[i].answer = verdict
    BY <1>3, <1>8 DEF given
  <2>2. calls'[i].as = calls[i].as /\ calls'[i].event = calls[i].event
    BY <1>5
  <2>3. calls'[i].answer = "denied" => ~ Acceptance!Identified(calls[i].as)'
    BY <2>1, <2>2 DEF Acceptance!Identified
  <2>4. Acceptance!Valid(calls[i].event)' = Acceptance!Valid(calls[i].event)
    BY <2>2 DEF Acceptance!Valid
  <2>5. source \in Seq(SourceRows) /\ Len(source) \in Nat /\ DOMAIN source = 1 .. Len(source)
    BY LenProperties DEF AcceptanceTypeOK
  <2>6. /\ DOMAIN source \subseteq DOMAIN source' /\ \A j \in DOMAIN source : source'[j] = source[j]
        /\ source' # source => Len(source') = Len(source) + 1
    <3>1. CASE source' = source
      BY <3>1
    <3>2. CASE \E row \in SourceRows : Grows(row)
      <4>1. PICK row \in SourceRows : Grows(row)
        BY <3>2
      <4> QED
        BY <2>5, <4>1, SourceGrows
    <3> QED
      BY <3>1, <3>2
  <2>7. Acceptance!Contradicted(calls[i].event) => Acceptance!Contradicted(calls[i].event)'
    BY <2>2, <2>6 DEF Acceptance!Contradicted, Acceptance!Held
  <2>8. calls'[i].answer = "rejected" =>
            \/ ~ Acceptance!Valid(calls[i].event)'
            \/ Acceptance!Contradicted(calls[i].event)' /\ fault' # "blind"
    BY <2>1, <2>4, <2>7
  <2>9. ASSUME calls'[i].answer = "accepted", fault = "repeating", probe.at = "waiting"
        PROVE  Len(source') > Len(probe.current)
    <3>1. Len(source') = Len(source) + 1
      BY <2>1, <2>6, <2>9
    <3>2. Len(probe.current) \in Nat /\ Len(probe.current) <= Len(source)
      BY <2>9, LenProperties DEF ReadingsFit, InTheCases, StartsWith
    <3> QED
      BY <2>5, <3>1, <3>2
  <2> QED
    BY <2>3, <2>8, <2>9 DEF HasReason
<1>9. AnswersHaveReasons'
  <2> SUFFICES ASSUME NEW j \in 1 .. 2, calls'[j] # None
               PROVE  HasReason(j)'
    BY DEF AnswersHaveReasons
  <2>1. calls[j] # None
    BY <1>3 DEF SameRequests
  <2> QED
    BY <1>6, <1>7, <1>8, <2>1
<1> QED
  BY <1>4, <1>9

LEMMA ServeStep ==
  ASSUME AcceptanceInv, Acceptance!NoneIsApart, Acceptance!Serve
  PROVE  AcceptanceInv'
<1>1. AcceptanceTypeOK /\ ForgedIsOfOneBody
  BY DEF AcceptanceInv
<1>2. UNCHANGED <<fault, open, closing, probe, life>>
  BY DEF Acceptance!Serve
<1>3. DOMAIN calls = 1 .. 3
  BY <1>1 DEF AcceptanceTypeOK
<1>4. PICK i \in 1 .. 3 :
         /\ calls[i] # None
         /\ Acceptance!Deny(i) \/ Acceptance!Reject(i) \/ Acceptance!Store(i) \/ Acceptance!Confirm(i)
  BY <1>3 DEF Acceptance!Serve
<1>5. {"denied", "rejected", "accepted", "unverified"} \subseteq Acceptance!Verdicts
  BY DEF Acceptance!Verdicts
<1>6. CASE Acceptance!Deny(i)
  <2>1. "denied" \in Acceptance!Verdicts /\ Acceptance!Served(i, "denied") /\ source' = source
        /\ ~ Acceptance!Identified(calls[i].as)
    BY <1>5, <1>6 DEF Acceptance!Deny
  <2> QED
    BY <1>2, <1>4, <2>1, VerdictsHaveReasons
<1>7. CASE Acceptance!Reject(i)
  <2>1. "rejected" \in Acceptance!Verdicts /\ Acceptance!Served(i, "rejected") /\ source' = source
        /\ (~ Acceptance!Valid(calls[i].event) \/ (Acceptance!Contradicted(calls[i].event) /\ fault # "blind"))
    BY <1>5, <1>7 DEF Acceptance!Reject
  <2> QED
    BY <1>2, <1>4, <2>1, VerdictsHaveReasons
<1>8. CASE Acceptance!Store(i)
  <2> DEFINE row == Acceptance!Row(calls[i].event)
             verdict == IF open THEN "accepted" ELSE "unverified"
  <2>1. calls[i] \in Acceptance!Calls
    BY <1>1, <1>4 DEF AcceptanceTypeOK
  <2>2. row \in SourceRows /\ row.id = calls[i].event.id /\ row.body = calls[i].event.body
    BY <2>1 DEF SourceRows, Acceptance!RowsNamed, Acceptance!Row, Acceptance!Calls
  <2>3. calls[i].event.id \in {"forged", "unknown"} => calls[i].event.body = "US"
    BY <1>1, <1>4 DEF ForgedIsOfOneBody
  <2>4. /\ Acceptance!Served(i, verdict)
        /\ IF open /\ fault # "forgetful" THEN source' = Append(source, row) ELSE source' = source
    BY <1>8 DEF Acceptance!Store
  <2>5. CASE open /\ fault # "forgetful"
    <3> HIDE DEF row
    <3>1. Grows(row)
      BY <2>2, <2>3, <2>4, <2>5 DEF Grows
    <3>2. source' # source
      <4>1. Len(source') = Len(source) + 1 /\ Len(source) \in Nat
        BY <1>1, <3>1, SourceGrows
      <4> QED
        BY <4>1
    <3>3. "accepted" \in Acceptance!Verdicts /\ Acceptance!Served(i, "accepted")
      BY <1>5, <2>4, <2>5
    <3> QED
      BY <1>2, <1>4, <2>2, <3>1, <3>2, <3>3, VerdictsHaveReasons
  <2>6. CASE open /\ fault = "forgetful"
    <3>1. "accepted" \in Acceptance!Verdicts /\ Acceptance!Served(i, "accepted") /\ source' = source
      BY <1>5, <2>4, <2>6
    <3> QED
      BY <1>2, <1>4, <2>6, <3>1, VerdictsHaveReasons
  <2>7. CASE ~ open
    <3>1. "unverified" \in Acceptance!Verdicts /\ Acceptance!Served(i, "unverified") /\ source' = source
      BY <1>5, <2>4, <2>7
    <3> QED
      BY <1>2, <1>4, <3>1, VerdictsHaveReasons
  <2> QED
    BY <2>5, <2>6, <2>7
<1>9. CASE Acceptance!Confirm(i)
  <2>1. "accepted" \in Acceptance!Verdicts /\ Acceptance!Served(i, "accepted") /\ source' = source
    BY <1>5, <1>9 DEF Acceptance!Confirm
  <2>2. fault # "repeating"
    BY <1>9 DEF Acceptance!Confirm
  <2> QED
    BY <1>2, <1>4, <2>1, <2>2, VerdictsHaveReasons
<1> QED
  BY <1>4, <1>6, <1>7, <1>8, <1>9

LEMMA GiveUpStep ==
  ASSUME AcceptanceInv, Acceptance!NoneIsApart, Acceptance!GiveUp
  PROVE  AcceptanceInv'
<1> USE DEF AcceptanceInv
<1>1. UNCHANGED <<fault, source, open, closing, probe, life>>
  BY DEF Acceptance!GiveUp
<1>2. DOMAIN calls = 1 .. 3
  BY DEF AcceptanceTypeOK
<1>3. PICK i \in 1 .. 3, verdict \in {"lost", "unverified"} :
         calls[i] # None /\ calls' = [calls EXCEPT ![i].answer = verdict]
  BY <1>2 DEF Acceptance!GiveUp
<1>4. calls[i] \in Acceptance!Calls
  BY <1>3 DEF AcceptanceTypeOK
<1>5. calls[i].served \in BOOLEAN /\ IsAnswered(i, calls[i].served, verdict)
  BY <1>3, <1>4 DEF IsAnswered, Acceptance!Calls
<1>6. verdict \in Acceptance!Verdicts
  BY DEF Acceptance!Verdicts
<1>7. /\ calls' \in [1 .. 3 -> Acceptance!Calls \cup {None}]
      /\ SameRequests
      /\ calls'[i].answer = verdict
      /\ \A j \in 1 .. 3 : j # i => calls'[j] = calls[j]
  BY <1>3, <1>5, <1>6, AnswerIsKept
<1>8. /\ AcceptanceTypeOK' /\ CaseFits' /\ ReadingsFit' /\ RequestsFit'
      /\ ForgedIsOfOneBody' /\ ForgetfulAddsNothing' /\ FaultsExcluded' /\ ClosedForGood'
  BY <1>1, <1>7, ServiceKeeps
<1>9. AnswersHaveReasons'
  <2> SUFFICES ASSUME NEW j \in 1 .. 2, calls'[j] # None
               PROVE  HasReason(j)'
    BY DEF AnswersHaveReasons
  <2>1. calls[j] # None /\ HasReason(j)
    BY <1>7 DEF SameRequests, AnswersHaveReasons
  <2>2. CASE j = i
    BY <1>7, <2>2 DEF HasReason
  <2>3. CASE j # i
    <3>1. calls'[j] = calls[j]
      BY <1>7, <2>3
    <3> QED
      BY <1>1, <2>1, <3>1, ReasonsStand
  <2> QED
    BY <2>2, <2>3
<1> QED
  BY <1>8, <1>9

LEMMA OthersStep ==
  ASSUME AcceptanceInv, Acceptance!OthersAppend
  PROVE  AcceptanceInv'
<1> USE DEF AcceptanceInv
<1> DEFINE row == [id |-> "other", body |-> "US", actor |-> "other"]
<1>1. UNCHANGED <<fault, open, calls, closing, probe, life>> /\ open /\ source' = Append(source, row)
  BY DEF Acceptance!OthersAppend
<1>2. row \in SourceRows /\ row.id \notin {"forged", "unknown"} /\ row.actor = "other"
  BY DEF SourceRows, Acceptance!RowsNamed
<1> HIDE DEF row
<1>3. Grows(row)
  BY <1>1, <1>2 DEF Grows
<1>4. calls' \in [1 .. 3 -> Acceptance!Calls \cup {None}] /\ SameRequests
  BY <1>1 DEF AcceptanceTypeOK, SameRequests
<1>5. /\ AcceptanceTypeOK' /\ CaseFits' /\ ReadingsFit' /\ RequestsFit'
      /\ ForgedIsOfOneBody' /\ ForgetfulAddsNothing' /\ FaultsExcluded' /\ ClosedForGood'
  BY <1>1, <1>2, <1>3, <1>4, ServiceKeeps
<1>6. AnswersHaveReasons'
  <2> SUFFICES ASSUME NEW j \in 1 .. 2, calls'[j] # None
               PROVE  HasReason(j)'
    BY DEF AnswersHaveReasons
  <2>1. calls'[j] = calls[j] /\ calls[j] # None /\ HasReason(j)
    BY <1>1 DEF AnswersHaveReasons
  <2> QED
    BY <1>1, <1>2, <1>3, <2>1, ReasonsStand
<1> QED
  BY <1>5, <1>6

-----------------------------------------------------------------------------
(* What a case that ended as expected says of the service.                  *)
LEMMA SoleAnswer ==
  ASSUME AcceptanceInv, probe.at = "waiting", Acceptance!Expected, NEW k \in 1 .. 11, k = probe.case,
         NEW as, NEW id, NEW body, AskedOnce(k, as, id, body),
         NEW given, Acceptance!Cases[k].answers = {<<given>>}
  PROVE  /\ calls[1] # None /\ calls[1].as = as /\ calls[1].answer = given
         /\ calls[1].event.id = id /\ calls[1].event.body = body
         /\ HasReason(1)
<1> DEFINE asks == Acceptance!Cases[k].asks
<1>1. DOMAIN asks = {1} /\ asks[1].as = as /\ asks[1].event = [id |-> id, body |-> body]
  BY DEF AskedOnce
<1>2. calls[1] # None /\ calls[1].as = as /\ calls[1].event = asks[1].event
  <2>1. 1 \in DOMAIN Acceptance!Cases[probe.case].asks
    BY <1>1
  <2>2. /\ calls[1] # None
        /\ calls[1].as = Acceptance!Cases[probe.case].asks[1].as
        /\ calls[1].event = Acceptance!Cases[probe.case].asks[1].event
    BY <2>1 DEF AcceptanceInv, RequestsFit
  <2> QED
    BY <1>1, <2>2
<1>3. calls[1].event.id = id /\ calls[1].event.body = body
  BY <1>1, <1>2
<1>4. 1 \in Acceptance!ProbeCalls
  BY <1>2 DEF Acceptance!ProbeCalls
<1>5. Acceptance!Answers = <<given>>
  BY DEF Acceptance!Expected
<1>6. calls[1].answer = given
  <2>1. Acceptance!Answers[1] = calls[1].answer
    BY <1>4 DEF Acceptance!Answers
  <2> QED
    BY <1>5, <2>1
<1>7. HasReason(1)
  BY <1>2 DEF AcceptanceInv, AnswersHaveReasons
<1> QED
  BY <1>2, <1>3, <1>6, <1>7

(* What came in since the last reading is one of the alternatives.          *)
LEMMA AddedIsAlternative ==
  ASSUME AcceptanceInv, probe.at = "waiting", Acceptance!Expected
  PROVE  \E added \in Acceptance!Cases[probe.case].alternatives :
            /\ Len(source) = Len(probe.current) + Acceptance!Cardinality(added)
            /\ \A i \in Len(probe.current) + 1 .. Len(source) : \E e \in added : source[i] = Acceptance!Row(e)
            /\ \A e \in added : \E i \in Len(probe.current) + 1 .. Len(source) : source[i] = Acceptance!Row(e)
<1> DEFINE n == Len(probe.current)
           m == Len(source)
           new == Acceptance!Added(source)
<1>1. source \in Seq(SourceRows) /\ probe.current \in Seq(SourceRows)
  BY DEF AcceptanceInv, AcceptanceTypeOK, ReadingsFit, InTheCases
<1>2. m \in Nat /\ n \in Nat /\ n <= m
  BY <1>1, LenProperties DEF AcceptanceInv, ReadingsFit, InTheCases, StartsWith
<1>3. PICK added \in Acceptance!Cases[probe.case].alternatives :
         Len(new) = Acceptance!Cardinality(added) /\ Acceptance!ToSet(new) = {Acceptance!Row(e) : e \in added}
  BY DEF Acceptance!Expected, Acceptance!AddsAlternative
<1>4. /\ Len(new) = m - n
      /\ \A i \in 1 .. m - n : new[i] = source[n + i]
      /\ DOMAIN new = 1 .. m - n
  <2>0. DOMAIN source = 1 .. m
    BY <1>1, LenProperties
  <2>1. \A i \in n + 1 .. m : source[i] \in SourceRows
    BY <1>1, <1>2, ElementOfSeq
  <2> HIDE DEF n, m, new
  <2>2. /\ SubSeq(source, n + 1, m) \in Seq(SourceRows)
        /\ Len(SubSeq(source, n + 1, m)) = IF n + 1 <= m THEN m - (n + 1) + 1 ELSE 0
        /\ \A i \in 1 .. m - (n + 1) + 1 : SubSeq(source, n + 1, m)[i] = source[n + 1 + i - 1]
    BY <1>2, <2>1, SubSeqProperties
  <2>3. new = SubSeq(source, n + 1, m)
    BY DEF Acceptance!Added, n, m, new
  <2>4. DOMAIN SubSeq(source, n + 1, m) = 1 .. Len(SubSeq(source, n + 1, m))
    BY <2>2, LenProperties
  <2> QED
    BY <1>2, <2>2, <2>3, <2>4
<1> HIDE DEF n, m, new
<1>5. m = n + Acceptance!Cardinality(added)
  <2>1. Acceptance!Cardinality(added) = m - n
    BY <1>3, <1>4
  <2> QED
    BY <1>2, <2>1
<1>6. ASSUME NEW i \in n + 1 .. m
      PROVE  \E e \in added : source[i] = Acceptance!Row(e)
  <2>1. i - n \in 1 .. m - n /\ n + (i - n) = i
    BY <1>2
  <2>2. new[i - n] = source[i] /\ i - n \in DOMAIN new
    BY <1>4, <2>1
  <2>3. source[i] \in Acceptance!ToSet(new)
    BY <2>2 DEF Acceptance!ToSet
  <2> QED
    BY <1>3, <2>3
<1>7. ASSUME NEW e \in added
      PROVE  \E i \in n + 1 .. m : source[i] = Acceptance!Row(e)
  <2>1. Acceptance!Row(e) \in Acceptance!ToSet(new)
    BY <1>3
  <2>2. PICK j \in 1 .. m - n : new[j] = Acceptance!Row(e)
    BY <1>4, <2>1 DEF Acceptance!ToSet
  <2>3. n + j \in n + 1 .. m /\ source[n + j] = Acceptance!Row(e)
    BY <1>2, <1>4, <2>2
  <2> QED
    BY <2>3
<1> QED
  BY <1>5, <1>6, <1>7 DEF n, m

LEMMA CaseExcludes ==
  ASSUME AcceptanceInv, probe.at = "waiting", Acceptance!Expected
  PROVE  /\ probe.case = 1 => fault # "open"
         /\ probe.case = 3 => fault # "any_audience"
         /\ probe.case = 4 => fault # "forgetful"
         /\ probe.case = 5 => fault # "repeating"
         /\ probe.case = 6 => fault # "blind"
         /\ probe.case = 7 => fault # "trusting"
         /\ probe.case = 8 => fault # "lax"
<1> USE DEF AcceptanceInv
<1>0. source \in Seq(SourceRows) /\ Len(source) \in Nat /\ Len(probe.current) \in Nat
  BY LenProperties DEF AcceptanceTypeOK, ReadingsFit, InTheCases
<1>1. ASSUME probe.case = 1, fault = "open" PROVE FALSE
  <2>1. calls[1].answer = "denied" /\ HasReason(1)
    BY <1>1, CasesAreEleven, SoleAnswer
  <2> QED
    BY <1>1, <2>1 DEF HasReason, Acceptance!Identified
<1>2. ASSUME probe.case = 3, fault = "any_audience" PROVE FALSE
  <2>1. calls[1].answer = "denied" /\ calls[1].as = "stranger" /\ HasReason(1)
    BY <1>2, CasesAreEleven, SoleAnswer
  <2> QED
    BY <1>2, <2>1 DEF HasReason, Acceptance!Identified
<1>3. ASSUME probe.case = 4, fault = "forgetful" PROVE FALSE
  <2>1. PICK added \in Acceptance!Cases[4].alternatives :
           /\ \A i \in Len(probe.current) + 1 .. Len(source) : \E e \in added : source[i] = Acceptance!Row(e)
           /\ \A e \in added : \E i \in Len(probe.current) + 1 .. Len(source) : source[i] = Acceptance!Row(e)
    BY <1>3, AddedIsAlternative
  <2>2. AnEvent("first", "US") \in added
    BY <2>1, AlternativesOfTheCases
  <2>3. PICK i \in Len(probe.current) + 1 .. Len(source) : source[i] = Acceptance!Row(AnEvent("first", "US"))
    BY <2>1, <2>2
  <2>4. source[i].actor = "producer"
    BY <2>3 DEF Acceptance!Row
  <2>5. source[i].actor = "other"
    BY <1>3 DEF ForgetfulAddsNothing, InTheCases
  <2> QED
    BY <2>4, <2>5
<1>4. ASSUME probe.case = 5, fault = "repeating" PROVE FALSE
  <2>1. calls[1].answer = "accepted" /\ HasReason(1)
    BY <1>4, CasesAreEleven, SoleAnswer
  <2>2. Len(source) > Len(probe.current)
    BY <1>4, <2>1 DEF HasReason
  <2>3. PICK added \in Acceptance!Cases[5].alternatives :
           /\ \A i \in Len(probe.current) + 1 .. Len(source) : \E e \in added : source[i] = Acceptance!Row(e)
           /\ \A e \in added : \E i \in Len(probe.current) + 1 .. Len(source) : source[i] = Acceptance!Row(e)
    BY <1>4, AddedIsAlternative
  <2>4. added = {}
    BY <2>3, AlternativesOfTheCases
  <2>5. Len(source) \in Len(probe.current) + 1 .. Len(source)
    BY <1>0, <2>2
  <2> QED
    BY <2>3, <2>4, <2>5
<1>5. ASSUME probe.case = 6, fault = "blind" PROVE FALSE
  <2>1. calls[1].answer = "rejected" /\ calls[1].event.id = "first" /\ HasReason(1)
    BY <1>5, CasesAreEleven, SoleAnswer
  <2> QED
    BY <1>5, <2>1 DEF HasReason, Acceptance!Valid
<1>6. ASSUME NEW id \in {"forged", "unknown"}, calls[1].event.id = id, calls[1].event.body = "US"
      PROVE  ~ Acceptance!Contradicted(calls[1].event)
  BY <1>6 DEF Acceptance!Contradicted, Acceptance!Held, ForgedIsOfOneBody
<1>7. ASSUME probe.case = 7, fault = "trusting" PROVE FALSE
  <2>1. calls[1].answer = "rejected" /\ calls[1].event.id = "forged" /\ calls[1].event.body = "US" /\ HasReason(1)
    BY <1>7, CasesAreEleven, SoleAnswer
  <2> QED
    BY <1>6, <1>7, <2>1 DEF HasReason, Acceptance!Valid
<1>8. ASSUME probe.case = 8, fault = "lax" PROVE FALSE
  <2>1. calls[1].answer = "rejected" /\ calls[1].event.id = "unknown" /\ calls[1].event.body = "US" /\ HasReason(1)
    BY <1>8, CasesAreEleven, SoleAnswer
  <2> QED
    BY <1>6, <1>8, <2>1 DEF HasReason, Acceptance!Valid
<1> QED
  BY <1>1, <1>2, <1>3, <1>4, <1>5, <1>7, <1>8

-----------------------------------------------------------------------------
(* Steps of the probe.                                                      *)
LEMMA JudgeReads ==
  ASSUME AcceptanceInv, Acceptance!NoneIsApart, probe.at = "waiting", Acceptance!Expected
  PROVE  /\ StartsWith(source, probe.original)
         /\ Len(source) = Len(probe.original) + AddedRows(probe.case + 1)
         /\ {source[i].id : i \in Len(probe.original) + 1 .. Len(source)} = AddedIds(probe.case + 1)
         /\ \A i \in Len(probe.original) + 1 .. Len(source) : source[i].actor = "producer"
<1> DEFINE k == probe.case
           b == Len(probe.original)
           n == Len(probe.current)
           m == Len(source)
<1>1. k \in 1 .. 11 /\ InTheCases
  BY DEF AcceptanceInv, CaseFits, InTheCases
<1>2. /\ source \in Seq(SourceRows) /\ probe.current \in Seq(SourceRows) /\ probe.original \in Seq(SourceRows)
      /\ StartsWith(probe.current, probe.original) /\ StartsWith(source, probe.current)
      /\ n = b + AddedRows(k)
      /\ {probe.current[i].id : i \in b + 1 .. n} = AddedIds(k)
      /\ \A i \in b + 1 .. n : probe.current[i].actor = "producer"
  BY <1>1 DEF AcceptanceInv, AcceptanceTypeOK, ReadingsFit
<1>3. m \in Nat /\ n \in Nat /\ b \in Nat /\ b <= n /\ n <= m
  BY <1>2, LenProperties DEF StartsWith
<1>4. /\ \A i \in 1 .. b : probe.original[i] = probe.current[i]
      /\ \A i \in 1 .. n : probe.current[i] = source[i]
  BY <1>2 DEF StartsWith
<1>5. PICK added \in Acceptance!Cases[k].alternatives :
         /\ m = n + Acceptance!Cardinality(added)
         /\ \A i \in n + 1 .. m : \E e \in added : source[i] = Acceptance!Row(e)
         /\ \A e \in added : \E i \in n + 1 .. m : source[i] = Acceptance!Row(e)
  BY AddedIsAlternative
<1>6. /\ Acceptance!Cardinality(added) \in Nat
      /\ AddedRows(k + 1) = AddedRows(k) + Acceptance!Cardinality(added)
      /\ AddedIds(k + 1) = AddedIds(k) \cup {e.id : e \in added}
  BY <1>1, <1>5, AlternativesAdd
<1>7. \A e : Acceptance!Row(e).id = e.id /\ Acceptance!Row(e).actor = "producer"
  BY DEF Acceptance!Row
<1> HIDE DEF k, b, n, m
<1>8. StartsWith(source, probe.original)
  <2>1. \A i \in 1 .. b : i \in 1 .. n
    BY <1>3
  <2>2. \A i \in 1 .. b : probe.original[i] = source[i]
    BY <1>4, <2>1
  <2>3. b <= m
    BY <1>3
  <2> QED
    BY <2>2, <2>3 DEF StartsWith, b, m
<1>9. m = b + AddedRows(k + 1)
  <2>1. AddedRows(k) \in Nat /\ AddedRows(k + 1) \in Nat
    BY DEF AddedRows
  <2>2. Acceptance!Cardinality(added) = m - n
    BY <1>3, <1>5, <1>6
  <2>3. n = b + AddedRows(k)
    BY <1>2 DEF n, b, k
  <2>4. AddedRows(k + 1) = AddedRows(k) + (m - n)
    BY <1>6, <2>2
  <2> QED
    BY <1>3, <2>1, <2>3, <2>4
<1>10. \A i \in b + 1 .. m : i \in b + 1 .. n \/ i \in n + 1 .. m
  BY <1>3
<1>11. \A i \in b + 1 .. n : probe.current[i] = source[i] /\ i \in b + 1 .. m
  <2>1. \A i \in b + 1 .. n : i \in 1 .. n /\ i \in b + 1 .. m
    BY <1>3
  <2> QED
    BY <1>4, <2>1
<1>12. \A i \in n + 1 .. m : i \in b + 1 .. m
  BY <1>3
<1>13. {source[i].id : i \in b + 1 .. m} = AddedIds(k + 1)
  <2>1. ASSUME NEW i \in b + 1 .. m PROVE source[i].id \in AddedIds(k + 1)
    <3>1. CASE i \in b + 1 .. n
      <4>1. probe.current[i].id \in AddedIds(k)
        BY <1>2, <3>1 DEF k, b, n
      <4> QED
        BY <1>6, <1>11, <3>1, <4>1
    <3>2. CASE i \in n + 1 .. m
      BY <1>5, <1>6, <1>7, <3>2
    <3> QED
      BY <1>10, <3>1, <3>2
  <2>2. ASSUME NEW id \in AddedIds(k + 1) PROVE \E i \in b + 1 .. m : source[i].id = id
    <3>1. CASE id \in AddedIds(k)
      <4>1. PICK i \in b + 1 .. n : probe.current[i].id = id
        BY <1>2, <3>1 DEF k, b, n
      <4> QED
        BY <1>11, <4>1
    <3>2. CASE id \in {e.id : e \in added}
      BY <1>5, <1>7, <1>12, <3>2
    <3> QED
      BY <1>6, <3>1, <3>2
  <2> QED
    BY <2>1, <2>2
<1>14. \A i \in b + 1 .. m : source[i].actor = "producer"
  <2>1. \A i \in b + 1 .. n : source[i].actor = "producer"
    BY <1>2, <1>11 DEF b, n
  <2>2. \A i \in n + 1 .. m : source[i].actor = "producer"
    BY <1>5, <1>7
  <2> QED
    BY <1>10, <2>1, <2>2
<1> QED
  BY <1>8, <1>9, <1>13, <1>14 DEF k, b, m

LEMMA JudgeStep ==
  ASSUME AcceptanceInv, Acceptance!NoneIsApart, Acceptance!JudgeCase
  PROVE  AcceptanceInv'
<1> USE DEF AcceptanceInv
<1> DEFINE k == probe.case
           at == Acceptance!Following
<1>1. /\ probe.at = "waiting" /\ Acceptance!Expected
      /\ probe' = [probe EXCEPT !.at = at, !.case = k + 1, !.current = source]
      /\ calls' = [calls EXCEPT ![1] = None, ![2] = None]
      /\ UNCHANGED <<fault, source, open, closing, life>>
  BY DEF Acceptance!JudgeCase, Acceptance!SetProbe
<1>2. k \in 1 .. 11 /\ InTheCases /\ probe.status = None
  BY <1>1 DEF CaseFits, InTheCases
<1>3. at = IF k = 11 THEN "collected" ELSE IF k + 1 = 3 THEN "minting" ELSE "asking"
  BY CasesAreEleven DEF Acceptance!Following, Acceptance!WrongAudience
<1> HIDE DEF at
<1>4. /\ probe'.at = at /\ probe'.case = k + 1 /\ probe'.current = source
      /\ probe'.original = probe.original /\ probe'.missing = probe.missing /\ probe'.status = None
      /\ probe' \in ProbeTypes
  <2>1. source \in Seq(SourceRows) /\ probe \in ProbeTypes
    BY DEF AcceptanceTypeOK
  <2>2. at \in {"minting", "asking", "collected"} /\ k + 1 \in 0 .. 12
    BY <1>2, <1>3
  <2> HIDE DEF k
  <2> QED
    BY <1>1, <1>2, <2>1, <2>2 DEF ProbeTypes
<1>5. calls' \in [1 .. 3 -> Acceptance!Calls \cup {None}] /\ calls'[1] = None /\ calls'[2] = None /\ calls'[3] = calls[3]
  BY <1>1 DEF AcceptanceTypeOK
<1>6. AcceptanceTypeOK'
  BY <1>1, <1>4, <1>5 DEF AcceptanceTypeOK
<1>7. InTheCases'
  BY <1>3, <1>4 DEF InTheCases, Acceptance!NoneIsApart, Acceptance!Statuses
<1>8. CaseFits'
  <2>1. probe'.status = None /\ None \notin Acceptance!Statuses
    BY <1>4 DEF Acceptance!NoneIsApart
  <2>2. at \in {"asking", "minting", "collected"}
    BY <1>3
  <2>3. at = "asking" => k + 1 \in 1 .. 11
    BY <1>2, <1>3
  <2>4. at = "minting" => k + 1 = 3
    BY <1>3
  <2>5. at = "collected" => k + 1 = 12
    BY <1>3
  <2> HIDE DEF k
  <2> QED
    BY <1>4, <2>1, <2>2, <2>3, <2>4, <2>5 DEF CaseFits, Acceptance!Statuses
<1>9. ReadingsFit'
  <2>1. /\ StartsWith(source, probe.original)
        /\ Len(source) = Len(probe.original) + AddedRows(k + 1)
        /\ {source[i].id : i \in Len(probe.original) + 1 .. Len(source)} = AddedIds(k + 1)
        /\ \A i \in Len(probe.original) + 1 .. Len(source) : source[i].actor = "producer"
    BY <1>1, JudgeReads
  <2>2. probe.original \in Seq(SourceRows) /\ source \in Seq(SourceRows)
    BY <1>2 DEF ReadingsFit, AcceptanceTypeOK
  <2>3. StartsWith(source, source)
    BY <2>2, LenProperties DEF StartsWith
  <2>4. /\ StartsWith(probe'.current, probe'.original)
        /\ StartsWith(source', probe'.current)
        /\ Len(probe'.current) = Len(probe'.original) + AddedRows(probe'.case)
    BY <1>1, <1>4, <2>1, <2>3
  <2>5. /\ {probe'.current[i].id : i \in Len(probe'.original) + 1 .. Len(probe'.current)} = AddedIds(probe'.case)
        /\ \A i \in Len(probe'.original) + 1 .. Len(probe'.current) : probe'.current[i].actor = "producer"
    BY <1>4, <2>1
  <2> QED
    BY <1>4, <2>2, <2>4, <2>5 DEF ReadingsFit, StartsWith, AddedIds, AddedRows
<1>10. RequestsFit' /\ AnswersHaveReasons'
  <2>1. at # "waiting"
    BY <1>3
  <2>2. RequestsFit'
    BY <1>4, <1>5, <2>1 DEF RequestsFit
  <2>3. AnswersHaveReasons'
    BY <1>5 DEF AnswersHaveReasons
  <2> QED
    BY <2>2, <2>3
<1>11. ForgedIsOfOneBody'
  <2>1. \A i \in 1 .. 3 : calls'[i] = None \/ calls'[i] = calls[i]
    BY <1>5
  <2> QED
    BY <1>1, <2>1 DEF ForgedIsOfOneBody
<1>12. ForgetfulAddsNothing'
  <2>1. Len(source) + 1 .. Len(source) = {}
    BY LenProperties DEF AcceptanceTypeOK
  <2> QED
    BY <1>1, <1>4, <2>1 DEF ForgetfulAddsNothing
<1>13. FaultsExcluded'
  <2>1. /\ k = 1 => fault # "open"
        /\ k = 3 => fault # "any_audience"
        /\ k = 4 => fault # "forgetful"
        /\ k = 5 => fault # "repeating"
        /\ k = 6 => fault # "blind"
        /\ k = 7 => fault # "trusting"
        /\ k = 8 => fault # "lax"
    BY <1>1, CaseExcludes
  <2>2. /\ k > 1 => fault # "open"
        /\ k > 3 /\ probe.missing = {} => fault # "any_audience"
        /\ k > 4 => fault # "forgetful"
        /\ k > 5 => fault # "repeating"
        /\ k > 6 => fault # "blind"
        /\ k > 7 => fault # "trusting"
        /\ k > 8 => fault # "lax"
    BY <1>2 DEF FaultsExcluded
  <2>3. \A j \in 1 .. 8 : k + 1 > j => k = j \/ k > j
    BY <1>2
  <2>4. /\ k + 1 > 1 => k = 1 \/ k > 1
        /\ k + 1 > 3 => k = 3 \/ k > 3
        /\ k + 1 > 4 => k = 4 \/ k > 4
        /\ k + 1 > 5 => k = 5 \/ k > 5
        /\ k + 1 > 6 => k = 6 \/ k > 6
        /\ k + 1 > 7 => k = 7 \/ k > 7
        /\ k + 1 > 8 => k = 8 \/ k > 8
    BY <2>3
  <2>5. probe'.case = k + 1 /\ probe'.missing = probe.missing /\ fault' = fault
    BY <1>1, <1>4
  <2> HIDE DEF k
  <2> QED
    BY <2>1, <2>2, <2>4, <2>5 DEF FaultsExcluded
<1>14. ClosedForGood'
  BY <1>1 DEF ClosedForGood
<1> QED
  BY <1>6, <1>8, <1>9, <1>10, <1>11, <1>12, <1>13, <1>14

LEMMA OutsideTheCases ==
  ASSUME AcceptanceInv, UNCHANGED <<fault, source, open, calls, closing, life>>,
         probe' \in ProbeTypes, CaseFits', ~ InTheCases',
         probe'.at \in {"looking", "collected", "over"}, probe'.at = "looking" => probe.at = "new"
  PROVE  AcceptanceInv'
<1> USE DEF AcceptanceInv
<1>1. AcceptanceTypeOK'
  BY DEF AcceptanceTypeOK
<1>2. ReadingsFit' /\ ForgetfulAddsNothing' /\ FaultsExcluded'
  BY DEF ReadingsFit, ForgetfulAddsNothing, FaultsExcluded
<1>3. RequestsFit'
  BY DEF RequestsFit
<1>4. AnswersHaveReasons'
  BY DEF AnswersHaveReasons, HasReason, Acceptance!Identified, Acceptance!Valid,
         Acceptance!Contradicted, Acceptance!Held
<1>5. ForgedIsOfOneBody' /\ ClosedForGood'
  BY DEF ForgedIsOfOneBody, ClosedForGood
<1> QED
  BY <1>1, <1>2, <1>3, <1>4, <1>5

LEMMA InsideTheCases ==
  ASSUME AcceptanceInv, UNCHANGED <<fault, source, open, calls, closing, life>>,
         probe' \in ProbeTypes, CaseFits', InTheCases, probe.at # "waiting",
         probe'.at \in {"asking", "collected", "over"},
         probe'.original = probe.original, probe'.current = probe.current,
         AddedRows(probe'.case) = AddedRows(probe.case), AddedIds(probe'.case) = AddedIds(probe.case),
         FaultsExcluded'
  PROVE  AcceptanceInv'
<1> USE DEF AcceptanceInv
<1>1. AcceptanceTypeOK'
  BY DEF AcceptanceTypeOK
<1>2. ReadingsFit'
  <2>1. /\ probe.original \in Seq(SourceRows) /\ probe.current \in Seq(SourceRows)
        /\ StartsWith(probe.current, probe.original)
        /\ StartsWith(source, probe.current)
        /\ Len(probe.current) = Len(probe.original) + AddedRows(probe.case)
        /\ {probe.current[i].id : i \in Len(probe.original) + 1 .. Len(probe.current)} = AddedIds(probe.case)
        /\ \A i \in Len(probe.original) + 1 .. Len(probe.current) : probe.current[i].actor = "producer"
    BY DEF ReadingsFit
  <2>2. StartsWith(probe'.current, probe'.original) /\ StartsWith(source', probe'.current)
    BY <2>1
  <2>3. /\ Len(probe'.current) = Len(probe'.original) + AddedRows(probe'.case)
        /\ {probe'.current[i].id : i \in Len(probe'.original) + 1 .. Len(probe'.current)} = AddedIds(probe'.case)
        /\ \A i \in Len(probe'.original) + 1 .. Len(probe'.current) : probe'.current[i].actor = "producer"
    BY <2>1
  <2> QED
    BY <2>1, <2>2, <2>3 DEF ReadingsFit, StartsWith, AddedIds, AddedRows
<1>3. RequestsFit'
  BY DEF RequestsFit
<1>4. AnswersHaveReasons' /\ ForgetfulAddsNothing'
  BY DEF AnswersHaveReasons, HasReason, Acceptance!Identified, Acceptance!Valid,
         Acceptance!Contradicted, Acceptance!Held, ForgetfulAddsNothing
<1>5. ForgedIsOfOneBody' /\ ClosedForGood'
  BY DEF ForgedIsOfOneBody, ClosedForGood
<1> QED
  BY <1>1, <1>2, <1>3, <1>4, <1>5

LEMMA BeginProbeStep ==
  ASSUME AcceptanceInv, Acceptance!NoneIsApart, code \in 1 .. 2, Acceptance!BeginProbe
  PROVE  AcceptanceInv'
<1>1. /\ probe.at = "new" /\ probe' = [probe EXCEPT !.at = "looking", !.frozen = code]
      /\ UNCHANGED <<fault, source, open, calls, closing, life>>
  BY DEF Acceptance!BeginProbe, Acceptance!SetProbe
<1>2. probe \in ProbeTypes /\ probe.status = None
  BY <1>1 DEF AcceptanceInv, AcceptanceTypeOK, CaseFits
<1>3. probe' \in ProbeTypes /\ probe'.at = "looking" /\ probe'.status = None
  <2>1. code \in {None, 1, 2}
    OBVIOUS
  <2> QED
    BY <1>1, <1>2, <2>1 DEF ProbeTypes
<1>4. CaseFits' /\ ~ InTheCases'
  BY <1>3 DEF CaseFits, InTheCases, Acceptance!NoneIsApart, Acceptance!Statuses
<1> QED
  BY <1>1, <1>3, <1>4, OutsideTheCases

LEMMA FailedProbe ==
  ASSUME AcceptanceInv, Acceptance!NoneIsApart, UNCHANGED <<fault, source, open, calls, closing, life>>,
         NEW at \in {"collected", "over"}, NEW status \in {"failed", None}, at = "collected" => status = "failed",
         probe' = [probe EXCEPT !.at = at, !.status = status]
  PROVE  AcceptanceInv'
<1>1. probe \in ProbeTypes
  BY DEF AcceptanceInv, AcceptanceTypeOK
<1>2. probe' \in ProbeTypes /\ probe'.at = at /\ probe'.status = status
  BY <1>1 DEF ProbeTypes
<1>3. CaseFits' /\ ~ InTheCases'
  BY <1>2 DEF CaseFits, InTheCases, Acceptance!NoneIsApart, Acceptance!Statuses
<1> QED
  BY <1>2, <1>3, OutsideTheCases

LEMMA LookFirstStep ==
  ASSUME AcceptanceInv, Acceptance!NoneIsApart, Acceptance!LookFirst
  PROVE  AcceptanceInv'
<1> USE DEF AcceptanceInv
<1>1. /\ probe.at = "looking"
      /\ probe' = [probe EXCEPT !.at = "asking", !.case = 1, !.original = source, !.current = source]
      /\ UNCHANGED <<fault, source, open, calls, closing, life>>
  BY DEF Acceptance!LookFirst, Acceptance!SetProbe
<1>2. probe \in ProbeTypes /\ source \in Seq(SourceRows) /\ probe.status = None
  BY <1>1 DEF AcceptanceTypeOK, CaseFits
<1>3. /\ probe' \in ProbeTypes
      /\ probe'.at = "asking" /\ probe'.case = 1 /\ probe'.original = source /\ probe'.current = source
      /\ probe'.status = None
  <2> DEFINE r == [probe EXCEPT !.at = "asking", !.case = 1]
  <2>0. 1 \in 0 .. 12
    OBVIOUS
  <2>1. r \in ProbeTypes /\ r.at = "asking" /\ r.case = 1 /\ r.status = None
    BY <1>2, <2>0 DEF ProbeTypes
  <2>2. probe' = [r EXCEPT !.original = source, !.current = source]
    BY <1>1, <1>2 DEF ProbeTypes
  <2> HIDE DEF r
  <2> QED
    BY <1>2, <2>1, <2>2 DEF ProbeTypes
<1>4. AcceptanceTypeOK'
  BY <1>1, <1>3 DEF AcceptanceTypeOK
<1>5. CaseFits'
  BY <1>3 DEF CaseFits, Acceptance!NoneIsApart, Acceptance!Statuses
<1>6. Len(source) \in Nat /\ Len(source) + 1 .. Len(source) = {}
  BY <1>2, LenProperties
<1>7. ReadingsFit'
  <2>1. AddedRows(1) = 0 /\ AddedIds(1) = {}
    BY DEF AddedRows, AddedIds
  <2>2. StartsWith(source, source)
    BY <1>6 DEF StartsWith
  <2>3. /\ StartsWith(probe'.current, probe'.original)
        /\ StartsWith(source', probe'.current)
    BY <1>1, <1>3, <2>2
  <2>4. Len(probe'.current) = Len(probe'.original) + AddedRows(probe'.case)
    BY <1>3, <1>6, <2>1
  <2>5. /\ {probe'.current[i].id : i \in Len(probe'.original) + 1 .. Len(probe'.current)} = AddedIds(probe'.case)
        /\ \A i \in Len(probe'.original) + 1 .. Len(probe'.current) : probe'.current[i].actor = "producer"
    BY <1>3, <1>6, <2>1
  <2> QED
    BY <1>2, <1>3, <2>3, <2>4, <2>5 DEF ReadingsFit, StartsWith, AddedIds, AddedRows
<1>8. RequestsFit'
  BY <1>1, <1>3 DEF RequestsFit
<1>9. AnswersHaveReasons'
  BY <1>1, <1>3 DEF AnswersHaveReasons, HasReason, Acceptance!Identified, Acceptance!Valid,
         Acceptance!Contradicted, Acceptance!Held
<1>10. ForgetfulAddsNothing' /\ FaultsExcluded'
  <2>1. ForgetfulAddsNothing'
    BY <1>1, <1>3, <1>6 DEF ForgetfulAddsNothing
  <2>2. FaultsExcluded'
    BY <1>3 DEF FaultsExcluded
  <2> QED
    BY <2>1, <2>2
<1>11. ForgedIsOfOneBody' /\ ClosedForGood'
  BY <1>1 DEF ForgedIsOfOneBody, ClosedForGood
<1> QED
  BY <1>4, <1>5, <1>7, <1>8, <1>9, <1>10, <1>11

LEMMA AskStep ==
  ASSUME AcceptanceInv, Acceptance!NoneIsApart, Acceptance!Ask
  PROVE  AcceptanceInv'
<1> USE DEF AcceptanceInv
<1> DEFINE asks == Acceptance!Cases[probe.case].asks
<1>1. /\ probe.at = "asking" /\ probe' = [probe EXCEPT !.at = "waiting"]
      /\ calls' = [i \in 1 .. 3 |-> IF i = 3 THEN calls[i]
                                    ELSE IF i \in DOMAIN asks THEN Acceptance!NewCall(asks[i]) ELSE None]
      /\ UNCHANGED <<fault, source, open, closing, life>>
  BY DEF Acceptance!Ask, Acceptance!SetProbe, Acceptance!Stale
<1>2. probe \in ProbeTypes /\ probe.status = None /\ probe.case \in 1 .. 11 /\ InTheCases
  BY <1>1 DEF AcceptanceTypeOK, CaseFits, InTheCases
<1>3. /\ probe' \in ProbeTypes
      /\ probe'.at = "waiting" /\ probe'.case = probe.case /\ probe'.original = probe.original
      /\ probe'.current = probe.current /\ probe'.status = None /\ probe'.missing = probe.missing
  BY <1>1, <1>2 DEF ProbeTypes
<1>4. \A i \in DOMAIN asks :
         /\ i \in 1 .. 2
         /\ asks[i].as \in {"nobody", "forger", "stranger", "producer"}
         /\ asks[i].event \in [id : Acceptance!Names, body : {"US", "CA"}]
         /\ asks[i].event.id \in {"forged", "unknown"} => asks[i].event.body = "US"
  BY <1>2, AsksFit
<1> HIDE DEF asks
<1>5. \A i \in DOMAIN asks :
         /\ Acceptance!NewCall(asks[i]) \in Acceptance!Calls
         /\ Acceptance!NewCall(asks[i]).as = asks[i].as
         /\ Acceptance!NewCall(asks[i]).event = asks[i].event
         /\ Acceptance!NewCall(asks[i]).answer = None
  BY <1>4 DEF Acceptance!NewCall, Acceptance!Calls
<1>6. \A i \in 1 .. 2 : IF i \in DOMAIN asks
         THEN calls'[i] = Acceptance!NewCall(asks[i])
         ELSE calls'[i] = None
  BY <1>1
<1>7. calls'[3] = calls[3]
  BY <1>1
<1>8. calls' \in [1 .. 3 -> Acceptance!Calls \cup {None}]
  <2>1. \A i \in 1 .. 3 : calls[i] \in Acceptance!Calls \cup {None}
    BY DEF AcceptanceTypeOK
  <2> QED
    BY <1>1, <1>5, <2>1
<1>9. AcceptanceTypeOK'
  BY <1>1, <1>3, <1>8 DEF AcceptanceTypeOK
<1>10. CaseFits'
  BY <1>2, <1>3 DEF CaseFits, Acceptance!NoneIsApart, Acceptance!Statuses
<1>11. ReadingsFit' /\ ForgetfulAddsNothing' /\ FaultsExcluded'
  <2>1. ReadingsFit'
    <3>1. /\ probe.original \in Seq(SourceRows) /\ probe.current \in Seq(SourceRows)
          /\ StartsWith(probe.current, probe.original)
          /\ StartsWith(source, probe.current)
          /\ Len(probe.current) = Len(probe.original) + AddedRows(probe.case)
          /\ {probe.current[i].id : i \in Len(probe.original) + 1 .. Len(probe.current)} = AddedIds(probe.case)
          /\ \A i \in Len(probe.original) + 1 .. Len(probe.current) : probe.current[i].actor = "producer"
      BY <1>2 DEF ReadingsFit
    <3>2. StartsWith(probe'.current, probe'.original) /\ StartsWith(source', probe'.current)
      BY <1>1, <1>3, <3>1
    <3>3. /\ Len(probe'.current) = Len(probe'.original) + AddedRows(probe'.case)
          /\ {probe'.current[i].id : i \in Len(probe'.original) + 1 .. Len(probe'.current)} = AddedIds(probe'.case)
          /\ \A i \in Len(probe'.original) + 1 .. Len(probe'.current) : probe'.current[i].actor = "producer"
      BY <1>3, <3>1
    <3> QED
      BY <1>3, <3>1, <3>2, <3>3 DEF ReadingsFit, StartsWith, AddedIds, AddedRows
  <2>2. ForgetfulAddsNothing'
    BY <1>1, <1>2, <1>3 DEF ForgetfulAddsNothing
  <2>3. FaultsExcluded'
    BY <1>1, <1>2, <1>3 DEF FaultsExcluded
  <2> QED
    BY <2>1, <2>2, <2>3
<1>12. RequestsFit'
  <2>1. Acceptance!Cases[probe'.case].asks = asks
    BY <1>3 DEF asks
  <2>2. \A i \in 1 .. 2 : IF i \in DOMAIN asks
           THEN calls'[i] # None /\ calls'[i].as = asks[i].as /\ calls'[i].event = asks[i].event
           ELSE calls'[i] = None
    BY <1>5, <1>6 DEF Acceptance!NoneIsApart
  <2> QED
    BY <1>3, <2>1, <2>2 DEF RequestsFit
<1>13. AnswersHaveReasons'
  <2> SUFFICES ASSUME NEW i \in 1 .. 2, calls'[i] # None
               PROVE  HasReason(i)'
    BY DEF AnswersHaveReasons
  <2>1. calls'[i].answer = None
    BY <1>5, <1>6
  <2> QED
    BY <2>1 DEF HasReason, Acceptance!NoneIsApart, Acceptance!Verdicts
<1>14. ForgedIsOfOneBody'
  <2>1. \A i \in 1 .. 2 : calls'[i] # None =>
           (calls'[i].event.id \in {"forged", "unknown"} => calls'[i].event.body = "US")
    BY <1>4, <1>5, <1>6
  <2>2. \A i \in 1 .. 3 : i \in 1 .. 2 \/ i = 3
    OBVIOUS
  <2> QED
    BY <1>1, <1>7, <2>1, <2>2 DEF ForgedIsOfOneBody
<1>15. ClosedForGood'
  BY <1>1 DEF ClosedForGood
<1> QED
  BY <1>9, <1>10, <1>11, <1>12, <1>13, <1>14, <1>15

LEMMA MintStep ==
  ASSUME AcceptanceInv, Acceptance!NoneIsApart, Acceptance!Mint
  PROVE  AcceptanceInv'
<1>1. /\ probe.at = "minting"
      /\ \/ probe' = [probe EXCEPT !.at = "asking"]
         \/ probe' = [probe EXCEPT !.at = "asking", !.case = 4, !.missing = {3}]
      /\ UNCHANGED <<fault, source, open, calls, closing, life>>
  BY DEF Acceptance!Mint, Acceptance!SetProbe, Acceptance!WrongAudience
<1>2. probe \in ProbeTypes /\ probe.status = None /\ probe.case = 3 /\ InTheCases
  BY <1>1 DEF AcceptanceInv, AcceptanceTypeOK, CaseFits, InTheCases
<1>3. /\ probe' \in ProbeTypes
      /\ probe'.at = "asking" /\ probe'.original = probe.original
      /\ probe'.current = probe.current /\ probe'.status = None
      /\ \/ probe'.case = 3 /\ probe'.missing = probe.missing
         \/ probe'.case = 4 /\ probe'.missing = {3}
  <2>1. CASE probe' = [probe EXCEPT !.at = "asking"]
    BY <1>2, <2>1 DEF ProbeTypes
  <2>2. CASE probe' = [probe EXCEPT !.at = "asking", !.case = 4, !.missing = {3}]
    <3>1. 4 \in 0 .. 12 /\ {3} \in SUBSET {3}
      OBVIOUS
    <3> DEFINE r == [probe EXCEPT !.at = "asking", !.missing = {3}]
    <3>2. /\ r \in ProbeTypes
          /\ r.at = "asking" /\ r.missing = {3} /\ r.status = None
          /\ r.original = probe.original /\ r.current = probe.current
      BY <1>2, <3>1 DEF ProbeTypes
    <3>3. probe' = [r EXCEPT !.case = 4]
      BY <1>2, <2>2 DEF ProbeTypes
    <3> HIDE DEF r
    <3> QED
      BY <3>1, <3>2, <3>3 DEF ProbeTypes
  <2> QED
    BY <1>1, <2>1, <2>2
<1>4. CaseFits'
  BY <1>3 DEF CaseFits, Acceptance!NoneIsApart, Acceptance!Statuses
<1>5. AddedRows(probe'.case) = AddedRows(probe.case) /\ AddedIds(probe'.case) = AddedIds(probe.case)
  BY <1>2, <1>3 DEF AddedRows, AddedIds
<1>6. FaultsExcluded'
  <2>1. fault' # "open"
    BY <1>1, <1>2 DEF AcceptanceInv, FaultsExcluded
  <2> QED
    BY <1>3, <2>1 DEF FaultsExcluded
<1> QED
  BY <1>1, <1>2, <1>3, <1>4, <1>5, <1>6, InsideTheCases

LEMMA FinishProbeStep ==
  ASSUME AcceptanceInv, Acceptance!NoneIsApart, Acceptance!FinishProbe
  PROVE  AcceptanceInv'
<1>1. /\ probe.at = "collected"
      /\ probe' = [probe EXCEPT !.at = "over", !.status = Acceptance!Outcome]
      /\ UNCHANGED <<fault, source, open, calls, closing, life>>
  BY DEF Acceptance!FinishProbe, Acceptance!SetProbe
<1>2. probe \in ProbeTypes
  BY DEF AcceptanceInv, AcceptanceTypeOK
<1>3. CASE Acceptance!Outcome = "failed"
  BY <1>1, <1>3, FailedProbe
<1>4. CASE Acceptance!Outcome # "failed"
  <2>1. /\ probe.status # "failed"
        /\ Acceptance!Outcome = IF probe.missing # {} THEN "partial" ELSE "gateway_cases_observed"
    BY <1>4 DEF Acceptance!Outcome
  <2>2. InTheCases /\ probe.case = 12
    BY <1>1, <2>1 DEF AcceptanceInv, CaseFits, InTheCases
  <2>3. /\ probe' \in ProbeTypes
        /\ probe'.at = "over" /\ probe'.case = probe.case /\ probe'.original = probe.original
        /\ probe'.current = probe.current /\ probe'.missing = probe.missing
        /\ probe'.status = Acceptance!Outcome
    BY <1>1, <1>2, <2>1 DEF ProbeTypes
  <2>4. CaseFits'
    BY <2>1, <2>2, <2>3 DEF CaseFits
  <2>5. FaultsExcluded'
    BY <1>1, <2>2, <2>3 DEF AcceptanceInv, FaultsExcluded
  <2> QED
    BY <1>1, <2>2, <2>3, <2>4, <2>5, InsideTheCases
<1> QED
  BY <1>3, <1>4

-----------------------------------------------------------------------------
(* Steps of the lifecycle run, and of the stream it closes.                 *)
LEMMA LifeKeeps ==
  ASSUME AcceptanceInv, UNCHANGED <<fault, source, probe>>, open' \in BOOLEAN, life' \in LifeTypes,
         calls' \in [1 .. 3 -> Acceptance!Calls \cup {None}],
         \A i \in 1 .. 2 : calls'[i] = calls[i],
         calls'[3] = calls[3] \/ calls'[3].event.id \notin {"forged", "unknown"},
         ClosedForGood'
  PROVE  AcceptanceInv'
<1> USE DEF AcceptanceInv
<1>1. AcceptanceTypeOK' /\ CaseFits'
  BY DEF AcceptanceTypeOK, CaseFits, InTheCases
<1>2. ReadingsFit' /\ ForgetfulAddsNothing' /\ FaultsExcluded'
  BY DEF ReadingsFit, ForgetfulAddsNothing, FaultsExcluded, InTheCases, StartsWith
<1>3. RequestsFit'
  BY DEF RequestsFit, InTheCases
<1>4. AnswersHaveReasons'
  BY DEF AnswersHaveReasons, HasReason, Acceptance!Identified, Acceptance!Valid,
         Acceptance!Contradicted, Acceptance!Held
<1>5. ForgedIsOfOneBody'
  <2>1. \A i \in 1 .. 3 : calls'[i] = calls[i] \/ calls'[i].event.id \notin {"forged", "unknown"}
    <3>1. \A i \in 1 .. 3 : i \in 1 .. 2 \/ i = 3
      OBVIOUS
    <3> QED
      BY <3>1
  <2> QED
    BY <2>1 DEF ForgedIsOfOneBody
<1> QED
  BY <1>1, <1>2, <1>3, <1>4, <1>5

LEMMA LifeMoves ==
  ASSUME AcceptanceInv, UNCHANGED <<fault, source, open, calls, closing, probe>>, life' \in LifeTypes,
         life'.at \in {"closed", "asking", "waiting"} => closing = "done",
         life'.status = "closed_stream_refusal_observed" => ~ open /\ source = life'.expected
  PROVE  AcceptanceInv'
<1>1. ClosedForGood'
  BY DEF AcceptanceInv, ClosedForGood
<1>2. open' \in BOOLEAN /\ calls' \in [1 .. 3 -> Acceptance!Calls \cup {None}]
  BY DEF AcceptanceInv, AcceptanceTypeOK
<1> QED
  BY <1>1, <1>2, LifeKeeps

LEMMA LifeStep ==
  ASSUME AcceptanceInv, code \in 1 .. 2,
         \/ Acceptance!PinSource \/ Acceptance!BeginLife \/ Acceptance!Prepare \/ Acceptance!Acknowledged
         \/ Acceptance!Unacknowledged \/ Acceptance!Uncertain \/ Acceptance!LookClosed
         \/ Acceptance!JudgeStale \/ Acceptance!StopLife \/ Acceptance!FinishLife
  PROVE  AcceptanceInv'
<1>1. UNCHANGED <<fault, source, open, calls, closing, probe>>
  BY DEF Acceptance!PinSource, Acceptance!BeginLife, Acceptance!Prepare, Acceptance!Acknowledged,
         Acceptance!Unacknowledged, Acceptance!Uncertain, Acceptance!LookClosed,
         Acceptance!JudgeStale, Acceptance!StopLife, Acceptance!FinishLife, Acceptance!SetLife
<1>2. /\ life \in LifeTypes /\ source \in Seq(SourceRows) /\ Len(source) \in Nat
      /\ closing = "done" => ~ open
      /\ life.at \in {"closed", "asking", "waiting"} => closing = "done"
      /\ life.status = "closed_stream_refusal_observed" => ~ open /\ source = life.expected
  BY LenProperties DEF AcceptanceInv, AcceptanceTypeOK, ClosedForGood
<1>3. code \in {None, 1, 2}
  OBVIOUS
<1>4. CASE Acceptance!PinSource
  <2>1. life' = [life EXCEPT !.at = "pinned", !.expected = source]
    BY <1>4 DEF Acceptance!PinSource, Acceptance!SetLife
  <2>2. life' \in LifeTypes /\ life'.at = "pinned" /\ life'.expected = source /\ life'.status = life.status
    BY <1>2, <2>1 DEF LifeTypes
  <2> QED
    BY <1>1, <1>2, <2>2, LifeMoves
<1>5. CASE Acceptance!BeginLife
  <2>1. life' = [life EXCEPT !.at = "looking", !.frozen = code]
    BY <1>5 DEF Acceptance!BeginLife, Acceptance!SetLife
  <2>2. life' \in LifeTypes /\ life'.at = "looking" /\ life'.expected = life.expected /\ life'.status = life.status
    BY <1>2, <1>3, <2>1 DEF LifeTypes
  <2> QED
    BY <1>1, <1>2, <2>2, LifeMoves
<1>6. CASE Acceptance!Prepare
  <2>1. life' = [life EXCEPT !.at = "ready"]
    BY <1>6 DEF Acceptance!Prepare, Acceptance!SetLife
  <2>2. life' \in LifeTypes /\ life'.at = "ready" /\ life'.expected = life.expected /\ life'.status = life.status
    BY <1>2, <2>1 DEF LifeTypes
  <2> QED
    BY <1>1, <1>2, <2>2, LifeMoves
<1>7. CASE Acceptance!Acknowledged
  <2>1. /\ closing = "done"
        /\ life' = [life EXCEPT !.at = "closed", !.finalization = "acknowledged", !.count = Len(source)]
    BY <1>7 DEF Acceptance!Acknowledged, Acceptance!SetLife
  <2>2. life' \in LifeTypes /\ life'.expected = life.expected /\ life'.status = life.status
    BY <1>2, <2>1 DEF LifeTypes
  <2> QED
    BY <1>1, <1>2, <2>1, <2>2, LifeMoves
<1>8. CASE Acceptance!Unacknowledged
  <2>1. PICK finalization \in {"denied", "failed_or_unknown"} :
           life' = [life EXCEPT !.at = "uncertain", !.finalization = finalization]
    BY <1>8 DEF Acceptance!Unacknowledged, Acceptance!SetLife
  <2>2. life' \in LifeTypes /\ life'.at = "uncertain" /\ life'.expected = life.expected /\ life'.status = life.status
    BY <1>2, <2>1 DEF LifeTypes
  <2> QED
    BY <1>1, <1>2, <2>2, LifeMoves
<1>9. ASSUME NEW status \in {"failed", "uncertain"}, life' = [life EXCEPT !.at = "collected", !.status = status]
      PROVE  AcceptanceInv'
  <2>1. life' \in LifeTypes /\ life'.at = "collected" /\ life'.status = status
    BY <1>2, <1>9 DEF LifeTypes
  <2> QED
    BY <1>1, <2>1, LifeMoves
<1>10. CASE Acceptance!Uncertain
  BY <1>9, <1>10 DEF Acceptance!Uncertain, Acceptance!SetLife
<1>11. CASE Acceptance!LookClosed
  <2>1. life.at = "closed" /\ life' = [life EXCEPT !.at = "asking"]
    BY <1>11 DEF Acceptance!LookClosed, Acceptance!SetLife
  <2>2. life' \in LifeTypes /\ life'.expected = life.expected /\ life'.status = life.status
    BY <1>2, <2>1 DEF LifeTypes
  <2> QED
    BY <1>1, <1>2, <2>1, <2>2, LifeMoves
<1>12. CASE Acceptance!JudgeStale
  <2>1. /\ life.at = "waiting" /\ source = life.expected
        /\ life' = [life EXCEPT !.at = "collected",
                        !.status = IF Acceptance!Refused THEN "closed_stream_refusal_observed" ELSE "failed"]
    BY <1>12 DEF Acceptance!JudgeStale, Acceptance!SetLife, Acceptance!Unchanged
  <2>2. life' \in LifeTypes /\ life'.at = "collected" /\ life'.expected = life.expected
    BY <1>2, <2>1 DEF LifeTypes
  <2> QED
    BY <1>1, <1>2, <2>1, <2>2, LifeMoves
<1>13. CASE Acceptance!StopLife
  BY <1>9, <1>13 DEF Acceptance!StopLife, Acceptance!SetLife
<1>14. CASE Acceptance!FinishLife
  <2>1. PICK status \in {life.status, "failed"} : life' = [life EXCEPT !.at = "over", !.status = status]
    BY <1>14 DEF Acceptance!FinishLife, Acceptance!SetLife
  <2>2. status \in {None, "failed", "uncertain", "closed_stream_refusal_observed"}
    BY <1>2 DEF LifeTypes
  <2>3. life' \in LifeTypes /\ life'.at = "over" /\ life'.expected = life.expected /\ life'.status = status
    BY <1>2, <2>1, <2>2 DEF LifeTypes
  <2> QED
    BY <1>1, <1>2, <2>3, LifeMoves
<1> QED
  BY <1>4, <1>5, <1>6, <1>7, <1>8, <1>10, <1>11, <1>12, <1>13, <1>14

LEMMA StreamStep ==
  ASSUME AcceptanceInv,
         Acceptance!Finalize \/ Acceptance!CloseStream \/ Acceptance!DenyClosing
  PROVE  AcceptanceInv'
<1>1. UNCHANGED <<fault, source, calls, probe>>
  BY DEF Acceptance!Finalize, Acceptance!CloseStream, Acceptance!DenyClosing, Acceptance!SetLife
<1>2. /\ life \in LifeTypes /\ open \in BOOLEAN
      /\ calls' \in [1 .. 3 -> Acceptance!Calls \cup {None}]
      /\ life.at \in {"closed", "asking", "waiting"} => closing = "done"
      /\ life.status = "closed_stream_refusal_observed" => ~ open /\ source = life.expected
  BY <1>1 DEF AcceptanceInv, AcceptanceTypeOK, ClosedForGood
<1>3. CASE Acceptance!Finalize
  <2>1. /\ life' = [life EXCEPT !.at = "closing", !.finalization = "submitted_unknown"]
        /\ closing' = "sent" /\ open' = open
    BY <1>3 DEF Acceptance!Finalize, Acceptance!SetLife
  <2>2. life' \in LifeTypes /\ life'.at = "closing" /\ life'.expected = life.expected /\ life'.status = life.status
    BY <1>2, <2>1 DEF LifeTypes
  <2>3. ClosedForGood'
    BY <1>1, <1>2, <2>1, <2>2 DEF ClosedForGood
  <2> QED
    BY <1>1, <1>2, <2>1, <2>2, <2>3, LifeKeeps
<1>4. CASE Acceptance!CloseStream
  <2>1. closing = "sent" /\ open' = FALSE /\ closing' = "done" /\ life' = life
    BY <1>4 DEF Acceptance!CloseStream
  <2>2. ClosedForGood'
    BY <1>1, <1>2, <2>1 DEF ClosedForGood
  <2> QED
    BY <1>1, <1>2, <2>1, <2>2, LifeKeeps
<1>5. CASE Acceptance!DenyClosing
  <2>1. closing = "sent" /\ open' = open /\ closing' = "denied" /\ life' = life
    BY <1>5 DEF Acceptance!DenyClosing
  <2>2. ClosedForGood'
    BY <1>1, <1>2, <2>1 DEF ClosedForGood
  <2> QED
    BY <1>1, <1>2, <2>1, <2>2, LifeKeeps
<1> QED
  BY <1>3, <1>4, <1>5

LEMMA AskStaleStep ==
  ASSUME AcceptanceInv, Acceptance!AskStale
  PROVE  AcceptanceInv'
<1> DEFINE call1 == Acceptance!NewCall([as |-> "producer", event |-> Acceptance!Event("closed-stream", "US")])
<1>1. /\ life.at = "asking" /\ life' = [life EXCEPT !.at = "waiting"]
      /\ calls' = [calls EXCEPT ![3] = call1]
      /\ UNCHANGED <<fault, source, open, closing, probe>>
  BY DEF Acceptance!AskStale, Acceptance!SetLife, Acceptance!Stale
<1>2. call1 \in Acceptance!Calls /\ call1.event.id = "closed-stream"
  <2>1. Acceptance!Event("closed-stream", "US") \in [id : Acceptance!Names, body : {"US", "CA"}]
        /\ Acceptance!Event("closed-stream", "US").id = "closed-stream"
    BY DEF Acceptance!Event, Acceptance!Names
  <2> QED
    BY <2>1 DEF Acceptance!NewCall, Acceptance!Calls
<1> HIDE DEF call1
<1>3. /\ life \in LifeTypes
      /\ closing = "done" => ~ open
      /\ life.at \in {"closed", "asking", "waiting"} => closing = "done"
      /\ life.status = "closed_stream_refusal_observed" => ~ open /\ source = life.expected
      /\ calls \in [1 .. 3 -> Acceptance!Calls \cup {None}] /\ open \in BOOLEAN
  BY DEF AcceptanceInv, AcceptanceTypeOK, ClosedForGood
<1>4. /\ calls' \in [1 .. 3 -> Acceptance!Calls \cup {None}]
      /\ \A i \in 1 .. 2 : calls'[i] = calls[i]
      /\ calls'[3] = call1
  BY <1>1, <1>2, <1>3
<1>5. life' \in LifeTypes /\ life'.at = "waiting" /\ life'.expected = life.expected /\ life'.status = life.status
  BY <1>1, <1>3 DEF LifeTypes
<1>6. ClosedForGood'
  BY <1>1, <1>3, <1>5 DEF ClosedForGood
<1>7. open' \in BOOLEAN /\ calls'[3].event.id \notin {"forged", "unknown"}
  BY <1>1, <1>2, <1>3, <1>4
<1> QED
  BY <1>1, <1>4, <1>5, <1>6, <1>7, LifeKeeps

LEMMA DieStep ==
  ASSUME AcceptanceInv, Acceptance!NoneIsApart, Acceptance!Die
  PROVE  AcceptanceInv'
<1>1. UNCHANGED <<fault, source, open, calls, closing>>
      /\ \/ probe' = [probe EXCEPT !.at = "over", !.status = None] /\ life' = life
         \/ life' = [life EXCEPT !.at = "over", !.status = None] /\ probe' = probe
  BY DEF Acceptance!Die, Acceptance!SetProbe, Acceptance!SetLife
<1>2. CASE probe' = [probe EXCEPT !.at = "over", !.status = None] /\ life' = life
  BY <1>1, <1>2, FailedProbe
<1>3. CASE life' = [life EXCEPT !.at = "over", !.status = None] /\ probe' = probe
  <2>1. life \in LifeTypes
    BY DEF AcceptanceInv, AcceptanceTypeOK
  <2>2. life' \in LifeTypes /\ life'.at = "over" /\ life'.status = None
    BY <1>3, <2>1 DEF LifeTypes
  <2>3. life'.status # "closed_stream_refusal_observed"
    BY <2>2 DEF Acceptance!NoneIsApart, Acceptance!Statuses
  <2> QED
    BY <1>1, <1>3, <2>2, <2>3, LifeMoves
<1> QED
  BY <1>1, <1>2, <1>3

LEMMA AcceptanceNext ==
  ASSUME AcceptanceInv, Acceptance!NoneIsApart, code \in 1 .. 2,
         Acceptance!Next \/ UNCHANGED acceptance
  PROVE  AcceptanceInv' /\ code' \in 1 .. 2
<1>1. CASE UNCHANGED acceptance
  <2>1. UNCHANGED <<fault, source, open, calls, closing, probe, life>> /\ code' = code
    BY <1>1 DEF acceptance
  <2>2. /\ life' \in LifeTypes /\ ClosedForGood' /\ open' \in BOOLEAN
        /\ calls' \in [1 .. 3 -> Acceptance!Calls \cup {None}]
    BY <2>1 DEF AcceptanceInv, AcceptanceTypeOK, ClosedForGood
  <2> QED
    BY <2>1, <2>2, LifeKeeps
<1>2. CASE Acceptance!Edit
  <2>1. UNCHANGED <<fault, source, open, calls, closing, probe, life>> /\ code' = 2
    BY <1>2 DEF Acceptance!Edit
  <2>2. /\ life' \in LifeTypes /\ ClosedForGood' /\ open' \in BOOLEAN
        /\ calls' \in [1 .. 3 -> Acceptance!Calls \cup {None}]
    BY <2>1 DEF AcceptanceInv, AcceptanceTypeOK, ClosedForGood
  <2> QED
    BY <2>1, <2>2, LifeKeeps
<1>3. ASSUME Acceptance!Next, ~ Acceptance!Edit
      PROVE  code' = code
  BY <1>3 DEF Acceptance!Next, Acceptance!Serve, Acceptance!GiveUp, Acceptance!OthersAppend,
     Acceptance!BeginProbe, Acceptance!LookFirst, Acceptance!Ask, Acceptance!JudgeCase, Acceptance!Mint,
     Acceptance!StopProbe, Acceptance!FailProbe, Acceptance!FinishProbe, Acceptance!PinSource, Acceptance!BeginLife,
     Acceptance!Prepare, Acceptance!Finalize, Acceptance!CloseStream, Acceptance!DenyClosing,
     Acceptance!Acknowledged, Acceptance!Unacknowledged, Acceptance!Uncertain, Acceptance!LookClosed,
     Acceptance!AskStale, Acceptance!JudgeStale, Acceptance!StopLife, Acceptance!FinishLife, Acceptance!Die,
     Acceptance!SetProbe, Acceptance!SetLife
<1>4. CASE Acceptance!StopProbe
  <2>1. /\ probe' = [probe EXCEPT !.at = "collected", !.status = "failed"]
        /\ UNCHANGED <<fault, source, open, calls, closing, life>> /\ code' = code
    BY <1>4 DEF Acceptance!StopProbe, Acceptance!FailProbe, Acceptance!SetProbe
  <2>2. AcceptanceInv'
    BY <2>1, FailedProbe
  <2> QED
    BY <2>1, <2>2
<1>5. CASE \/ Acceptance!PinSource \/ Acceptance!BeginLife \/ Acceptance!Prepare \/ Acceptance!Acknowledged
           \/ Acceptance!Unacknowledged \/ Acceptance!Uncertain \/ Acceptance!LookClosed
           \/ Acceptance!JudgeStale \/ Acceptance!StopLife \/ Acceptance!FinishLife
  <2>1. AcceptanceInv'
    BY <1>5, LifeStep
  <2>2. code' = code
    BY <1>5 DEF Acceptance!PinSource, Acceptance!BeginLife, Acceptance!Prepare,
       Acceptance!Acknowledged, Acceptance!Unacknowledged, Acceptance!Uncertain, Acceptance!LookClosed,
       Acceptance!JudgeStale, Acceptance!StopLife, Acceptance!FinishLife, Acceptance!SetLife
  <2> QED
    BY <2>1, <2>2
<1>6. ASSUME Acceptance!Next, ~ Acceptance!Edit, ~ Acceptance!StopProbe
      PROVE  AcceptanceInv'
  BY <1>5, <1>6, ServeStep, GiveUpStep, OthersStep, BeginProbeStep, LookFirstStep, AskStep, JudgeStep, MintStep,
     FinishProbeStep, StreamStep, AskStaleStep, DieStep DEF Acceptance!Next
<1> QED
  BY <1>1, <1>2, <1>3, <1>4, <1>6

(* What the readings say once the probe is over.                            *)
LEMMA StartsIsPrefix ==
  ASSUME NEW s \in Seq(SourceRows), NEW t \in Seq(SourceRows), StartsWith(t, s)
  PROVE  Acceptance!IsPrefix(s, t)
<1>1. Len(s) \in Nat /\ Len(t) \in Nat /\ Len(s) <= Len(t)
  BY LenProperties DEF StartsWith
<1>2. /\ \A i \in 1 .. Len(s) : s[i] \in SourceRows
      /\ \A i \in 1 .. Len(s) : t[i] \in SourceRows
  BY <1>1, ElementOfSeq
<1>3. /\ SubSeq(s, 1, Len(s)) \in Seq(SourceRows)
      /\ Len(SubSeq(s, 1, Len(s))) = IF 1 <= Len(s) THEN Len(s) - 1 + 1 ELSE 0
      /\ \A i \in 1 .. Len(s) - 1 + 1 : SubSeq(s, 1, Len(s))[i] = s[1 + i - 1]
  BY <1>1, <1>2, SubSeqProperties
<1>4. /\ SubSeq(t, 1, Len(s)) \in Seq(SourceRows)
      /\ Len(SubSeq(t, 1, Len(s))) = IF 1 <= Len(s) THEN Len(s) - 1 + 1 ELSE 0
      /\ \A i \in 1 .. Len(s) - 1 + 1 : SubSeq(t, 1, Len(s))[i] = t[1 + i - 1]
  BY <1>1, <1>2, SubSeqProperties
<1>5. Len(SubSeq(s, 1, Len(s))) = Len(s) /\ Len(SubSeq(t, 1, Len(s))) = Len(s)
  BY <1>1, <1>3, <1>4
<1>6. \A i \in 1 .. Len(s) : SubSeq(s, 1, Len(s))[i] = SubSeq(t, 1, Len(s))[i]
  <2>1. \A i \in 1 .. Len(s) : SubSeq(s, 1, Len(s))[i] = s[i] /\ SubSeq(t, 1, Len(s))[i] = t[i]
    BY <1>1, <1>3, <1>4
  <2> QED
    BY <2>1 DEF StartsWith
<1>7. SubSeq(s, 1, Len(s)) = SubSeq(t, 1, Len(s))
  BY <1>3, <1>4, <1>5, <1>6, SeqEqual
<1> QED
  BY <1>1, <1>7 DEF Acceptance!IsPrefix

LEMMA PassedIsExact ==
  ASSUME AcceptanceInv
  PROVE  Acceptance!PassedRunIsExact
<1> SUFFICES ASSUME probe.at = "over", Acceptance!Succeeded
             PROVE  LET added == SubSeq(probe.current, Len(probe.original) + 1, Len(probe.current))
                        once == {"first", "equal", "distinct-1", "distinct-2", "rival"}
                    IN  /\ Acceptance!IsPrefix(probe.original, probe.current)
                        /\ Acceptance!IsPrefix(probe.current, source)
                        /\ Len(added) = Acceptance!NewEvents
                        /\ {added[i].id : i \in DOMAIN added} = once
                        /\ \A i \in DOMAIN added : added[i].actor = "producer"
  BY DEF Acceptance!PassedRunIsExact
<1> DEFINE b == Len(probe.original)
           n == Len(probe.current)
           added == SubSeq(probe.current, b + 1, n)
<1>1. InTheCases /\ probe.case = 12
  BY DEF AcceptanceInv, CaseFits, InTheCases, Acceptance!Succeeded
<1>2. /\ probe.original \in Seq(SourceRows) /\ probe.current \in Seq(SourceRows) /\ source \in Seq(SourceRows)
      /\ StartsWith(probe.current, probe.original) /\ StartsWith(source, probe.current)
      /\ n = b + AddedRows(12)
      /\ {probe.current[i].id : i \in b + 1 .. n} = AddedIds(12)
      /\ \A i \in b + 1 .. n : probe.current[i].actor = "producer"
  BY <1>1 DEF AcceptanceInv, AcceptanceTypeOK, ReadingsFit
<1>3. Acceptance!IsPrefix(probe.original, probe.current) /\ Acceptance!IsPrefix(probe.current, source)
  BY <1>2, StartsIsPrefix
<1>5. b \in Nat /\ n \in Nat
  BY <1>2, LenProperties
<1>6. n = b + 5
  BY <1>2 DEF AddedRows
<1>7. AddedIds(12) = {"first", "equal", "distinct-1", "distinct-2", "rival"}
  BY DEF AddedIds
<1> HIDE DEF b, n
<1>8. \A i \in b + 1 .. n : probe.current[i] \in SourceRows
  <2>1. \A i \in b + 1 .. n : i \in 1 .. n
    BY <1>5
  <2> QED
    BY <1>2, <2>1, ElementOfSeq DEF n
<1>9. /\ added \in Seq(SourceRows)
      /\ Len(added) = IF b + 1 <= n THEN n - (b + 1) + 1 ELSE 0
      /\ \A i \in 1 .. n - (b + 1) + 1 : added[i] = probe.current[b + 1 + i - 1]
  BY <1>5, <1>8, SubSeqProperties
<1>10. DOMAIN added = 1 .. Len(added)
  BY <1>9, LenProperties
<1> HIDE DEF added
<1>11. Len(added) = 5 /\ DOMAIN added = 1 .. 5 /\ \A i \in 1 .. 5 : added[i] = probe.current[b + i]
  <2>1. b + 1 <= n /\ n - (b + 1) + 1 = 5 /\ \A i \in 1 .. 5 : b + 1 + i - 1 = b + i
    BY <1>5, <1>6
  <2>2. Len(added) = 5
    BY <1>9, <2>1
  <2>3. \A i \in 1 .. 5 : added[i] = probe.current[b + 1 + i - 1]
    BY <1>9, <2>1
  <2>4. \A i \in 1 .. 5 : added[i] = probe.current[b + i]
    BY <2>1, <2>3
  <2> QED
    BY <1>10, <2>2, <2>4
<1>12. /\ \A i \in 1 .. 5 : b + i \in b + 1 .. n
       /\ \A i \in b + 1 .. n : i - b \in 1 .. 5 /\ b + (i - b) = i
  BY <1>5, <1>6
<1>13. {added[i].id : i \in DOMAIN added} = {probe.current[i].id : i \in b + 1 .. n}
  <2>1. \A i \in 1 .. 5 : added[i].id \in {probe.current[j].id : j \in b + 1 .. n}
    BY <1>11, <1>12
  <2>2. \A i \in b + 1 .. n : added[i - b].id = probe.current[i].id
    BY <1>11, <1>12
  <2> QED
    BY <1>11, <1>12, <2>1, <2>2
<1>14. \A i \in DOMAIN added : added[i].actor = "producer"
  <2>1. \A i \in b + 1 .. n : probe.current[i].actor = "producer"
    BY <1>2 DEF b, n
  <2>2. \A i \in 1 .. 5 : probe.current[b + i].actor = "producer"
    BY <1>12, <2>1
  <2> QED
    BY <1>11, <2>2
<1>15. {added[i].id : i \in DOMAIN added} = {"first", "equal", "distinct-1", "distinct-2", "rival"}
  BY <1>2, <1>7, <1>13 DEF b, n
<1> QED
  BY <1>3, <1>11, <1>14, <1>15 DEF added, b, n, Acceptance!NewEvents

LEMMA PassedIsSound ==
  ASSUME AcceptanceInv, Acceptance!FixtureIsOlder
  PROVE  Acceptance!PassedRunIsSound
<1> SUFFICES ASSUME probe.status = "gateway_cases_observed"
             PROVE  fault = "none"
  BY DEF Acceptance!PassedRunIsSound
<1>1. probe.at = "over" /\ probe.missing = {} /\ InTheCases /\ probe.case = 12
  BY DEF AcceptanceInv, CaseFits, InTheCases
<1>2. fault \notin {"open", "any_audience", "forgetful", "repeating", "blind", "trusting", "lax"}
  BY <1>1 DEF AcceptanceInv, FaultsExcluded
<1> QED
  BY <1>2 DEF AcceptanceInv, AcceptanceTypeOK, Acceptance!FixtureIsOlder

(* A probe that passed added its five events to the source and nothing else *)
(* came beside them, and the service has none of the faults it looks for; a *)
(* refusal is reported only of a stream that is closed over the pinned      *)
(* source: for any fixture, any number of other producers' rows and any     *)
(* bound (gateway_probe.py, gateway_lifecycle.py).                          *)
THEOREM AcceptanceIsAlwaysTrue == MCSpec => []AcceptanceIsTrue
<1>1. MCInit => AcceptanceInv /\ code \in 1 .. 2
  BY AcceptanceInit, AcceptanceAssumption DEF MCInit, Acceptance!Init
<1>2. AcceptanceInv /\ code \in 1 .. 2 /\ [MCNext]_<<system, vars, acceptance>>
         => AcceptanceInv' /\ (code \in 1 .. 2)'
  <2> SUFFICES ASSUME AcceptanceInv, code \in 1 .. 2, [MCNext]_<<system, vars, acceptance>>
               PROVE  AcceptanceInv' /\ code' \in 1 .. 2
    OBVIOUS
  <2>1. Acceptance!Next \/ UNCHANGED acceptance
    BY DEF MCNext
  <2> QED
    BY <2>1, AcceptanceNext, AcceptanceAssumption
<1>3. AcceptanceInv => AcceptanceIsTrue
  <2> SUFFICES ASSUME AcceptanceInv
               PROVE  AcceptanceIsTrue
    OBVIOUS
  <2>1. Acceptance!PassedRunIsExact
    BY PassedIsExact
  <2>2. Acceptance!PassedRunIsSound
    BY PassedIsSound, AcceptanceAssumption
  <2>3. Acceptance!RefusalIsConclusive
    BY DEF AcceptanceInv, ClosedForGood, Acceptance!RefusalIsConclusive, Acceptance!Unchanged
  <2> QED
    BY <2>1, <2>2, <2>3 DEF AcceptanceIsTrue, Acceptance!AcceptanceIsTrue, Acceptance!PassedRunIsTrue
<1> QED
  BY <1>1, <1>2, <1>3, PTL DEF MCSpec
=============================================================================
