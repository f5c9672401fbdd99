------------------------- MODULE JobRecorderProofs -------------------------
(***************************************************************************)
(* The aggregate query allowance holds for any number of threads, jobs and *)
(* payloads, any cap and any allowance, and every job BigQuery has accepted *)
(* is on record: theorems of JobRecorder.                                   *)
(***************************************************************************)
EXTENDS JobRecorder, FiniteSetTheorems, TLAPS

(* What a recorder has in memory is on disk, with the same payload. *)
MemoryIsOnRecord ==
    active => \A j \in Jobs : memory.jobs[j] # None =>
        ledger.jobs[j] # None /\ ledger.jobs[j].payload = memory.jobs[j].payload

(* A call that has got as far as a job ID holds a reservation of it. *)
CallsAreReserved ==
    \A t \in Threads : pc[t] # "idle" => active /\ memory.jobs[work[t].job] # None

(* A job that runs or may still run is reserved, under this payload. *)
ChargedIsReserved ==
    \A r \in Charged :
        /\ r[2] \notin DryRuns
        /\ ledger.jobs[r[1]] # None /\ ledger.jobs[r[1]].payload = r[2]
        /\ active => memory.jobs[r[1]] # None /\ memory.jobs[r[1]].payload = r[2]

(* A recorder never has more in memory than the allowance covers. *)
MemoryFits == active => ReservedBytes(memory) <= Allowance

NewLedgerIsEmpty == ledger.status = "absent" => \A j \in Jobs : ledger.jobs[j] = None

IInv ==
    /\ TypeOK
    /\ NewLedgerIsEmpty
    /\ MemoryIsOnRecord
    /\ CallsAreReserved
    /\ ChargedIsReserved
    /\ MemoryFits
    /\ JobsFitTheAllowance

(* What BigQuery says of a job, now, bears out what was seen of it: a job   *)
(* that was done is done, for the same bill. *)
Bears(job, seen) ==
    /\ job # None
    /\ seen.state = "DONE" => job.state = "DONE" /\ job.billed = seen.billed

(* So it is for every observation that is not of a dry run, ... *)
ObservedTruly(rows) ==
    \A j \in Jobs :
        rows[j] # None /\ rows[j].payload \notin DryRuns /\ rows[j].observation # None =>
            Bears(server[j], rows[j].observation)

(* ... and for what a thread has seen and not recorded yet. *)
SeenTruly ==
    \A t \in Threads : pc[t] \in {"observe", "observe_only"} /\ ~ DryRun(work[t].job) =>
        Bears(server[work[t].job], work[t].seen)

(* A request was sent for the payload its job ID is reserved for. *)
SentAsReserved ==
    \A t \in Threads : pc[t] = "sent" => memory.jobs[work[t].job].payload = work[t].payload

(* A rejection on disk is in memory, or the disk has an unreadable row. *)
RejectionsAreKnown ==
    active /\ ledger.status = "good" => ledger.rejected \subseteq memory.rejected

OInv ==
    /\ ObservedTruly(ledger.jobs)
    /\ active => ObservedTruly(memory.jobs)
    /\ SeenTruly
    /\ SentAsReserved
    /\ RejectionsAreKnown

-----------------------------------------------------------------------------
Contents == [jobs : [Jobs -> Row \cup {None}], rejected : SUBSET Jobs]

(* A set of charges with a reservation each costs what is reserved at most. *)
LEMMA ReservedCharges ==
    ASSUME NEW content \in Contents, NEW charges,
           \A r \in charges : /\ r \in Jobs \X Payloads
                              /\ r[2] \notin DryRuns
                              /\ content.jobs[r[1]] # None
                              /\ content.jobs[r[1]].payload = r[2]
    PROVE  /\ IsFiniteSet(charges)
           /\ Cap * Cardinality(charges) <= ReservedBytes(content)
<1> DEFINE job == [r \in charges |-> r[1]]
<1>1. IsFiniteSet(Billable(content)) /\ Cardinality(Billable(content)) \in Nat
    BY JobsAssumption, FS_Subset, FS_CardinalityType DEF Billable, Reserved
<1>2. job \in [charges -> Billable(content)]
    BY DEF Billable, Reserved
<1>3. \A r, s \in charges : job[r] = job[s] => r = s
    <2> SUFFICES ASSUME NEW r \in charges, NEW s \in charges, r[1] = s[1]
                 PROVE  r = s
        OBVIOUS
    <2>1. r[2] = s[2]
        OBVIOUS
    <2>2. r = <<r[1], r[2]>> /\ s = <<s[1], s[2]>>
        OBVIOUS
    <2> QED BY <2>1, <2>2
<1>4. job \in Injection(charges, Billable(content))
    BY <1>2, <1>3 DEF Injection, IsInjective
<1>5. /\ IsFiniteSet(charges)
      /\ Cardinality(charges) <= Cardinality(Billable(content))
    BY <1>1, <1>4, FS_Injection
<1>6. Cardinality(charges) \in Nat
    BY <1>5, FS_CardinalityType
<1> QED BY <1>1, <1>5, <1>6, BytesAssumption DEF ReservedBytes

LEMMA FewerCharges ==
    ASSUME NEW charges, NEW fewer \in SUBSET charges, IsFiniteSet(charges),
           Cap * Cardinality(charges) <= Allowance
    PROVE  Cap * Cardinality(fewer) <= Allowance
<1>1. Cardinality(fewer) <= Cardinality(charges)
    BY FS_Subset
<1>2. Cardinality(fewer) \in Nat /\ Cardinality(charges) \in Nat
    BY FS_Subset, FS_CardinalityType
<1> DEFINE m == Cardinality(fewer)
           n == Cardinality(charges)
<1> HIDE DEF m, n
<1>3. ASSUME m \in Nat, n \in Nat, m <= n, Cap * n <= Allowance
      PROVE  Cap * m <= Allowance
    BY <1>3, BytesAssumption
<1> QED BY <1>1, <1>2, <1>3 DEF m, n

(* What one reservation more costs. *)
LEMMA ReservationCost ==
    ASSUME NEW content \in Contents, NEW j \in Jobs, NEW p \in Payloads, content.jobs[j] = None
    PROVE  /\ WithReservation(content, j, p) \in Contents
           /\ ReservedBytes(WithReservation(content, j, p)) = ReservedBytes(content) + Ceiling(p)
<1> DEFINE more == WithReservation(content, j, p)
<1>1. [payload |-> p, observation |-> None] \in Row
    BY DEF Row
<1>2. /\ more \in Contents
      /\ more.jobs[j] = [payload |-> p, observation |-> None]
      /\ more.jobs[j] # None /\ more.jobs[j].payload = p
      /\ \A i \in Jobs \ {j} : more.jobs[i] = content.jobs[i]
    BY <1>1, NoneAssumption DEF WithReservation, Contents
<1>3. IsFiniteSet(Billable(content)) /\ Cardinality(Billable(content)) \in Nat
    BY JobsAssumption, FS_Subset, FS_CardinalityType DEF Billable, Reserved
<1>4. CASE p \in DryRuns
    <2>1. Billable(more) = Billable(content)
        BY <1>2, <1>4 DEF Billable, Reserved
    <2> QED BY <1>2, <1>3, <1>4, <2>1, BytesAssumption DEF ReservedBytes, Ceiling
<1>5. CASE p \notin DryRuns
    <2>1. Billable(more) = Billable(content) \cup {j} /\ j \notin Billable(content)
        BY <1>2, <1>5 DEF Billable, Reserved
    <2>2. Cardinality(Billable(more)) = Cardinality(Billable(content)) + 1
        BY <1>3, <2>1, FS_AddElement
    <2> QED BY <1>2, <1>3, <1>5, <2>2, BytesAssumption DEF ReservedBytes, Ceiling
<1> QED BY <1>2, <1>4, <1>5

(* An observation, or a rejection, reserves nothing and takes nothing back. *)
LEMMA ObservationCost ==
    ASSUME NEW content \in Contents, NEW j \in Jobs, NEW seen \in Seen, content.jobs[j] # None,
           NEW other, other = WithObservation(content, j, seen) \/ other = WithRejection(content, j)
    PROVE  /\ other \in Contents
           /\ \A i \in Jobs : other.jobs[i] = None <=> content.jobs[i] = None
           /\ \A i \in Jobs : content.jobs[i] # None =>
                  other.jobs[i].payload = content.jobs[i].payload
           /\ ReservedBytes(other) = ReservedBytes(content)
<1>1. /\ other \in Contents
      /\ \A i \in Jobs : other.jobs[i] = None <=> content.jobs[i] = None
      /\ \A i \in Jobs : content.jobs[i] # None =>
            other.jobs[i].payload = content.jobs[i].payload
    <2>1. CASE other = WithRejection(content, j)
        BY <2>1 DEF WithRejection, Contents
    <2>2. CASE other = WithObservation(content, j, seen)
        <3>1. content.jobs[j] \in Row
            BY DEF Contents
        <3>2. /\ [content.jobs[j] EXCEPT !.observation = seen] \in Row
              /\ [content.jobs[j] EXCEPT !.observation = seen].payload = content.jobs[j].payload
            BY <3>1 DEF Row
        <3>3. other = [content EXCEPT !.jobs = [@ EXCEPT ![j] =
                            [content.jobs[j] EXCEPT !.observation = seen]]]
            BY <2>2 DEF WithObservation, Contents
        <3> QED BY <3>2, <3>3, NoneAssumption DEF Contents
    <2> QED BY <2>1, <2>2
<1>2. Billable(other) = Billable(content)
    BY <1>1 DEF Billable, Reserved
<1> QED BY <1>1, <1>2 DEF ReservedBytes

-----------------------------------------------------------------------------
Ledgers == [status : Statuses, jobs : [Jobs -> Row \cup {None}], rejected : SUBSET Jobs]

LEMMA AppendEffect ==
    ASSUME ledger \in Ledgers, NEW content \in Contents, Append(content) \/ FailAppend(content)
    PROVE  /\ ledger' \in Ledgers
           /\ ledger'.jobs = content.jobs \/ ledger'.jobs = ledger.jobs
           /\ Append(content) => ledger'.jobs = content.jobs
           /\ ledger'.status = "absent" => ledger'.jobs = ledger.jobs /\ ledger.status = "absent"
BY DEF Append, FailAppend, File, Ledgers, Contents, Statuses

LEMMA NoteEffect ==
    ASSUME ledger \in Ledgers, Append(Content(ledger)) \/ FailAppend(Content(ledger))
    PROVE  /\ ledger' \in Ledgers
           /\ ledger'.jobs = ledger.jobs
           /\ ledger'.status = "absent" => ledger.status = "absent"
<1>1. Content(ledger) \in Contents /\ Content(ledger).jobs = ledger.jobs
    BY DEF Content, Contents, Ledgers
<1> QED BY <1>1, AppendEffect

Steps == {"idle", "submit", "sent", "observe", "observe_only", "failed"}
Work == [job : Jobs \cup {None}, payload : Payloads \cup {None}, seen : Seen \cup {None}, matches : BOOLEAN]

LEMMA SubmittingEffect ==
    ASSUME pc \in [Threads -> Steps], work \in [Threads -> Work],
           NEW t \in Threads, NEW j \in Jobs, NEW p \in Payloads, Submitting(t, j, p)
    PROVE  /\ pc' \in [Threads -> Steps] /\ work' \in [Threads -> Work]
           /\ pc'[t] = "submit" /\ work'[t].job = j /\ work'[t].payload = p
           /\ \A u \in Threads \ {t} : pc'[u] = pc[u] /\ work'[u] = work[u]
<1> DEFINE mine == [work[t] EXCEPT !.job = j, !.payload = p]
<1>1. mine \in Work /\ mine.job = j /\ mine.payload = p
    BY DEF Work
<1>2. pc' = [pc EXCEPT ![t] = "submit"] /\ work' = [work EXCEPT ![t] = mine]
    BY DEF Submitting, Work
<1> HIDE DEF mine
<1> QED BY <1>1, <1>2 DEF Steps

LEMMA DoneEffect ==
    ASSUME pc \in [Threads -> Steps], work \in [Threads -> Work], NEW t \in Threads, Done(t)
    PROVE  /\ pc' \in [Threads -> Steps] /\ work' \in [Threads -> Work]
           /\ pc'[t] = "idle"
           /\ \A u \in Threads \ {t} : pc'[u] = pc[u] /\ work'[u] = work[u]
<1>1. Forget[t] \in Work
    BY DEF Forget, Work
<1> QED BY <1>1 DEF Done, Steps

LEMMA SeeEffect ==
    ASSUME pc \in [Threads -> Steps], work \in [Threads -> Work], NEW t \in Threads, NEW j \in Jobs,
           NEW seen \in Seen, NEW step \in {"observe", "observe_only"}, See(t, j, seen, step)
    PROVE  /\ pc' \in [Threads -> Steps] /\ work' \in [Threads -> Work]
           /\ pc'[t] = step /\ work'[t].job = j /\ work'[t].seen = seen
           /\ \A u \in Threads \ {t} : pc'[u] = pc[u] /\ work'[u] = work[u]
<1>1. PICK matches \in BOOLEAN :
        work' = [work EXCEPT ![t] = [@ EXCEPT !.job = j, !.seen = seen, !.matches = matches]]
    BY DEF See
<1> DEFINE mine == [work[t] EXCEPT !.job = j, !.seen = seen, !.matches = matches]
<1>2. mine \in Work /\ mine.job = j /\ mine.seen = seen
    BY DEF Work
<1>3. work' = [work EXCEPT ![t] = mine]
    BY <1>1
<1> HIDE DEF mine
<1> QED BY <1>2, <1>3 DEF See, Steps

LEMMA Initially == Init => IInv
<1> SUFFICES ASSUME Init PROVE IInv
    OBVIOUS
<1>1. TypeOK
    BY DEF Init, TypeOK, File, Empty, Idle, Forget, Statuses
<1>2. Charged = {}
    BY DEF Init, Charged
<1>3. JobsFitTheAllowance
    BY <1>2, FS_EmptySet, BytesAssumption DEF JobsFitTheAllowance
<1> QED BY <1>1, <1>2, <1>3 DEF Init, IInv, NewLedgerIsEmpty, MemoryIsOnRecord, CallsAreReserved,
        ChargedIsReserved, MemoryFits, File, Empty, Idle

(* Everything but the types and the allowance, for a step that leaves the   *)
(* reservations alone and starts no request.                                *)
Reservations ==
    NewLedgerIsEmpty /\ MemoryIsOnRecord /\ CallsAreReserved /\ ChargedIsReserved /\ MemoryFits

LEMMA EnterStep ==
    ASSUME IInv, Enter
    PROVE  TypeOK' /\ Reservations' /\ Charged' = Charged
<1>1. TypeOK'
    BY DEF Enter, IInv, TypeOK, Content, Statuses
<1>2. Charged' = Charged
    BY DEF Enter, Charged
<1>3. ledger'.jobs = ledger.jobs /\ ledger'.status = "good" /\ memory'.jobs = ledger.jobs /\ active'
    BY DEF Enter, Content, IInv, TypeOK
<1>4. \A t \in Threads : pc'[t] = "idle"
    BY DEF Enter, IInv, CallsAreReserved
<1>5. MemoryFits'
    <2>1. CASE ledger.status = "absent"
        <3>1. \A j \in Jobs : memory'.jobs[j] = None
            BY <1>3, <2>1 DEF IInv, NewLedgerIsEmpty
        <3>2. Billable(memory') = {}
            BY <3>1 DEF Billable, Reserved
        <3> QED BY <3>2, FS_EmptySet, BytesAssumption DEF MemoryFits, ReservedBytes
    <2>2. CASE ReservedBytes(Content(ledger)) <= Allowance
        BY <2>2 DEF Enter, MemoryFits
    <2> QED BY <2>1, <2>2 DEF Enter
<1> QED BY <1>1, <1>2, <1>3, <1>4, <1>5 DEF Reservations, NewLedgerIsEmpty, MemoryIsOnRecord,
        CallsAreReserved, ChargedIsReserved, IInv

LEMMA LeaveStep ==
    ASSUME IInv, Leave
    PROVE  TypeOK' /\ Reservations' /\ Charged' = Charged
<1>1. /\ ledger' \in Ledgers /\ ledger'.jobs = ledger.jobs
      /\ ledger'.status = "absent" => ledger.status = "absent"
    BY NoteEffect DEF Leave, IInv, TypeOK, Ledgers
<1>2. TypeOK'
    BY <1>1 DEF Leave, IInv, TypeOK, Empty, Idle, Forget, Ledgers
<1>3. Charged' = Charged
    BY DEF Leave, Charged
<1> QED BY <1>1, <1>2, <1>3 DEF Leave, Reservations, NewLedgerIsEmpty, MemoryIsOnRecord,
        CallsAreReserved, ChargedIsReserved, MemoryFits, Idle, IInv

LEMMA ReserveStep ==
    ASSUME IInv, active, NEW t \in Threads, NEW j \in Jobs, NEW p \in Payloads, Reserve(t, j, p)
    PROVE  TypeOK' /\ Reservations' /\ Charged' = Charged
<1> DEFINE row == [payload |-> p, observation |-> None]
           more == WithReservation(Content(ledger), j, p)
<1>1. Content(ledger) \in Contents /\ memory \in Contents /\ row \in Row /\ memory.jobs[j] = None
    BY DEF Reserve, IInv, TypeOK, Content, Contents, Row
<1>2. more \in Contents /\ more.jobs[j] = row /\ \A i \in Jobs \ {j} : more.jobs[i] = ledger.jobs[i]
    BY <1>1 DEF WithReservation, Content, Contents
<1>3. ledger' \in Ledgers /\ (ledger'.status = "absent" => ledger.status = "absent" /\ ledger'.jobs = ledger.jobs)
    BY <1>2, AppendEffect DEF Reserve, IInv, TypeOK, Ledgers
<1>4. Charged' = Charged
    BY DEF Reserve, Charged
<1>5. \A r \in Charged : r[1] \in Jobs \ {j}
    BY <1>1 DEF IInv, ChargedIsReserved, Charged
<1>6. \A i \in Jobs \ {j} : ledger'.jobs[i] = ledger.jobs[i]
    BY <1>2, AppendEffect DEF Reserve, IInv, TypeOK, Ledgers
<1>7. CASE Append(more) /\ memory' = WithReservation(memory, j, p) /\ Submitting(t, j, p)
    <2>1. ledger'.jobs[j] = row
        BY <1>2, <1>7, AppendEffect DEF IInv, TypeOK, Ledgers
    <2>2. /\ memory' \in Contents /\ memory'.jobs[j] = row
          /\ \A i \in Jobs \ {j} : memory'.jobs[i] = memory.jobs[i]
        BY <1>1, <1>7 DEF WithReservation, Contents
    <2>3. ReservedBytes(memory') <= Allowance
        BY <1>1, <1>7, ReservationCost DEF Reserve
    <2>4. TypeOK'
        <3>1. /\ pc' \in [Threads -> Steps] /\ work' \in [Threads -> Work]
              /\ pc'[t] = "submit" /\ work'[t].job = j /\ work'[t].payload = p
              /\ \A u \in Threads \ {t} : pc'[u] = pc[u] /\ work'[u] = work[u]
            BY <1>7, SubmittingEffect DEF IInv, TypeOK, Steps, Work
        <3> QED BY <1>3, <2>2, <3>1 DEF Reserve, IInv, TypeOK, Contents, Ledgers, Steps, Work
    <2>5. CallsAreReserved'
        BY <1>1, <1>7, <2>2, NoneAssumption DEF Submitting, Reserve, IInv, TypeOK, CallsAreReserved
    <2>6. MemoryIsOnRecord'
        BY <1>1, <1>6, <2>1, <2>2, NoneAssumption DEF Reserve, IInv, MemoryIsOnRecord
    <2>7. ChargedIsReserved'
        BY <1>4, <1>5, <1>6, <2>2 DEF Reserve, IInv, ChargedIsReserved
    <2> QED BY <1>3, <1>4, <2>3, <2>4, <2>5, <2>6, <2>7 DEF Reservations, NewLedgerIsEmpty, MemoryFits, IInv
<1>8. CASE UNCHANGED <<memory, pc, work>>
    <2>1. TypeOK'
        BY <1>3, <1>8 DEF Reserve, IInv, TypeOK, Ledgers
    <2> QED BY <1>1, <1>3, <1>4, <1>5, <1>6, <1>8, <2>1 DEF Reserve, IInv, Reservations, NewLedgerIsEmpty,
            MemoryIsOnRecord, CallsAreReserved, ChargedIsReserved, MemoryFits
<1> QED BY <1>7, <1>8 DEF Reserve

LEMMA ResubmitStep ==
    ASSUME IInv, active, NEW t \in Threads, NEW j \in Jobs, Resubmit(t, j)
    PROVE  TypeOK' /\ Reservations' /\ Charged' = Charged
<1>1. /\ ledger' \in Ledgers /\ ledger'.jobs = ledger.jobs
      /\ ledger'.status = "absent" => ledger.status = "absent"
    BY NoteEffect DEF Resubmit, IInv, TypeOK, Ledgers
<1>2. Charged' = Charged
    BY DEF Resubmit, Charged
<1>3. TypeOK' /\ CallsAreReserved'
    <2>1. CASE Submitting(t, j, memory.jobs[j].payload)
        <3>1. memory.jobs[j].payload \in Payloads
            BY DEF Resubmit, IInv, TypeOK, Row
        <3>2. /\ pc' \in [Threads -> Steps] /\ work' \in [Threads -> Work]
              /\ pc'[t] = "submit" /\ work'[t].job = j /\ work'[t].payload \in Payloads
              /\ \A u \in Threads \ {t} : pc'[u] = pc[u] /\ work'[u] = work[u]
            BY <2>1, <3>1, SubmittingEffect DEF IInv, TypeOK, Steps, Work
        <3>3. TypeOK'
            BY <1>1, <3>2 DEF Resubmit, IInv, TypeOK, Ledgers, Steps, Work
        <3>4. CallsAreReserved'
            BY <3>2 DEF Resubmit, IInv, CallsAreReserved
        <3> QED BY <3>3, <3>4
    <2>2. CASE UNCHANGED <<pc, work>>
        BY <1>1, <2>2 DEF Resubmit, IInv, TypeOK, CallsAreReserved, Ledgers
    <2> QED BY <2>1, <2>2 DEF Resubmit
<1> QED BY <1>1, <1>2, <1>3 DEF Resubmit, IInv, Reservations, NewLedgerIsEmpty, MemoryIsOnRecord,
        ChargedIsReserved, MemoryFits

LEMMA NoteStep ==
    ASSUME IInv, Note
    PROVE  TypeOK' /\ Reservations' /\ Charged' = Charged
<1>1. /\ ledger' \in Ledgers /\ ledger'.jobs = ledger.jobs
      /\ ledger'.status = "absent" => ledger.status = "absent"
    BY NoteEffect DEF Note, IInv, TypeOK, Ledgers
<1>2. Charged' = Charged
    BY DEF Note, Charged
<1>3. TypeOK'
    BY <1>1 DEF Note, IInv, TypeOK, Ledgers
<1> QED BY <1>1, <1>2, <1>3 DEF Note, IInv, Reservations, NewLedgerIsEmpty, MemoryIsOnRecord,
        CallsAreReserved, ChargedIsReserved, MemoryFits

(* The step that starts a request: of a job that is reserved. *)
LEMMA SubmitStep ==
    ASSUME IInv, NEW t \in Threads, Submit(t)
    PROVE  TypeOK' /\ Reservations' /\ active'
<1> DEFINE j == work[t].job
           p == work[t].payload
<1>1. /\ ledger' \in Ledgers /\ ledger'.jobs = ledger.jobs
      /\ ledger'.status = "absent" => ledger.status = "absent"
    BY NoteEffect DEF Submit, IInv, TypeOK, Ledgers
<1>2. /\ active /\ active' /\ j \in Jobs /\ p \in Payloads
      /\ memory.jobs[j] # None /\ memory.jobs[j].payload = p
    BY DEF Submit, IInv, TypeOK, CallsAreReserved
<1>3. wire' = wire \/ (p \notin DryRuns /\ wire' = wire \cup {<<j, p>>})
    BY DEF Submit
<1>4. /\ pc' \in [Threads -> Steps] /\ pc'[t] # "idle" /\ pc[t] = "submit"
      /\ \A u \in Threads \ {t} : pc'[u] = pc[u]
      /\ pc'[t] \in {"sent", "failed"}
    BY DEF Submit, IInv, TypeOK, Steps
<1>5. wire' \subseteq Jobs \X (Payloads \ DryRuns)
    BY <1>2, <1>3 DEF IInv, TypeOK
<1>6. TypeOK'
    BY <1>1, <1>4, <1>5 DEF Submit, IInv, TypeOK, Ledgers, Steps
<1>7. \A r \in Charged' : r \in Charged \/ (r = <<j, p>> /\ p \notin DryRuns)
    BY <1>3 DEF Submit, Charged
<1>8. MemoryIsOnRecord' /\ NewLedgerIsEmpty'
    BY <1>1 DEF Submit, IInv, MemoryIsOnRecord, NewLedgerIsEmpty
<1>9. ChargedIsReserved'
    <2> SUFFICES ASSUME NEW r \in Charged'
                 PROVE  /\ r[2] \notin DryRuns
                        /\ ledger'.jobs[r[1]] # None /\ ledger'.jobs[r[1]].payload = r[2]
                        /\ memory'.jobs[r[1]] # None /\ memory'.jobs[r[1]].payload = r[2]
        BY DEF ChargedIsReserved
    <2>1. memory' = memory
        BY DEF Submit
    <2>2. CASE r \in Charged
        BY <1>1, <1>2, <2>1, <2>2 DEF IInv, ChargedIsReserved
    <2>3. CASE r = <<j, p>> /\ p \notin DryRuns
        BY <1>1, <1>2, <2>1, <2>3 DEF IInv, MemoryIsOnRecord
    <2> QED BY <1>7, <2>2, <2>3
<1>10. CallsAreReserved'
    BY <1>2, <1>4 DEF Submit, IInv, CallsAreReserved
<1> QED BY <1>2, <1>6, <1>8, <1>9, <1>10 DEF Submit, IInv, Reservations, MemoryFits

(* A thread is shown a job: only its own call moves on. *)
LEMMA SeeStep ==
    ASSUME IInv, active, NEW t \in Threads, NEW j \in Jobs, memory.jobs[j] # None,
           NEW seen \in Seen, NEW step \in {"observe", "observe_only"}, See(t, j, seen, step)
    PROVE  TypeOK' /\ Reservations' /\ Charged' = Charged
<1>1. /\ pc' \in [Threads -> Steps] /\ work' \in [Threads -> Work]
      /\ pc'[t] = step /\ work'[t].job = j /\ work'[t].seen = seen
      /\ \A u \in Threads \ {t} : pc'[u] = pc[u] /\ work'[u] = work[u]
    BY SeeEffect DEF IInv, TypeOK, Steps, Work
<1>2. TypeOK'
    BY <1>1 DEF See, IInv, TypeOK, Steps, Work
<1>3. CallsAreReserved'
    BY <1>1 DEF See, IInv, CallsAreReserved
<1>4. Charged' = Charged
    BY DEF See, Charged
<1> QED BY <1>2, <1>3, <1>4 DEF See, IInv, Reservations, NewLedgerIsEmpty, MemoryIsOnRecord,
        ChargedIsReserved, MemoryFits

LEMMA AnsweredStep ==
    ASSUME IInv, active, NEW t \in Threads, Answered(t)
    PROVE  TypeOK' /\ Reservations' /\ Charged' = Charged
<1> DEFINE j == work[t].job
<1>1. pc[t] = "sent" /\ j \in Jobs /\ memory.jobs[j] # None
    BY DEF Answered, IInv, TypeOK, CallsAreReserved
<1>2. CASE work[t].payload \in DryRuns
    <2>1. [state |-> "DONE", billed |-> 0] \in Seen
        BY BytesAssumption DEF Seen
    <2> QED BY <1>1, <1>2, <2>1, SeeStep DEF Answered
<1>3. CASE work[t].payload \notin DryRuns
    <2>1. server[j] # None /\ Report(j) \in Seen
        BY <1>1, <1>3 DEF Answered, Report, Seen, IInv, TypeOK, ServerJob
    <2> QED BY <1>1, <1>3, <2>1, SeeStep DEF Answered
<1> QED BY <1>2, <1>3

LEMMA LookStep ==
    ASSUME IInv, active, NEW t \in Threads, NEW j \in Jobs, Look(t, j)
    PROVE  TypeOK' /\ Reservations' /\ Charged' = Charged
<1>1. Report(j) \in Seen
    BY DEF Look, Report, Seen, IInv, TypeOK, ServerJob
<1> QED BY <1>1, SeeStep DEF Look

LEMMA UnansweredStep ==
    ASSUME IInv, NEW t \in Threads, Unanswered(t)
    PROVE  TypeOK' /\ Reservations' /\ Charged' = Charged
<1>1. /\ pc' \in [Threads -> Steps] /\ pc[t] = "sent" /\ pc'[t] = "failed"
      /\ \A u \in Threads \ {t} : pc'[u] = pc[u]
    BY DEF Unanswered, IInv, TypeOK, Steps
<1>2. TypeOK' /\ CallsAreReserved'
    BY <1>1 DEF Unanswered, IInv, TypeOK, CallsAreReserved, Steps
<1>3. Charged' = Charged
    BY DEF Unanswered, Charged
<1> QED BY <1>2, <1>3 DEF Unanswered, IInv, Reservations, NewLedgerIsEmpty, MemoryIsOnRecord,
        ChargedIsReserved, MemoryFits

LEMMA FailStep ==
    ASSUME IInv, NEW t \in Threads, Fail(t)
    PROVE  TypeOK' /\ Reservations' /\ Charged' = Charged
<1>1. /\ ledger' \in Ledgers /\ ledger'.jobs = ledger.jobs
      /\ ledger'.status = "absent" => ledger.status = "absent"
    BY NoteEffect DEF Fail, IInv, TypeOK, Ledgers
<1>2. /\ pc' \in [Threads -> Steps] /\ work' \in [Threads -> Work] /\ pc'[t] = "idle"
      /\ \A u \in Threads \ {t} : pc'[u] = pc[u] /\ work'[u] = work[u]
    BY DoneEffect DEF Fail, IInv, TypeOK, Steps, Work
<1>3. TypeOK' /\ CallsAreReserved'
    BY <1>1, <1>2 DEF Fail, IInv, TypeOK, CallsAreReserved, Ledgers, Steps, Work
<1>4. Charged' = Charged
    BY DEF Fail, Charged
<1> QED BY <1>1, <1>3, <1>4 DEF Fail, IInv, Reservations, NewLedgerIsEmpty, MemoryIsOnRecord,
        ChargedIsReserved, MemoryFits

(* What is observed or rejected changes no reservation, in memory or on disk. *)
LEMMA ObserveStep ==
    ASSUME IInv, NEW t \in Threads, Observe(t)
    PROVE  TypeOK' /\ Reservations' /\ Charged' = Charged
<1> DEFINE j == work[t].job
           Update(content) == IF work[t].matches \/ DryRun(j)
                              THEN WithObservation(content, j, work[t].seen)
                              ELSE WithRejection(content, j)
<1>1. active /\ j \in Jobs /\ work[t].seen \in Seen /\ memory.jobs[j] # None /\ ledger.jobs[j] # None
    BY DEF Observe, IInv, TypeOK, CallsAreReserved, MemoryIsOnRecord
<1>2. /\ Content(ledger) \in Contents /\ Content(ledger).jobs = ledger.jobs
      /\ memory \in Contents /\ ledger \in Ledgers
    BY DEF IInv, TypeOK, Content, Contents, Ledgers
<1>3. /\ Append(Update(Content(ledger))) \/ FailAppend(Update(Content(ledger)))
      /\ memory' = Update(memory) \/ memory' = memory
    BY DEF Observe
<1>4. /\ memory' \in Contents /\ ReservedBytes(memory') = ReservedBytes(memory)
      /\ \A i \in Jobs : memory'.jobs[i] = None <=> memory.jobs[i] = None
      /\ \A i \in Jobs : memory.jobs[i] # None => memory'.jobs[i].payload = memory.jobs[i].payload
    <2>1. CASE memory' = Update(memory)
        BY <1>1, <1>2, <2>1, ObservationCost
    <2>2. CASE memory' = memory
        BY <1>2, <2>2
    <2> QED BY <1>3, <2>1, <2>2
<1>5. /\ ledger' \in Ledgers /\ (ledger'.status = "absent" => ledger.status = "absent")
      /\ \A i \in Jobs : ledger'.jobs[i] = None <=> ledger.jobs[i] = None
      /\ \A i \in Jobs : ledger.jobs[i] # None => ledger'.jobs[i].payload = ledger.jobs[i].payload
    <2> DEFINE other == Update(Content(ledger))
    <2>1. /\ other \in Contents
          /\ \A i \in Jobs : other.jobs[i] = None <=> ledger.jobs[i] = None
          /\ \A i \in Jobs : ledger.jobs[i] # None => other.jobs[i].payload = ledger.jobs[i].payload
        BY <1>1, <1>2, ObservationCost
    <2> HIDE DEF other
    <2>2. Append(other) \/ FailAppend(other)
        BY <1>3 DEF other
    <2> QED BY <1>2, <2>1, <2>2, AppendEffect
<1>6. /\ pc' \in [Threads -> Steps] /\ work' \in [Threads -> Work] /\ pc'[t] \in {"idle", "failed"}
      /\ work'[t].job \in Jobs \/ pc'[t] = "idle"
      /\ pc'[t] # "idle" => work'[t] = work[t]
      /\ \A u \in Threads \ {t} : pc'[u] = pc[u] /\ work'[u] = work[u]
    <2>1. CASE Done(t)
        BY <2>1, DoneEffect DEF IInv, TypeOK, Steps, Work
    <2>2. CASE Failing(t)
        BY <1>1, <2>2 DEF Failing, IInv, TypeOK, Steps, Work
    <2> QED BY <2>1, <2>2 DEF Observe
<1>7. TypeOK'
    BY <1>4, <1>5, <1>6 DEF Observe, IInv, TypeOK, Contents, Ledgers, Steps, Work
<1>8. CallsAreReserved'
    BY <1>1, <1>4, <1>6 DEF Observe, IInv, TypeOK, CallsAreReserved
<1>9. MemoryIsOnRecord'
    BY <1>4, <1>5 DEF Observe, IInv, MemoryIsOnRecord
<1>10. Charged' = Charged
    BY DEF Observe, Charged
<1>11. ChargedIsReserved'
    <2>1. \A r \in Charged : r[1] \in Jobs
        BY DEF Charged
    <2> QED BY <1>4, <1>5, <1>10, <2>1 DEF Observe, IInv, ChargedIsReserved
<1> QED BY <1>4, <1>5, <1>7, <1>8, <1>9, <1>10, <1>11 DEF Observe, IInv, Reservations,
        NewLedgerIsEmpty, MemoryFits

(* BigQuery's own steps, and a request that is lost, add no charge. *)
LEMMA ServerStep ==
    ASSUME IInv, (\E r \in wire : Accept(r) \/ Lose(r)) \/ (\E j \in Jobs : Finish(j))
    PROVE  TypeOK' /\ Reservations' /\ Charged' \subseteq Charged
<1>1. UNCHANGED <<ledger, active, memory, pc, work>>
    BY DEF Accept, Lose, Finish
<1> DEFINE ServerKeeps ==
        /\ wire' \subseteq wire
        /\ server' \in [Jobs -> ServerJob \cup {None}]
        /\ \A j \in Jobs : server'[j] # None =>
              \/ server[j] # None /\ server'[j].payload = server[j].payload
              \/ <<j, server'[j].payload>> \in wire
<1>2. ServerKeeps
    <2>1. ASSUME NEW r \in wire, Accept(r)
          PROVE  ServerKeeps
        <3> DEFINE new == [payload |-> r[2], state |-> "RUNNING", billed |-> 0]
        <3>1. r[1] \in Jobs /\ r = <<r[1], r[2]>> /\ new \in ServerJob
            BY BytesAssumption DEF IInv, TypeOK, ServerJob
        <3>2. server' = server \/ (server' = [server EXCEPT ![r[1]] = new] /\ wire' \subseteq wire)
            BY <2>1 DEF Accept
        <3> HIDE DEF new
        <3>3. new.payload = r[2]
            BY DEF new
        <3> QED BY <2>1, <3>1, <3>2, <3>3 DEF Accept, IInv, TypeOK
    <2>2. ASSUME NEW r \in wire, Lose(r)
          PROVE  ServerKeeps
        BY <2>2 DEF Lose, IInv, TypeOK
    <2>3. ASSUME NEW j \in Jobs, Finish(j)
          PROVE  ServerKeeps
        <3>1. PICK bytes \in 0 .. Cap :
                server' = [server EXCEPT ![j].state = "DONE", ![j].billed = bytes]
            BY <2>3 DEF Finish
        <3> DEFINE new == [server[j] EXCEPT !.state = "DONE", !.billed = bytes]
        <3>2. new \in ServerJob /\ new.payload = server[j].payload /\ server[j] # None
            <4>1. server[j] \in ServerJob /\ server[j] # None
                BY <2>3 DEF Finish, IInv, TypeOK
            <4> QED BY <4>1 DEF ServerJob
        <3>3. server' = [server EXCEPT ![j] = new]
            BY <3>1
        <3> HIDE DEF new
        <3> QED BY <2>3, <3>2, <3>3 DEF Finish, IInv, TypeOK
    <2> QED BY <2>1, <2>2, <2>3
<1>3. Charged' \subseteq Charged
    <2> SUFFICES ASSUME NEW r \in Charged' PROVE r \in Charged
        OBVIOUS
    <2>1. r \in Jobs \X Payloads /\ r = <<r[1], r[2]>>
        BY DEF Charged
    <2> QED BY <1>2, <2>1 DEF Charged
<1>4. TypeOK'
    BY <1>1, <1>2 DEF IInv, TypeOK
<1> QED BY <1>1, <1>3, <1>4 DEF IInv, Reservations, NewLedgerIsEmpty, MemoryIsOnRecord,
        CallsAreReserved, ChargedIsReserved, MemoryFits

-----------------------------------------------------------------------------
(* One step keeps everything but the allowance: a request starts only while *)
(* a recorder is active, and any other step adds no charge.                 *)
LEMMA ReservationsKept ==
    ASSUME IInv, [Next]_vars
    PROVE  TypeOK' /\ Reservations' /\ (active' \/ Charged' \subseteq Charged)
<1>1. CASE UNCHANGED vars
    BY <1>1 DEF vars, IInv, TypeOK, Reservations, NewLedgerIsEmpty, MemoryIsOnRecord,
        CallsAreReserved, ChargedIsReserved, MemoryFits, Charged
<1>2. CASE Enter
    BY <1>2, EnterStep
<1>3. CASE Leave
    BY <1>3, LeaveStep
<1>4. CASE active /\ Note
    BY <1>4, NoteStep
<1>5. ASSUME active, NEW t \in Threads, NEW j \in Jobs, NEW p \in Payloads, Reserve(t, j, p)
      PROVE  TypeOK' /\ Reservations' /\ Charged' \subseteq Charged
    BY <1>5, ReserveStep
<1>6. ASSUME active, NEW t \in Threads, NEW j \in Jobs, Resubmit(t, j) \/ Look(t, j)
      PROVE  TypeOK' /\ Reservations' /\ Charged' \subseteq Charged
    BY <1>6, ResubmitStep, LookStep
<1>7. ASSUME active, NEW t \in Threads, Answered(t) \/ Unanswered(t) \/ Observe(t) \/ Fail(t)
      PROVE  TypeOK' /\ Reservations' /\ Charged' \subseteq Charged
    BY <1>7, AnsweredStep, UnansweredStep, ObserveStep, FailStep
<1>8. ASSUME NEW t \in Threads, Submit(t)
      PROVE  TypeOK' /\ Reservations' /\ active'
    BY <1>8, SubmitStep
<1>9. CASE (\E r \in wire : Accept(r) \/ Lose(r)) \/ (\E j \in Jobs : Finish(j))
    BY <1>9, ServerStep
<1> QED BY <1>1, <1>2, <1>3, <1>4, <1>5, <1>6, <1>7, <1>8, <1>9 DEF Next

LEMMA IInvKept == IInv /\ [Next]_vars => IInv'
<1> SUFFICES ASSUME IInv, [Next]_vars PROVE IInv'
    OBVIOUS
<1>1. TypeOK' /\ Reservations' /\ (active' \/ Charged' \subseteq Charged)
    BY ReservationsKept
<1>2. JobsFitTheAllowance'
    <2>1. CASE active'
        <3>1. memory' \in Contents
            BY <1>1 DEF TypeOK, Contents
        <3>2. \A r \in Charged' : /\ r \in Jobs \X Payloads
                                  /\ r[2] \notin DryRuns
                                  /\ memory'.jobs[r[1]] # None
                                  /\ memory'.jobs[r[1]].payload = r[2]
            BY <1>1, <2>1 DEF Reservations, ChargedIsReserved, Charged
        <3>3. IsFiniteSet(Charged') /\ Cap * Cardinality(Charged') <= ReservedBytes(memory')
            BY <3>1, <3>2, ReservedCharges
        <3>4. ReservedBytes(memory') <= Allowance
            BY <1>1, <2>1 DEF Reservations, MemoryFits
        <3>5. Cap * Cardinality(Charged') \in Nat /\ ReservedBytes(memory') \in Nat
            <4>1. IsFiniteSet(Billable(memory'))
                BY JobsAssumption, FS_Subset DEF Billable, Reserved
            <4> QED BY <3>3, <4>1, FS_CardinalityType, BytesAssumption DEF ReservedBytes
        <3> QED BY <3>3, <3>4, <3>5, BytesAssumption DEF JobsFitTheAllowance
    <2>2. CASE Charged' \subseteq Charged
        <3>1. IsFiniteSet(Charged)
            <4>1. Content(ledger) \in Contents /\ Content(ledger).jobs = ledger.jobs
                BY DEF IInv, TypeOK, Content, Contents
            <4>2. \A r \in Charged : /\ r \in Jobs \X Payloads
                                     /\ r[2] \notin DryRuns
                                     /\ ledger.jobs[r[1]] # None
                                     /\ ledger.jobs[r[1]].payload = r[2]
                BY DEF IInv, ChargedIsReserved, Charged
            <4> QED BY <4>1, <4>2, ReservedCharges
        <3> QED BY <2>2, <3>1, FewerCharges DEF IInv, JobsFitTheAllowance
    <2> QED BY <1>1, <2>1, <2>2
<1> QED BY <1>1, <1>2 DEF IInv, Reservations

LEMMA Invariance == Spec => []IInv
BY Initially, IInvKept, PTL DEF Spec

(* No step of a thread, of BigQuery or of a resumed recorder leaves the     *)
(* types of the model.                                                      *)
THEOREM TypeCorrect == Spec => []TypeOK
<1>1. IInv => TypeOK
    BY DEF IInv
<1> QED BY <1>1, Invariance, PTL

(* The aggregate allowance of a run bounds what its jobs can cost, over any *)
(* number of sessions, lost answers and late requests.                      *)
THEOREM AllowanceIsNeverExceeded == Spec => []JobsFitTheAllowance
<1>1. IInv => JobsFitTheAllowance
    BY DEF IInv
<1> QED BY <1>1, Invariance, PTL

(* BigQuery runs nothing that the reservation ledger does not list.         *)
THEOREM EveryJobIsOnRecord == Spec => []JobsAreOnRecord
<1>1. IInv => JobsAreOnRecord
    <2> SUFFICES ASSUME IInv, NEW j \in Jobs, server[j] # None
                 PROVE  ledger.jobs[j] # None /\ ledger.jobs[j].payload = server[j].payload
        BY DEF JobsAreOnRecord
    <2> DEFINE r == <<j, server[j].payload>>
    <2>1. server[j].payload \in Payloads
        BY DEF IInv, TypeOK, ServerJob
    <2>2. r \in Charged
        BY <2>1 DEF Charged
    <2> QED BY <2>2 DEF IInv, ChargedIsReserved
<1> QED BY <1>1, Invariance, PTL

(* Both together: what BigQuery may bill is on record and within bounds.    *)
THEOREM AllowanceIsAlwaysKept == Spec => []AllowanceIsKept
<1>1. JobsFitTheAllowance /\ JobsAreOnRecord => AllowanceIsKept
    BY DEF AllowanceIsKept
<1> QED BY <1>1, AllowanceIsNeverExceeded, EveryJobIsOnRecord, PTL

-----------------------------------------------------------------------------
(* What BigQuery has reported of a job stays so: a job that is done is done. *)
LEMMA BearsStays ==
    ASSUME IInv, [Next]_vars, NEW j \in Jobs, NEW seen, Bears(server[j], seen)
    PROVE  Bears(server'[j], seen)
<1>1. server \in [Jobs -> ServerJob \cup {None}] /\ server[j] # None /\ server[j] \in ServerJob
    BY DEF IInv, TypeOK, Bears
<1>2. server'[j] = server[j] \/ (server[j].state = "RUNNING" /\ server'[j] # None)
    <2>1. ASSUME NEW r \in wire, Accept(r)
          PROVE  server'[j] = server[j]
        BY <1>1, <2>1 DEF Accept, IInv, TypeOK
    <2>2. ASSUME NEW i \in Jobs, Finish(i)
          PROVE  server'[j] = server[j] \/ (server[j].state = "RUNNING" /\ server'[j] # None)
        <3>1. PICK bytes \in 0 .. Cap :
                server' = [server EXCEPT ![i].state = "DONE", ![i].billed = bytes]
            BY <2>2 DEF Finish
        <3> DEFINE new == [server[i] EXCEPT !.state = "DONE", !.billed = bytes]
        <3>2. server[i] \in ServerJob /\ server[i].state = "RUNNING"
            BY <2>2 DEF Finish, IInv, TypeOK
        <3>3. new \in ServerJob
            BY <3>2 DEF ServerJob
        <3>4. server' = [server EXCEPT ![i] = new]
            BY <3>1
        <3> HIDE DEF new
        <3> QED BY <1>1, <3>2, <3>3, <3>4, NoneAssumption
    <2>3. CASE UNCHANGED server
        BY <2>3
    <2> QED BY <2>1, <2>2, <2>3 DEF Next, vars, Enter, Leave, Note, Reserve, Resubmit, Look, See,
            Submit, Answered, Unanswered, Observe, Fail, Lose
<1> QED BY <1>1, <1>2 DEF Bears

(* The observations that the next step leaves as they are stay true. *)
LEMMA ObservationsStay ==
    ASSUME IInv, [Next]_vars, NEW rows, ObservedTruly(rows)
    PROVE  \A j \in Jobs :
              rows[j] # None /\ rows[j].payload \notin DryRuns /\ rows[j].observation # None =>
                  Bears(server'[j], rows[j].observation)
BY BearsStays DEF ObservedTruly

LEMMA ObservedInitially == Init => OInv
BY DEF Init, OInv, ObservedTruly, SeenTruly, SentAsReserved, RejectionsAreKnown, File, Empty, Idle

(* A step that records no observation and no rejection. *)
LEMMA NoObservation ==
    ASSUME IInv, OInv, [Next]_vars, ledger'.jobs = ledger.jobs,
           ledger'.status = "good" => ledger.status = "good" /\ ledger'.rejected = ledger.rejected,
           UNCHANGED <<active, memory>>
    PROVE  /\ ObservedTruly(ledger.jobs)'
           /\ (active => ObservedTruly(memory.jobs))'
           /\ RejectionsAreKnown'
<1>1. ObservedTruly(ledger.jobs)'
    BY ObservationsStay DEF OInv, ObservedTruly
<1>2. (active => ObservedTruly(memory.jobs))'
    BY ObservationsStay DEF OInv, ObservedTruly
<1>3. RejectionsAreKnown'
    BY DEF OInv, RejectionsAreKnown
<1> QED BY <1>1, <1>2, <1>3

LEMMA NoteRecordsNothing ==
    ASSUME IInv, Append(Content(ledger)) \/ FailAppend(Content(ledger))
    PROVE  /\ ledger'.jobs = ledger.jobs
           /\ ledger'.status = "good" => ledger.status = "good" /\ ledger'.rejected = ledger.rejected
<1>1. ledger \in Ledgers
    BY DEF IInv, TypeOK, Ledgers
<1>2. ledger'.jobs = ledger.jobs
    BY <1>1, NoteEffect
<1>3. ledger'.status = "good" => ledger.status = "good" /\ ledger'.rejected = ledger.rejected
    BY <1>1 DEF Append, FailAppend, File, Content, Ledgers
<1> QED BY <1>2, <1>3

(* A thread that is neither sending nor looking, before and after, has seen *)
(* nothing and sent nothing. *)
LEMMA CallsStay ==
    ASSUME IInv, OInv, [Next]_vars, UNCHANGED memory, NEW t \in Threads,
           pc'[t] \notin {"sent", "observe", "observe_only"},
           \A u \in Threads \ {t} : pc'[u] = pc[u] /\ work'[u] = work[u]
    PROVE  SeenTruly' /\ SentAsReserved'
<1>1. SentAsReserved'
    BY DEF OInv, SentAsReserved
<1>2. SeenTruly'
    <2> SUFFICES ASSUME NEW u \in Threads, pc'[u] \in {"observe", "observe_only"}, ~ DryRun(work[u].job)'
                 PROVE  Bears(server[work[u].job], work[u].seen)'
        BY DEF SeenTruly
    <2>1. u # t /\ pc'[u] = pc[u] /\ work'[u] = work[u]
        OBVIOUS
    <2>2. work[u].job \in Jobs /\ Bears(server[work[u].job], work[u].seen)
        BY <2>1 DEF OInv, SeenTruly, DryRun, IInv, TypeOK
    <2> QED BY <2>1, <2>2, BearsStays
<1> QED BY <1>1, <1>2

LEMMA EnterObserves ==
    ASSUME IInv, OInv, [Next]_vars, Enter
    PROVE  OInv'
<1>1. /\ ledger'.jobs = ledger.jobs /\ memory'.jobs = ledger.jobs
      /\ ledger'.rejected = ledger.rejected /\ memory'.rejected = ledger.rejected
    BY DEF Enter, Content, IInv, TypeOK
<1>2. \A t \in Threads : pc'[t] = "idle"
    BY DEF Enter, IInv, CallsAreReserved
<1>3. ObservedTruly(ledger.jobs)' /\ ObservedTruly(memory.jobs)'
    BY <1>1, ObservationsStay DEF OInv, ObservedTruly
<1> QED BY <1>1, <1>2, <1>3 DEF OInv, SeenTruly, SentAsReserved, RejectionsAreKnown

LEMMA LeaveObserves ==
    ASSUME IInv, OInv, [Next]_vars, Leave
    PROVE  OInv'
<1>1. ledger'.jobs = ledger.jobs
    BY NoteRecordsNothing DEF Leave
<1>2. ObservedTruly(ledger.jobs)'
    BY <1>1, ObservationsStay DEF OInv, ObservedTruly
<1>3. ~ active' /\ \A t \in Threads : pc'[t] = "idle"
    BY DEF Leave, Idle
<1> QED BY <1>2, <1>3 DEF OInv, SeenTruly, SentAsReserved, RejectionsAreKnown

LEMMA ReserveObserves ==
    ASSUME IInv, OInv, [Next]_vars, active, NEW t \in Threads, NEW j \in Jobs, NEW p \in Payloads,
           Reserve(t, j, p)
    PROVE  OInv'
<1> DEFINE row == [payload |-> p, observation |-> None]
           more == WithReservation(Content(ledger), j, p)
<1>1. /\ Content(ledger) \in Contents /\ memory \in Contents /\ ledger \in Ledgers
      /\ row.observation = None /\ memory.jobs[j] = None
      /\ Content(ledger).jobs = ledger.jobs /\ Content(ledger).rejected = ledger.rejected
    BY DEF Reserve, IInv, TypeOK, Content, Contents, Ledgers
<1>2. /\ more.jobs = [ledger.jobs EXCEPT ![j] = row] /\ more.rejected = ledger.rejected
      /\ WithReservation(memory, j, p).jobs = [memory.jobs EXCEPT ![j] = row]
      /\ WithReservation(memory, j, p).rejected = memory.rejected
    BY <1>1 DEF WithReservation, Contents
<1>3. Append(more) \/ FailAppend(more)
    BY DEF Reserve
<1> HIDE DEF row, more
<1>4. /\ ledger'.jobs = ledger.jobs \/ ledger'.jobs = [ledger.jobs EXCEPT ![j] = row]
      /\ ledger'.status = "good" => ledger.status = "good" /\ ledger'.rejected = ledger.rejected
    BY <1>1, <1>2, <1>3 DEF Append, FailAppend, File, Ledgers
<1>5. /\ active' = active /\ memory'.rejected = memory.rejected
      /\ memory' = memory \/ memory'.jobs = [memory.jobs EXCEPT ![j] = row]
    BY <1>2 DEF Reserve
<1>6. ledger.jobs \in [Jobs -> Row \cup {None}] /\ memory.jobs \in [Jobs -> Row \cup {None}]
    BY DEF IInv, TypeOK
<1>7. ObservedTruly(ledger.jobs)'
    BY <1>1, <1>4, <1>6, ObservationsStay DEF OInv, ObservedTruly
<1>8. ObservedTruly(memory.jobs)'
    BY <1>1, <1>5, <1>6, ObservationsStay DEF OInv, ObservedTruly
<1>9. RejectionsAreKnown'
    BY <1>4, <1>5 DEF OInv, RejectionsAreKnown
<1>10. \A u \in Threads : pc'[u] \in {"sent", "observe", "observe_only"} =>
          pc'[u] = pc[u] /\ work'[u] = work[u]
    <2>1. CASE Submitting(t, j, p)
        BY <2>1, SubmittingEffect DEF IInv, TypeOK, Steps, Work
    <2>2. CASE UNCHANGED <<pc, work>>
        BY <2>2
    <2> QED BY <2>1, <2>2 DEF Reserve
<1>11. ASSUME NEW u \in Threads, pc'[u] \in {"sent", "observe", "observe_only"}
       PROVE  work[u].job \in Jobs /\ memory'.jobs[work[u].job] = memory.jobs[work[u].job]
    BY <1>1, <1>5, <1>6, <1>10, <1>11 DEF IInv, CallsAreReserved, TypeOK
<1>12. SentAsReserved'
    BY <1>10, <1>11 DEF OInv, SentAsReserved
<1>13. SeenTruly'
    <2> SUFFICES ASSUME NEW u \in Threads, pc'[u] \in {"observe", "observe_only"}, ~ DryRun(work[u].job)'
                 PROVE  Bears(server'[work'[u].job], work'[u].seen)
        BY DEF SeenTruly
    <2>1. work[u].job \in Jobs /\ Bears(server[work[u].job], work[u].seen)
        BY <1>10, <1>11 DEF OInv, SeenTruly, DryRun
    <2> QED BY <1>10, <2>1, BearsStays
<1> QED BY <1>7, <1>8, <1>9, <1>12, <1>13 DEF OInv

LEMMA ObserveObserves ==
    ASSUME IInv, OInv, [Next]_vars, NEW t \in Threads, Observe(t)
    PROVE  OInv'
<1> DEFINE j == work[t].job
           seen == work[t].seen
           Accepted == work[t].matches \/ DryRun(j)
           Update(content) == IF Accepted THEN WithObservation(content, j, seen)
                              ELSE WithRejection(content, j)
           Rows(rows) == [rows EXCEPT ![j] = [rows[j] EXCEPT !.observation = seen]]
<1>1. /\ active /\ active' /\ j \in Jobs /\ seen \in Seen /\ memory.jobs[j] # None /\ ledger.jobs[j] # None
      /\ ledger.jobs[j].payload = memory.jobs[j].payload
      /\ ledger \in Ledgers
      /\ ledger.jobs \in [Jobs -> Row \cup {None}] /\ memory.jobs \in [Jobs -> Row \cup {None}]
    BY DEF Observe, IInv, TypeOK, CallsAreReserved, MemoryIsOnRecord, Ledgers
<1>2. ~ DryRun(j) => Bears(server[j], seen)
    BY <1>1 DEF Observe, OInv, SeenTruly
<1>3. \/ Append(Update(Content(ledger))) /\ memory' = Update(memory)
      \/ FailAppend(Update(Content(ledger))) /\ memory' = memory
    BY DEF Observe
<1>4. /\ Update(Content(ledger)).jobs = IF Accepted THEN Rows(ledger.jobs) ELSE ledger.jobs
      /\ Update(Content(ledger)).rejected =
            IF Accepted THEN ledger.rejected ELSE ledger.rejected \cup {j}
    BY DEF WithObservation, WithRejection, Content
<1>5. /\ Update(memory).jobs = IF Accepted THEN Rows(memory.jobs) ELSE memory.jobs
      /\ Update(memory).rejected = IF Accepted THEN memory.rejected ELSE memory.rejected \cup {j}
    BY DEF WithObservation, WithRejection, IInv, TypeOK
<1>6. ASSUME NEW rows \in [Jobs -> Row \cup {None}], rows[j] # None, ObservedTruly(rows),
             rows[j].payload = memory.jobs[j].payload
      PROVE  \A i \in Jobs :
                Rows(rows)[i] # None /\ Rows(rows)[i].payload \notin DryRuns /\ Rows(rows)[i].observation # None =>
                    Bears(server'[i], Rows(rows)[i].observation)
    <2> SUFFICES ASSUME NEW i \in Jobs,
                        Rows(rows)[i] # None, Rows(rows)[i].payload \notin DryRuns, Rows(rows)[i].observation # None
                 PROVE  Bears(server'[i], Rows(rows)[i].observation)
        OBVIOUS
    <2>1. CASE i = j
        <3>1. rows[j] \in Row
            BY <1>1, <1>6
        <3>2. /\ Rows(rows)[j] = [rows[j] EXCEPT !.observation = seen]
              /\ Rows(rows)[j].observation = seen /\ Rows(rows)[j].payload = rows[j].payload
            BY <1>1, <1>6, <3>1 DEF Row
        <3>3. ~ DryRun(j)
            BY <1>6, <2>1, <3>2 DEF DryRun
        <3> QED BY <1>1, <1>2, <2>1, <3>2, <3>3, BearsStays
    <2>2. CASE i # j
        <3>1. Rows(rows)[i] = rows[i]
            BY <1>6, <2>2
        <3> QED BY <1>6, <3>1, ObservationsStay
    <2> QED BY <2>1, <2>2
<1> HIDE DEF Update, Rows
<1>7. ObservedTruly(ledger.jobs)'
    <2>1. ledger'.jobs = ledger.jobs \/ ledger'.jobs = Rows(ledger.jobs)
        <3>1. Update(Content(ledger)).jobs \in {ledger.jobs, Rows(ledger.jobs)}
            BY <1>4
        <3> QED BY <1>1, <1>3, <3>1 DEF Append, FailAppend, File, Ledgers
    <2>2. CASE ledger'.jobs = ledger.jobs
        BY <2>2, ObservationsStay DEF OInv, ObservedTruly
    <2>3. CASE ledger'.jobs = Rows(ledger.jobs)
        BY <1>1, <1>6, <2>3 DEF OInv, ObservedTruly
    <2> QED BY <2>1, <2>2, <2>3
<1>8. ObservedTruly(memory.jobs)'
    <2>1. memory'.jobs = memory.jobs \/ memory'.jobs = Rows(memory.jobs)
        BY <1>3, <1>5
    <2>2. CASE memory'.jobs = memory.jobs
        BY <1>1, <2>2, ObservationsStay DEF OInv, ObservedTruly
    <2>3. CASE memory'.jobs = Rows(memory.jobs)
        BY <1>1, <1>6, <2>3 DEF OInv, ObservedTruly
    <2> QED BY <2>1, <2>2, <2>3
<1>9. RejectionsAreKnown'
    <2>1. CASE Append(Update(Content(ledger))) /\ memory' = Update(memory)
        <3>1. ledger'.status = "good" => ledger.status = "good"
            BY <2>1 DEF Append, File
        <3>2. ledger'.rejected = Update(Content(ledger)).rejected
            BY <2>1 DEF Append, File
        <3> QED BY <1>1, <1>4, <1>5, <2>1, <3>1, <3>2 DEF OInv, RejectionsAreKnown
    <2>2. CASE FailAppend(Update(Content(ledger))) /\ memory' = memory
        <3>1. ledger'.status = "good" => ledger' = ledger
            BY <1>1, <2>2 DEF FailAppend, File, Ledgers
        <3> QED BY <1>1, <2>2, <3>1 DEF OInv, RejectionsAreKnown
    <2> QED BY <1>3, <2>1, <2>2
<1>10. /\ pc'[t] \in {"idle", "failed"}
       /\ \A u \in Threads \ {t} : pc'[u] = pc[u] /\ work'[u] = work[u]
    <2>1. CASE Done(t)
        BY <2>1, DoneEffect DEF IInv, TypeOK, Steps, Work
    <2>2. CASE Failing(t)
        BY <2>2 DEF Failing, IInv, TypeOK, Steps
    <2> QED BY <2>1, <2>2 DEF Observe
<1>11. \A i \in Jobs : memory.jobs[i] # None => memory'.jobs[i].payload = memory.jobs[i].payload
    <2>1. memory'.jobs = memory.jobs \/ memory'.jobs = Rows(memory.jobs)
        BY <1>3, <1>5
    <2> QED BY <1>1, <2>1 DEF Rows, Row
<1>12. ASSUME NEW u \in Threads, pc'[u] \in {"sent", "observe", "observe_only"}
       PROVE  /\ pc'[u] = pc[u] /\ work'[u] = work[u] /\ work[u].job \in Jobs
              /\ memory'.jobs[work[u].job].payload = memory.jobs[work[u].job].payload
    BY <1>10, <1>11, <1>12 DEF IInv, TypeOK, CallsAreReserved
<1>13. SentAsReserved'
    BY <1>12 DEF OInv, SentAsReserved
<1>14. SeenTruly'
    <2> SUFFICES ASSUME NEW u \in Threads, pc'[u] \in {"observe", "observe_only"}, ~ DryRun(work[u].job)'
                 PROVE  Bears(server'[work'[u].job], work'[u].seen)
        BY DEF SeenTruly
    <2>1. work[u].job \in Jobs /\ Bears(server[work[u].job], work[u].seen)
        BY <1>12 DEF OInv, SeenTruly, DryRun
    <2> QED BY <1>12, <2>1, BearsStays
<1> QED BY <1>7, <1>8, <1>9, <1>13, <1>14 DEF OInv

(* What a thread is shown of a job is what BigQuery says of it. *)
LEMMA SeeObserves ==
    ASSUME IInv, OInv, [Next]_vars, NEW t \in Threads, NEW j \in Jobs, NEW seen \in Seen,
           NEW step \in {"observe", "observe_only"}, See(t, j, seen, step),
           ~ DryRun(j) => Bears(server[j], seen)
    PROVE  OInv'
<1>1. /\ pc'[t] = step /\ work'[t].job = j /\ work'[t].seen = seen
      /\ \A u \in Threads \ {t} : pc'[u] = pc[u] /\ work'[u] = work[u]
    BY SeeEffect DEF IInv, TypeOK, Steps, Work
<1>2. ObservedTruly(ledger.jobs)' /\ (active => ObservedTruly(memory.jobs))' /\ RejectionsAreKnown'
    BY NoObservation DEF See
<1>3. memory' = memory
    BY DEF See
<1>4. SentAsReserved'
    BY <1>1, <1>3 DEF OInv, SentAsReserved
<1>5. SeenTruly'
    <2> SUFFICES ASSUME NEW u \in Threads, pc'[u] \in {"observe", "observe_only"}, ~ DryRun(work[u].job)'
                 PROVE  Bears(server'[work'[u].job], work'[u].seen)
        BY DEF SeenTruly
    <2>1. CASE u = t
        <3>1. ~ DryRun(j)
            BY <1>1, <1>3, <2>1 DEF DryRun
        <3> QED BY <1>1, <2>1, <3>1, BearsStays
    <2>2. CASE u # t
        <3>1. work[u].job \in Jobs /\ Bears(server[work[u].job], work[u].seen)
            BY <1>1, <1>3, <2>2 DEF OInv, SeenTruly, DryRun, IInv, TypeOK
        <3> QED BY <1>1, <2>2, <3>1, BearsStays
    <2> QED BY <2>1, <2>2
<1> QED BY <1>2, <1>4, <1>5 DEF OInv

LEMMA AnsweredObserves ==
    ASSUME IInv, OInv, [Next]_vars, NEW t \in Threads, Answered(t)
    PROVE  OInv'
<1> DEFINE j == work[t].job
<1>1. j \in Jobs /\ memory.jobs[j].payload = work[t].payload
    BY DEF Answered, IInv, TypeOK, OInv, SentAsReserved
<1>2. CASE work[t].payload \in DryRuns
    <2>1. [state |-> "DONE", billed |-> 0] \in Seen /\ DryRun(j)
        BY <1>1, <1>2, BytesAssumption DEF Seen, DryRun
    <2> QED BY <1>1, <1>2, <2>1, SeeObserves DEF Answered
<1>3. CASE work[t].payload \notin DryRuns
    <2>1. Report(j) \in Seen /\ Bears(server[j], Report(j))
        BY <1>1, <1>3 DEF Answered, Report, Seen, IInv, TypeOK, ServerJob, Bears
    <2> QED BY <1>1, <1>3, <2>1, SeeObserves DEF Answered
<1> QED BY <1>2, <1>3

LEMMA LookObserves ==
    ASSUME IInv, OInv, [Next]_vars, NEW t \in Threads, NEW j \in Jobs, Look(t, j)
    PROVE  OInv'
<1>1. Report(j) \in Seen /\ Bears(server[j], Report(j))
    BY DEF Look, Report, Seen, IInv, TypeOK, ServerJob, Bears
<1> QED BY <1>1, SeeObserves DEF Look

LEMMA SubmitObserves ==
    ASSUME IInv, OInv, [Next]_vars, NEW t \in Threads, Submit(t)
    PROVE  OInv'
<1>1. /\ ledger'.jobs = ledger.jobs
      /\ ledger'.status = "good" => ledger.status = "good" /\ ledger'.rejected = ledger.rejected
    BY NoteRecordsNothing DEF Submit
<1>2. ObservedTruly(ledger.jobs)' /\ (active => ObservedTruly(memory.jobs))' /\ RejectionsAreKnown'
    BY <1>1, NoObservation DEF Submit
<1>3. /\ memory' = memory /\ work' = work /\ memory.jobs[work[t].job].payload = work[t].payload
      /\ pc'[t] \in {"sent", "failed"} /\ \A u \in Threads \ {t} : pc'[u] = pc[u]
    BY DEF Submit, IInv, TypeOK
<1>4. SentAsReserved'
    BY <1>3 DEF OInv, SentAsReserved
<1>5. SeenTruly'
    <2> SUFFICES ASSUME NEW u \in Threads, pc'[u] \in {"observe", "observe_only"}, ~ DryRun(work[u].job)'
                 PROVE  Bears(server'[work'[u].job], work'[u].seen)
        BY DEF SeenTruly
    <2>1. u # t /\ pc[u] = pc'[u]
        BY <1>3
    <2>2. work[u].job \in Jobs /\ Bears(server[work[u].job], work[u].seen)
        BY <1>3, <2>1 DEF OInv, SeenTruly, DryRun, IInv, TypeOK
    <2> QED BY <1>3, <2>2, BearsStays
<1> QED BY <1>2, <1>4, <1>5 DEF OInv

LEMMA OtherObserves ==
    ASSUME IInv, OInv, [Next]_vars, NEW t \in Threads,
           (\E j \in Jobs : Resubmit(t, j)) \/ Unanswered(t) \/ Fail(t)
    PROVE  OInv'
<1>1. /\ ledger'.jobs = ledger.jobs
      /\ ledger'.status = "good" => ledger.status = "good" /\ ledger'.rejected = ledger.rejected
      /\ UNCHANGED <<active, memory>>
    BY NoteRecordsNothing DEF Resubmit, Unanswered, Fail
<1>2. ObservedTruly(ledger.jobs)' /\ (active => ObservedTruly(memory.jobs))' /\ RejectionsAreKnown'
    BY <1>1, NoObservation
<1>3. /\ pc'[t] \notin {"sent", "observe", "observe_only"}
      /\ \A u \in Threads \ {t} : pc'[u] = pc[u] /\ work'[u] = work[u]
    <2>1. ASSUME NEW j \in Jobs, Resubmit(t, j)
          PROVE  <1>3!1 /\ <1>3!2
        <3>1. memory.jobs[j].payload \in Payloads /\ pc[t] = "idle"
            BY <2>1 DEF Resubmit, IInv, TypeOK, Row
        <3>2. CASE Submitting(t, j, memory.jobs[j].payload)
            BY <3>1, <3>2, SubmittingEffect DEF IInv, TypeOK, Steps, Work
        <3>3. CASE UNCHANGED <<pc, work>>
            BY <3>1, <3>3
        <3> QED BY <2>1, <3>2, <3>3 DEF Resubmit
    <2>2. CASE Unanswered(t)
        BY <2>2 DEF Unanswered, IInv, TypeOK
    <2>3. CASE Fail(t)
        BY <2>3, DoneEffect DEF Fail, IInv, TypeOK, Steps, Work
    <2> QED BY <2>1, <2>2, <2>3
<1> QED BY <1>1, <1>2, <1>3, CallsStay DEF OInv

(* No thread moves: a note, a step of BigQuery, a request that is lost. *)
LEMMA QuietObserves ==
    ASSUME IInv, OInv, [Next]_vars, UNCHANGED <<active, memory, pc, work>>,
           Append(Content(ledger)) \/ FailAppend(Content(ledger)) \/ UNCHANGED ledger
    PROVE  OInv'
<1>1. /\ ledger'.jobs = ledger.jobs
      /\ ledger'.status = "good" => ledger.status = "good" /\ ledger'.rejected = ledger.rejected
    BY NoteRecordsNothing
<1>2. ObservedTruly(ledger.jobs)' /\ (active => ObservedTruly(memory.jobs))' /\ RejectionsAreKnown'
    BY <1>1, NoObservation
<1>3. SentAsReserved'
    BY DEF OInv, SentAsReserved
<1>4. SeenTruly'
    <2> SUFFICES ASSUME NEW u \in Threads, pc'[u] \in {"observe", "observe_only"}, ~ DryRun(work[u].job)'
                 PROVE  Bears(server'[work'[u].job], work'[u].seen)
        BY DEF SeenTruly
    <2>1. work[u].job \in Jobs /\ Bears(server[work[u].job], work[u].seen)
        BY DEF OInv, SeenTruly, DryRun, IInv, TypeOK
    <2> QED BY <2>1, BearsStays
<1> QED BY <1>2, <1>3, <1>4 DEF OInv

LEMMA OInvKept == IInv /\ OInv /\ [Next]_vars => OInv'
<1> SUFFICES ASSUME IInv, OInv, [Next]_vars PROVE OInv'
    OBVIOUS
<1>1. CASE UNCHANGED vars
    BY <1>1, QuietObserves DEF vars
<1>2. CASE Enter
    BY <1>2, EnterObserves
<1>3. CASE Leave
    BY <1>3, LeaveObserves
<1>4. CASE active /\ Note
    BY <1>4, QuietObserves DEF Note
<1>5. ASSUME active, NEW t \in Threads, NEW j \in Jobs, NEW p \in Payloads, Reserve(t, j, p)
      PROVE  OInv'
    BY <1>5, ReserveObserves
<1>6. ASSUME NEW t \in Threads, NEW j \in Jobs, Resubmit(t, j) \/ Look(t, j)
      PROVE  OInv'
    BY <1>6, OtherObserves, LookObserves
<1>7. ASSUME NEW t \in Threads, Submit(t) \/ Answered(t) \/ Unanswered(t) \/ Observe(t) \/ Fail(t)
      PROVE  OInv'
    BY <1>7, SubmitObserves, AnsweredObserves, OtherObserves, ObserveObserves
<1>8. CASE (\E r \in wire : Accept(r) \/ Lose(r)) \/ (\E j \in Jobs : Finish(j))
    BY <1>8, QuietObserves DEF Accept, Lose, Finish
<1> QED BY <1>1, <1>2, <1>3, <1>4, <1>5, <1>6, <1>7, <1>8 DEF Next

(* A job that runs or may run is reserved in memory and is no dry run, so a *)
(* complete summary has seen it done, and what was seen is what it cost.    *)
LEMMA CompleteIsTrue == IInv /\ OInv => CompleteTotalsAreTrue
<1> SUFFICES ASSUME IInv, OInv, active, Complete
             PROVE  \A j \in Jobs :
                       /\ server[j] # None =>
                             /\ memory.jobs[j] # None
                             /\ memory.jobs[j].observation =
                                   [state |-> server[j].state, billed |-> server[j].billed]
                       /\ \A r \in wire : server[r[1]] # None
    BY DEF CompleteTotalsAreTrue
<1>1. ASSUME NEW r \in Charged
      PROVE  LET seen == memory.jobs[r[1]].observation
             IN  /\ memory.jobs[r[1]] # None /\ seen # None /\ seen.state = "DONE"
                 /\ Bears(server[r[1]], seen)
    <2>1. /\ r[1] \in Jobs /\ r[2] \notin DryRuns
          /\ memory.jobs[r[1]] # None /\ memory.jobs[r[1]].payload = r[2]
        BY DEF IInv, ChargedIsReserved, Charged
    <2> QED BY <2>1 DEF Complete, Reserved, DryRun, OInv, ObservedTruly
<1>2. ASSUME NEW j \in Jobs, server[j] # None
      PROVE  /\ memory.jobs[j] # None
             /\ memory.jobs[j].observation = [state |-> server[j].state, billed |-> server[j].billed]
    <2> DEFINE r == <<j, server[j].payload>>
               seen == memory.jobs[j].observation
    <2>1. server[j] \in ServerJob
        BY <1>2 DEF IInv, TypeOK
    <2>2. r \in Charged
        BY <1>2, <2>1 DEF Charged, ServerJob
    <2>3. memory.jobs[j] # None /\ seen # None /\ seen.state = "DONE" /\ Bears(server[j], seen)
        BY <1>1, <2>2
    <2>4. seen \in Seen
        BY <2>3 DEF IInv, TypeOK, Row
    <2>5. seen = [state |-> seen.state, billed |-> seen.billed]
        BY <2>4 DEF Seen
    <2> QED BY <2>3, <2>5 DEF Bears
<1>3. ASSUME NEW r \in wire
      PROVE  server[r[1]] # None
    <2>1. r \in Charged
        BY DEF IInv, TypeOK, Charged
    <2> QED BY <1>1, <2>1 DEF Bears
<1> QED BY <1>2, <1>3

LEMMA GrantedIsTrue == IInv /\ OInv => GrantsAreBacked
BY DEF GrantsAreBacked, Grants, DryRun, OInv, RejectionsAreKnown, ObservedTruly, Bears

(* What the recorder concludes holds whatever sessions, lost answers and    *)
(* late requests there were: a billed total that it calls complete is what  *)
(* BigQuery has billed or will ever bill of the run, and a job whose        *)
(* destination it opens is done and was not rejected in any session.        *)
THEOREM ConclusionsHold == Spec => []ConclusionsAreTrue
<1>1. Init => IInv /\ OInv
    BY Initially, ObservedInitially
<1>2. IInv /\ OInv /\ [Next]_vars => IInv' /\ OInv'
    BY IInvKept, OInvKept
<1>3. IInv /\ OInv => ConclusionsAreTrue
    BY CompleteIsTrue, GrantedIsTrue DEF ConclusionsAreTrue
<1> QED BY <1>1, <1>2, <1>3, PTL DEF Spec
=============================================================================
