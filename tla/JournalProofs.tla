---------------------------- MODULE JournalProofs ----------------------------
(***************************************************************************)
(* Proofs about Journal, for any processes, receipts and batches; about the *)
(* three that measure what is retained, as MCControls places them: the      *)
(* control tests of SourceControls, for any files, times and strays, the    *)
(* bundles of EvidenceBundle, for any entries, fees and ERP file, and       *)
(* Comparisons, for any datasets, outputs and raw tables; and about the     *)
(* usage imported into an application (UsageImport, as Usage), for any      *)
(* operators and samples, with what a report says of it.                    *)
(***************************************************************************)
EXTENDS Journal, MCControls, UsageEvidence, SequenceTheorems, FiniteSetTheorems,
        WellFoundedInduction, TLAPS

-----------------------------------------------------------------------------
(* Sequences: prefixes, and what is left of a sequence behind a prefix.     *)

LEMMA PrefixPointwise ==
    ASSUME NEW S, NEW s \in Seq(S), NEW t \in Seq(S)
    PROVE  IsPrefix(s, t) <=>
             Len(s) <= Len(t) /\ \A i \in 1 .. Len(s) : s[i] = t[i]
<1>1. SubSeq(s, 1, Len(s)) = s
    BY SubSeqFull
<1>2. ASSUME Len(s) <= Len(t)
      PROVE  /\ SubSeq(t, 1, Len(s)) \in Seq(S)
             /\ Len(SubSeq(t, 1, Len(s))) = Len(s)
             /\ \A i \in 1 .. Len(s) : SubSeq(t, 1, Len(s))[i] = t[i]
    <2>1. \A i \in 1 .. Len(s) : t[i] \in S
        BY <1>2, LenProperties, ElementOfSeq
    <2>2. Len(s) \in Nat /\ Len(t) \in Nat
        BY LenProperties
    <2> QED BY <2>1, <2>2, SubSeqProperties
<1>3. ASSUME Len(s) <= Len(t), \A i \in 1 .. Len(s) : s[i] = t[i]
      PROVE  s = SubSeq(t, 1, Len(s))
    BY <1>2, <1>3, SeqEqual
<1> QED BY <1>1, <1>2, <1>3 DEF IsPrefix

LEMMA CellsAssociate ==
    ASSUME NEW s \in Seq(Cell), NEW t \in Seq(Cell), NEW u \in Seq(Cell)
    PROVE  (s \o t) \o u = s \o (t \o u)
<1> DEFINE S == Cell
<1>1. s \in Seq(S) /\ t \in Seq(S) /\ u \in Seq(S)
    OBVIOUS
<1> HIDE DEF S
<1>2. \A w \in Seq(S) : (s \o t) \o w = s \o (t \o w)
    BY <1>1, ConcatAssociative
<1> QED BY <1>1, <1>2

LEMMA PrefixReflexive ==
    ASSUME NEW S, NEW s \in Seq(S)
    PROVE  IsPrefix(s, s)
BY PrefixPointwise, LenProperties

LEMMA PrefixOfConcat ==
    ASSUME NEW S, NEW s \in Seq(S), NEW t \in Seq(S)
    PROVE  IsPrefix(s, s \o t)
<1>1. Len(s) \in Nat /\ Len(t) \in Nat
    BY LenProperties
<1>2. s \o t \in Seq(S) /\ Len(s \o t) = Len(s) + Len(t)
      /\ \A i \in 1 .. Len(s) : (s \o t)[i] = s[i]
    BY <1>1, ConcatProperties
<1>3. Len(s) <= Len(s \o t) /\ \A i \in 1 .. Len(s) : s[i] = (s \o t)[i]
    BY <1>1, <1>2
<1> QED BY <1>2, <1>3, PrefixPointwise

LEMMA PrefixTransitive ==
    ASSUME NEW S, NEW s \in Seq(S), NEW t \in Seq(S), NEW u \in Seq(S),
           IsPrefix(s, t), IsPrefix(t, u)
    PROVE  IsPrefix(s, u)
BY PrefixPointwise, LenProperties

LEMMA RestOfPrefix ==
    ASSUME NEW S, NEW s \in Seq(S), NEW t \in Seq(S), IsPrefix(s, t)
    PROVE  /\ SubSeq(t, Len(s) + 1, Len(t)) \in Seq(S)
           /\ s \o SubSeq(t, Len(s) + 1, Len(t)) = t
<1> DEFINE rest == SubSeq(t, Len(s) + 1, Len(t))
<1>1. Len(s) \in Nat /\ Len(t) \in Nat /\ Len(s) <= Len(t)
    BY LenProperties DEF IsPrefix
<1>2. \A i \in Len(s) + 1 .. Len(t) : t[i] \in S
    BY <1>1, ElementOfSeq
<1>3. rest \in Seq(S) /\ Len(rest) = Len(t) - Len(s)
      /\ \A i \in 1 .. Len(rest) : rest[i] = t[Len(s) + i]
    BY <1>1, <1>2, SubSeqProperties
<1>4. s \o rest \in Seq(S) /\ Len(s \o rest) = Len(t)
    BY <1>1, <1>3, ConcatProperties
<1>5. \A i \in 1 .. Len(t) : (s \o rest)[i] = t[i]
    BY <1>1, <1>3, ConcatProperties, PrefixPointwise
<1> QED BY <1>3, <1>4, <1>5, SeqEqual

LEMMA SplitSequence ==
    ASSUME NEW S, NEW s \in Seq(S), NEW n \in 1 .. Len(s)
    PROVE  /\ SubSeq(s, 1, n) \in Seq(S)
           /\ SubSeq(s, n + 1, Len(s)) \in Seq(S)
           /\ SubSeq(s, 1, n) \o SubSeq(s, n + 1, Len(s)) = s
<1>1. Len(s) \in Nat
    BY LenProperties
<1>2. SubSeq(s, 1, n) \in Seq(S) /\ SubSeq(s, n + 1, Len(s)) \in Seq(S)
    BY <1>1, ElementOfSeq, SubSeqProperties
<1>3. SubSeq(s, 1, n) \o SubSeq(s, n + 1, Len(s)) = SubSeq(s, 1, Len(s))
    BY <1>1, ConcatAdjacentSubSeq
<1> QED BY <1>2, <1>3, SubSeqFull

-----------------------------------------------------------------------------
(* Contents: the lines of a batch, and the records behind the lines. *)

LEMMA LinesProperties ==
    ASSUME NEW b \in Seq(Records)
    PROVE  /\ Lines(b) \in Seq(Cell)
           /\ Len(Lines(b)) = 2 * Len(b)
           /\ \A k \in 1 .. Len(b) : Lines(b)[2 * k][1] = b[k]
<1>1. Len(b) \in Nat /\ \A k \in 1 .. Len(b) : b[k] \in Records
    BY LenProperties, ElementOfSeq
<1>2. \A i \in 1 .. 2 * Len(b) : (i + 1) \div 2 \in 1 .. Len(b)
    BY <1>1
<1>3. \A i \in 1 .. 2 * Len(b) :
        <<b[(i + 1) \div 2], IF i % 2 = 1 THEN "head" ELSE "tail">> \in Cell
    BY <1>1, <1>2 DEF Cell
<1>4. Lines(b) \in [1 .. 2 * Len(b) -> Cell]
    BY <1>3 DEF Lines
<1>5. Lines(b) \in Seq(Cell) /\ Len(Lines(b)) = 2 * Len(b)
    BY <1>1, <1>4
<1>6. ASSUME NEW k \in 1 .. Len(b)
      PROVE  Lines(b)[2 * k][1] = b[k]
    <2>1. k \in Nat /\ 2 * k \in 1 .. 2 * Len(b) /\ (2 * k + 1) \div 2 = k
        BY <1>1
    <2> QED BY <2>1 DEF Lines
<1> QED BY <1>5, <1>6

LEMMA HalfOfDouble ==
    \A x, y \in Nat : (2 * x + 2 * y) \div 2 = x + y
OBVIOUS

LEMMA RecordsOfAppend ==
    ASSUME NEW content \in Seq(Cell), Len(content) % 2 = 0,
           NEW b \in Seq(Records)
    PROVE  RecordsOf(content \o Lines(b)) = RecordsOf(content) \o b
<1> DEFINE whole == content \o Lines(b)
           n == Len(content) \div 2
<1>1. Len(content) \in Nat /\ Len(b) \in Nat /\ n \in Nat /\ Len(content) = 2 * n
    BY LenProperties
<1>2. /\ whole \in Seq(Cell)
      /\ Len(whole) = 2 * n + 2 * Len(b)
      /\ \A i \in 1 .. 2 * n : whole[i] = content[i]
      /\ \A i \in 1 .. 2 * Len(b) : whole[2 * n + i] = Lines(b)[i]
    <2>1. Lines(b) \in Seq(Cell) /\ Len(Lines(b)) = 2 * Len(b)
        BY LinesProperties
    <2>2. /\ whole \in Seq(Cell)
          /\ Len(whole) = Len(content) + Len(Lines(b))
          /\ \A i \in 1 .. Len(content) + Len(Lines(b)) : whole[i] =
                 IF i <= Len(content) THEN content[i] ELSE Lines(b)[i - Len(content)]
        BY <2>1, ConcatProperties
    <2> HIDE DEF n, whole
    <2>3. ASSUME NEW i \in 1 .. 2 * Len(b)
          PROVE  whole[2 * n + i] = Lines(b)[i]
        <3> DEFINE j == 2 * n + i
        <3>1. /\ j \in 1 .. Len(content) + Len(Lines(b))
              /\ ~ (j <= Len(content))
              /\ j - Len(content) = i
            BY <1>1, <2>1
        <3> HIDE DEF j
        <3>2. whole[j] = Lines(b)[j - Len(content)]
            BY <2>2, <3>1
        <3> QED BY <3>1, <3>2 DEF j
    <2>4. ASSUME NEW i \in 1 .. 2 * n
          PROVE  whole[i] = content[i]
        <3>1. /\ i \in 1 .. Len(content) + Len(Lines(b))
              /\ i <= Len(content)
            BY <1>1, <2>1
        <3> QED BY <2>2, <3>1
    <2> QED BY <1>1, <2>1, <2>2, <2>3, <2>4
<1>3. Len(whole) \div 2 = n + Len(b)
    BY <1>1, <1>2, HalfOfDouble
<1>4. /\ RecordsOf(content) = [k \in 1 .. n |-> content[2 * k][1]]
      /\ RecordsOf(content) \in Seq(Records)
      /\ Len(RecordsOf(content)) = n
    <2>1. \A k \in 1 .. n : content[2 * k][1] \in Records
        <3>1. \A k \in 1 .. n : 2 * k \in 1 .. Len(content)
            BY <1>1
        <3> QED BY <3>1, ElementOfSeq DEF Cell
    <2> QED BY <1>1, <2>1 DEF RecordsOf
<1>5. /\ RecordsOf(whole) = [k \in 1 .. n + Len(b) |-> whole[2 * k][1]]
      /\ RecordsOf(whole) \in Seq(Records)
      /\ Len(RecordsOf(whole)) = n + Len(b)
    <2>1. \A k \in 1 .. n + Len(b) : 2 * k \in 1 .. Len(whole)
        <3> HIDE DEF n, whole
        <3> QED BY <1>1, <1>2
    <2>2. \A k \in 1 .. n + Len(b) : whole[2 * k][1] \in Records
        BY <1>2, <2>1, ElementOfSeq DEF Cell
    <2>3. RecordsOf(whole) = [k \in 1 .. n + Len(b) |-> whole[2 * k][1]]
        BY <1>3 DEF RecordsOf
    <2> HIDE DEF n, whole
    <2> QED BY <1>1, <2>2, <2>3
<1>6. /\ RecordsOf(content) \o b \in Seq(Records)
      /\ Len(RecordsOf(content) \o b) = n + Len(b)
    BY <1>1, <1>4, ConcatProperties
<1>7. ASSUME NEW k \in 1 .. n + Len(b)
      PROVE  RecordsOf(whole)[k] = (RecordsOf(content) \o b)[k]
    <2>1. CASE k <= n
        <3>1. k \in 1 .. n /\ 2 * k \in 1 .. 2 * n
            BY <1>1, <2>1
        <3>2. RecordsOf(whole)[k] = content[2 * k][1]
            <4>1. RecordsOf(whole)[k] = whole[2 * k][1]
                BY <1>5
            <4>2. whole[2 * k] = content[2 * k]
                BY <1>2, <3>1
            <4> QED BY <4>1, <4>2
        <3>3. (RecordsOf(content) \o b)[k] = content[2 * k][1]
            BY <1>1, <1>4, <3>1, ConcatProperties
        <3> QED BY <3>2, <3>3
    <2>2. CASE ~ (k <= n)
        <3>1. PICK j \in 1 .. Len(b) : k = n + j
            <4>1. k - n \in 1 .. Len(b) /\ k = n + (k - n)
                BY <1>1, <2>2
            <4> QED BY <4>1
        <3>2. 2 * k = 2 * n + 2 * j /\ 2 * j \in 1 .. 2 * Len(b)
            BY <1>1, <3>1
        <3>3. RecordsOf(whole)[k] = whole[2 * k][1]
            BY <1>5
        <3>4. whole[2 * k] = Lines(b)[2 * j]
            BY <1>2, <3>2
        <3>5. (RecordsOf(content) \o b)[k] = b[j]
            BY <1>1, <1>4, <3>1, ConcatProperties
        <3> QED BY <3>3, <3>4, <3>5, LinesProperties
    <2> QED BY <2>1, <2>2
<1> QED BY <1>5, <1>6, <1>7, SeqEqual

LEMMA EmptyLedgerParses == Parses(<< >>) /\ RecordsOf(<< >>) = << >>
<1>1. RecordsOf(<< >>) = << >>
    BY DEF RecordsOf
<1>2. Lines(<< >>) = << >>
    BY DEF Lines
<1> QED BY <1>1, <1>2 DEF Parses, Distinct

-----------------------------------------------------------------------------
(* Type correctness. *)

LEMMA BatchesAreSequences == Batches \cup {<< >>} \subseteq Seq(Records)
<1>1. << >> \in Seq(Records)
    BY EmptySeq
<1> QED BY <1>1, BatchesAssumption

(* THEOREM: the variables of the journal keep their types. *)
THEOREM TypeCorrect == Spec => []TypeOK
<1> USE BatchesAssumption, NoProcAssumption DEF TypeOK, Steps, Locked
<1>1. Init => TypeOK
    BY EmptySeq DEF Init
<1>2. TypeOK /\ [Next]_vars => TypeOK'
    <2> SUFFICES ASSUME TypeOK, [Next]_vars PROVE TypeOK'
        OBVIOUS
    <2> USE DEF disk, locals
    <2>1. ASSUME NEW p \in Procs, Leave(p), UNCHANGED <<disk, seen>>
          PROVE  TypeOK'
        BY <2>1, EmptySeq DEF Leave
    <2>2. ASSUME NEW p \in Procs, BeginAppend(p) PROVE TypeOK'
        BY <2>2 DEF BeginAppend, Acquire
    <2>3. ASSUME NEW p \in Procs, PrepareIntent(p) PROVE TypeOK'
        <3>1. CASE Leave(p)
            BY <2>1, <2>3, <3>1 DEF PrepareIntent
        <3>2. CASE ~ Leave(p)
            <4>1. /\ previous' = [previous EXCEPT ![p] = file] /\ pc' = [pc EXCEPT ![p] = "publish"]
                  /\ UNCHANGED <<lock, lockFile, batch, remaining, disk, seen>>
                BY <2>3, <3>2 DEF PrepareIntent
            <4> QED BY <4>1
        <3> QED BY <3>1, <3>2
    <2>4. ASSUME NEW p \in Procs, Publish(p) PROVE TypeOK'
        <3>1. batch[p] \in Seq(Records)
            BY BatchesAreSequences
        <3>2. pending' \in Intent
            BY <2>4, <3>1, LinesProperties DEF Publish, Intent
        <3> QED BY <2>4, <3>2 DEF Publish
    <2>5. ASSUME NEW p \in Procs, BeginRecover(p) PROVE TypeOK'
        BY <2>5 DEF BeginRecover, Acquire
    <2>6. ASSUME NEW p \in Procs, Inspect(p) PROVE TypeOK'
        BY <2>1, <2>6 DEF Inspect
    <2>7. ASSUME NEW p \in Procs, CheckIntent(p) PROVE TypeOK'
        <3>1. CASE pending # NoIntent /\ FinishAccepts(file, pending)
            <4>1. Whole(pending) \in Seq(Cell)
                BY <3>1, ConcatProperties DEF Whole, Intent
            <4> DEFINE rest == SubSeq(Whole(pending), Len(file) + 1, Len(Whole(pending)))
            <4>2. rest \in Seq(Cell)
                BY <3>1, <4>1, RestOfPrefix DEF FinishAccepts
            <4>3. /\ remaining' = [remaining EXCEPT ![p] = rest]
                  /\ pc' = [pc EXCEPT ![p] = "write"]
                  /\ UNCHANGED <<lock, lockFile, batch, previous, disk, seen>>
                BY <2>7, <3>1 DEF CheckIntent
            <4> HIDE DEF rest
            <4> QED BY <4>2, <4>3
        <3>2. CASE ~ (pending # NoIntent /\ FinishAccepts(file, pending))
            BY <2>1, <2>7, <3>2 DEF CheckIntent
        <3> QED BY <3>1, <3>2
    <2>8. ASSUME NEW p \in Procs, WriteSome(p) PROVE TypeOK'
        <3>1. PICK n \in 1 .. Len(remaining[p]) :
                 /\ file' = file \o SubSeq(remaining[p], 1, n)
                 /\ remaining' = [remaining EXCEPT ![p] =
                        SubSeq(remaining[p], n + 1, Len(remaining[p]))]
            BY <2>8 DEF WriteSome
        <3> DEFINE written == SubSeq(remaining[p], 1, n)
                   rest == SubSeq(remaining[p], n + 1, Len(remaining[p]))
        <3>2. written \in Seq(Cell) /\ rest \in Seq(Cell)
            BY SplitSequence
        <3>3. /\ file' = file \o written
              /\ remaining' = [remaining EXCEPT ![p] = rest]
            BY <3>1
        <3> HIDE DEF written, rest
        <3>4. file' \in Seq(Cell)
            BY <3>2, <3>3, ConcatProperties
        <3>5. UNCHANGED <<pending, audits, lock, lockFile, pc, batch, previous, seen>>
            BY <2>8 DEF WriteSome
        <3>6. remaining' \in [Procs -> Seq(Cell)]
            BY <3>2, <3>3
        <3> QED BY <3>4, <3>5, <3>6
    <2>9. ASSUME NEW p \in Procs, Archive(p) PROVE TypeOK'
        BY <2>9, EmptySeq DEF Archive, Leave
    <2>10. ASSUME NEW p \in Procs, BeginRead(p) PROVE TypeOK'
        BY <2>10 DEF BeginRead
    <2>11. ASSUME NEW p \in Procs, Read(p) PROVE TypeOK'
        BY <2>11 DEF Read
    <2>12. ASSUME NEW p \in Procs, Crash(p) PROVE TypeOK'
        BY <2>1, <2>12 DEF Crash
    <2>13. CASE UNCHANGED vars
        BY <2>13 DEF vars
    <2> QED BY <2>2, <2>3, <2>4, <2>5, <2>6, <2>7, <2>8, <2>9, <2>10, <2>11,
               <2>12, <2>13 DEF Next, Step
<1> QED BY <1>1, <1>2, PTL DEF Spec

-----------------------------------------------------------------------------
(* The inductive invariant.  What the lock protects is stated step by step: *)
(* between the moment a call looked at the files and the moment it acts on  *)
(* what it saw, nobody else can have changed them.                          *)

(* One process is inside a `with ledger_lock` block: the one with the lock. *)
LockInv == \A p \in Procs : pc[p] \in Locked <=> lock = p

StepInv == \A p \in Procs :
    /\ pc[p] \in {"append", "publish"} => batch[p] \in Batches
    /\ pc[p] = "publish" =>
          /\ pending = NoIntent
          /\ previous[p] = file
          /\ Parses(file \o Lines(batch[p]))
    /\ pc[p] = "finish" => pending # NoIntent
    /\ pc[p] = "write" =>
          /\ pending # NoIntent
          /\ file \o remaining[p] = Whole(pending)

(* The ledger lies between the base of the pending intent and its whole.    *)
PendingInv ==
    pending # NoIntent =>
        /\ IsPrefix(pending.base, file)
        /\ IsPrefix(file, Whole(pending))
        /\ pending.payload # << >>

(* Archived intents end where the pending one begins, or earlier. *)
Settled == IF pending = NoIntent THEN file ELSE pending.base
AuditInv == \A i \in audits : Len(Whole(i)) <= Len(Settled)

IInv ==
    /\ TypeOK
    /\ LockInv
    /\ StepInv
    /\ PendingInv
    /\ AuditInv
    /\ LedgerParses

LEMMA LinesOfBatch ==
    ASSUME NEW b \in Batches
    PROVE  Lines(b) \in Seq(Cell) /\ Lines(b) # << >>
<1>1. b \in Seq(Records) /\ b # << >>
    BY BatchesAssumption
<1>2. Len(b) \in Nat \ {0}
    BY <1>1, EmptySeq, LenProperties
<1>3. Lines(b) \in Seq(Cell) /\ Len(Lines(b)) = 2 * Len(b)
    BY <1>1, LinesProperties
<1>4. Len(Lines(b)) # 0
    BY <1>2, <1>3
<1> QED BY <1>3, <1>4, EmptySeq

LEMMA WholeIsContent ==
    ASSUME NEW i \in Intent
    PROVE  /\ i.base \in Seq(Cell) /\ i.payload \in Seq(Cell)
           /\ Whole(i) \in Seq(Cell)
           /\ Len(Whole(i)) = Len(i.base) + Len(i.payload)
<1>1. i.base \in Seq(Cell) /\ i.payload \in Seq(Cell)
    BY DEF Intent
<1> QED BY <1>1, ConcatProperties DEF Whole

LEMMA BaseIsShorter ==
    ASSUME NEW i \in Intent
    PROVE  /\ Len(i.base) \in Nat
           /\ Len(Whole(i)) \in Nat
           /\ Len(i.base) <= Len(Whole(i))
           /\ i.payload # << >> => Len(i.base) < Len(Whole(i))
<1> DEFINE m == Len(i.base)
           n == Len(i.payload)
           w == Len(Whole(i))
<1>1. m \in Nat /\ n \in Nat /\ w = m + n
    BY WholeIsContent, LenProperties
<1>2. i.payload # << >> => n # 0
    BY WholeIsContent, EmptySeq
<1> HIDE DEF m, n, w
<1>3. w \in Nat /\ m <= w /\ (n # 0 => m < w)
    BY <1>1
<1> QED BY <1>1, <1>2, <1>3 DEF m, n, w

(* Steps that leave the files alone and only move one call along. *)
LEMMA DiskUnchanged ==
    ASSUME IInv, UNCHANGED disk
    PROVE  PendingInv' /\ AuditInv' /\ LedgerParses'
BY DEF IInv, disk, PendingInv, AuditInv, Settled, LedgerParses, Committed

LEMMA InitialStates == Init => IInv
<1> SUFFICES ASSUME Init PROVE IInv
    OBVIOUS
<1>1. TypeOK
    BY EmptySeq, NoProcAssumption DEF Init, TypeOK, Steps, Locked
<1>2. LedgerParses
    BY EmptyLedgerParses DEF Init, LedgerParses, Committed
<1> QED BY <1>1, <1>2, NoProcAssumption
        DEF Init, IInv, LockInv, StepInv, PendingInv, AuditInv, Settled, Locked

LEMMA InductiveStep == IInv /\ TypeOK' /\ [Next]_vars => IInv'
<1> SUFFICES ASSUME IInv, TypeOK', [Next]_vars PROVE IInv'
    OBVIOUS
<1> USE NoProcAssumption
<1>a. TypeOK /\ LockInv /\ StepInv /\ PendingInv /\ AuditInv /\ LedgerParses
    BY DEF IInv
<1>1. ASSUME NEW p \in Procs, Leave(p), UNCHANGED disk PROVE IInv'
    <2>1. LockInv'
        BY <1>a, <1>1 DEF TypeOK, LockInv, Leave, Locked
    <2>2. StepInv'
        BY <1>a, <1>1 DEF TypeOK, StepInv, Leave, disk
    <2> QED BY <1>1, <2>1, <2>2, DiskUnchanged DEF IInv
<1>2. ASSUME NEW p \in Procs, BeginAppend(p) PROVE IInv'
    <2>1. UNCHANGED disk /\ lock = NoProc /\ pc[p] = "idle"
        BY <1>2 DEF BeginAppend, Acquire
    <2>2. LockInv'
        BY <1>a, <1>2 DEF TypeOK, LockInv, BeginAppend, Acquire, Locked
    <2>3. StepInv'
        BY <1>a, <1>2 DEF TypeOK, StepInv, BeginAppend, Acquire, disk
    <2> QED BY <2>1, <2>2, <2>3, DiskUnchanged DEF IInv
<1>3. ASSUME NEW p \in Procs, PrepareIntent(p) PROVE IInv'
    <2>1. CASE pending = NoIntent /\ Parses(file \o Lines(batch[p]))
        <3>1. /\ pc[p] = "append" /\ UNCHANGED <<disk, lock, batch, remaining>>
              /\ previous' = [previous EXCEPT ![p] = file]
              /\ pc' = [pc EXCEPT ![p] = "publish"]
            BY <1>3, <2>1 DEF PrepareIntent
        <3>2. LockInv'
            BY <1>a, <3>1 DEF TypeOK, LockInv, Locked
        <3>3. StepInv'
            BY <1>a, <2>1, <3>1 DEF TypeOK, StepInv, disk
        <3> QED BY <3>1, <3>2, <3>3, DiskUnchanged DEF IInv
    <2>2. CASE ~ (pending = NoIntent /\ Parses(file \o Lines(batch[p])))
        BY <1>1, <1>3, <2>2 DEF PrepareIntent
    <2> QED BY <2>1, <2>2
<1>4. ASSUME NEW p \in Procs, Publish(p) PROVE IInv'
    <2>1. /\ pc[p] = "publish" /\ batch[p] \in Batches
          /\ pending = NoIntent /\ previous[p] = file
          /\ Parses(file \o Lines(batch[p]))
        BY <1>a, <1>4 DEF Publish, StepInv
    <2>2. /\ pending' = [base |-> file, payload |-> Lines(batch[p])]
          /\ pc' = [pc EXCEPT ![p] = "finish"]
          /\ UNCHANGED <<file, audits, lock, lockFile, locals, seen>>
        BY <1>4, <2>1 DEF Publish
    <2>3. Lines(batch[p]) \in Seq(Cell) /\ Lines(batch[p]) # << >> /\ file \in Seq(Cell)
        BY <1>a, <2>1, LinesOfBatch DEF TypeOK
    <2>4. pending' \in Intent /\ pending' # NoIntent
        BY <2>2, <2>3, NoIntentAssumption DEF Intent
    <2>5. Whole(pending') = file \o Lines(batch[p])
        BY <2>2 DEF Whole
    <2>6. LockInv'
        BY <1>a, <2>1, <2>2 DEF TypeOK, LockInv, Locked
    <2>7. StepInv'
        <3>1. \A q \in Procs : q # p => pc[q] \notin Locked
            BY <1>a, <2>1 DEF LockInv, Locked
        <3> QED BY <1>a, <2>1, <2>2, <2>4, <3>1 DEF TypeOK, StepInv, Locked, locals
    <2>8. PendingInv'
        BY <2>2, <2>3, <2>4, <2>5, PrefixReflexive, PrefixOfConcat DEF PendingInv
    <2>9. AuditInv'
        BY <1>a, <2>1, <2>2, <2>4 DEF AuditInv, Settled
    <2>10. LedgerParses'
        BY <2>1, <2>4, <2>5 DEF LedgerParses, Committed
    <2> QED BY <2>6, <2>7, <2>8, <2>9, <2>10 DEF IInv
<1>5. ASSUME NEW p \in Procs, BeginRecover(p) PROVE IInv'
    <2>1. UNCHANGED disk
        BY <1>5 DEF BeginRecover
    <2>2. LockInv'
        BY <1>a, <1>5 DEF TypeOK, LockInv, BeginRecover, Acquire, Locked
    <2>3. StepInv'
        BY <1>a, <1>5 DEF TypeOK, StepInv, BeginRecover, Acquire, disk, locals
    <2> QED BY <2>1, <2>2, <2>3, DiskUnchanged DEF IInv
<1>6. ASSUME NEW p \in Procs, Inspect(p) PROVE IInv'
    <2>1. CASE pending # NoIntent
        <3>1. /\ pc[p] = "recover" /\ UNCHANGED <<disk, lock, locals>>
              /\ pc' = [pc EXCEPT ![p] = "finish"]
            BY <1>6, <2>1 DEF Inspect
        <3>2. LockInv'
            BY <1>a, <3>1 DEF TypeOK, LockInv, Locked
        <3>3. StepInv'
            BY <1>a, <2>1, <3>1 DEF TypeOK, StepInv, disk, locals
        <3> QED BY <3>1, <3>2, <3>3, DiskUnchanged DEF IInv
    <2>2. CASE pending = NoIntent
        BY <1>1, <1>6, <2>2 DEF Inspect
    <2> QED BY <2>1, <2>2
<1>7. ASSUME NEW p \in Procs, CheckIntent(p) PROVE IInv'
    <2>1. CASE pending # NoIntent /\ FinishAccepts(file, pending)
        <3> DEFINE rest == SubSeq(Whole(pending), Len(file) + 1, Len(Whole(pending)))
        <3>1. /\ pc[p] = "finish" /\ UNCHANGED <<disk, lock, batch, previous>>
              /\ remaining' = [remaining EXCEPT ![p] = rest]
              /\ pc' = [pc EXCEPT ![p] = "write"]
            BY <1>7, <2>1 DEF CheckIntent
        <3>2. file \in Seq(Cell) /\ Whole(pending) \in Seq(Cell)
            BY <1>a, <2>1, WholeIsContent DEF TypeOK
        <3>3. file \o rest = Whole(pending)
            BY <2>1, <3>2, RestOfPrefix DEF FinishAccepts
        <3> HIDE DEF rest
        <3>4. LockInv'
            BY <1>a, <3>1 DEF TypeOK, LockInv, Locked
        <3>5. StepInv'
            BY <1>a, <2>1, <3>1, <3>3 DEF TypeOK, StepInv, disk
        <3> QED BY <3>1, <3>4, <3>5, DiskUnchanged DEF IInv
    <2>2. CASE ~ (pending # NoIntent /\ FinishAccepts(file, pending))
        BY <1>1, <1>7, <2>2 DEF CheckIntent
    <2> QED BY <2>1, <2>2
<1>8. ASSUME NEW p \in Procs, WriteSome(p) PROVE IInv'
    <2>1. PICK n \in 1 .. Len(remaining[p]) :
             /\ file' = file \o SubSeq(remaining[p], 1, n)
             /\ remaining' = [remaining EXCEPT ![p] =
                    SubSeq(remaining[p], n + 1, Len(remaining[p]))]
        BY <1>8 DEF WriteSome
    <2> DEFINE written == SubSeq(remaining[p], 1, n)
               rest == SubSeq(remaining[p], n + 1, Len(remaining[p]))
    <2>2. /\ pc[p] = "write" /\ file' = file \o written
          /\ remaining' = [remaining EXCEPT ![p] = rest]
          /\ UNCHANGED <<pending, audits, lock, pc, batch, previous>>
        BY <1>8, <2>1 DEF WriteSome
    <2>3. /\ file \in Seq(Cell) /\ remaining[p] \in Seq(Cell)
          /\ written \in Seq(Cell) /\ rest \in Seq(Cell)
          /\ written \o rest = remaining[p]
        BY <1>a, SplitSequence DEF TypeOK
    <2> HIDE DEF written, rest
    <2>4. /\ pending # NoIntent /\ pending \in Intent
          /\ file \o remaining[p] = Whole(pending)
        BY <1>a, <2>2 DEF StepInv, TypeOK
    <2>5. file' \in Seq(Cell) /\ file' \o rest = Whole(pending)
        <3>1. file' \in Seq(Cell)
            BY <2>2, <2>3, ConcatProperties
        <3>2. (file \o written) \o rest = file \o (written \o rest)
            BY <2>3, CellsAssociate
        <3> QED BY <2>2, <2>3, <2>4, <3>1, <3>2
    <2>6. LockInv'
        BY <1>a, <2>2 DEF LockInv
    <2>7. StepInv'
        <3>1. \A q \in Procs : q # p => pc[q] \notin Locked
            BY <1>a, <2>2 DEF LockInv, Locked
        <3> QED BY <1>a, <2>2, <2>4, <2>5, <3>1 DEF TypeOK, StepInv, Locked
    <2>8. PendingInv'
        <3>1. IsPrefix(file', Whole(pending))
            BY <2>3, <2>5, PrefixOfConcat
        <3>2. IsPrefix(file, file')
            BY <2>2, <2>3, PrefixOfConcat
        <3>3. IsPrefix(pending.base, file')
            BY <1>a, <2>3, <2>4, <2>5, <3>2, WholeIsContent, PrefixTransitive DEF PendingInv
        <3> QED BY <1>a, <2>2, <2>4, <3>1, <3>3 DEF PendingInv
    <2>9. AuditInv'
        BY <1>a, <2>2, <2>4 DEF AuditInv, Settled
    <2>10. LedgerParses'
        BY <1>a, <2>2, <2>4 DEF LedgerParses, Committed
    <2> QED BY <2>6, <2>7, <2>8, <2>9, <2>10 DEF IInv
<1>9. ASSUME NEW p \in Procs, Archive(p) PROVE IInv'
    <2>1. /\ pc[p] = "write" /\ remaining[p] = << >> /\ Leave(p)
          /\ file' = file /\ pending # NoIntent /\ pending \in Intent
          /\ file \o remaining[p] = Whole(pending) /\ file \in Seq(Cell)
        BY <1>a, <1>9 DEF Archive, StepInv, TypeOK
    <2>2. file = Whole(pending)
        BY <2>1, ConcatEmptySeq
    <2>3. CASE pending \notin audits
        <3>1. audits' = audits \cup {pending} /\ pending' = NoIntent
            BY <1>9, <2>1, <2>3 DEF Archive
        <3>2. LockInv'
            BY <1>a, <2>1 DEF TypeOK, LockInv, Leave, Locked
        <3>3. StepInv'
            <4>1. \A q \in Procs : q # p => pc[q] \notin Locked
                BY <1>a, <2>1 DEF LockInv, Locked
            <4> QED BY <1>a, <2>1, <4>1 DEF TypeOK, StepInv, Leave, Locked
        <3>4. AuditInv'
            <4>1. Len(pending.base) <= Len(Whole(pending))
                BY <2>1, BaseIsShorter
            <4>2. \A i \in audits : Len(Whole(i)) <= Len(pending.base)
                BY <1>a, <2>1 DEF AuditInv, Settled
            <4>3. \A i \in Intent : Len(Whole(i)) \in Nat /\ Len(i.base) \in Nat
                BY BaseIsShorter
            <4>4. \A i \in audits : Len(Whole(i)) <= Len(Whole(pending))
                BY <1>a, <2>1, <4>1, <4>2, <4>3 DEF TypeOK
            <4>5. Len(Whole(pending)) <= Len(Whole(pending))
                BY <2>1, <4>3
            <4> QED BY <2>1, <2>2, <3>1, <4>4, <4>5 DEF AuditInv, Settled
        <3>5. LedgerParses'
            BY <1>a, <2>1, <2>2, <3>1 DEF LedgerParses, Committed
        <3> QED BY <3>1, <3>2, <3>3, <3>4, <3>5 DEF IInv, PendingInv
    <2>4. CASE pending \in audits
        BY <1>1, <1>9, <2>1, <2>4 DEF Archive, disk
    <2> QED BY <2>1, <2>3, <2>4
<1>10. ASSUME NEW p \in Procs, BeginRead(p) PROVE IInv'
    <2>1. /\ UNCHANGED <<disk, lock, locals>> /\ pc[p] = "idle"
          /\ pc' = [pc EXCEPT ![p] = "read"]
        BY <1>10 DEF BeginRead
    <2>2. LockInv' /\ StepInv'
        BY <1>a, <2>1 DEF TypeOK, LockInv, StepInv, Locked, disk, locals
    <2> QED BY <2>1, <2>2, DiskUnchanged DEF IInv
<1>11. ASSUME NEW p \in Procs, Read(p) PROVE IInv'
    <2>1. /\ UNCHANGED <<disk, lock, locals>> /\ pc[p] = "read"
          /\ pc' = [pc EXCEPT ![p] = "idle"]
        BY <1>11 DEF Read
    <2>2. LockInv' /\ StepInv'
        BY <1>a, <2>1 DEF TypeOK, LockInv, StepInv, Locked, disk, locals
    <2> QED BY <2>1, <2>2, DiskUnchanged DEF IInv
<1>12. ASSUME NEW p \in Procs, Crash(p) PROVE IInv'
    BY <1>1, <1>12 DEF Crash
<1>13. CASE UNCHANGED vars
    <2>1. LockInv' /\ StepInv'
        BY <1>a, <1>13 DEF vars, LockInv, StepInv
    <2> QED BY <1>13, <2>1, DiskUnchanged DEF IInv, vars, disk
<1> QED BY <1>2, <1>3, <1>4, <1>5, <1>6, <1>7, <1>8, <1>9, <1>10, <1>11,
           <1>12, <1>13 DEF Next, Step

LEMMA Invariance == Spec => []IInv
<1>1. IInv => TypeOK
    BY DEF IInv
<1> QED BY InitialStates, InductiveStep, TypeCorrect, PTL DEF Spec

-----------------------------------------------------------------------------
(* The properties. *)

(* THEOREM: whatever dies wherever, the ledger with its pending append      *)
(* completed holds whole lines and each receipt once (parse_receipts).      *)
THEOREM LedgerAlwaysParses == Spec => []LedgerParses
<1>1. IInv => LedgerParses
    BY DEF IInv
<1> QED BY <1>1, Invariance, PTL

(* THEOREM: _finish accepts every pending intent a dead append can leave,   *)
(* so recovery never ends in a mismatch or on an existing audit.            *)
THEOREM RecoveryAlwaysPossible == Spec => []RecoveryIsPossible
<1>1. IInv => RecoveryIsPossible
    <2> SUFFICES ASSUME IInv, pending # NoIntent
                 PROVE  FinishAccepts(file, pending) /\ pending \notin audits
        BY DEF RecoveryIsPossible
    <2>1. pending \in Intent
        BY DEF IInv, TypeOK
    <2>2. FinishAccepts(file, pending)
        BY DEF IInv, PendingInv, FinishAccepts, LedgerParses, Committed
    <2>3. Len(pending.base) < Len(Whole(pending))
        BY <2>1, BaseIsShorter DEF IInv, PendingInv
    <2>4. pending \notin audits
        <3>1. Len(Whole(pending)) \in Nat /\ Len(pending.base) \in Nat
            BY <2>1, BaseIsShorter
        <3>2. pending \in audits => Len(Whole(pending)) <= Len(pending.base)
            BY DEF IInv, AuditInv, Settled
        <3> QED BY <2>3, <3>1, <3>2
    <2> QED BY <2>2, <2>4
<1> QED BY <1>1, Invariance, PTL

(* Publish adds its batch to what is committed; no other step changes it.   *)
LEMMA CommittedStep ==
    ASSUME IInv, IInv', [Next]_vars
    PROVE  \/ \E b \in Batches : Committed' = Committed \o Lines(b)
           \/ Committed' = Committed
<1> SUFFICES ASSUME ~ UNCHANGED <<file, pending>>
             PROVE  \/ \E b \in Batches : Committed' = Committed \o Lines(b)
                    \/ Committed' = Committed
    BY DEF Committed
<1>1. PICK p \in Procs : Publish(p) \/ WriteSome(p) \/ Archive(p)
    BY DEF vars, Next, Step, BeginAppend, PrepareIntent, BeginRecover, Inspect,
           CheckIntent, BeginRead, Read, Crash, disk
<1>2. CASE Publish(p)
    <2>1. /\ pending = NoIntent /\ previous[p] = file /\ batch[p] \in Batches
        BY <1>2 DEF Publish, IInv, StepInv
    <2>2. pending' = [base |-> file, payload |-> Lines(batch[p])]
        BY <1>2, <2>1 DEF Publish
    <2>3. pending' # NoIntent
        <3>1. pending' \in Intent
            BY <2>1, <2>2, LinesOfBatch DEF IInv, TypeOK, Intent
        <3> QED BY <3>1, NoIntentAssumption
    <2> QED BY <2>1, <2>2, <2>3 DEF Committed, Whole
<1>3. CASE WriteSome(p)
    BY <1>3 DEF WriteSome, IInv, StepInv, Committed
<1>4. CASE Archive(p)
    <2>1. /\ pending # NoIntent /\ file' = file /\ file \in Seq(Cell)
          /\ file \o << >> = Whole(pending)
        BY <1>4 DEF Archive, IInv, StepInv, TypeOK
    <2>2. file = Whole(pending)
        BY <2>1, ConcatEmptySeq
    <2> QED BY <1>4, <2>1, <2>2 DEF Archive, Committed
<1> QED BY <1>1, <1>2, <1>3, <1>4

(* THEOREM: the ledger can always be repaired, by the completion of what is *)
(* pending.                                                                 *)
THEOREM LedgerIsAlwaysRecoverable == Spec => []LedgerIsRecoverable
<1>1. LedgerParses /\ RecoveryIsPossible => LedgerIsRecoverable
    BY DEF LedgerIsRecoverable
<1> QED BY <1>1, LedgerAlwaysParses, RecoveryAlwaysPossible, PTL

LEMMA CommittedIsContent == IInv => Committed \in Seq(Cell)
BY WholeIsContent DEF IInv, TypeOK, Committed

(* THEOREM: an unlocked read_receipts only returns committed receipts.      *)
THEOREM ReadsAreAlwaysCommitted == Spec => []ReadsAreCommitted
<1>1. Init => ReadsAreCommitted
    BY PrefixReflexive, EmptySeq DEF Init, ReadsAreCommitted, Committed
<1>2. IInv /\ IInv' /\ ReadsAreCommitted /\ [Next]_vars => ReadsAreCommitted'
    <2> SUFFICES ASSUME IInv, IInv', ReadsAreCommitted, [Next]_vars, NEW q \in Procs
                 PROVE  IsPrefix(seen'[q], Committed')
        BY DEF ReadsAreCommitted
    <2>1. Committed \in Seq(Cell) /\ Committed' \in Seq(Cell)
        BY WholeIsContent DEF IInv, TypeOK, Committed
    <2>2. IsPrefix(Committed, Committed')
        <3>1. ASSUME NEW b \in Batches, Committed' = Committed \o Lines(b)
              PROVE  IsPrefix(Committed, Committed')
            BY <2>1, <3>1, LinesOfBatch, PrefixOfConcat
        <3> QED BY <2>1, <3>1, CommittedStep, PrefixReflexive
    <2>3. seen[q] \in Seq(Cell) /\ IsPrefix(seen[q], Committed) /\ file \in Seq(Cell)
        BY DEF ReadsAreCommitted, IInv, TypeOK
    <2>4. IsPrefix(file, Committed)
        BY <2>3, PrefixReflexive DEF IInv, PendingInv, Committed
    <2>5. seen'[q] = seen[q] \/ seen'[q] = file
        <3>1. seen' = seen \/ \E p \in Procs : Read(p)
            BY DEF vars, Next, Step, BeginAppend, PrepareIntent, Publish, BeginRecover,
                   Inspect, CheckIntent, WriteSome, Archive, BeginRead, Crash
        <3> QED BY <3>1 DEF Read, IInv, TypeOK
    <2> QED BY <2>1, <2>2, <2>3, <2>4, <2>5, PrefixTransitive
<1> QED BY <1>1, <1>2, Invariance, PTL DEF Spec

(* THEOREM: the journal implements the atomic ledger.  Publishing an intent *)
(* is the abstract Commit; every other step, a crash included, is a stutter.*)
THEOREM JournalIsAtomic == Spec => AppendsAreAtomic
<1>1. Init => Log!Init
    BY EmptyLedgerParses DEF Init, Log!Init, Committed
<1>2. IInv /\ IInv' /\ [Next]_vars => [Log!Next]_(RecordsOf(Committed))
    <2> SUFFICES ASSUME IInv, IInv', [Next]_vars
                 PROVE  Log!Next \/ RecordsOf(Committed)' = RecordsOf(Committed)
        OBVIOUS
    <2>1. ASSUME NEW b \in Batches, Committed' = Committed \o Lines(b)
          PROVE  Log!Commit(b)
        <3>1. Committed \in Seq(Cell) /\ Len(Committed) % 2 = 0
            BY CommittedIsContent DEF IInv, LedgerParses, Parses
        <3>2. b \in Seq(Records)
            BY BatchesAssumption
        <3>3. RecordsOf(Committed)' = RecordsOf(Committed) \o b
            BY <2>1, <3>1, <3>2, RecordsOfAppend
        <3>4. Distinct(RecordsOf(Committed)')
            BY DEF IInv, LedgerParses, Parses
        <3> QED BY <3>3, <3>4 DEF Log!Commit, Log!Once, Distinct
    <2>2. CASE Committed' = Committed
        BY <2>2
    <2> QED BY <2>1, <2>2, CommittedStep DEF Log!Next
<1> QED BY <1>1, <1>2, Invariance, PTL DEF Spec, AppendsAreAtomic, Log!Spec

-----------------------------------------------------------------------------
(* The source controls.                                                     *)
FileLines == {f.lines : f \in SourceFiles}
LineSet == UNION {{lines[i] : i \in DOMAIN lines} : lines \in FileLines}
AllRows == Strays \cup {Controls!RowOf(l, s) : l \in LineSet, s \in Controls!Sources}

LEMMA SameCount == \A S : Controls!Cardinality(S) = Cardinality(S)
  BY DEF Controls!Cardinality, Cardinality

(* A position in the stream is never given to another row.                  *)
StreamIsKeyed ==
    /\ rows \in Seq(AllRows)
    /\ \A i, j \in 1 .. Len(rows) : rows[i].id = rows[j].id => i = j

(* What a capture has read was not in the stream before it.                 *)
ReadWell(c) ==
    /\ c.lines \in FileLines
    /\ c.source \in Controls!Sources
CapturedWell(c) == ReadWell(c) /\ c.before \cap Controls!Named(c) = {}
ReadingIsWell ==
    reading # None =>
        /\ reading = [lines |-> reading.lines, source |-> reading.source, whole |-> reading.whole,
                      catalog |-> reading.catalog, watermark |-> reading.watermark, before |-> reading.before]
        /\ ReadWell(reading)
        /\ reading.before \subseteq Controls!Ids(Controls!Stored)

(* A test says of its cutoff and attachments what still is to be said.      *)
Told(f, chosen) ==
    IF chosen = {} THEN "not_run"
    ELSE IF Controls!Reconciles(Controls!Table(f), chosen) THEN "passed" ELSE "failed"
TestIsSound(t) ==
    /\ t.attachments \subseteq captures
    /\ t.cutoff.watermark \in 0 .. Len(rows)
    /\ ~Controls!Overlapping(t.attachments)
    /\ t.verdict = Told(t.cutoff, t.attachments)
    /\ Controls!LateArrivals(t.cutoff, t.attachments, Controls!PeriodEnd) = t.late

CInv ==
    /\ StreamIsKeyed
    /\ ReadingIsWell
    /\ \A c \in captures : CapturedWell(c)
    /\ \A f \in cutoffs : f.watermark \in 0 .. Len(rows)
    /\ \A t \in tests : TestIsSound(t)

LEMMA ControlsInit == Controls!Init => CInv
  BY DEF Controls!Init, CInv, StreamIsKeyed, ReadingIsWell

(* The stream only grows, so that what a cutoff has seen stays.             *)
Grows == Len(rows) <= Len(rows') /\ \A i \in 1 .. Len(rows) : rows'[i] = rows[i]

LEMMA TableStays ==
    ASSUME StreamIsKeyed, StreamIsKeyed', Grows, NEW f, f.watermark \in 0 .. Len(rows)
    PROVE  /\ Controls!Table(f)' = Controls!Table(f)
           /\ Controls!Table(f) \subseteq 1 .. Len(rows)
           /\ \A i \in Controls!Table(f) : rows'[i] = rows[i]
<1>1. f.watermark \in Nat /\ 1 .. f.watermark \subseteq 1 .. Len(rows)
  BY DEF StreamIsKeyed
<1>2. \A i \in 1 .. f.watermark : rows'[i] = rows[i]
  BY <1>1 DEF Grows
<1> QED
  BY <1>1, <1>2 DEF Controls!Table

LEMMA ToldStays ==
    ASSUME StreamIsKeyed, StreamIsKeyed', Grows, NEW f, NEW chosen, f.watermark \in 0 .. Len(rows)
    PROVE  Told(f, chosen)' = Told(f, chosen)
<1>1. /\ Controls!Table(f)' = Controls!Table(f)
      /\ \A i \in Controls!Table(f) : rows'[i] = rows[i]
  BY TableStays
<1>2. ASSUME NEW c
      PROVE  /\ Controls!Missing(Controls!Table(f), c)' = Controls!Missing(Controls!Table(f), c)
             /\ Controls!Altered(Controls!Table(f), c)' = Controls!Altered(Controls!Table(f), c)
             /\ Controls!NotBefore(Controls!Table(f), c)' = Controls!NotBefore(Controls!Table(f), c)
  <2>1. Controls!Missing(Controls!Table(f), c)' = Controls!Missing(Controls!Table(f), c)
    BY <1>1 DEF Controls!Missing
  <2>2. Controls!Altered(Controls!Table(f), c)' = Controls!Altered(Controls!Table(f), c)
    BY <1>1 DEF Controls!Altered
  <2>3. Controls!NotBefore(Controls!Table(f), c)' = Controls!NotBefore(Controls!Table(f), c)
    BY <1>1 DEF Controls!NotBefore
  <2> QED
    BY <2>1, <2>2, <2>3
<1>3. Controls!Unexpected(Controls!Table(f), chosen)' = Controls!Unexpected(Controls!Table(f), chosen)
  BY <1>1 DEF Controls!Unexpected
<1>4. Controls!Reconciles(Controls!Table(f), chosen)' <=> Controls!Reconciles(Controls!Table(f), chosen)
  BY <1>2, <1>3 DEF Controls!Reconciles
<1> QED
  BY <1>4 DEF Told

LEMMA LateStays ==
    ASSUME StreamIsKeyed, StreamIsKeyed', Grows, NEW f, NEW chosen, f.watermark \in 0 .. Len(rows)
    PROVE  Controls!LateArrivals(f, chosen, Controls!PeriodEnd)' = Controls!LateArrivals(f, chosen, Controls!PeriodEnd)
<1>1. /\ Controls!Table(f)' = Controls!Table(f)
      /\ \A i \in Controls!Table(f) : rows'[i] = rows[i]
  BY TableStays
<1>2. \A l : (\E i \in Controls!Table(f)' : rows'[i].id = l.id) <=> (\E i \in Controls!Table(f) : rows[i].id = l.id)
  BY <1>1
<1> QED
  BY <1>2 DEF Controls!LateArrivals

(* What holds of the tests when the stream has grown and captures are added. *)
LEMMA TestsStay ==
    ASSUME CInv, StreamIsKeyed', Grows, captures \subseteq captures', UNCHANGED <<cutoffs, tests>>
    PROVE  /\ \A f \in cutoffs' : f.watermark \in 0 .. Len(rows')
           /\ \A t \in tests' : TestIsSound(t)'
<1>1. Len(rows) \in Nat /\ Len(rows') \in Nat
  BY DEF CInv, StreamIsKeyed
<1>2. \A f \in cutoffs' : f.watermark \in 0 .. Len(rows')
  BY <1>1 DEF CInv, Grows
<1>3. ASSUME NEW t \in tests PROVE TestIsSound(t)'
  <2>1. TestIsSound(t) /\ StreamIsKeyed
    BY DEF CInv
  <2>2. t.cutoff.watermark \in 0 .. Len(rows)
    BY <2>1 DEF TestIsSound
  <2>3. Told(t.cutoff, t.attachments)' = Told(t.cutoff, t.attachments)
    BY <2>1, <2>2, ToldStays
  <2>4. Controls!LateArrivals(t.cutoff, t.attachments, Controls!PeriodEnd)'
            = Controls!LateArrivals(t.cutoff, t.attachments, Controls!PeriodEnd)
    BY <2>1, <2>2, LateStays
  <2>5. t.cutoff.watermark \in 0 .. Len(rows')
    BY <1>1, <2>2 DEF Grows
  <2>6. ~Controls!Overlapping(t.attachments)
    BY <2>1 DEF TestIsSound
  <2> QED
    BY <2>1, <2>3, <2>4, <2>5, <2>6 DEF TestIsSound
<1> QED
  BY <1>2, <1>3

(* Nothing has been taken out of the stream: what was read before it stays. *)
LEMMA IdsStay ==
    ASSUME StreamIsKeyed, StreamIsKeyed', Grows
    PROVE  Controls!Ids(Controls!Stored) \subseteq Controls!Ids(Controls!Stored)'
<1>1. DOMAIN rows = 1 .. Len(rows) /\ DOMAIN rows' = 1 .. Len(rows') /\ Len(rows) \in Nat /\ Len(rows') \in Nat
  BY DEF StreamIsKeyed
<1>2. \A i \in DOMAIN rows : i \in DOMAIN rows' /\ rows'[i] = rows[i]
  BY <1>1 DEF Grows
<1> QED
  BY <1>2 DEF Controls!Ids, Controls!Stored

(* A step that only appends to the stream.                                  *)
LEMMA AppendingStep ==
    ASSUME CInv, StreamIsKeyed', Grows, UNCHANGED <<reading, captures, cutoffs, tests>>
    PROVE  CInv'
<1>1. ReadingIsWell'
  BY IdsStay DEF CInv, ReadingIsWell, ReadWell
<1>2. \A c \in captures' : CapturedWell(c)'
  BY DEF CInv, CapturedWell, ReadWell, Controls!Named
<1> QED
  BY <1>1, <1>2, TestsStay DEF CInv

(* A step that appends nothing, and tests nothing.                          *)
LEMMA QuietControls ==
    ASSUME CInv, rows' = rows, tests' = tests, ReadingIsWell', captures \subseteq captures',
           \A c \in captures' : CapturedWell(c)', \A f \in cutoffs' : f.watermark \in 0 .. Len(rows)
    PROVE  CInv'
<1>1. StreamIsKeyed'
  BY DEF CInv, StreamIsKeyed
<1>2. Grows
  BY DEF CInv, StreamIsKeyed, Grows
<1>3. ASSUME NEW t \in tests PROVE TestIsSound(t)'
  <2>1. TestIsSound(t) /\ StreamIsKeyed
    BY DEF CInv
  <2>2. t.cutoff.watermark \in 0 .. Len(rows)
    BY <2>1 DEF TestIsSound
  <2>3. Told(t.cutoff, t.attachments)' = Told(t.cutoff, t.attachments)
    BY <1>1, <1>2, <2>1, <2>2, ToldStays
  <2>4. Controls!LateArrivals(t.cutoff, t.attachments, Controls!PeriodEnd)'
            = Controls!LateArrivals(t.cutoff, t.attachments, Controls!PeriodEnd)
    BY <1>1, <1>2, <2>1, <2>2, LateStays
  <2> QED
    BY <2>1, <2>3, <2>4 DEF TestIsSound
<1> QED
  BY <1>1, <1>3 DEF CInv

-----------------------------------------------------------------------------
LEMMA ImageIsFinite ==
    ASSUME NEW S, NEW G, IsFiniteSet(S), G = [x \in S |-> G[x]]
    PROVE  IsFiniteSet({G[x] : x \in S})
<1>1. G \in Surjection(S, {G[x] : x \in S})
  BY DEF Surjection
<1> QED
  BY <1>1, FS_Surjection

(* The order in which accepted lines are appended.                          *)
Keyed(F) ==
    /\ IsFiniteSet(F)
    /\ \A r \in F : r.id \in Int
    /\ \A r, q \in F : r.id = q.id => r = q
RowRank(F, r) == Cardinality({q \in F : q.id <= r.id})

LEMMA RowRanks ==
  ASSUME NEW F, Keyed(F)
  PROVE  /\ Controls!Cardinality(F) \in Nat
         /\ \A n \in 1 .. Controls!Cardinality(F) : \E r \in F : Controls!Rank(F, r) = n
<1> DEFINE N == Cardinality(F)
           Upto(r) == {q \in F : q.id <= r.id}
<1>0. /\ IsFiniteSet(F) /\ \A r \in F : r.id \in Int
      /\ \A r, q \in F : r.id = q.id => r = q
  BY DEF Keyed
<1>1. N \in Nat
  BY <1>0, FS_CardinalityType
<1>2. ASSUME NEW r \in F PROVE RowRank(F, r) \in 1 .. N
  <2>1. Upto(r) \in SUBSET F /\ r \in Upto(r)
    BY <1>0
  <2>2. /\ IsFiniteSet(Upto(r)) /\ Cardinality(Upto(r)) <= N
        /\ Cardinality(Upto(r)) \in Nat
    BY <1>0, <2>1, FS_Subset, FS_CardinalityType
  <2>3. Cardinality(Upto(r)) # 0
    BY <2>1, <2>2, FS_EmptySet
  <2> QED
    BY <1>1, <2>2, <2>3 DEF RowRank
<1>3. ASSUME NEW r \in F, NEW q \in F, r.id < q.id PROVE RowRank(F, r) # RowRank(F, q)
  <2>1. Upto(q) \in SUBSET F /\ Upto(r) \in SUBSET Upto(q) /\ q \in Upto(q) /\ q \notin Upto(r)
    BY <1>0, <1>3
  <2>2. IsFiniteSet(Upto(q))
    BY <1>0, <2>1, FS_Subset
  <2>3. Cardinality(Upto(q)) # Cardinality(Upto(r))
    BY <2>1, <2>2, FS_Subset
  <2> QED
    BY <2>3 DEF RowRank
<1>4. ASSUME NEW r \in F, NEW q \in F, RowRank(F, r) = RowRank(F, q) PROVE r = q
  <2>1. r.id \in Int /\ q.id \in Int
    BY <1>0
  <2>2. r.id = q.id
    BY <1>3, <1>4, <2>1
  <2> QED
    BY <1>0, <2>2
<1> DEFINE G == [r \in F |-> RowRank(F, r)]
<1>5. G \in Injection(F, 1 .. N)
  BY <1>2, <1>4 DEF Injection, IsInjective
<1>6. IsFiniteSet(1 .. N) /\ Cardinality(1 .. N) = N
  BY <1>1, FS_Interval
<1>7. G \in Surjection(F, 1 .. N)
  BY <1>0, <1>5, <1>6, FS_Injection
<1>8. \A n \in 1 .. N : \E r \in F : G[r] = n
  BY <1>7 DEF Surjection
<1>9. \A r : Controls!Rank(F, r) = RowRank(F, r)
  BY SameCount DEF Controls!Rank, RowRank
<1> QED
  BY <1>1, <1>8, <1>9, SameCount

LEMMA OrderKeeps ==
  ASSUME NEW F, Keyed(F)
  PROVE  /\ Controls!InOrder(F) \in Seq(F)
         /\ \A m, n \in 1 .. Len(Controls!InOrder(F)) :
               Controls!InOrder(F)[m].id = Controls!InOrder(F)[n].id => m = n
<1> DEFINE N == Controls!Cardinality(F)
           At(n) == CHOOSE r \in F : Controls!Rank(F, r) = n
           S == [n \in 1 .. N |-> At(n)]
<1>1. Controls!InOrder(F) = S
  BY DEF Controls!InOrder
<1>2. N \in Nat /\ \A n \in 1 .. N : At(n) \in F /\ Controls!Rank(F, At(n)) = n
  BY RowRanks
<1>3. S \in Seq(F) /\ Len(S) = N /\ \A n \in 1 .. N : S[n] = At(n)
  BY <1>2
<1>4. ASSUME NEW m \in 1 .. N, NEW n \in 1 .. N, S[m].id = S[n].id PROVE m = n
  <2>1. At(m) = At(n)
    BY <1>2, <1>3, <1>4 DEF Keyed
  <2> QED
    BY <1>2, <2>1
<1> HIDE DEF S
<1> QED
  BY <1>1, <1>3, <1>4

(* Accepted lines of a file: none has the ID of another.                    *)
LEMMA AcceptedLines ==
  ASSUME NEW c, ReadWell(c)
  PROVE  LET accepted == Controls!Observed(c, {"accepted"})
         IN  /\ IsFiniteSet(accepted) /\ accepted \subseteq LineSet
             /\ \A l \in accepted : l.id \in Int /\ l.id \in Controls!Named(c)
             /\ \A l, m \in accepted : l.id = m.id => l = m
<1> DEFINE accepted == Controls!Observed(c, {"accepted"})
           J == {j \in DOMAIN c.lines : Controls!Standing(c.lines, j) \in {"accepted"}}
<1>1. /\ c.lines \in FileLines /\ Len(c.lines) \in Nat /\ DOMAIN c.lines = 1 .. Len(c.lines)
      /\ \A i \in DOMAIN c.lines : c.lines[i].id # None => c.lines[i].id \in Int
  BY SourcesAssumption DEF ReadWell, FileLines, Controls!FilesAreRead
<1>2. ASSUME NEW j \in J PROVE c.lines[j].id # None /\ Controls!Earlier(c.lines, j) = {}
  BY <1>2 DEF Controls!Standing
<1>3. accepted = {c.lines[i] : i \in J}
  BY DEF Controls!Observed
<1>4. IsFiniteSet(accepted)
  <2>1. IsFiniteSet(DOMAIN c.lines)
    BY <1>1, FS_Interval
  <2>2. IsFiniteSet(J)
    BY <2>1, FS_Subset
  <2> QED
    <3> DEFINE G == [j \in J |-> c.lines[j]]
    <3>1. IsFiniteSet({G[j] : j \in J})
      BY <2>2, ImageIsFinite
    <3>2. {G[j] : j \in J} = accepted
      BY <1>3
    <3> QED
      BY <3>1, <3>2
<1>5. accepted \subseteq LineSet
  BY <1>1, <1>3 DEF LineSet
<1>6. \A l \in accepted : l.id \in Int /\ l.id \in Controls!Named(c)
  BY <1>1, <1>2, <1>3 DEF Controls!Named
<1>7. ASSUME NEW i \in J, NEW j \in J, c.lines[i].id = c.lines[j].id PROVE i = j
  <2>1. ASSUME NEW h \in J, NEW k \in J, h < k, c.lines[h].id = c.lines[k].id PROVE FALSE
    <3>1. h \in Controls!Earlier(c.lines, k)
      BY <1>1, <2>1 DEF Controls!Earlier
    <3> QED
      BY <1>2, <3>1
  <2>2. i \in Int /\ j \in Int
    BY <1>1
  <2> QED
    BY <1>7, <2>1, <2>2
<1>8. \A l, m \in accepted : l.id = m.id => l = m
  BY <1>3, <1>7
<1> QED
  BY <1>4, <1>5, <1>6, <1>8

-----------------------------------------------------------------------------
LEMMA IngestStep == ASSUME CInv, NEW c \in captures, Controls!Ingest(c) PROVE CInv'
<1> DEFINE R == {Controls!RowOf(l, c.source) : l \in Controls!Observed(c, {"accepted"})}
           F == R \ Controls!Stored
           D == Controls!InOrder(F)
<1>1. /\ Controls!Admits(R) /\ rows' = rows \o D
      /\ UNCHANGED <<reading, captures, cutoffs, tests>>
  BY DEF Controls!Ingest
<1>2. ReadWell(c) /\ StreamIsKeyed
  BY DEF CInv, CapturedWell
<1>3. /\ IsFiniteSet(Controls!Observed(c, {"accepted"})) /\ Controls!Observed(c, {"accepted"}) \subseteq LineSet
      /\ \A l \in Controls!Observed(c, {"accepted"}) : l.id \in Int
      /\ \A l, m \in Controls!Observed(c, {"accepted"}) : l.id = m.id => l = m
  BY <1>2, AcceptedLines
<1>4. IsFiniteSet(R)
  <2> DEFINE G == [l \in Controls!Observed(c, {"accepted"}) |-> Controls!RowOf(l, c.source)]
  <2>0. G = [l \in Controls!Observed(c, {"accepted"}) |-> G[l]] /\ IsFiniteSet(Controls!Observed(c, {"accepted"}))
    BY <1>3
  <2>1. IsFiniteSet({G[l] : l \in Controls!Observed(c, {"accepted"})})
    <3> HIDE DEF G
    <3> QED
      BY <2>0, ImageIsFinite
  <2>2. {G[l] : l \in Controls!Observed(c, {"accepted"})} = R
    OBVIOUS
  <2> QED
    BY <2>1, <2>2
<1>5. Keyed(F) /\ F \subseteq AllRows
  <2>1. IsFiniteSet(F)
    BY <1>4, FS_Subset
  <2>2. \A r \in F : r.id \in Int
    BY <1>3 DEF Controls!RowOf
  <2>3. \A r, q \in F : r.id = q.id => r = q
    BY <1>3 DEF Controls!RowOf
  <2>4. F \subseteq AllRows
    BY <1>2, <1>3 DEF AllRows, ReadWell
  <2> QED
    BY <2>1, <2>2, <2>3, <2>4 DEF Keyed
<1>6. /\ D \in Seq(F)
      /\ \A m, n \in 1 .. Len(D) : D[m].id = D[n].id => m = n
  BY <1>5, OrderKeeps
<1>7. ASSUME NEW r \in F, NEW i \in 1 .. Len(rows) PROVE r.id # rows[i].id
  <2>1. rows[i] \in Controls!Stored
    BY <1>2 DEF StreamIsKeyed, Controls!Stored
  <2> QED
    BY <1>1, <2>1 DEF Controls!Admits
<1> HIDE DEF D, F, R
<1>8. /\ rows \in Seq(AllRows) /\ D \in Seq(AllRows)
      /\ Len(rows) \in Nat /\ Len(D) \in Nat
      /\ \A n \in 1 .. Len(D) : D[n] \in F
  BY <1>2, <1>5, <1>6 DEF StreamIsKeyed
<1>9. /\ rows' \in Seq(AllRows) /\ Len(rows') = Len(rows) + Len(D)
      /\ \A i \in 1 .. Len(rows) : rows'[i] = rows[i]
      /\ \A i \in Len(rows) + 1 .. Len(rows) + Len(D) : rows'[i] = D[i - Len(rows)] /\ i - Len(rows) \in 1 .. Len(D)
  BY <1>1, <1>8
<1>10. ASSUME NEW i \in 1 .. Len(rows'), NEW j \in 1 .. Len(rows'), rows'[i].id = rows'[j].id PROVE i = j
  <2>1. CASE i <= Len(rows) /\ j <= Len(rows)
    <3>1. i \in 1 .. Len(rows) /\ j \in 1 .. Len(rows)
      BY <1>8, <1>9, <2>1
    <3>2. rows[i].id = rows[j].id
      BY <1>9, <1>10, <3>1
    <3> QED
      BY <1>2, <3>1, <3>2 DEF StreamIsKeyed
  <2>0. ASSUME NEW h \in 1 .. Len(rows'), NEW k \in 1 .. Len(rows'), h <= Len(rows), k > Len(rows)
        PROVE  rows'[h].id # rows'[k].id
    <3>1. h \in 1 .. Len(rows) /\ k \in Len(rows) + 1 .. Len(rows) + Len(D)
      BY <1>8, <1>9, <2>0
    <3>2. rows'[h] = rows[h] /\ rows'[k] \in F
      BY <1>8, <1>9, <3>1
    <3> QED
      BY <1>7, <3>1, <3>2
  <2>2. CASE i <= Len(rows) /\ j > Len(rows)
    BY <1>10, <2>0, <2>2
  <2>3. CASE i > Len(rows) /\ j <= Len(rows)
    BY <1>10, <2>0, <2>3
  <2>4. CASE i > Len(rows) /\ j > Len(rows)
    <3>1. /\ i \in Len(rows) + 1 .. Len(rows) + Len(D) /\ j \in Len(rows) + 1 .. Len(rows) + Len(D)
      BY <1>8, <1>9, <2>4
    <3>2. /\ i - Len(rows) \in 1 .. Len(D) /\ j - Len(rows) \in 1 .. Len(D)
          /\ D[i - Len(rows)].id = D[j - Len(rows)].id
      BY <1>9, <1>10, <3>1
    <3>3. i - Len(rows) = j - Len(rows)
      BY <1>6, <3>2
    <3>4. i \in Int /\ j \in Int /\ Len(rows) \in Int
      BY <1>8, <1>9
    <3> QED
      BY <3>3, <3>4
  <2> QED
    BY <1>8, <2>1, <2>2, <2>3, <2>4
<1>11. StreamIsKeyed'
  BY <1>9, <1>10 DEF StreamIsKeyed
<1>12. Grows
  BY <1>8, <1>9 DEF Grows
<1> QED
  BY <1>1, <1>11, <1>12, AppendingStep

LEMMA OthersStep == ASSUME CInv, Controls!OthersAppend PROVE CInv'
<1>1. PICK r \in Strays : Controls!Admits({r}) /\ r \notin Controls!Stored /\ rows' = Append(rows, r)
  BY DEF Controls!OthersAppend
<1>2. UNCHANGED <<reading, captures, cutoffs, tests>>
  BY DEF Controls!OthersAppend
<1>3. /\ rows \in Seq(AllRows) /\ Len(rows) \in Nat /\ r \in AllRows
      /\ \A i, j \in 1 .. Len(rows) : rows[i].id = rows[j].id => i = j
  BY DEF CInv, StreamIsKeyed, AllRows
<1>4. ASSUME NEW i \in 1 .. Len(rows) PROVE r.id # rows[i].id
  <2>1. rows[i] \in Controls!Stored
    BY <1>3 DEF Controls!Stored
  <2> QED
    BY <1>1, <2>1 DEF Controls!Admits
<1>5. /\ rows' \in Seq(AllRows) /\ Len(rows') = Len(rows) + 1 /\ rows'[Len(rows) + 1] = r
      /\ \A i \in 1 .. Len(rows) : rows'[i] = rows[i]
  BY <1>1, <1>3
<1>6. StreamIsKeyed'
  BY <1>3, <1>4, <1>5 DEF StreamIsKeyed
<1>7. Grows
  BY <1>3, <1>5 DEF Grows
<1> QED
  BY <1>2, <1>6, <1>7, AppendingStep

(* A capture is kept when none of the IDs it names had come in, which those *)
(* that had before it was read have.                                        *)
LEMMA ReadingStep ==
    ASSUME CInv, Controls!ReadFile \/ Controls!ReadWatermark \/ Controls!Capture PROVE CInv'
<1>1. /\ rows' = rows /\ tests' = tests /\ cutoffs' = cutoffs
      /\ \A f \in cutoffs : f.watermark \in 0 .. Len(rows)
      /\ \A c \in captures : CapturedWell(c)
  BY DEF CInv, Controls!ReadFile, Controls!ReadWatermark, Controls!Capture
<1>2. Controls!Ids(Controls!Stored)' = Controls!Ids(Controls!Stored)
  BY <1>1 DEF Controls!Ids, Controls!Stored
<1>3. CASE Controls!ReadFile
  <2>1. captures' = captures
    BY <1>3 DEF Controls!ReadFile
  <2>2. PICK opened \in SourceFiles, source \in Controls!Sources :
          reading' = [lines |-> opened.lines, source |-> source, whole |-> opened.whole,
                      catalog |-> catalog, watermark |-> None, before |-> Controls!Ids(Controls!Stored)]
    BY <1>3 DEF Controls!ReadFile
  <2>3. ReadingIsWell'
    BY <1>2, <2>2 DEF ReadingIsWell, ReadWell, FileLines
  <2>4. \A c \in captures' : CapturedWell(c)'
    BY <1>1, <2>1 DEF CapturedWell, ReadWell, Controls!Named
  <2> QED
    BY <1>1, <2>1, <2>3, <2>4, QuietControls
<1>4. CASE Controls!ReadWatermark
  <2>1. captures' = captures /\ reading # None /\ reading' = [reading EXCEPT !.watermark = Len(rows)]
    BY <1>4 DEF Controls!ReadWatermark
  <2>2. ReadingIsWell'
    BY <1>2, <2>1 DEF CInv, ReadingIsWell, ReadWell
  <2>3. \A c \in captures' : CapturedWell(c)'
    BY <1>1, <2>1 DEF CapturedWell, ReadWell, Controls!Named
  <2> QED
    BY <1>1, <2>1, <2>2, <2>3, QuietControls
<1>5. CASE Controls!Capture
  <2>1. /\ reading # None /\ reading' = None
        /\ captures' = IF Controls!Named(reading) \cap Controls!Ids(Controls!Stored) = {}
                       THEN captures \cup {reading} ELSE captures
    BY <1>5 DEF Controls!Capture
  <2>2. ReadWell(reading) /\ reading.before \subseteq Controls!Ids(Controls!Stored)
    BY <2>1 DEF CInv, ReadingIsWell
  <2>3. Controls!Named(reading) \cap Controls!Ids(Controls!Stored) = {} => CapturedWell(reading)
    BY <2>2 DEF CapturedWell
  <2>4. \A c \in captures' : CapturedWell(c)
    BY <1>1, <2>1, <2>3
  <2>5. \A c \in captures' : CapturedWell(c)'
    BY <2>4 DEF CapturedWell, ReadWell, Controls!Named
  <2>6. ReadingIsWell'
    BY <2>1 DEF ReadingIsWell
  <2> QED
    BY <1>1, <2>1, <2>5, <2>6, QuietControls
<1> QED
  BY <1>3, <1>4, <1>5

LEMMA FreezeStep == ASSUME CInv, Controls!Freeze \/ Controls!EditCatalog PROVE CInv'
<1>1. /\ UNCHANGED <<rows, reading, captures, tests>>
      /\ cutoffs' = cutoffs \/ \E known : cutoffs' = {[watermark |-> Len(rows), known |-> known]}
  BY DEF Controls!Freeze, Controls!EditCatalog
<1>2. Len(rows) \in Nat /\ \A f \in cutoffs : f.watermark \in 0 .. Len(rows)
  BY DEF CInv, StreamIsKeyed
<1>3. \A f \in cutoffs' : f.watermark \in 0 .. Len(rows)
  BY <1>1, <1>2
<1>4. ReadingIsWell'
  BY <1>1 DEF CInv, ReadingIsWell, ReadWell, Controls!Ids, Controls!Stored
<1>5. \A c \in captures' : CapturedWell(c)'
  BY <1>1 DEF CInv, CapturedWell, ReadWell, Controls!Named
<1> QED
  BY <1>1, <1>3, <1>4, <1>5, QuietControls

LEMMA CollectStep == ASSUME CInv, Controls!Collect PROVE CInv'
<1>1. UNCHANGED <<rows, catalog, reading, captures, cutoffs>>
  BY DEF Controls!Collect
<1>2. PICK f \in cutoffs, chosen \in SUBSET captures :
          /\ Controls!Verdict(f, chosen) # "refused"
          /\ tests' = tests \cup {[cutoff |-> f, attachments |-> chosen,
                                   verdict |-> Controls!Verdict(f, chosen),
                                   late |-> Controls!LateArrivals(f, chosen, Controls!PeriodEnd)]}
  BY DEF Controls!Collect
<1> DEFINE T == [cutoff |-> f, attachments |-> chosen, verdict |-> Controls!Verdict(f, chosen),
                 late |-> Controls!LateArrivals(f, chosen, Controls!PeriodEnd)]
<1>3. Controls!Verdict(f, chosen) = Told(f, chosen)
  BY <1>2 DEF Controls!Verdict, Told
<1>4. ~Controls!Overlapping(chosen)
  BY <1>2 DEF Controls!Verdict, Controls!Overlapping
<1>5. TestIsSound(T)
  BY <1>3, <1>4 DEF CInv, TestIsSound
<1>6. \A t \in tests' : TestIsSound(t)
  BY <1>2, <1>5 DEF CInv
<1>7. StreamIsKeyed' /\ StreamIsKeyed /\ Grows
  BY <1>1 DEF CInv, StreamIsKeyed, Grows
<1>8. ASSUME NEW t \in tests' PROVE TestIsSound(t)'
  <2>1. TestIsSound(t) /\ t.cutoff.watermark \in 0 .. Len(rows)
    BY <1>6 DEF TestIsSound
  <2>2. Told(t.cutoff, t.attachments)' = Told(t.cutoff, t.attachments)
    BY <1>7, <2>1, ToldStays
  <2>3. Controls!LateArrivals(t.cutoff, t.attachments, Controls!PeriodEnd)'
            = Controls!LateArrivals(t.cutoff, t.attachments, Controls!PeriodEnd)
    BY <1>7, <2>1, LateStays
  <2> QED
    BY <1>1, <2>1, <2>2, <2>3 DEF TestIsSound
<1>9. ReadingIsWell'
  BY <1>1 DEF CInv, ReadingIsWell, ReadWell, Controls!Ids, Controls!Stored
<1>10. \A c \in captures' : CapturedWell(c)'
  BY <1>1 DEF CInv, CapturedWell, ReadWell, Controls!Named
<1>11. \A g \in cutoffs' : g.watermark \in 0 .. Len(rows)'
  BY <1>1 DEF CInv
<1> QED
  BY <1>7, <1>8, <1>9, <1>10, <1>11 DEF CInv

LEMMA ControlsStep == ASSUME CInv, [Controls!Next]_Controls!vars PROVE CInv'
<1>1. CASE UNCHANGED Controls!vars
  <2>1. UNCHANGED <<rows, reading, captures, cutoffs, tests>>
    BY <1>1 DEF Controls!vars
  <2>2. StreamIsKeyed' /\ Grows
    BY <2>1 DEF CInv, StreamIsKeyed, Grows
  <2> QED
    BY <2>1, <2>2, AppendingStep
<1>2. CASE Controls!Next
  BY <1>2, IngestStep, OthersStep, ReadingStep, FreezeStep, CollectStep DEF Controls!Next
<1> QED
  BY <1>1, <1>2

-----------------------------------------------------------------------------
LEMMA RowsCounted ==
    ASSUME StreamIsKeyed, NEW T, T \subseteq 1 .. Len(rows)
    PROVE  Cardinality({rows[i] : i \in T}) = Cardinality(T)
<1> DEFINE S == {rows[i] : i \in T}
           G == [i \in T |-> rows[i]]
<1>1. Len(rows) \in Nat /\ \A i, j \in T : rows[i] = rows[j] => i = j
  BY DEF StreamIsKeyed
<1>2. G \in Bijection(T, S)
  BY <1>1 DEF Bijection, Injection, Surjection, IsInjective
<1> HIDE DEF G
<1>3. IsFiniteSet(1 .. Len(rows))
  BY <1>1, FS_Interval
<1>4. IsFiniteSet(T)
  BY <1>3, FS_Subset
<1> QED
  BY <1>2, <1>4, FS_Bijection DEF ExistsBijection

LEMMA PassedIsCaptured ==
    ASSUME CInv, NEW t \in tests, t.verdict = "passed"
    PROVE  LET visible == {rows[i] : i \in Controls!Table(t.cutoff)}
               captured == UNION {{Controls!RowOf(l, c.source) : l \in Controls!Population(c)} : c \in t.attachments}
           IN  /\ visible = captured
               /\ Cardinality(Controls!Table(t.cutoff)) = Cardinality(captured)
               /\ \A c \in t.attachments : c.before \cap Controls!Ids(Controls!Population(c)) = {}
<1> DEFINE T == Controls!Table(t.cutoff)
           visible == {rows[i] : i \in T}
           captured == UNION {{Controls!RowOf(l, c.source) : l \in Controls!Population(c)} : c \in t.attachments}
<1>1. /\ StreamIsKeyed /\ t.attachments \subseteq captures /\ t.cutoff.watermark \in 0 .. Len(rows)
      /\ Controls!Reconciles(T, t.attachments)
  BY DEF CInv, TestIsSound, Told
<1>2. /\ \A c \in t.attachments : Controls!Missing(T, c) = {} /\ Controls!Altered(T, c) = {}
      /\ Controls!Unexpected(T, t.attachments) = {}
  BY <1>1 DEF Controls!Reconciles
<1>3. T \subseteq 1 .. Len(rows)
  BY <1>1 DEF StreamIsKeyed, Controls!Table
<1> HIDE DEF T
<1>4. ASSUME NEW i \in T PROVE rows[i] \in captured
  <2>1. PICK c \in t.attachments : rows[i].id \in Controls!Ids(Controls!Population(c))
    BY <1>2 DEF Controls!Unexpected
  <2>2. PICK l \in Controls!Population(c) : l.id = rows[i].id
    BY <2>1 DEF Controls!Ids
  <2>3. rows[i] = Controls!RowOf(l, c.source)
    BY <1>2, <2>2 DEF Controls!Altered
  <2> QED
    BY <2>2, <2>3
<1>5. ASSUME NEW c \in t.attachments, NEW l \in Controls!Population(c)
      PROVE  Controls!RowOf(l, c.source) \in visible
  <2>1. PICK i \in T : rows[i].id = l.id
    BY <1>2 DEF Controls!Missing
  <2>2. rows[i] = Controls!RowOf(l, c.source)
    BY <1>2, <2>1 DEF Controls!Altered
  <2> QED
    BY <2>2
<1>6. visible = captured
  BY <1>4, <1>5
<1>7. Cardinality(T) = Cardinality(captured)
  BY <1>1, <1>3, <1>6, RowsCounted
<1>8. ASSUME NEW c \in t.attachments PROVE c.before \cap Controls!Ids(Controls!Population(c)) = {}
  <2>1. ReadWell(c) /\ c.before \cap Controls!Named(c) = {}
    BY <1>1 DEF CInv, CapturedWell
  <2>2. \A l \in Controls!Observed(c, {"accepted"}) : l.id \in Controls!Named(c)
    BY <2>1, AcceptedLines
  <2> QED
    BY <2>1, <2>2 DEF Controls!Ids, Controls!Population
<1> QED
  BY <1>6, <1>7, <1>8 DEF T

LEMMA ControlsSuffice == ASSUME CInv PROVE ControlTestsHold
<1>1. Controls!PassedIsThePopulation
  BY PassedIsCaptured, SameCount DEF Controls!PassedIsThePopulation
<1>2. ASSUME NEW t \in tests
      PROVE  /\ Controls!Verdict(t.cutoff, t.attachments) \in {t.verdict, "refused"}
             /\ Controls!LateArrivals(t.cutoff, t.attachments, Controls!PeriodEnd) = t.late
  BY DEF CInv, TestIsSound, Told, Controls!Verdict
<1> QED
  BY <1>1, <1>2 DEF ControlTestsHold, Controls!ControlTestsHold, Controls!TestsAreReperformable

(* Whatever files are captured and ingested, and whoever appends beside     *)
(* them: a passed control test has seen the captured events one for one,    *)
(* none of which had come in before its file was read, and performed again  *)
(* it says the same or refuses (src/tl/controls/sources.py, evidence.py).   *)
THEOREM PassedTestsVouch == Controls!Spec => []ControlTestsHold
<1>1. Controls!Init => CInv
  BY ControlsInit
<1>2. CInv /\ [Controls!Next]_Controls!vars => CInv'
  BY ControlsStep
<1>3. CInv => ControlTestsHold
  BY ControlsSuffice
<1> QED
  BY <1>1, <1>2, <1>3, PTL DEF Controls!Spec

-----------------------------------------------------------------------------
(* The comparisons.  What a call has done to its baseline is told by its    *)
(* step: the raw tables it has reached hold the rows that its cutoff sees,  *)
(* and the models it has not to build are those of their raw tables.        *)
Modelled(db, o) ==
    /\ db.models[o].rows = UNION {db.raw[k] : k \in Needs[o]}
    /\ db.models[o].calendars \subseteq db.calendars /\ db.models[o].calendars # {}
    /\ db.models[o].floor = Compared!Floor(o, db.lenses)
BaseIsSound(db) ==
    /\ db \in Compared!Bases
    /\ \A k \in Compared!AllKinds : db.raw[k] # None => \A e \in db.raw[k] : e.kind = k
    /\ db.whole => db.dim_date \in db.calendars /\ \A o \in Outputs : Modelled(db, o)
BasesAreSound ==
    /\ base = [r \in Roots |-> base[r]]
    /\ \A r \in Roots : base[r] # None => BaseIsSound(base[r])

Seen == Compared!Visible(comparison.frozen)
SpineOf(version) == Compared!Spine(comparison.frozen, version)
Db == base[comparison.root]
Reached(db, visible, n) == \A i \in 1 .. Len(Kinds) : i < n => db.raw[Kinds[i]] = Compared!Rows(visible, {Kinds[i]})
Of(version) == comparison.pins <= version /\ version <= code /\ version \in 1 .. 2

Opening ==
    \/ comparison.at = "project"
    \/ comparison.at = "spine" /\ comparison.order = "spine_first"
Closing ==
    \/ comparison.at \in {"judge", "record"}
    \/ comparison.at = "spine" /\ comparison.order = "baseline_first"
CallIsTyped ==
    /\ comparison = [at |-> comparison.at, program |-> comparison.program, mode |-> comparison.mode,
                     order |-> comparison.order, root |-> comparison.root, pins |-> comparison.pins,
                     frozen |-> comparison.frozen, spine |-> comparison.spine, next |-> comparison.next,
                     changed |-> comparison.changed, sound |-> comparison.sound,
                     rebuilt |-> comparison.rebuilt, baseline |-> comparison.baseline]
    /\ comparison.at \in {"spine", "project", "build", "judge", "record"}
    /\ comparison.mode \in Compared!Modes /\ comparison.root \in Roots
    /\ comparison.order \in {"baseline_first", "spine_first"}
    /\ comparison.program \in {"session", "workers"}
    /\ comparison.order = "spine_first" \/ comparison.at = "spine" => comparison.program = "workers"
    /\ comparison.pins \in 1 .. 2 /\ comparison.pins <= code
    /\ comparison.frozen.watermark \in 0 .. Len(table) /\ comparison.frozen.version \in Versions
    /\ comparison.next \in 1 .. Len(Kinds) + 1 /\ comparison.sound \in BOOLEAN
Started ==
    /\ Opening /\ comparison.next = 1 => ~comparison.sound /\ comparison.changed = {}
    /\ comparison.at = "spine" /\ comparison.order = "spine_first" => comparison.next = 1
    /\ comparison.mode = "definition" => comparison.next = 1 /\ comparison.changed = {}
Progressed == comparison.next > 1 => Db # None /\ Reached(Db, Seen, comparison.next)
Carried ==
    comparison.mode # "full" /\ comparison.sound =>
        \A o \in Outputs : Needs[o] \cap comparison.changed = {} => Modelled(Db, o)
Dated == comparison.mode # "full" /\ comparison.sound => Db.dim_date \in Db.calendars
Prepared ==
    comparison.at = "build" \/ Closing =>
        Db # None /\ (comparison.mode # "definition" => comparison.next = Len(Kinds) + 1)
IsBuilt ==
    Closing =>
        /\ comparison.sound => \A o \in Outputs : Modelled(Db, o)
        /\ comparison.rebuilt \subseteq Outputs
        /\ \A o \in comparison.rebuilt : Of(Db.models[o].code)
Spun ==
    \/ comparison.order = "spine_first" /\ comparison.at # "spine"
    \/ comparison.program = "workers" /\ comparison.at = "judge"
    \/ comparison.at = "record"
SpineIsSeen ==
    Spun => \E version \in 1 .. 2 : Of(version) /\ comparison.spine = SpineOf(version)
Judged ==
    comparison.at = "record" =>
        /\ comparison.sound /\ comparison.mode # "definition" =>
              \A o \in Outputs :
                  /\ comparison.baseline[o].rows = Compared!Rows(Seen, Needs[o])
                  /\ comparison.baseline[o].calendars \subseteq Db.calendars
                  /\ comparison.baseline[o].calendars # {}
                  /\ comparison.baseline[o].floor = Compared!Floor(o, Db.lenses)
        /\ \A o \in comparison.rebuilt : Of(comparison.baseline[o].code)
CallIsSound ==
    CallIsTyped /\ Started /\ Progressed /\ Carried /\ Dated /\ Prepared /\ IsBuilt /\ SpineIsSeen /\ Judged

RecordIsSound(r) ==
    /\ r.frozen.watermark \in 0 .. Len(table)
    /\ r.spine = Compared!Spine(r.frozen, r.pins)
    /\ \A o \in r.rebuilt : r.baseline[o].code = r.pins
    /\ r.status = Compared!Status(r.spine, r.baseline)
    /\ r.status = "different" =>
          \/ r.mode = "definition" \/ ~r.sound
          \/ r.calendars # {Compared!Calendar(r.frozen)} \/ r.lenses # r.frozen.version

PInv ==
    /\ table \in Seq(ToCome) /\ code \in 1 .. 2
    /\ BasesAreSound
    /\ comparison = Compared!Idle \/ CallIsSound
    /\ \A r \in recorded : RecordIsSound(r)

LEMMA ComparedInit == Compared!Init => PInv
  BY DEF Compared!Init, PInv, BasesAreSound

LEMMA Underway ==
    ASSUME PInv, comparison.at # "idle"
    PROVE  CallIsSound
  BY DEF PInv, Compared!Idle

-----------------------------------------------------------------------------
(* The stream grows and the code is edited: what a cutoff sees stays.       *)
LEMMA SeenStays ==
    ASSUME table \in Seq(ToCome), table' = table \/ \E e \in ToCome : table' = Append(table, e),
           NEW f, f.watermark \in 0 .. Len(table)
    PROVE  /\ table' \in Seq(ToCome) /\ f.watermark \in 0 .. Len(table')
           /\ Compared!Visible(f)' = Compared!Visible(f)
<1>1. /\ table' \in Seq(ToCome) /\ Len(table) \in Nat /\ Len(table') \in Nat /\ Len(table) <= Len(table')
      /\ \A i \in 1 .. Len(table) : table'[i] = table[i]
  OBVIOUS
<1>2. f.watermark \in 0 .. Len(table') /\ \A i \in 1 .. f.watermark : i \in 1 .. Len(table)
  BY <1>1
<1>3. \A i \in 1 .. f.watermark : table'[i] = table[i]
  BY <1>1, <1>2
<1> QED
  BY <1>1, <1>2, <1>3 DEF Compared!Visible

LEMMA SpineStays ==
    ASSUME NEW f, Compared!Visible(f)' = Compared!Visible(f)
    PROVE  /\ Compared!Calendar(f)' = Compared!Calendar(f)
           /\ \A version : Compared!Spine(f, version)' = Compared!Spine(f, version)
<1>1. Compared!Calendar(f)' = Compared!Calendar(f)
  BY DEF Compared!Calendar
<1> QED
  BY <1>1 DEF Compared!Spine, Compared!Rows, Compared!Floor

LEMMA RecordsStay ==
    ASSUME PInv, table' = table \/ \E e \in ToCome : table' = Append(table, e), NEW r \in recorded
    PROVE  RecordIsSound(r)'
<1>1. table \in Seq(ToCome) /\ RecordIsSound(r)
  BY DEF PInv
<1>2. r.frozen.watermark \in 0 .. Len(table') /\ Compared!Visible(r.frozen)' = Compared!Visible(r.frozen)
  BY <1>1, SeenStays DEF RecordIsSound
<1>3. Compared!Status(r.spine, r.baseline)' = Compared!Status(r.spine, r.baseline)
  BY DEF Compared!Status, Compared!Agree
<1>4. /\ Compared!Calendar(r.frozen)' = Compared!Calendar(r.frozen)
      /\ Compared!Spine(r.frozen, r.pins)' = Compared!Spine(r.frozen, r.pins)
  BY <1>2, SpineStays
<1> QED
  BY <1>1, <1>2, <1>3, <1>4 DEF RecordIsSound

LEMMA SameSpine ==
    ASSUME Seen' = Seen, comparison'.frozen = comparison.frozen
    PROVE  \A version : SpineOf(version)' = SpineOf(version)
<1>1. Compared!Calendar(comparison.frozen)' = Compared!Calendar(comparison.frozen)
  BY DEF Seen, Compared!Calendar
<1> QED
  BY <1>1 DEF SpineOf, Seen, Compared!Spine, Compared!Rows, Compared!Floor
LEMMA WorldMoves ==
    ASSUME PInv, Compared!AppendEvent \/ Compared!Edit PROVE PInv'
<1>1. /\ table' = table \/ \E e \in ToCome : table' = Append(table, e)
      /\ code' = code \/ (code = 1 /\ code' = 2)
      /\ UNCHANGED <<base, comparison, recorded>>
  BY DEF Compared!AppendEvent, Compared!Edit
<1>2. table' \in Seq(ToCome) /\ code \in 1 .. 2 /\ code' \in 1 .. 2 /\ code <= code'
  BY <1>1 DEF PInv
<1>3. \A r \in recorded' : RecordIsSound(r)'
  BY <1>1, RecordsStay
<1>4. BasesAreSound'
  BY <1>1 DEF PInv, BasesAreSound, BaseIsSound
<1>5. ASSUME CallIsSound PROVE CallIsSound'
  <2>1. comparison.frozen.watermark \in 0 .. Len(table) /\ table \in Seq(ToCome)
    BY <1>5 DEF CallIsSound, CallIsTyped, PInv
  <2>2. /\ comparison.frozen.watermark \in 0 .. Len(table') /\ Seen' = Seen
        /\ \A version : SpineOf(version)' = SpineOf(version)
    BY <1>1, <2>1, SeenStays, SameSpine DEF Seen
  <2>3. Db' = Db
    BY <1>1 DEF Db
  <2>4. comparison.pins \in 1 .. 2
    BY <1>5 DEF CallIsSound, CallIsTyped
  <2>5. ASSUME NEW version, Of(version) PROVE Of(version)'
    BY <1>1, <1>2, <2>4, <2>5 DEF Of
  <2>6. CallIsTyped'
    BY <1>1, <1>2, <1>5, <2>2 DEF CallIsSound, CallIsTyped
  <2>7. Started' /\ Carried' /\ Dated' /\ Prepared' /\ Progressed'
    BY <1>1, <1>5, <2>2, <2>3 DEF CallIsSound, Started, Carried, Dated, Prepared, Progressed, Opening, Closing
  <2>8. IsBuilt'
    BY <1>1, <1>5, <2>3, <2>5 DEF CallIsSound, IsBuilt, Closing
  <2>9. SpineIsSeen'
    BY <1>1, <1>5, <2>2, <2>5 DEF CallIsSound, SpineIsSeen, Spun
  <2>10. Judged'
    BY <1>1, <1>5, <2>2, <2>3, <2>5 DEF CallIsSound, Judged, Compared!Floor
  <2> QED
    BY <2>6, <2>7, <2>8, <2>9, <2>10 DEF CallIsSound
<1> QED
  BY <1>1, <1>2, <1>3, <1>4, <1>5 DEF PInv

(* The steps of a call: it alone moves, and its baseline.                   *)
LEMMA CallMoves ==
    ASSUME PInv, UNCHANGED <<table, code, recorded>>, BasesAreSound',
           comparison' = Compared!Idle \/ CallIsSound'
    PROVE  PInv'
<1>1. \A r \in recorded' : RecordIsSound(r)'
  BY RecordsStay
<1> QED
  BY <1>1 DEF PInv

LEMMA SameBases == ASSUME PInv, base' = base PROVE BasesAreSound'
  BY DEF PInv, BasesAreSound, BaseIsSound
LEMMA SameSeen ==
    ASSUME table' = table, comparison'.frozen = comparison.frozen
    PROVE  Seen' = Seen /\ \A version : SpineOf(version)' = SpineOf(version)
<1>1. Seen' = Seen
  BY DEF Seen, Compared!Visible
<1> QED
  BY <1>1, SameSpine
LEMMA SameDb == ASSUME base' = base, comparison'.root = comparison.root PROVE Db' = Db
  BY DEF Db

LEMMA BeginStep ==
    ASSUME PInv, NEW program \in {"session", "workers"}, NEW mode \in Compared!Modes,
           NEW order \in {"baseline_first", "spine_first"}, program = "session" => order = "baseline_first",
           NEW root \in Roots, NEW ask \in Asked, Compared!Begin(program, mode, order, root, ask)
    PROVE  PInv'
<1>1. UNCHANGED <<table, code, base, recorded>>
  BY DEF Compared!Begin
<1>2. comparison' =
        [at |-> IF program = "session" \/ order = "baseline_first" THEN "project" ELSE "spine",
         program |-> program, mode |-> mode, order |-> order, root |-> root,
         pins |-> code, frozen |-> Compared!Freeze(ask), spine |-> None,
         next |-> 1, changed |-> {}, sound |-> FALSE, rebuilt |-> {}, baseline |-> None]
  BY DEF Compared!Begin
<1>3. Len(table) \in Nat /\ code \in 1 .. 2 /\ Len(Kinds) \in Nat \ {0} /\ ask.version \in Versions
  BY OutputsAssumption DEF PInv, Compared!OutputsAreOfKinds
<1>4. \/ comparison'.at = "project"
      \/ comparison'.at = "spine" /\ order = "spine_first" /\ program = "workers"
  BY <1>2
<1>5. CallIsTyped'
  BY <1>1, <1>2, <1>3, <1>4 DEF CallIsTyped, Compared!Freeze
<1>6. Started' /\ Progressed' /\ Carried' /\ Dated'
  BY <1>2 DEF Started, Progressed, Carried, Dated
<1>7. Prepared' /\ IsBuilt' /\ Judged'
  BY <1>2, <1>4 DEF Prepared, IsBuilt, Judged, Closing
<1>8. SpineIsSeen'
  BY <1>2, <1>4 DEF SpineIsSeen, Spun
<1> QED
  BY <1>1, <1>5, <1>6, <1>7, <1>8, CallMoves, SameBases DEF CallIsSound

LEMMA WorkerStep == ASSUME PInv, Compared!SpineInWorker PROVE PInv'
<1>1. comparison.at = "spine" /\ UNCHANGED <<table, code, base, recorded>>
  BY DEF Compared!SpineInWorker
<1>2. comparison' = [comparison EXCEPT !.at = IF comparison.order = "baseline_first" THEN "judge" ELSE "project",
                        !.spine = Compared!Spine(Compared!WorkerCutoff(comparison.frozen), code)]
  BY DEF Compared!SpineInWorker
<1>3. CallIsSound
  BY <1>1, Underway
<1>4. /\ comparison'.at = (IF comparison.order = "baseline_first" THEN "judge" ELSE "project")
      /\ comparison'.program = comparison.program /\ comparison'.mode = comparison.mode
      /\ comparison'.order = comparison.order /\ comparison'.root = comparison.root
      /\ comparison'.pins = comparison.pins /\ comparison'.frozen = comparison.frozen
      /\ comparison'.next = comparison.next /\ comparison'.changed = comparison.changed
      /\ comparison'.sound = comparison.sound /\ comparison'.rebuilt = comparison.rebuilt
      /\ comparison'.spine = SpineOf(code)
  BY <1>2, <1>3 DEF CallIsSound, CallIsTyped, SpineOf, Compared!WorkerCutoff
<1>5. comparison' = [at |-> comparison'.at, program |-> comparison'.program, mode |-> comparison'.mode,
                     order |-> comparison'.order, root |-> comparison'.root, pins |-> comparison'.pins,
                     frozen |-> comparison'.frozen, spine |-> comparison'.spine, next |-> comparison'.next,
                     changed |-> comparison'.changed, sound |-> comparison'.sound,
                     rebuilt |-> comparison'.rebuilt, baseline |-> comparison'.baseline]
  BY <1>2, <1>3 DEF CallIsSound, CallIsTyped
<1>6. Seen' = Seen /\ Db' = Db /\ \A version : SpineOf(version)' = SpineOf(version)
  BY <1>1, <1>4, SameSeen, SameDb
<1>7. comparison.order \in {"baseline_first", "spine_first"} /\ comparison.program = "workers"
  BY <1>1, <1>3 DEF CallIsSound, CallIsTyped
<1>8. CallIsTyped'
  BY <1>1, <1>3, <1>4, <1>5, <1>7 DEF CallIsSound, CallIsTyped
<1>10. (Closing' <=> Closing) /\ (Opening' <=> Opening)
  BY <1>1, <1>4, <1>7 DEF Opening, Closing
<1>11. Started' /\ Progressed' /\ Carried' /\ Dated' /\ Prepared'
  BY <1>1, <1>3, <1>4, <1>6, <1>7, <1>10 DEF CallIsSound, Started, Progressed, Carried, Dated, Prepared
<1>12. IsBuilt'
  BY <1>1, <1>3, <1>4, <1>6, <1>10 DEF CallIsSound, IsBuilt, Of
<1>13. comparison.pins \in 1 .. 2 /\ comparison.pins <= code /\ code \in 1 .. 2
  BY <1>3 DEF CallIsSound, CallIsTyped, PInv
<1>14. SpineIsSeen'
  <2>1. PICK version \in 1 .. 2 : version = code
    BY <1>13
  <2>2. Of(version)' /\ comparison'.spine = SpineOf(version)'
    BY <1>1, <1>4, <1>6, <1>13, <2>1 DEF Of
  <2> QED
    BY <2>2 DEF SpineIsSeen
<1>15. Judged'
  BY <1>4, <1>7 DEF Judged
<1> QED
  BY <1>1, <1>8, <1>11, <1>12, <1>14, <1>15, CallMoves, SameBases DEF CallIsSound

-----------------------------------------------------------------------------
LEMMA RawSet ==
    ASSUME NEW db, db \in Compared!Bases, NEW kind, kind \in Compared!AllKinds, NEW raw, NEW whole
    PROVE  /\ Compared!WithRaw(db, kind, raw, whole).raw[kind] = raw
           /\ \A k \in Compared!AllKinds \ {kind} : Compared!WithRaw(db, kind, raw, whole).raw[k] = db.raw[k]
           /\ Compared!WithRaw(db, kind, raw, whole).models = db.models
           /\ Compared!WithRaw(db, kind, raw, whole).dim_date = db.dim_date
           /\ Compared!WithRaw(db, kind, raw, whole).lenses = db.lenses
           /\ Compared!WithRaw(db, kind, raw, whole).calendars = db.calendars
  BY DEF Compared!WithRaw, Compared!Bases
LEMMA RawTyped ==
    ASSUME NEW db, db \in Compared!Bases, NEW kind, kind \in Compared!AllKinds, NEW raw, raw \in SUBSET ToCome,
           NEW whole, whole \in BOOLEAN
    PROVE  Compared!WithRaw(db, kind, raw, whole) \in Compared!Bases
  BY DEF Compared!WithRaw, Compared!Bases

LEMMA KindsAre ==
    /\ Len(Kinds) \in Nat \ {0} /\ \A i \in 1 .. Len(Kinds) : Kinds[i] \in Compared!AllKinds
    /\ \A k \in Compared!AllKinds : \E i \in 1 .. Len(Kinds) : k = Kinds[i]
    /\ \A o \in Outputs : Needs[o] \subseteq Compared!AllKinds
    /\ None \notin Compared!Bases
  BY OutputsAssumption DEF Compared!OutputsAreOfKinds, Compared!AllKinds

LEMMA SeenIsToCome ==
    ASSUME PInv, CallIsSound
    PROVE  \A kinds : Compared!Rows(Seen, kinds) \in SUBSET ToCome
<1>1. table \in Seq(ToCome) /\ comparison.frozen.watermark \in 0 .. Len(table)
  BY DEF PInv, CallIsSound, CallIsTyped
<1>2. \A i \in 1 .. comparison.frozen.watermark : i \in 1 .. Len(table) /\ table[i] \in ToCome
  BY <1>1
<1> QED
  BY <1>2 DEF Seen, Compared!Visible, Compared!Rows

(* A kind's raw table is written: what was reached before stays.            *)
LEMMA RawIsReached ==
    ASSUME NEW db, db \in Compared!Bases, NEW visible, NEW n \in 1 .. Len(Kinds), NEW raw, NEW whole,
           n > 1 => Reached(db, visible, n), raw = Compared!Rows(visible, {Kinds[n]})
    PROVE  Reached(Compared!WithRaw(db, Kinds[n], raw, whole), visible, n + 1)
<1> DEFINE N == Compared!WithRaw(db, Kinds[n], raw, whole)
<1>1. /\ Kinds[n] \in Compared!AllKinds /\ Len(Kinds) \in Nat /\ db \in Compared!Bases
      /\ \A i \in 1 .. Len(Kinds) : Kinds[i] \in Compared!AllKinds
  BY KindsAre
<1>2. /\ N.raw[Kinds[n]] = raw
      /\ \A k \in Compared!AllKinds \ {Kinds[n]} : N.raw[k] = db.raw[k]
  BY ONLY <1>1, RawSet
<1> HIDE DEF N
<1>3. ASSUME NEW i \in 1 .. Len(Kinds), i < n + 1 PROVE N.raw[Kinds[i]] = Compared!Rows(visible, {Kinds[i]})
  <2>1. CASE Kinds[i] = Kinds[n]
    BY <1>2, <2>1
  <2>2. CASE Kinds[i] # Kinds[n]
    <3>1. i < n /\ n > 1
      BY <1>1, <1>3, <2>2
    <3>2. db.raw[Kinds[i]] = Compared!Rows(visible, {Kinds[i]})
      BY <3>1 DEF Reached
    <3> QED
      BY <1>1, <1>2, <2>2, <3>2
  <2> QED
    BY <2>1, <2>2
<1> QED
  BY <1>3 DEF Reached, N

LEMMA BaseSet ==
    ASSUME PInv, NEW r \in Roots, NEW db, BaseIsSound(db), base' = [base EXCEPT ![r] = db]
    PROVE  /\ BasesAreSound' /\ base'[r] = db
<1>1. base = [q \in Roots |-> base[q]] /\ \A q \in Roots : base[q] # None => BaseIsSound(base[q])
  BY DEF PInv, BasesAreSound
<1>2. base' = [q \in Roots |-> IF q = r THEN db ELSE base[q]]
  BY <1>1
<1>3. \A q \in Roots : base'[q] # None => BaseIsSound(base'[q])
  BY <1>1, <1>2
<1>4. ASSUME NEW q \in Roots, base'[q] # None PROVE BaseIsSound(base[q])'
  BY <1>3, <1>4 DEF BaseIsSound, Modelled
<1> QED
  BY <1>2, <1>4 DEF BasesAreSound

LEMMA ReplaceStep == ASSUME PInv, Compared!ReplaceKind PROVE PInv'
<1> DEFINE K == Kinds[comparison.next]
           R == Compared!Rows(Seen, {K})
           W == FALSE
           N == Compared!WithRaw(Compared!Opened, K, R, W)
<1>1. /\ comparison.at = "project" /\ comparison.mode = "full" /\ comparison.next <= Len(Kinds)
      /\ UNCHANGED <<table, code, recorded>>
  BY DEF Compared!ReplaceKind, Compared!Projecting
<1>2. base' = [base EXCEPT ![comparison.root] = N]
  BY DEF Compared!ReplaceKind, Compared!Kind, Seen
<1>3. comparison' = [comparison EXCEPT !.next = @ + 1, !.sound = TRUE]
  BY DEF Compared!ReplaceKind
<1>4. CallIsSound
  BY <1>1, Underway
<1>5. comparison.root \in Roots /\ comparison.next \in 1 .. Len(Kinds) /\ Len(Kinds) \in Nat
  BY <1>1, <1>4, KindsAre DEF CallIsSound, CallIsTyped
<1>6. K \in Compared!AllKinds /\ R \in SUBSET ToCome /\ FALSE \in BOOLEAN
  BY <1>4, <1>5, KindsAre, SeenIsToCome
<1>7. Compared!Opened \in Compared!Bases
      /\ \A k \in Compared!AllKinds : Compared!Opened.raw[k] # None => \A e \in Compared!Opened.raw[k] : e.kind = k
  <2>1. CASE base[comparison.root] = None
    BY <2>1 DEF Compared!Opened, Compared!Empty, Compared!Bases
  <2>2. CASE base[comparison.root] # None
    BY <1>5, <2>2 DEF PInv, BasesAreSound, BaseIsSound, Compared!Opened
  <2> QED
    BY <2>1, <2>2
<1>8. /\ N \in Compared!Bases /\ N.raw[K] = R /\ ~N.whole
      /\ \A k \in Compared!AllKinds \ {K} : N.raw[k] = Compared!Opened.raw[k]
  <2>1. N \in Compared!Bases
    BY <1>6, <1>7, RawTyped
  <2>2. ~N.whole
    BY DEF Compared!WithRaw
  <2>3. /\ N.raw[K] = R
        /\ \A k \in Compared!AllKinds \ {K} : N.raw[k] = Compared!Opened.raw[k]
    <3>1. K \in Compared!AllKinds /\ Compared!Opened \in Compared!Bases
      BY <1>6, <1>7
    <3> HIDE DEF R, W
    <3> QED
      BY <3>1, RawSet
  <2> QED
    BY <2>1, <2>2, <2>3
<1>9. comparison.next > 1 => Reached(Compared!Opened, Seen, comparison.next)
  BY <1>4 DEF CallIsSound, Progressed, Db, Compared!Opened
<1>10. Reached(N, Seen, comparison.next + 1)
  BY <1>5, <1>6, <1>7, <1>9, RawIsReached
<1> HIDE DEF N
<1>11. BaseIsSound(N)
  BY <1>6, <1>7, <1>8 DEF BaseIsSound, Compared!Rows
<1>12. BasesAreSound' /\ base'[comparison.root] = N /\ N # None
  BY <1>2, <1>5, <1>8, <1>11, BaseSet, KindsAre
<1>13. /\ comparison'.at = "project" /\ comparison'.mode = "full"
       /\ comparison'.program = comparison.program
       /\ comparison'.order = comparison.order /\ comparison'.root = comparison.root
       /\ comparison'.pins = comparison.pins /\ comparison'.frozen = comparison.frozen
       /\ comparison'.next = comparison.next + 1 /\ comparison'.sound = TRUE
       /\ comparison'.spine = comparison.spine
  BY <1>1, <1>3, <1>4 DEF CallIsSound, CallIsTyped
<1>14. comparison' = [at |-> comparison'.at, program |-> comparison'.program, mode |-> comparison'.mode,
                     order |-> comparison'.order, root |-> comparison'.root, pins |-> comparison'.pins,
                     frozen |-> comparison'.frozen, spine |-> comparison'.spine, next |-> comparison'.next,
                     changed |-> comparison'.changed, sound |-> comparison'.sound,
                     rebuilt |-> comparison'.rebuilt, baseline |-> comparison'.baseline]
  BY <1>3, <1>4 DEF CallIsSound, CallIsTyped
<1>15. Seen' = Seen /\ Db' = N /\ \A version : SpineOf(version)' = SpineOf(version)
  BY <1>1, <1>12, <1>13, SameSeen DEF Db
<1>16. CallIsTyped'
  <2>1. /\ comparison.next + 1 \in 1 .. Len(Kinds) + 1 /\ TRUE \in BOOLEAN
    BY <1>5
  <2> QED
    BY <1>1, <1>4, <1>13, <1>14, <2>1 DEF CallIsSound, CallIsTyped
<1>17. Started' /\ Carried' /\ Dated'
  BY <1>5, <1>13 DEF Started, Carried, Dated
<1>18. Progressed'
  BY <1>10, <1>12, <1>13, <1>15 DEF Progressed
<1>19. Prepared' /\ IsBuilt' /\ Judged'
  BY <1>13 DEF Prepared, IsBuilt, Judged, Closing
<1>20. SpineIsSeen'
  BY <1>1, <1>4, <1>13, <1>15 DEF CallIsSound, SpineIsSeen, Spun, Of
<1> QED
  BY <1>1, <1>12, <1>16, <1>17, <1>18, <1>19, <1>20, CallMoves DEF CallIsSound

LEMMA RawsJoin ==
    ASSUME NEW db, NEW visible, NEW kind, NEW raw, \A e \in raw : e.kind = kind, raw \subseteq visible
    PROVE  raw \cup (Compared!Rows(visible, {kind}) \ raw) = Compared!Rows(visible, {kind})
  BY DEF Compared!Rows

(* A kind that an output does not need says nothing of its model.           *)
LEMMA OtherKind ==
    ASSUME NEW db, db \in Compared!Bases, NEW kind, kind \in Compared!AllKinds, NEW raw, NEW whole,
           NEW o \in Outputs, Modelled(db, o), kind \notin Needs[o] \/ raw = db.raw[kind]
    PROVE  Modelled(Compared!WithRaw(db, kind, raw, whole), o)
<1> DEFINE N == Compared!WithRaw(db, kind, raw, whole)
<1>1. /\ N.raw[kind] = raw /\ N.models = db.models /\ N.dim_date = db.dim_date
      /\ N.lenses = db.lenses /\ N.calendars = db.calendars
      /\ \A k \in Compared!AllKinds \ {kind} : N.raw[k] = db.raw[k]
  BY RawSet
<1>2. Needs[o] \subseteq Compared!AllKinds
  BY KindsAre
<1> HIDE DEF N
<1>3. \A k \in Needs[o] : N.raw[k] = db.raw[k]
  BY <1>1, <1>2
<1>4. {N.raw[k] : k \in Needs[o]} = {db.raw[k] : k \in Needs[o]}
  BY <1>3
<1> QED
  BY <1>1, <1>4 DEF Modelled, N

LEMMA IncreaseStep == ASSUME PInv, Compared!IncreaseKind PROVE PInv'
<1> DEFINE K == Kinds[comparison.next]
           fresh == Compared!Rows(Seen, {K}) \ Db.raw[K]
           R == Db.raw[K] \cup fresh
           W == Db.whole /\ fresh = {}
           N == Compared!WithRaw(Db, K, R, W)
<1>1. /\ comparison.at = "project" /\ comparison.mode = "incremental" /\ comparison.next <= Len(Kinds)
      /\ UNCHANGED <<table, code, recorded>> /\ Compared!Monotone
  BY DEF Compared!IncreaseKind, Compared!Projecting
<1>2. CallIsSound
  BY <1>1, Underway
<1>3. comparison.root \in Roots /\ comparison.next \in 1 .. Len(Kinds) /\ Len(Kinds) \in Nat
  BY <1>1, <1>2, KindsAre DEF CallIsSound, CallIsTyped
<1>4. base' = [base EXCEPT ![comparison.root] = N]
  <2>1. base' = [base EXCEPT ![comparison.root] =
            Compared!WithRaw(base[comparison.root], Compared!Kind,
                base[comparison.root].raw[Compared!Kind] \cup
                    (Compared!Rows(Compared!Visible(comparison.frozen), {Compared!Kind}) \ base[comparison.root].raw[Compared!Kind]),
                base[comparison.root].whole /\
                    (Compared!Rows(Compared!Visible(comparison.frozen), {Compared!Kind}) \ base[comparison.root].raw[Compared!Kind]) = {})]
    BY DEF Compared!IncreaseKind, PInv, BasesAreSound
  <2> QED
    BY <2>1 DEF Compared!Kind, Seen, Db
<1>5. comparison' = [comparison EXCEPT !.next = @ + 1,
                        !.changed = IF fresh = {} THEN @ ELSE @ \cup {K},
                        !.sound = IF comparison.next = 1 THEN Db.whole ELSE @]
  BY DEF Compared!IncreaseKind, Compared!Kind, Seen, Db
<1>6. K \in Compared!AllKinds
  BY <1>3, KindsAre
<1>7. Db # None /\ BaseIsSound(Db) /\ Db.raw[K] # None /\ Db.raw[K] \subseteq Seen
  <2>1. Compared!Opened.raw[K] # None /\ Compared!Opened.raw[K] \subseteq Seen
    BY <1>1 DEF Compared!Monotone, Compared!Kind, Seen
  <2>2. Db # None
    BY <1>6, <2>1 DEF Compared!Opened, Compared!Empty, Db
  <2>3. Compared!Opened = Db
    BY <2>2 DEF Compared!Opened, Db
  <2> QED
    BY <1>3, <2>1, <2>2, <2>3 DEF PInv, BasesAreSound, Db
<1>8. R = Compared!Rows(Seen, {K}) /\ R \in SUBSET ToCome
  <2>1. \A e \in Db.raw[K] : e.kind = K
    BY <1>6, <1>7 DEF BaseIsSound
  <2>2. R = Compared!Rows(Seen, {K})
    BY <1>7, <2>1, RawsJoin
  <2> QED
    BY <1>2, <2>2, SeenIsToCome
<1>9. W \in BOOLEAN
  OBVIOUS
<1>10. Db \in Compared!Bases
  BY <1>7 DEF BaseIsSound
<1>11. N \in Compared!Bases
  <2> HIDE DEF R, W
  <2> QED
    BY <1>6, <1>8, <1>9, <1>10, RawTyped
<1>12. /\ N.raw[K] = R /\ N.dim_date = Db.dim_date /\ N.calendars = Db.calendars
       /\ \A k \in Compared!AllKinds \ {K} : N.raw[k] = Db.raw[k]
  <2> HIDE DEF R, W
  <2> QED
    BY <1>6, <1>10, RawSet
<1>13. N.whole => Db.whole /\ fresh = {}
  BY DEF Compared!WithRaw
<1>14. ASSUME NEW o \in Outputs, Modelled(Db, o), K \notin Needs[o] \/ fresh = {} PROVE Modelled(N, o)
  <2>1. K \notin Needs[o] \/ R = Db.raw[K]
    BY <1>14
  <2> HIDE DEF R, W
  <2> QED
    BY <1>6, <1>10, <1>14, <2>1, OtherKind
<1>15. Reached(N, Seen, comparison.next + 1)
  <2>1. comparison.next > 1 => Reached(Db, Seen, comparison.next)
    BY <1>2 DEF CallIsSound, Progressed
  <2> HIDE DEF R, W
  <2> QED
    BY <1>3, <1>8, <1>10, <2>1, RawIsReached
<1> HIDE DEF N
<1>16. BaseIsSound(N)
  <2>1. ASSUME NEW k \in Compared!AllKinds, N.raw[k] # None PROVE \A e \in N.raw[k] : e.kind = k
    <3>1. CASE k = K
      BY <1>8, <1>12, <3>1 DEF Compared!Rows
    <3>2. CASE k # K
      BY <1>7, <1>12, <2>1, <3>2 DEF BaseIsSound
    <3> QED
      BY <3>1, <3>2
  <2>2. N.whole => N.dim_date \in N.calendars /\ \A o \in Outputs : Modelled(N, o)
    BY <1>7, <1>12, <1>13, <1>14 DEF BaseIsSound
  <2> QED
    BY <1>11, <2>1, <2>2 DEF BaseIsSound
<1>17. BasesAreSound' /\ base'[comparison.root] = N /\ N # None
  BY <1>3, <1>4, <1>11, <1>16, BaseSet, KindsAre
<1>18. /\ comparison'.at = "project" /\ comparison'.mode = "incremental"
       /\ comparison'.program = comparison.program
       /\ comparison'.order = comparison.order /\ comparison'.root = comparison.root
       /\ comparison'.pins = comparison.pins /\ comparison'.frozen = comparison.frozen
       /\ comparison'.next = comparison.next + 1
       /\ comparison'.spine = comparison.spine
       /\ comparison'.changed = (IF fresh = {} THEN comparison.changed ELSE comparison.changed \cup {K})
       /\ comparison'.sound = (IF comparison.next = 1 THEN Db.whole ELSE comparison.sound)
  <2> HIDE DEF fresh
  <2> QED
    BY <1>1, <1>2, <1>5 DEF CallIsSound, CallIsTyped
<1>19. comparison' = [at |-> comparison'.at, program |-> comparison'.program, mode |-> comparison'.mode,
                     order |-> comparison'.order, root |-> comparison'.root, pins |-> comparison'.pins,
                     frozen |-> comparison'.frozen, spine |-> comparison'.spine, next |-> comparison'.next,
                     changed |-> comparison'.changed, sound |-> comparison'.sound,
                     rebuilt |-> comparison'.rebuilt, baseline |-> comparison'.baseline]
  <2> HIDE DEF fresh
  <2> QED
    BY <1>2, <1>5 DEF CallIsSound, CallIsTyped
<1> HIDE DEF R, W, fresh
<1>20. Seen' = Seen /\ Db' = N /\ \A version : SpineOf(version)' = SpineOf(version)
  BY <1>1, <1>17, <1>18, SameSeen DEF Db
<1>21. CallIsTyped'
  <2>1. comparison'.next \in 1 .. Len(Kinds) + 1
    BY <1>3, <1>18
  <2>2. comparison'.sound \in BOOLEAN
    BY <1>2, <1>10, <1>18 DEF CallIsSound, CallIsTyped, Compared!Bases
  <2> QED
    BY <1>1, <1>2, <1>18, <1>19, <2>1, <2>2 DEF CallIsSound, CallIsTyped
<1>22. Started'
  BY <1>3, <1>18 DEF Started
<1>23. Carried'
  <2>1. ASSUME comparison'.sound, NEW o \in Outputs, Needs[o] \cap comparison'.changed = {}
        PROVE  Modelled(N, o)
    <3>1. Modelled(Db, o)
      <4>1. CASE comparison.next = 1
        BY <1>7, <1>18, <2>1, <4>1 DEF BaseIsSound
      <4>2. CASE comparison.next # 1
        <5>1. comparison.sound /\ Needs[o] \cap comparison.changed = {}
          BY <1>18, <2>1, <4>2
        <5> QED
          BY <1>1, <1>2, <2>1, <5>1 DEF CallIsSound, Carried
      <4> QED
        BY <4>1, <4>2
    <3>2. K \notin Needs[o] \/ fresh = {}
      BY <1>18, <2>1
    <3> QED
      BY <1>14, <3>1, <3>2
  <2>2. ASSUME NEW o \in Outputs, Modelled(N, o) PROVE Modelled(Db, o)'
    BY <1>20, <2>2 DEF Modelled
  <2> QED
    BY <2>1, <2>2 DEF Carried
<1>24. Progressed'
  BY <1>15, <1>17, <1>18, <1>20 DEF Progressed
<1>27. Dated'
  <2>1. CASE comparison.next = 1
    BY <1>7, <1>12, <1>18, <1>20, <2>1 DEF Dated, BaseIsSound
  <2>2. CASE comparison.next # 1
    BY <1>1, <1>2, <1>12, <1>18, <1>20, <2>2 DEF CallIsSound, Dated
  <2> QED
    BY <2>1, <2>2
<1>25. Prepared' /\ IsBuilt' /\ Judged'
  BY <1>18 DEF Prepared, IsBuilt, Judged, Closing
<1>26. SpineIsSeen'
  BY <1>1, <1>2, <1>18, <1>20 DEF CallIsSound, SpineIsSeen, Spun, Of
<1> QED
  BY <1>1, <1>17, <1>21, <1>22, <1>23, <1>24, <1>25, <1>26, <1>27, CallMoves DEF CallIsSound

LEMMA EndStep == ASSUME PInv, Compared!EndProjection \/ Compared!KeepSource PROVE PInv'
<1>1. /\ comparison.at = "project" /\ UNCHANGED <<table, code, base, recorded>>
      /\ \/ comparison.next > Len(Kinds) /\ comparison' = [comparison EXCEPT !.at = "build"]
         \/ /\ comparison.mode = "definition" /\ Db # None
            /\ comparison' = [comparison EXCEPT !.at = "build", !.sound = Db.whole]
  BY DEF Compared!EndProjection, Compared!KeepSource, Db
<1>2. CallIsSound
  BY <1>1, Underway
<1>3. comparison.root \in Roots /\ comparison.next \in 1 .. Len(Kinds) + 1 /\ Len(Kinds) \in Nat \ {0}
  BY <1>2, KindsAre DEF CallIsSound, CallIsTyped
<1>4. Db # None /\ BaseIsSound(Db)
  <2>1. Db # None
    BY <1>1, <1>2, <1>3 DEF CallIsSound, Progressed
  <2> QED
    BY <1>3, <2>1 DEF PInv, BasesAreSound, Db
<1>5. /\ comparison'.at = "build" /\ comparison'.mode = comparison.mode
      /\ comparison'.program = comparison.program
      /\ comparison'.order = comparison.order /\ comparison'.root = comparison.root
      /\ comparison'.pins = comparison.pins /\ comparison'.frozen = comparison.frozen
      /\ comparison'.next = comparison.next /\ comparison'.spine = comparison.spine
      /\ comparison'.changed = comparison.changed
      /\ \/ comparison.next > Len(Kinds) /\ comparison'.sound = comparison.sound
         \/ comparison.mode = "definition" /\ comparison'.sound = Db.whole
  BY <1>1, <1>2 DEF CallIsSound, CallIsTyped
<1>6. comparison' = [at |-> comparison'.at, program |-> comparison'.program, mode |-> comparison'.mode,
                     order |-> comparison'.order, root |-> comparison'.root, pins |-> comparison'.pins,
                     frozen |-> comparison'.frozen, spine |-> comparison'.spine, next |-> comparison'.next,
                     changed |-> comparison'.changed, sound |-> comparison'.sound,
                     rebuilt |-> comparison'.rebuilt, baseline |-> comparison'.baseline]
  BY <1>1, <1>2 DEF CallIsSound, CallIsTyped
<1>7. Seen' = Seen /\ Db' = Db /\ \A version : SpineOf(version)' = SpineOf(version)
  BY <1>1, <1>5, SameSeen, SameDb
<1>8. CallIsTyped'
  <2>1. comparison'.sound \in BOOLEAN
    BY <1>2, <1>4, <1>5 DEF CallIsSound, CallIsTyped, BaseIsSound, Compared!Bases
  <2> QED
    BY <1>1, <1>2, <1>5, <1>6, <2>1 DEF CallIsSound, CallIsTyped
<1>9. Started'
  BY <1>1, <1>2, <1>5 DEF CallIsSound, Started, Opening
<1>10. Progressed' /\ Dated'
  BY <1>2, <1>4, <1>5, <1>7 DEF CallIsSound, Progressed, Dated, BaseIsSound
<1>11. Carried'
  <2>1. ASSUME comparison'.sound, comparison.mode # "full", NEW o \in Outputs, Needs[o] \cap comparison.changed = {}
        PROVE  Modelled(Db, o)
    BY <1>2, <1>4, <1>5, <2>1 DEF CallIsSound, Carried, BaseIsSound
  <2>2. \A o : Modelled(Db, o)' <=> Modelled(Db, o)
    BY <1>7 DEF Modelled
  <2> QED
    BY <1>5, <2>1, <2>2 DEF Carried
<1>12. Prepared'
  <2>1. comparison.mode # "definition" => comparison.next = Len(Kinds) + 1
    BY <1>3, <1>5
  <2> QED
    BY <1>4, <1>5, <1>7, <2>1 DEF Prepared
<1>13. IsBuilt' /\ Judged'
  BY <1>5 DEF IsBuilt, Judged, Closing
<1>14. SpineIsSeen'
  BY <1>1, <1>2, <1>5, <1>7 DEF CallIsSound, SpineIsSeen, Spun, Of
<1> QED
  BY <1>1, <1>8, <1>9, <1>10, <1>11, <1>12, <1>13, <1>14, CallMoves, SameBases DEF CallIsSound

(* A call builds models: the raw tables stay.                               *)
LEMMA BuiltIs ==
    ASSUME PInv, CallIsSound, comparison.at = "build", NEW S, S \subseteq Compared!Selected,
           NEW whole \in BOOLEAN, \A o \in S \cap Outputs : Compared!Buildable(o)
    PROVE  /\ Compared!WithModels(S, whole) \in Compared!Bases
           /\ \A o \in S \cap Outputs : Compared!Built(o) \in Compared!Made
<1> DEFINE M == [o \in Outputs |-> IF o \in S THEN Compared!Built(o) ELSE Db.models[o]]
<1>1. Db \in Compared!Bases /\ comparison.root \in Roots /\ code \in 1 .. 2
      /\ comparison.mode \in Compared!Modes
  BY DEF CallIsSound, CallIsTyped, Prepared, PInv, BasesAreSound, BaseIsSound, Db
<1>2. Compared!Told \in SUBSET Months
  BY DEF Compared!Told, Compared!Calendar
<1>3. comparison.frozen.version \in Versions
  BY DEF CallIsSound, CallIsTyped
<1>4. /\ Db.dim_date \in (SUBSET Months) \cup {None} /\ Db.lenses \in Versions \cup {None}
      /\ Db.calendars \in SUBSET SUBSET Months /\ Db.raw \in [Compared!AllKinds -> (SUBSET ToCome) \cup {None}]
      /\ Db.models \in [Outputs -> Compared!Made \cup {None}]
  BY <1>1 DEF Compared!Bases
<1>5. /\ Compared!DimDate \in (SUBSET Months) \cup {None}
      /\ Compared!NrrLenses \in Versions \cup {None}
  BY <1>2, <1>3, <1>4 DEF Compared!DimDate, Compared!NrrLenses, Compared!Db, Db
<1>6. ASSUME NEW o \in S \cap Outputs PROVE Compared!Built(o) \in Compared!Made
  <2>1. /\ \A k \in Needs[o] : Db.raw[k] # None
        /\ Compared!DimDate # None /\ (o \in Lenses => Compared!NrrLenses # None)
    BY <1>6 DEF Compared!Buildable, Compared!Db, Db
  <2>2. \A k \in Needs[o] : Db.raw[k] \subseteq ToCome
    BY <1>4, <1>6, <2>1, KindsAre
  <2>3. UNION {Db.raw[k] : k \in Needs[o]} \in SUBSET ToCome
    BY <2>2
  <2>4. {Compared!DimDate, Compared!Told} \in SUBSET SUBSET Months
    BY <1>2, <1>5, <2>1
  <2>5. Compared!Floor(o, Compared!NrrLenses) \in Versions \cup {None}
    BY <1>5 DEF Compared!Floor
  <2>6. Compared!Built(o) = [rows |-> UNION {Db.raw[k] : k \in Needs[o]},
                            calendars |-> {Compared!DimDate, Compared!Told},
                            floor |-> Compared!Floor(o, Compared!NrrLenses), code |-> code]
    BY DEF Compared!Built, Compared!Db, Db
  <2> QED
    BY <1>1, <2>3, <2>4, <2>5, <2>6 DEF Compared!Made
<1>7. M \in [Outputs -> Compared!Made \cup {None}]
  BY <1>4, <1>6
<1>8. Compared!WithModels(S, whole) =
        [raw |-> Db.raw, whole |-> whole,
         dim_date |-> IF "dim_date" \in S THEN Compared!DimDate ELSE Db.dim_date,
         lenses |-> IF "int_nrr_lenses" \in S THEN Compared!NrrLenses ELSE Db.lenses,
         models |-> M,
         calendars |-> IF comparison.mode = "full" THEN {Compared!Told} ELSE Db.calendars \cup {Compared!Told}]
  BY DEF Compared!WithModels, Compared!Db, Db
<1> HIDE DEF M
<1>9. (IF comparison.mode = "full" THEN {Compared!Told} ELSE Db.calendars \cup {Compared!Told})
         \in SUBSET SUBSET Months
  BY <1>2, <1>4
<1>10. Compared!WithModels(S, whole) \in Compared!Bases
  BY <1>4, <1>5, <1>7, <1>8, <1>9 DEF Compared!Bases
<1> QED
  BY <1>6, <1>10

LEMMA BuildSomeStep == ASSUME PInv, Compared!BuildSome PROVE PInv'
<1>1. PICK S \in SUBSET Compared!Selected :
        /\ \A o \in S \cap Outputs : Compared!Buildable(o)
        /\ base' = [base EXCEPT ![comparison.root] = Compared!WithModels(S, FALSE)]
  BY DEF Compared!BuildSome
<1> DEFINE N == Compared!WithModels(S, FALSE)
<1>2. /\ comparison.at = "build" /\ comparison' = Compared!Idle /\ UNCHANGED <<table, code, recorded>>
  BY DEF Compared!BuildSome
<1>3. CallIsSound
  BY <1>2, Underway
<1>4. N \in Compared!Bases
  BY <1>1, <1>2, <1>3, BuiltIs
<1>5. comparison.root \in Roots /\ BaseIsSound(Db)
  BY <1>2, <1>3 DEF CallIsSound, CallIsTyped, Prepared, PInv, BasesAreSound, Db
<1>6. N.raw = Db.raw /\ ~N.whole
  BY DEF Compared!WithModels, Compared!Db, Db
<1> HIDE DEF N
<1>7. BaseIsSound(N)
  BY <1>4, <1>5, <1>6 DEF BaseIsSound
<1>8. BasesAreSound'
  BY <1>1, <1>5, <1>7, BaseSet DEF N
<1> QED
  BY <1>2, <1>8, CallMoves

LEMMA BuildStep == ASSUME PInv, Compared!Build PROVE PInv'
<1> DEFINE N == Compared!WithModels(Compared!Selected, comparison.sound)
<1>1. /\ comparison.at = "build" /\ UNCHANGED <<table, code, recorded>>
      /\ \A o \in Compared!Selected \cap Outputs : Compared!Buildable(o)
  BY DEF Compared!Build
<1>2. CallIsSound
  BY <1>1, Underway
<1>3. /\ comparison.root \in Roots /\ comparison.sound \in BOOLEAN /\ comparison.pins \in 1 .. 2
      /\ comparison.pins <= code /\ code \in 1 .. 2 /\ comparison.mode \in Compared!Modes
      /\ comparison.order \in {"baseline_first", "spine_first"}
  BY <1>2 DEF CallIsSound, CallIsTyped, PInv
<1>4. base' = [base EXCEPT ![comparison.root] = N]
  BY DEF Compared!Build
<1>5. comparison' = [comparison EXCEPT !.rebuilt = Compared!Selected \cap Outputs,
                        !.at = IF comparison.program = "workers" /\ comparison.order = "baseline_first"
                               THEN "spine" ELSE "judge"]
  BY DEF Compared!Build
<1>6. Db # None /\ BaseIsSound(Db) /\ (comparison.mode # "definition" => comparison.next = Len(Kinds) + 1)
  <2>1. Db # None /\ (comparison.mode # "definition" => comparison.next = Len(Kinds) + 1)
    BY <1>1, <1>2 DEF CallIsSound, Prepared
  <2> QED
    BY <1>3, <2>1 DEF PInv, BasesAreSound, Db
<1>7. Lenses \subseteq Outputs /\ "dim_date" \notin Outputs /\ "int_nrr_lenses" \notin Outputs
  BY OutputsAssumption DEF Compared!OutputsAreOfKinds
<1>8. /\ comparison.mode = "full" => Compared!Selected = Outputs \cup {"dim_date", "int_nrr_lenses"}
      /\ comparison.mode = "definition" => Compared!Selected = Lenses \cup {"int_nrr_lenses"}
      /\ comparison.mode = "incremental" =>
            Compared!Selected = {o \in Outputs : Needs[o] \cap comparison.changed # {}}
  BY DEF Compared!Selected, Compared!Models
<1>9. ASSUME NEW o \in Compared!Selected \cap Outputs
      PROVE  /\ Compared!Built(o).rows = UNION {Db.raw[k] : k \in Needs[o]}
             /\ Compared!Built(o).calendars = {Compared!DimDate, Compared!Told}
             /\ Compared!Built(o).floor = Compared!Floor(o, Compared!NrrLenses)
             /\ Compared!Built(o).code = code
  BY DEF Compared!Built, Compared!Db, Db
<1>10. /\ N.raw = Db.raw /\ (N.whole <=> comparison.sound)
       /\ N.dim_date = IF "dim_date" \in Compared!Selected THEN Compared!DimDate ELSE Db.dim_date
       /\ N.lenses = IF "int_nrr_lenses" \in Compared!Selected THEN Compared!NrrLenses ELSE Db.lenses
       /\ N.calendars = IF comparison.mode = "full" THEN {Compared!Told} ELSE Db.calendars \cup {Compared!Told}
  BY DEF Compared!WithModels, Compared!Db, Db
<1>11. N \in Compared!Bases
  BY <1>1, <1>2, <1>3, BuiltIs
<1>12. \A o \in Outputs : N.models[o] = IF o \in Compared!Selected THEN Compared!Built(o) ELSE Db.models[o]
  BY DEF Compared!WithModels, Compared!Db, Db
<1> HIDE DEF N
<1>28. ASSUME comparison.sound PROVE N.dim_date \in N.calendars
  <2>1. CASE comparison.mode = "full"
    BY <1>8, <1>10, <2>1 DEF Compared!DimDate
  <2>2. CASE comparison.mode # "full"
    <3>1. N.dim_date = Db.dim_date /\ Db.calendars \subseteq N.calendars
      BY <1>10, <2>2 DEF Compared!DimDate, Compared!Db, Db
    <3> QED
      BY <1>2, <1>28, <2>2, <3>1 DEF CallIsSound, Dated
  <2> QED
    BY <2>1, <2>2
<1>13. ASSUME comparison.sound, NEW o \in Outputs PROVE Modelled(N, o)
  <2>1. CASE o \in Compared!Selected
    <3>1. /\ N.models[o].rows = UNION {N.raw[k] : k \in Needs[o]}
          /\ N.models[o].calendars = {Compared!DimDate, Compared!Told}
          /\ N.models[o].floor = Compared!Floor(o, Compared!NrrLenses)
      BY <1>9, <1>10, <1>12, <2>1
    <3>2. Compared!Told \in N.calendars
      BY <1>10
    <3>3. N.dim_date = Compared!DimDate /\ (o \in Lenses => N.lenses = Compared!NrrLenses)
      <4>1. CASE comparison.mode = "full"
        BY <1>8, <1>10, <4>1
      <4>2. CASE comparison.mode = "definition"
        BY <1>7, <1>8, <1>10, <4>2 DEF Compared!DimDate, Compared!Db, Db
      <4>3. CASE comparison.mode = "incremental"
        BY <1>7, <1>8, <1>10, <4>3 DEF Compared!DimDate, Compared!NrrLenses, Compared!Db, Db
      <4> QED
        BY <1>3, <4>1, <4>2, <4>3 DEF Compared!Modes
    <3>5. Compared!Floor(o, Compared!NrrLenses) = Compared!Floor(o, N.lenses)
      BY <3>3 DEF Compared!Floor
    <3> QED
      BY <1>13, <1>28, <3>1, <3>2, <3>3, <3>5 DEF Modelled
  <2>2. CASE o \notin Compared!Selected
    <3>1. comparison.mode # "full" /\ Needs[o] \cap comparison.changed = {}
      BY <1>2, <1>3, <1>8, <2>2 DEF Compared!Modes, CallIsSound, Started
    <3>2. Modelled(Db, o)
      BY <1>2, <1>13, <3>1 DEF CallIsSound, Carried
    <3>3. N.models[o] = Db.models[o] /\ N.raw = Db.raw
      BY <1>10, <1>12, <2>2
    <3>4. Db.calendars \subseteq N.calendars
      BY <1>10, <3>1
    <3>5. N.dim_date = Db.dim_date
      BY <1>10, <3>1 DEF Compared!DimDate, Compared!Db, Db
    <3>6. Compared!Floor(o, N.lenses) = Compared!Floor(o, Db.lenses)
      <4>1. CASE o \in Lenses
        <5>1. comparison.mode = "incremental"
          BY <1>3, <1>8, <2>2, <3>1, <4>1 DEF Compared!Modes
        <5> QED
          BY <1>7, <1>8, <1>10, <5>1
      <4>2. CASE o \notin Lenses
        BY <4>2 DEF Compared!Floor
      <4> QED
        BY <4>1, <4>2
    <3> QED
      BY <3>2, <3>3, <3>4, <3>5, <3>6 DEF Modelled
  <2> QED
    BY <2>1, <2>2
<1>14. BaseIsSound(N)
  <2>1. \A k \in Compared!AllKinds : N.raw[k] # None => \A e \in N.raw[k] : e.kind = k
    BY <1>6, <1>10 DEF BaseIsSound
  <2> QED
    BY <1>10, <1>11, <1>13, <1>28, <2>1 DEF BaseIsSound
<1>15. BasesAreSound' /\ base'[comparison.root] = N /\ N # None
  BY <1>3, <1>4, <1>11, <1>14, BaseSet, KindsAre
<1>16. /\ comparison'.at = (IF comparison.program = "workers" /\ comparison.order = "baseline_first"
                            THEN "spine" ELSE "judge")
       /\ comparison'.mode = comparison.mode /\ comparison'.program = comparison.program
       /\ comparison'.order = comparison.order /\ comparison'.root = comparison.root
       /\ comparison'.pins = comparison.pins /\ comparison'.frozen = comparison.frozen
       /\ comparison'.next = comparison.next /\ comparison'.spine = comparison.spine
       /\ comparison'.changed = comparison.changed /\ comparison'.sound = comparison.sound
       /\ comparison'.rebuilt = Compared!Selected \cap Outputs
  BY <1>2, <1>5 DEF CallIsSound, CallIsTyped
<1>17. comparison' = [at |-> comparison'.at, program |-> comparison'.program, mode |-> comparison'.mode,
                     order |-> comparison'.order, root |-> comparison'.root, pins |-> comparison'.pins,
                     frozen |-> comparison'.frozen, spine |-> comparison'.spine, next |-> comparison'.next,
                     changed |-> comparison'.changed, sound |-> comparison'.sound,
                     rebuilt |-> comparison'.rebuilt, baseline |-> comparison'.baseline]
  BY <1>2, <1>5 DEF CallIsSound, CallIsTyped
<1>18. Seen' = Seen /\ Db' = N /\ \A version : SpineOf(version)' = SpineOf(version)
  BY <1>1, <1>15, <1>16, SameSeen DEF Db
<1>19. CallIsTyped'
  BY <1>1, <1>2, <1>16, <1>17 DEF CallIsSound, CallIsTyped
<1>20. Started'
  BY <1>1, <1>2, <1>16 DEF CallIsSound, Started, Opening
<1>21. Progressed'
  BY <1>2, <1>10, <1>15, <1>16, <1>18 DEF CallIsSound, Progressed, Reached
<1>22. ASSUME comparison'.sound, NEW o \in Outputs PROVE Modelled(Db, o)'
  <2>1. Modelled(N, o)
    BY <1>13, <1>16, <1>22
  <2> QED
    BY <1>18, <2>1 DEF Modelled
<1>23. Carried' /\ Dated'
  BY <1>16, <1>18, <1>22, <1>28 DEF Carried, Dated
<1>24. Prepared'
  BY <1>6, <1>15, <1>16, <1>18 DEF Prepared
<1>25. IsBuilt'
  <2>1. comparison'.rebuilt \subseteq Outputs
    BY <1>8, <1>16
  <2>2. ASSUME NEW o \in comparison'.rebuilt PROVE Of(Db.models[o].code)'
    <3>1. N.models[o].code = code
      BY <1>8, <1>9, <1>10, <1>12, <1>16, <2>2
    <3> QED
      BY <1>1, <1>3, <1>16, <1>18, <3>1 DEF Of
  <2> QED
    BY <1>22, <2>1, <2>2 DEF IsBuilt
<1>26. SpineIsSeen'
  BY <1>1, <1>2, <1>3, <1>16, <1>18 DEF CallIsSound, CallIsTyped, SpineIsSeen, Spun, Of
<1>27. Judged'
  BY <1>16 DEF Judged
<1> QED
  BY <1>1, <1>15, <1>19, <1>20, <1>21, <1>23, <1>24, <1>25, <1>26, <1>27, CallMoves DEF CallIsSound

(* The rows of an output are those of its kinds.                            *)
LEMMA RowsOfKinds ==
    ASSUME NEW visible, NEW kinds
    PROVE  UNION {Compared!Rows(visible, {k}) : k \in kinds} = Compared!Rows(visible, kinds)
  BY DEF Compared!Rows

LEMMA ModelsSee ==
    ASSUME PInv, CallIsSound, Closing, comparison.sound, comparison.mode # "definition", NEW o \in Outputs
    PROVE  Db.models[o].rows = Compared!Rows(Seen, Needs[o]) /\ Modelled(Db, o)
<1>1. /\ comparison.next = Len(Kinds) + 1 /\ Len(Kinds) \in Nat \ {0} /\ Modelled(Db, o)
  BY KindsAre DEF CallIsSound, Prepared, IsBuilt
<1>2. Reached(Db, Seen, Len(Kinds) + 1)
  BY <1>1 DEF CallIsSound, Progressed
<1>3. \A k \in Needs[o] : Db.raw[k] = Compared!Rows(Seen, {k})
  <2> SUFFICES ASSUME NEW k \in Needs[o] PROVE Db.raw[k] = Compared!Rows(Seen, {k})
    OBVIOUS
  <2>1. PICK i \in 1 .. Len(Kinds) : k = Kinds[i]
    BY KindsAre
  <2>2. i < Len(Kinds) + 1
    BY <1>1
  <2> QED
    BY <1>2, <2>1, <2>2 DEF Reached
<1>4. {Db.raw[k] : k \in Needs[o]} = {Compared!Rows(Seen, {k}) : k \in Needs[o]}
  BY <1>3
<1> QED
  BY <1>1, <1>4, RowsOfKinds DEF Modelled

LEMMA JudgeStep == ASSUME PInv, Compared!Judge PROVE PInv'
<1> DEFINE S == IF comparison.program = "session" THEN SpineOf(comparison.pins) ELSE comparison.spine
<1>1. /\ comparison.at = "judge" /\ UNCHANGED <<table, code, base, recorded>>
      /\ comparison' = [comparison EXCEPT !.at = "record", !.spine = S, !.baseline = Db.models]
  BY DEF Compared!Judge, Db, SpineOf
<1>2. CallIsSound
  BY <1>1, Underway
<1>3. /\ comparison'.at = "record"
      /\ comparison'.mode = comparison.mode /\ comparison'.program = comparison.program
      /\ comparison'.order = comparison.order /\ comparison'.root = comparison.root
      /\ comparison'.pins = comparison.pins /\ comparison'.frozen = comparison.frozen
      /\ comparison'.next = comparison.next /\ comparison'.spine = S
      /\ comparison'.changed = comparison.changed /\ comparison'.sound = comparison.sound
      /\ comparison'.rebuilt = comparison.rebuilt /\ comparison'.baseline = Db.models
  <2> HIDE DEF S
  <2> QED
    BY <1>1, <1>2 DEF CallIsSound, CallIsTyped
<1>4. comparison' = [at |-> comparison'.at, program |-> comparison'.program, mode |-> comparison'.mode,
                     order |-> comparison'.order, root |-> comparison'.root, pins |-> comparison'.pins,
                     frozen |-> comparison'.frozen, spine |-> comparison'.spine, next |-> comparison'.next,
                     changed |-> comparison'.changed, sound |-> comparison'.sound,
                     rebuilt |-> comparison'.rebuilt, baseline |-> comparison'.baseline]
  <2> HIDE DEF S
  <2> QED
    BY <1>1, <1>2 DEF CallIsSound, CallIsTyped
<1>5. Seen' = Seen /\ Db' = Db /\ \A version : SpineOf(version)' = SpineOf(version)
  BY <1>1, <1>3, SameSeen, SameDb
<1>6. /\ comparison.pins \in 1 .. 2 /\ comparison.pins <= code /\ code \in 1 .. 2
      /\ Closing
  BY <1>1, <1>2 DEF CallIsSound, CallIsTyped, PInv, Closing
<1>7. \E version \in 1 .. 2 : Of(version) /\ S = SpineOf(version)
  <2>1. CASE comparison.program = "session"
    BY <1>6, <2>1 DEF Of
  <2>2. CASE comparison.program # "session"
    <3>1. S = comparison.spine
      BY <2>2
    <3>2. Spun
      BY <1>1, <1>2, <2>2 DEF CallIsSound, CallIsTyped, Spun
    <3> QED
      BY <1>2, <3>1, <3>2 DEF CallIsSound, SpineIsSeen
  <2> QED
    BY <2>1, <2>2
<1> HIDE DEF S
<1>8. CallIsTyped'
  BY <1>1, <1>2, <1>3, <1>4 DEF CallIsSound, CallIsTyped
<1>9. Started' /\ Progressed'
  BY <1>1, <1>2, <1>3, <1>5 DEF CallIsSound, Started, Opening, Progressed
<1>10. \A o : Modelled(Db, o)' <=> Modelled(Db, o)
  BY <1>5 DEF Modelled
<1>11. Carried' /\ Dated' /\ Prepared'
  BY <1>2, <1>3, <1>5, <1>6, <1>10 DEF CallIsSound, Carried, Dated, Prepared
<1>12. ASSUME NEW o \in comparison.rebuilt PROVE Of(Db.models[o].code) /\ Of(Db.models[o].code)'
  BY <1>1, <1>2, <1>3, <1>5, <1>6 DEF CallIsSound, IsBuilt, Of
<1>13. IsBuilt'
  BY <1>2, <1>3, <1>6, <1>10, <1>12 DEF CallIsSound, IsBuilt
<1>14. SpineIsSeen'
  BY <1>1, <1>3, <1>5, <1>7 DEF SpineIsSeen, Of
<1>15. Judged'
  <2>1. ASSUME comparison.sound, comparison.mode # "definition", NEW o \in Outputs
        PROVE  Db.models[o].rows = Compared!Rows(Seen, Needs[o]) /\ Modelled(Db, o)
    BY <1>2, <1>6, <2>1, ModelsSee
  <2>2. ASSUME NEW o \in comparison'.rebuilt PROVE Of(comparison.baseline[o].code)'
    BY <1>1, <1>3, <1>12, <2>2 DEF Of
  <2> QED
    BY <1>3, <1>5, <2>1, <2>2 DEF Judged, Modelled
<1> QED
  BY <1>1, <1>8, <1>9, <1>11, <1>13, <1>14, <1>15, CallMoves, SameBases DEF CallIsSound

LEMMA RecordStep == ASSUME PInv, Compared!Record PROVE PInv'
<1> DEFINE R == [mode |-> comparison.mode, root |-> comparison.root, pins |-> comparison.pins,
                 frozen |-> comparison.frozen, spine |-> comparison.spine, baseline |-> comparison.baseline,
                 rebuilt |-> comparison.rebuilt, sound |-> comparison.sound,
                 calendars |-> Db.calendars, lenses |-> Db.lenses,
                 status |-> Compared!Status(comparison.spine, comparison.baseline)]
<1>1. /\ comparison.at = "record" /\ code = comparison.pins /\ recorded' = recorded \cup {R}
      /\ comparison' = Compared!Idle /\ UNCHANGED <<table, code, base>>
  BY DEF Compared!Record, Compared!Db, Db
<1>2. CallIsSound
  BY <1>1, Underway
<1>3. ASSUME NEW version, Of(version) PROVE version = comparison.pins
  BY <1>1, <1>2, <1>3 DEF Of, CallIsSound, CallIsTyped
<1>4. RecordIsSound(R)
  <2>1. R.frozen.watermark \in 0 .. Len(table)
    BY <1>2 DEF CallIsSound, CallIsTyped
  <2>2. R.spine = Compared!Spine(R.frozen, R.pins)
    BY <1>1, <1>2, <1>3 DEF CallIsSound, SpineIsSeen, Spun, SpineOf
  <2>3. \A o \in R.rebuilt : R.baseline[o].code = R.pins
    BY <1>1, <1>2, <1>3 DEF CallIsSound, Judged
  <2>4. ASSUME R.mode # "definition", R.sound, R.calendars = {Compared!Calendar(R.frozen)},
               R.lenses = R.frozen.version
        PROVE  R.status = "equivalent"
    <3>1. ASSUME NEW o \in Outputs
          PROVE  /\ comparison.baseline[o].rows = Compared!Rows(Seen, Needs[o])
                 /\ comparison.baseline[o].calendars = {Compared!Calendar(comparison.frozen)}
                 /\ comparison.baseline[o].floor = Compared!Floor(o, comparison.frozen.version)
      BY <1>1, <1>2, <2>4 DEF CallIsSound, Judged
    <3>2. ASSUME NEW o \in Outputs
          PROVE  /\ comparison.spine[o].rows = Compared!Rows(Seen, Needs[o])
                 /\ comparison.spine[o].calendars = {Compared!Calendar(comparison.frozen)}
                 /\ comparison.spine[o].floor = Compared!Floor(o, comparison.frozen.version)
      BY <2>2 DEF Compared!Spine, Seen
    <3> QED
      BY <3>1, <3>2 DEF Compared!Status, Compared!Agree
  <2> QED
    BY <2>1, <2>2, <2>3, <2>4 DEF RecordIsSound
<1> HIDE DEF R
<1>5. ASSUME NEW r \in recorded' PROVE RecordIsSound(r)'
  <2>1. RecordIsSound(r)
    BY <1>1, <1>4 DEF PInv
  <2>2. Compared!Visible(r.frozen)' = Compared!Visible(r.frozen)
    BY <1>1 DEF Compared!Visible
  <2>3. /\ Compared!Calendar(r.frozen)' = Compared!Calendar(r.frozen)
        /\ Compared!Spine(r.frozen, r.pins)' = Compared!Spine(r.frozen, r.pins)
    BY <2>2, SpineStays
  <2>4. Compared!Status(r.spine, r.baseline)' = Compared!Status(r.spine, r.baseline)
    BY DEF Compared!Status, Compared!Agree
  <2> QED
    BY <1>1, <2>1, <2>3, <2>4 DEF RecordIsSound
<1> QED
  BY <1>1, <1>5, SameBases DEF PInv

LEMMA IdleMoves ==
    ASSUME PInv, \/ Compared!Abort
                 \/ \E r, s \in Roots : Compared!Clone(r, s)
                 \/ \E r \in Roots : Compared!Release(r)
    PROVE  PInv'
<1>1. CASE Compared!Abort
  <2>1. comparison' = Compared!Idle /\ UNCHANGED <<table, code, base, recorded>>
    BY <1>1 DEF Compared!Abort
  <2> QED
    BY <2>1, SameBases, CallMoves
<1>2. ASSUME NEW r \in Roots, NEW s \in Roots, Compared!Clone(r, s) PROVE PInv'
  <2>1. /\ base[r] # None /\ base' = [base EXCEPT ![s] = base[r]]
        /\ comparison' = Compared!Idle /\ UNCHANGED <<table, code, recorded>>
    BY <1>2 DEF Compared!Clone
  <2>2. BaseIsSound(base[r])
    BY <2>1 DEF PInv, BasesAreSound
  <2>3. BasesAreSound'
    BY <2>1, <2>2, BaseSet
  <2> QED
    BY <2>1, <2>3, CallMoves
<1>3. ASSUME NEW r \in Roots, Compared!Release(r) PROVE PInv'
  <2>1. /\ base' = [base EXCEPT ![r] = None]
        /\ comparison' = Compared!Idle /\ UNCHANGED <<table, code, recorded>>
    BY <1>3 DEF Compared!Release
  <2>2. BasesAreSound'
    <3>1. base = [q \in Roots |-> base[q]] /\ \A q \in Roots : base[q] # None => BaseIsSound(base[q])
      BY DEF PInv, BasesAreSound
    <3>2. base' = [q \in Roots |-> IF q = r THEN None ELSE base[q]]
      BY <2>1, <3>1
    <3>3. ASSUME NEW q \in Roots, base'[q] # None PROVE BaseIsSound(base[q])'
      BY <3>1, <3>2, <3>3 DEF BaseIsSound, Modelled
    <3> QED
      BY <3>2, <3>3 DEF BasesAreSound
  <2> QED
    BY <2>1, <2>2, CallMoves
<1> QED
  BY <1>1, <1>2, <1>3

LEMMA ComparedStep == ASSUME PInv, [Compared!Next]_Compared!vars PROVE PInv'
<1>1. CASE UNCHANGED Compared!vars
  <2>1. UNCHANGED <<table, code, base, comparison, recorded>>
    BY <1>1 DEF Compared!vars
  <2>2. CASE comparison = Compared!Idle
    BY <2>1, <2>2, SameBases, CallMoves
  <2>3. CASE CallIsSound
    <3>1. Seen' = Seen /\ Db' = Db /\ \A version : SpineOf(version)' = SpineOf(version)
      BY <2>1, SameSeen, SameDb
    <3>2. CallIsTyped' /\ Started' /\ Progressed' /\ Prepared' /\ Dated'
      BY <2>1, <2>3, <3>1 DEF CallIsSound, CallIsTyped, Started, Progressed, Prepared, Dated, Opening, Closing
    <3>3. \A o : Modelled(Db, o)' <=> Modelled(Db, o)
      BY <3>1 DEF Modelled
    <3>4. Carried' /\ IsBuilt'
      BY <2>1, <2>3, <3>1, <3>3 DEF CallIsSound, Carried, IsBuilt, Closing, Of
    <3>5. SpineIsSeen' /\ Judged'
      BY <2>1, <2>3, <3>1 DEF CallIsSound, SpineIsSeen, Spun, Judged, Of
    <3> QED
      BY <2>1, <3>2, <3>4, <3>5, SameBases, CallMoves DEF CallIsSound
  <2> QED
    BY <2>2, <2>3 DEF PInv
<1>2. ASSUME NEW mode \in Compared!Modes, NEW root \in Roots, NEW ask \in Asked,
             \/ Compared!BeginInSession(mode, root, ask)
             \/ \E order \in {"baseline_first", "spine_first"} : Compared!BeginWithWorkers(mode, order, root, ask)
      PROVE  PInv'
  BY <1>2, BeginStep DEF Compared!BeginInSession, Compared!BeginWithWorkers
<1>3. CASE Compared!Next
  BY <1>2, <1>3, WorldMoves, WorkerStep, ReplaceStep, IncreaseStep, EndStep, BuildStep, BuildSomeStep, JudgeStep,
     RecordStep, IdleMoves DEF Compared!Next
<1> QED
  BY <1>1, <1>3

LEMMA ComparisonsSuffice == ASSUME PInv PROVE ComparisonsHold
<1>1. ASSUME NEW r \in recorded
      PROVE  /\ r.status = "different" =>
                   \/ r.mode = "definition" \/ ~r.sound
                   \/ r.calendars # {Compared!Calendar(r.frozen)} \/ r.lenses # r.frozen.version
             /\ \A o \in Outputs : r.spine[o].code = r.pins
             /\ \A o \in r.rebuilt : r.baseline[o].code = r.pins
             /\ r.spine = Compared!Spine(r.frozen, r.pins) /\ r.status = Compared!Status(r.spine, r.baseline)
  BY DEF PInv, RecordIsSound, Compared!Spine
<1>2. \A r \in recorded : Compared!Replayed(r) \in {r.status, "historical"}
  BY <1>1 DEF Compared!Replayed, Compared!ReplaySpine
<1> QED
  BY <1>1, <1>2 DEF ComparisonsHold, Compared!ComparisonsHold, Compared!DifferenceIsReal,
                    Compared!PopulationsAreAttributed, Compared!ComparisonsReplay

(* Whatever is appended, edited or aborted between the steps of calls on    *)
(* any number of baselines: the two sides of a comparison differ only if    *)
(* the call kept an older source, began with a baseline left half built, or *)
(* increased one whose dim_date or int_nrr_lenses are of other dates or of  *)
(* another definition; the code it is filed under has computed them, and it *)
(* replays to what it said (src/tl/compare/engine.py and baseline.py,       *)
(* src/tl/views/benchmark.py, src/baseline/models/dim_date.sql).            *)
THEOREM ComparedSidesSeeTheSame == Compared!Spec => []ComparisonsHold
<1>1. Compared!Init => PInv
  BY ComparedInit
<1>2. PInv /\ [Compared!Next]_Compared!vars => PInv'
  BY ComparedStep
<1>3. PInv => ComparisonsHold
  BY ComparisonsSuffice
<1> QED
  BY <1>1, <1>2, <1>3, PTL DEF Compared!Spec

(***************************************************************************)
(* Sums over finite sets, by induction on the numbers, as in               *)
(* RecognitionProofs.                                                      *)
(***************************************************************************)
(* The natural numbers are well ordered. *)
LEMMA LeastOfSet ==
    ASSUME NEW T, T \subseteq Nat, T # {}
    PROVE  \E n \in T : \A m \in T : ~ (m < n)
<1> DEFINE R == OpToRel(<, Nat)
<1>1. IsWellFoundedOn(R, Nat)
  BY NatLessThanWellFounded
<1>2. \A m, n \in Nat : <<m, n>> \in R <=> m < n
  BY DEF OpToRel
<1> HIDE DEF R
<1>3. \E n \in T : \A m \in T : ~ (<<m, n>> \in R)
  BY <1>1, WFMin
<1> QED BY <1>2, <1>3

(* A set of numbers that has 0 and with each number the next one has all.   *)
LEMMA InductiveSet ==
    ASSUME NEW T, 0 \in T, \A n \in Nat : n \in T => n + 1 \in T
    PROVE  \A n \in Nat : n \in T
<1> SUFFICES ASSUME NEW k \in Nat, k \notin T PROVE FALSE
  OBVIOUS
<1>1. PICK n \in Nat \ T : \A m \in Nat \ T : ~ (m < n)
  <2>1. Nat \ T \subseteq Nat /\ Nat \ T # {}
    OBVIOUS
  <2> QED BY <2>1, LeastOfSet
<1>2. n - 1 \in Nat /\ n - 1 < n /\ (n - 1) + 1 = n
  BY <1>1
<1> QED BY <1>1, <1>2

-----------------------------------------------------------------------------
(* A sum over a finite set: it takes its terms in an order of its own.      *)
Some(s) == CHOOSE x \in s : TRUE
SumTerm(f, g, s) == IF s = {} THEN 0 ELSE f[Some(s)] + g[s \ {Some(s)}]
IsSum(f, g, SS) == g = [s \in SS |-> SumTerm(f, g, s)]
SumOf(f, S) == CHOOSE g : IsSum(f, g, SUBSET S)

LEMMA SumIsChosen ==
    ASSUME NEW f, NEW S PROVE SumFunctionOnSet(f, S) = SumOf(f, S)[S]
BY DEF SumFunctionOnSet, FoldFunctionOnSet, MapThenFoldSet, SumOf, IsSum, SumTerm, Some

LEMMA SomeSmaller ==
    ASSUME NEW s, IsFiniteSet(s), s # {}
    PROVE  /\ Some(s) \in s /\ IsFiniteSet(s \ {Some(s)})
           /\ Cardinality(s) \in Nat
           /\ Cardinality(s \ {Some(s)}) = Cardinality(s) - 1
<1>1. Some(s) \in s
  BY DEF Some
<1> QED BY <1>1, FS_RemoveElement, FS_CardinalityType

LEMMA SumsExist ==
    ASSUME NEW f, NEW S, IsFiniteSet(S)
    PROVE  IsSum(f, SumOf(f, S), SUBSET S)
<1> DEFINE Upto(n) == {s \in SUBSET S : Cardinality(s) <= n}
           T == {n \in Nat : \E g : IsSum(f, g, Upto(n))}
<1>0. \A s \in SUBSET S : IsFiniteSet(s) /\ Cardinality(s) \in Nat
  BY FS_Subset, FS_CardinalityType
<1>1. 0 \in T
  <2> DEFINE g == [s \in Upto(0) |-> 0]
  <2>1. \A s \in Upto(0) : s = {}
    <3> SUFFICES ASSUME NEW s \in Upto(0) PROVE s = {}
      OBVIOUS
    <3>1. Cardinality(s) = 0
      BY <1>0
    <3> QED BY <1>0, <3>1, FS_EmptySet
  <2>2. g = [s \in Upto(0) |-> SumTerm(f, g, s)]
    BY <2>1 DEF SumTerm
  <2> QED BY <2>2 DEF IsSum
<1>2. ASSUME NEW n \in Nat, n \in T PROVE n + 1 \in T
  <2>1. PICK g : IsSum(f, g, Upto(n))
    BY <1>2
  <2> DEFINE h == [s \in Upto(n + 1) |-> SumTerm(f, g, s)]
  <2>2. \A s \in Upto(n) : h[s] = g[s]
    <3>1. Upto(n) \subseteq Upto(n + 1)
      BY <1>0
    <3> QED BY <2>1, <3>1 DEF IsSum
  <2>3. ASSUME NEW s \in Upto(n + 1), s # {} PROVE s \ {Some(s)} \in Upto(n)
    BY <1>0, <2>3, SomeSmaller
  <2>4. \A s \in Upto(n + 1) : SumTerm(f, g, s) = SumTerm(f, h, s)
    BY <2>2, <2>3 DEF SumTerm
  <2>5. h = [s \in Upto(n + 1) |-> SumTerm(f, h, s)]
    BY <2>4
  <2> HIDE DEF h
  <2>6. IsSum(f, h, Upto(n + 1))
    BY <2>5 DEF IsSum
  <2> QED BY <2>6
<1> HIDE DEF T
<1>3. \A n \in Nat : n \in T
  BY <1>1, <1>2, InductiveSet
<1>4. Upto(Cardinality(S)) = SUBSET S
  <2>1. \A s \in SUBSET S : Cardinality(s) <= Cardinality(S)
    BY FS_Subset
  <2> QED BY <2>1
<1>5. \E g : IsSum(f, g, SUBSET S)
  BY <1>3, <1>4, FS_CardinalityType DEF T
<1> QED BY <1>5 DEF SumOf

LEMMA SumsAgree ==
    ASSUME NEW f, NEW S, IsFiniteSet(S), NEW U \in SUBSET S
    PROVE  SumOf(f, S)[U] = SumOf(f, U)[U]
<1> DEFINE g == SumOf(f, S)
           h == SumOf(f, U)
           T == {n \in Nat : \A s \in SUBSET U : Cardinality(s) <= n => g[s] = h[s]}
<1>0. \A s \in SUBSET U : IsFiniteSet(s) /\ Cardinality(s) \in Nat /\ s \in SUBSET S
  BY FS_Subset, FS_CardinalityType
<1>1. \A s \in SUBSET U : g[s] = SumTerm(f, g, s) /\ h[s] = SumTerm(f, h, s)
  <2>1. IsSum(f, g, SUBSET S) /\ IsSum(f, h, SUBSET U)
    BY <1>0, SumsExist
  <2> HIDE DEF g, h
  <2> QED BY <1>0, <2>1 DEF IsSum
<1> HIDE DEF g, h
<1>2. 0 \in T
  <2> SUFFICES ASSUME NEW s \in SUBSET U, Cardinality(s) <= 0 PROVE g[s] = h[s]
    OBVIOUS
  <2>1. s = {}
    BY <1>0, FS_EmptySet
  <2> QED BY <1>1, <2>1 DEF SumTerm
<1>3. ASSUME NEW n \in Nat, n \in T PROVE n + 1 \in T
  <2> SUFFICES ASSUME NEW s \in SUBSET U, Cardinality(s) <= n + 1, s # {} PROVE g[s] = h[s]
    BY <1>1 DEF SumTerm
  <2>1. s \ {Some(s)} \in SUBSET U /\ Cardinality(s \ {Some(s)}) <= n
    BY <1>0, SomeSmaller
  <2>2. g[s \ {Some(s)}] = h[s \ {Some(s)}]
    BY <1>3, <2>1
  <2> QED BY <1>1, <2>2 DEF SumTerm
<1> HIDE DEF T
<1>4. \A n \in Nat : n \in T
  BY <1>2, <1>3, InductiveSet
<1> QED BY <1>0, <1>4 DEF T, g, h

LEMMA SumOfSome ==
    ASSUME NEW f, NEW S, IsFiniteSet(S)
    PROVE  SumFunctionOnSet(f, S) =
             IF S = {} THEN 0 ELSE f[Some(S)] + SumFunctionOnSet(f, S \ {Some(S)})
<1>1. SumOf(f, S)[S] = SumTerm(f, SumOf(f, S), S)
  <2> DEFINE g == SumOf(f, S)
  <2>1. IsSum(f, g, SUBSET S)
    BY SumsExist
  <2> HIDE DEF g
  <2>2. g[S] = SumTerm(f, g, S)
    BY <2>1 DEF IsSum
  <2> QED BY <2>2 DEF g
<1>2. SumOf(f, S)[S \ {Some(S)}] = SumOf(f, S \ {Some(S)})[S \ {Some(S)}]
  BY SumsAgree
<1> QED BY <1>1, <1>2, SumIsChosen DEF SumTerm

LEMMA SumOfEmpty == ASSUME NEW f PROVE SumFunctionOnSet(f, {}) = 0
BY SumOfSome, FS_EmptySet

(* The terms may be taken in any order.                                     *)
LEMMA SumOfAny ==
    ASSUME NEW f, NEW S, IsFiniteSet(S), \A x \in S : f[x] \in Int
    PROVE  /\ SumFunctionOnSet(f, S) \in Int
           /\ \A x \in S : SumFunctionOnSet(f, S) = f[x] + SumFunctionOnSet(f, S \ {x})
<1> DEFINE Good(s) == /\ SumFunctionOnSet(f, s) \in Int
                      /\ \A x \in s : SumFunctionOnSet(f, s) = f[x] + SumFunctionOnSet(f, s \ {x})
           T == {n \in Nat : \A s \in SUBSET S : Cardinality(s) <= n => Good(s)}
<1>0. \A s \in SUBSET S : IsFiniteSet(s) /\ Cardinality(s) \in Nat
  BY FS_Subset, FS_CardinalityType
<1>1. 0 \in T
  <2> SUFFICES ASSUME NEW s \in SUBSET S, Cardinality(s) <= 0 PROVE Good(s)
    OBVIOUS
  <2>1. s = {}
    BY <1>0, FS_EmptySet
  <2> QED BY <2>1, SumOfEmpty
<1>2. ASSUME NEW n \in Nat, n \in T PROVE n + 1 \in T
  <2> SUFFICES ASSUME NEW s \in SUBSET S, Cardinality(s) <= n + 1 PROVE Good(s)
    OBVIOUS
  <2>0. CASE s = {}
    BY <2>0, SumOfEmpty
  <2>1. CASE s # {}
    <3> DEFINE y == Some(s)
    <3>1. /\ y \in s /\ s \ {y} \in SUBSET S
          /\ SumFunctionOnSet(f, s) = f[y] + SumFunctionOnSet(f, s \ {y})
      BY <1>0, <2>1, SomeSmaller, SumOfSome
    <3> HIDE DEF y
    <3>2. \A x \in s : s \ {x} \in SUBSET S /\ Cardinality(s \ {x}) <= n
      BY <1>0, FS_RemoveElement
    <3>3. \A x \in s : Good(s \ {x})
      BY <1>2, <3>2
    <3>4. ASSUME NEW x \in s, x # y
          PROVE  SumFunctionOnSet(f, s) = f[x] + SumFunctionOnSet(f, s \ {x})
      <4>1. x \in s \ {y} /\ y \in s \ {x} /\ (s \ {y}) \ {x} = (s \ {x}) \ {y}
        BY <3>1, <3>4
      <4> DEFINE rest == SumFunctionOnSet(f, (s \ {x}) \ {y})
      <4>2. SumFunctionOnSet(f, s \ {y}) = f[x] + SumFunctionOnSet(f, (s \ {y}) \ {x})
        BY <3>1, <3>3, <4>1
      <4>3. SumFunctionOnSet(f, s \ {x}) = f[y] + rest
        BY <3>3, <4>1
      <4>4. /\ f[x] \in Int /\ f[y] \in Int /\ (s \ {x}) \ {y} \in SUBSET S
            /\ Cardinality((s \ {x}) \ {y}) <= n
        <5>1. IsFiniteSet(s \ {x}) /\ Cardinality((s \ {x}) \ {y}) <= Cardinality(s \ {x})
          BY <1>0, <3>2, FS_Subset
        <5>2. (s \ {x}) \ {y} \in SUBSET S
          OBVIOUS
        <5> QED BY <1>0, <3>1, <3>2, <5>1, <5>2
      <4>5. rest \in Int
        BY <1>2, <4>4
      <4>6. SumFunctionOnSet(f, (s \ {y}) \ {x}) = rest
        BY <4>1
      <4> HIDE DEF rest
      <4> QED BY <3>1, <4>2, <4>3, <4>4, <4>5, <4>6
    <3>5. SumFunctionOnSet(f, s) \in Int
      BY <3>1, <3>3
    <3> QED BY <3>1, <3>4, <3>5
  <2> QED BY <2>0, <2>1
<1> HIDE DEF T, Good
<1>3. \A n \in Nat : n \in T
  BY <1>1, <1>2, InductiveSet
<1>4. Good(S)
  BY <1>0, <1>3 DEF T
<1> QED BY <1>4 DEF Good

LEMMA FiniteInduction ==
    ASSUME NEW S, IsFiniteSet(S), NEW T, {} \in T,
           \A s \in SUBSET S : \A x \in S \ s : s \in T => s \cup {x} \in T
    PROVE  S \in T
<1> DEFINE N == {n \in Nat : \A s \in SUBSET S : Cardinality(s) <= n => s \in T}
<1>0. \A s \in SUBSET S : IsFiniteSet(s) /\ Cardinality(s) \in Nat
  BY FS_Subset, FS_CardinalityType
<1>1. 0 \in N
  <2> SUFFICES ASSUME NEW s \in SUBSET S, Cardinality(s) <= 0 PROVE s \in T
    OBVIOUS
  <2>1. s = {}
    BY <1>0, FS_EmptySet
  <2> QED BY <2>1
<1>2. ASSUME NEW n \in Nat, n \in N PROVE n + 1 \in N
  <2>1. ASSUME NEW s \in SUBSET S, Cardinality(s) <= n + 1, NEW x \in s PROVE s \in T
    <3>1. IsFiniteSet(s) /\ Cardinality(s) \in Nat /\ s \ {x} \in SUBSET S
      BY <1>0
    <3>2. Cardinality(s \ {x}) = Cardinality(s) - 1
      BY <2>1, <3>1, FS_RemoveElement
    <3>3. Cardinality(s \ {x}) <= n
      BY <2>1, <3>1, <3>2
    <3>4. s \ {x} \in T /\ x \in S \ (s \ {x}) /\ (s \ {x}) \cup {x} = s
      BY <1>2, <2>1, <3>1, <3>3
    <3> QED BY <3>1, <3>4
  <2> SUFFICES ASSUME NEW s \in SUBSET S, Cardinality(s) <= n + 1 PROVE s \in T
    OBVIOUS
  <2>2. CASE s = {}
    BY <2>2
  <2> QED BY <2>1, <2>2
<1> HIDE DEF N
<1>3. \A n \in Nat : n \in N
  BY <1>1, <1>2, InductiveSet
<1> QED BY <1>0, <1>3 DEF N

(***************************************************************************)
(* The evidence bundle, for any entries, fees, ERP file and declarations.   *)
(***************************************************************************)
Entry == [family : Families, source : Ledgers, document : Documents, month : Bundles!EntryMonths, cents : Cents]
MonthOf(i) == entries[i].month
CentsOfEntry == [i \in DOMAIN entries |-> entries[i].cents]

BundleTypes ==
    /\ entries \in Seq(Entry)
    /\ fees \in [Ledgers \X Documents -> {0} \cup Cents]
    /\ erp # None => \A l, m \in erp : l.key = m.key => l = m
    /\ erp # None => \A l \in erp : l.key \in Bundles!Lines

(* What the bridge is to say of the entries of a set.                       *)
Entered(S, k) == {i \in S : Bundles!KeyOf(entries[i]) = k}
InvoicesOf(S, k) == {Bundles!InvoiceOf(entries[i]) : i \in Entered(S, k) \cap Bundles!Billed}
Counting(S) == {i \in S : Bundles!Within(MonthOf(i))}
NetIn(S, k) == IF Bundles!Within(k[1]) THEN SumFunctionOnSet(CentsOfEntry, Entered(S, k)) ELSE 0
FeesIn(S, k) == IF Bundles!Within(k[1]) THEN SumFunctionOnSet(fees, InvoicesOf(S, k)) ELSE 0
Tally(S) ==
    [net |-> [k \in Bundles!Lines |-> NetIn(S, k)],
     fee |-> [k \in Bundles!Lines |-> FeesIn(S, k)],
     present |-> {Bundles!KeyOf(entries[i]) : i \in Counting(S)},
     seen |-> {Bundles!InvoiceOf(entries[i]) : i \in Counting(S) \cap Bundles!Billed}]

LEMMA EntriesAre ==
    ASSUME BundleTypes, NEW i \in DOMAIN entries
    PROVE  /\ entries[i] \in Entry /\ CentsOfEntry[i] = entries[i].cents /\ entries[i].cents \in Int
           /\ Bundles!KeyOf(entries[i])[1] = entries[i].month
           /\ i \in Bundles!Billed =>
                 /\ Bundles!KeyOf(entries[i]) \in Bundles!Lines
                 /\ Bundles!InvoiceOf(entries[i]) \in Ledgers \X Documents
           /\ Bundles!KeyOf(entries[i]) \in Bundles!Lines
<1>1. entries[i] \in Entry
  BY DEF BundleTypes
<1>2. entries[i].cents \in Int
  BY <1>1, CentsAssumption DEF Bundles!AmountsAreNumbers, Entry
<1>3. Bundles!KeyOf(entries[i]) \in Bundles!Lines /\ Bundles!InvoiceOf(entries[i]) \in Ledgers \X Documents
  BY <1>1 DEF Entry, Bundles!KeyOf, Bundles!Lines, Bundles!InvoiceOf
<1> QED BY <1>1, <1>2, <1>3 DEF CentsOfEntry, Bundles!KeyOf

LEMMA InvoicesAreFinite ==
    ASSUME BundleTypes, NEW S \in SUBSET DOMAIN entries, IsFiniteSet(S), NEW k
    PROVE  /\ IsFiniteSet(Entered(S, k)) /\ \A i \in Entered(S, k) : CentsOfEntry[i] \in Int
           /\ IsFiniteSet(InvoicesOf(S, k)) /\ \A v \in InvoicesOf(S, k) : fees[v] \in Int
<1> DEFINE K == Entered(S, k) \cap Bundles!Billed
           g == [i \in K |-> Bundles!InvoiceOf(entries[i])]
<1>1. IsFiniteSet(Entered(S, k)) /\ IsFiniteSet(K)
  BY FS_Subset DEF Entered
<1>2. IsFiniteSet(InvoicesOf(S, k))
  <2>1. g \in Surjection(K, InvoicesOf(S, k))
    BY DEF Surjection, InvoicesOf
  <2> HIDE DEF g, K
  <2> QED BY <1>1, <2>1, FS_Surjection
<1>3. \A i \in Entered(S, k) : CentsOfEntry[i] \in Int
  BY EntriesAre DEF Entered
<1>4. \A v \in InvoicesOf(S, k) : v \in Ledgers \X Documents
  BY EntriesAre DEF Entered, InvoicesOf
<1>5. \A v \in InvoicesOf(S, k) : fees[v] \in Int
  <2>1. \A v \in Ledgers \X Documents : fees[v] \in {0} \cup Cents
    BY DEF BundleTypes
  <2>2. \A c \in {0} \cup Cents : c \in Int
    BY CentsAssumption DEF Bundles!AmountsAreNumbers
  <2> SUFFICES ASSUME NEW v \in InvoicesOf(S, k) PROVE fees[v] \in Int
    OBVIOUS
  <2>3. fees[v] \in {0} \cup Cents
    BY <1>4, <2>1
  <2> QED BY <2>2, <2>3
<1> QED BY <1>1, <1>2, <1>3, <1>5

(* Sums of integers, of which an instance of the model has its own name.    *)
LEMMA SameSum == \A f, S : Bundles!SumFunctionOnSet(f, S) = SumFunctionOnSet(f, S)
BY DEF SumFunctionOnSet, FoldFunctionOnSet, MapThenFoldSet,
       Bundles!SumFunctionOnSet, Bundles!FoldFunctionOnSet, Bundles!MapThenFoldSet

(* One more entry of an account.                                            *)
LEMMA NetGrows ==
    ASSUME BundleTypes, NEW S \in SUBSET DOMAIN entries, IsFiniteSet(S), NEW i \in S, NEW k
    PROVE  NetIn(S, k) = IF Bundles!Within(MonthOf(i)) /\ k = Bundles!KeyOf(entries[i])
                         THEN NetIn(S \ {i}, k) + entries[i].cents ELSE NetIn(S \ {i}, k)
<1> DEFINE f == CentsOfEntry
<1>0. Bundles!KeyOf(entries[i])[1] = MonthOf(i) /\ f[i] = entries[i].cents /\ f[i] \in Int
  BY EntriesAre DEF MonthOf
<1>1. Entered(S \ {i}, k) = Entered(S, k) \ {i}
  BY DEF Entered
<1>2. CASE k = Bundles!KeyOf(entries[i])
  <2>1. i \in Entered(S, k) /\ (Bundles!Within(k[1]) <=> Bundles!Within(MonthOf(i)))
    BY <1>0, <1>2 DEF Entered
  <2>2. SumFunctionOnSet(f, Entered(S, k)) = f[i] + SumFunctionOnSet(f, Entered(S, k) \ {i})
    BY <2>1, InvoicesAreFinite, SumOfAny
  <2>3. SumFunctionOnSet(f, Entered(S, k) \ {i}) \in Int
    <3>1. IsFiniteSet(Entered(S, k) \ {i}) /\ \A j \in Entered(S, k) \ {i} : f[j] \in Int
      BY InvoicesAreFinite, FS_Subset
    <3> QED BY <3>1, SumOfAny
  <2> DEFINE rest == SumFunctionOnSet(f, Entered(S, k) \ {i})
  <2>4. f[i] + rest = rest + f[i]
    BY <1>0, <2>3
  <2> HIDE DEF f
  <2>5. CASE Bundles!Within(MonthOf(i))
    <3>1. NetIn(S, k) = rest + f[i] /\ NetIn(S \ {i}, k) = rest
      BY <1>1, <2>1, <2>2, <2>4, <2>5 DEF NetIn, f
    <3> QED BY <1>0, <1>2, <2>5, <3>1
  <2>6. CASE ~ Bundles!Within(MonthOf(i))
    BY <2>1, <2>6 DEF NetIn
  <2> QED BY <2>5, <2>6
<1>3. CASE k # Bundles!KeyOf(entries[i])
  <2>1. Entered(S, k) \ {i} = Entered(S, k)
    BY <1>3 DEF Entered
  <2> QED BY <1>1, <1>3, <2>1 DEF NetIn
<1> QED BY <1>2, <1>3

(* ... and of its fee, unless the invoice has been seen.                    *)
Billings(S) == {Bundles!InvoiceOf(entries[i]) : i \in Counting(S) \cap Bundles!Billed}
FirstOf(S, i) == i \in Bundles!Billed /\ Bundles!InvoiceOf(entries[i]) \notin Billings(S)

LEMMA FeesGrow ==
    ASSUME BundleTypes, NEW S \in SUBSET DOMAIN entries, IsFiniteSet(S), NEW i \in S, NEW k
    PROVE  FeesIn(S, k) = IF Bundles!Within(MonthOf(i)) /\ k = Bundles!KeyOf(entries[i]) /\ FirstOf(S \ {i}, i)
                          THEN FeesIn(S \ {i}, k) + fees[Bundles!InvoiceOf(entries[i])] ELSE FeesIn(S \ {i}, k)
<1> DEFINE v == Bundles!InvoiceOf(entries[i])
           old == InvoicesOf(S \ {i}, k)
           new == InvoicesOf(S, k)
<1>0. Bundles!KeyOf(entries[i])[1] = MonthOf(i) /\ (k = Bundles!KeyOf(entries[i]) => k[1] = MonthOf(i))
  BY EntriesAre DEF MonthOf
<1>1. CASE k # Bundles!KeyOf(entries[i]) \/ i \notin Bundles!Billed
  <2>1. Entered(S \ {i}, k) \cap Bundles!Billed = Entered(S, k) \cap Bundles!Billed
    BY <1>1 DEF Entered
  <2>2. old = new
    BY <2>1 DEF InvoicesOf
  <2> QED BY <1>1, <2>2 DEF FeesIn, FirstOf
<1>2. CASE ~ Bundles!Within(MonthOf(i))
  <2>1. CASE k = Bundles!KeyOf(entries[i])
    BY <1>0, <1>2, <2>1 DEF FeesIn
  <2> QED BY <1>1, <2>1
<1>3. ASSUME Bundles!Within(MonthOf(i)), k = Bundles!KeyOf(entries[i]), i \in Bundles!Billed
      PROVE  /\ new = old \cup {v}
             /\ v \in old <=> v \in Billings(S \ {i})
  <2>1. Entered(S, k) \cap Bundles!Billed = (Entered(S \ {i}, k) \cap Bundles!Billed) \cup {i}
    BY <1>3 DEF Entered
  <2>2. new = old \cup {v}
    BY <2>1 DEF InvoicesOf
  <2>3. ASSUME NEW j \in (S \ {i}) \cap Bundles!Billed, Bundles!InvoiceOf(entries[j]) = v
        PROVE  Bundles!KeyOf(entries[j]) = k <=> Bundles!Within(MonthOf(j))
    <3>1. /\ Bundles!KeyOf(entries[j])[1] = MonthOf(j) /\ entries[j].source = entries[i].source
          /\ entries[j].family = "consumption" /\ entries[i].family = "consumption"
      BY <1>3, <2>3, EntriesAre DEF MonthOf, Bundles!InvoiceOf, Bundles!Billed
    <3>2. MonthOf(i) = 1 /\ (Bundles!Within(MonthOf(j)) <=> MonthOf(j) = 1)
      BY <1>3 DEF Bundles!Within
    <3>3. /\ Bundles!KeyOf(entries[j]) = <<MonthOf(j), MCAccount["consumption"], entries[i].source>>
          /\ k = <<MonthOf(i), MCAccount["consumption"], entries[i].source>>
      BY <1>3, <3>1 DEF Bundles!KeyOf, MonthOf
    <3> QED BY <3>2, <3>3
  <2>4. v \in old <=> \E j \in (S \ {i}) \cap Bundles!Billed :
                        Bundles!InvoiceOf(entries[j]) = v /\ Bundles!KeyOf(entries[j]) = k
    BY DEF InvoicesOf, Entered
  <2>5. v \in Billings(S \ {i}) <=> \E j \in (S \ {i}) \cap Bundles!Billed :
                        Bundles!InvoiceOf(entries[j]) = v /\ Bundles!Within(MonthOf(j))
    BY DEF Billings, Counting
  <2> HIDE DEF v, old, new
  <2> QED BY <2>2, <2>3, <2>4, <2>5
<1>4. CASE Bundles!Within(MonthOf(i)) /\ k = Bundles!KeyOf(entries[i]) /\ i \in Bundles!Billed
  <2>1. CASE v \in Billings(S \ {i})
    <3>1. new = old
      BY <1>3, <1>4, <2>1
    <3> QED BY <2>1, <3>1 DEF FeesIn, FirstOf
  <2>2. CASE v \notin Billings(S \ {i})
    <3>1. v \in new /\ new \ {v} = old
      BY <1>3, <1>4, <2>2
    <3>2. /\ IsFiniteSet(new) /\ IsFiniteSet(old)
          /\ (\A w \in new : fees[w] \in Int) /\ (\A w \in old : fees[w] \in Int)
      <4>1. IsFiniteSet(S \ {i}) /\ S \ {i} \in SUBSET DOMAIN entries
        BY FS_Subset
      <4> QED BY <4>1, InvoicesAreFinite
    <3> HIDE DEF new, old, v
    <3>3. SumFunctionOnSet(fees, new) = fees[v] + SumFunctionOnSet(fees, old)
      BY <3>1, <3>2, SumOfAny
    <3>4. SumFunctionOnSet(fees, old) \in Int /\ fees[v] \in Int
      BY <3>1, <3>2, SumOfAny
    <3>5. SumFunctionOnSet(fees, new) = SumFunctionOnSet(fees, old) + fees[v]
      BY <3>3, <3>4
    <3>6. FeesIn(S, k) = SumFunctionOnSet(fees, new) /\ FeesIn(S \ {i}, k) = SumFunctionOnSet(fees, old)
      BY <1>0, <1>4 DEF FeesIn, new, old
    <3> QED BY <1>4, <2>2, <3>5, <3>6 DEF FirstOf, v
  <2> QED BY <2>1, <2>2
<1> QED BY <1>1, <1>2, <1>4

(* One step of the bridge.                                                  *)
LEMMA TallyGrows ==
    ASSUME BundleTypes, NEW S \in SUBSET DOMAIN entries, IsFiniteSet(S), NEW i \in S
    PROVE  Bundles!Add(Tally(S \ {i}), entries[i]) = Tally(S)
<1> DEFINE key == Bundles!KeyOf(entries[i])
           v == Bundles!InvoiceOf(entries[i])
           old == Tally(S \ {i})
<1>0. Tally(S).seen = Billings(S) /\ old.seen = Billings(S \ {i})
  BY DEF Tally, Billings
<1>1. key \in Bundles!Lines /\ (i \in Bundles!Billed <=> entries[i].family = "consumption")
  BY EntriesAre DEF Bundles!Billed
<1>2. CASE ~ Bundles!Within(MonthOf(i))
  <2>1. \A k : NetIn(S, k) = NetIn(S \ {i}, k) /\ FeesIn(S, k) = FeesIn(S \ {i}, k)
    BY <1>2, NetGrows, FeesGrow
  <2>2. Counting(S \ {i}) = Counting(S)
    BY <1>2 DEF Counting
  <2>3. Tally(S) = old
    BY <2>1, <2>2 DEF Tally
  <2> QED BY <1>2, <2>3 DEF Bundles!Add, MonthOf
<1>3. CASE Bundles!Within(MonthOf(i))
  <2>1. Counting(S) = Counting(S \ {i}) \cup {i}
    BY <1>3 DEF Counting
  <2>2. Tally(S).present = old.present \cup {key}
    BY <2>1 DEF Tally
  <2>3. Tally(S).net = [old.net EXCEPT ![key] = @ + entries[i].cents]
    <3>1. \A k \in Bundles!Lines : NetIn(S, k) = IF k = key THEN NetIn(S \ {i}, k) + entries[i].cents
                                                 ELSE NetIn(S \ {i}, k)
      BY <1>3, NetGrows
    <3>2. Tally(S).net = [k \in Bundles!Lines |-> NetIn(S, k)] /\ old.net = [k \in Bundles!Lines |-> NetIn(S \ {i}, k)]
      BY DEF Tally
    <3> HIDE DEF key, old
    <3> QED BY <1>1, <3>1, <3>2
  <2> DEFINE first == entries[i].family = "consumption" /\ v \notin old.seen
  <2>4. first <=> FirstOf(S \ {i}, i)
    BY <1>0, <1>1 DEF FirstOf
  <2>5. Tally(S).fee = [old.fee EXCEPT ![key] = @ + (IF first THEN fees[v] ELSE 0)]
    <3>1. \A k \in Bundles!Lines : FeesIn(S, k) = IF k = key /\ first THEN FeesIn(S \ {i}, k) + fees[v]
                                                  ELSE FeesIn(S \ {i}, k)
      BY <1>3, <2>4, FeesGrow
    <3>2. Tally(S).fee = [k \in Bundles!Lines |-> FeesIn(S, k)] /\ old.fee = [k \in Bundles!Lines |-> FeesIn(S \ {i}, k)]
      BY DEF Tally
    <3>3. FeesIn(S \ {i}, key) \in Int
      <4>1. IsFiniteSet(InvoicesOf(S \ {i}, key)) /\ \A w \in InvoicesOf(S \ {i}, key) : fees[w] \in Int
        <5>1. IsFiniteSet(S \ {i}) /\ S \ {i} \in SUBSET DOMAIN entries
          BY FS_Subset
        <5> QED BY <5>1, InvoicesAreFinite
      <4>2. SumFunctionOnSet(fees, InvoicesOf(S \ {i}, key)) \in Int
        BY <4>1, SumOfAny
      <4> QED BY <4>2 DEF FeesIn
    <3> DEFINE paid == IF first THEN fees[v] ELSE 0
    <3> HIDE DEF key, old, v, first
    <3>4. FeesIn(S \ {i}, key) + 0 = FeesIn(S \ {i}, key)
      BY <3>3
    <3>5. \A k \in Bundles!Lines : FeesIn(S, k) = IF k = key THEN FeesIn(S \ {i}, key) + paid ELSE FeesIn(S \ {i}, k)
      <4>1. CASE first
        BY <3>1, <4>1
      <4>2. CASE ~ first
        <5>1. paid = 0
          BY <4>2
        <5> QED BY <3>1, <3>4, <4>2, <5>1
      <4> QED BY <4>1, <4>2
    <3> HIDE DEF paid
    <3>6. Tally(S).fee = [old.fee EXCEPT ![key] = @ + paid]
      BY <1>1, <3>2, <3>5
    <3> QED BY <3>6 DEF paid
  <2>6. Tally(S).seen = IF first THEN old.seen \cup {v} ELSE old.seen
    <3>1. Counting(S) \cap Bundles!Billed = IF i \in Bundles!Billed
            THEN (Counting(S \ {i}) \cap Bundles!Billed) \cup {i} ELSE Counting(S \ {i}) \cap Bundles!Billed
      BY <2>1
    <3>2. Billings(S) = IF i \in Bundles!Billed THEN Billings(S \ {i}) \cup {v} ELSE Billings(S \ {i})
      BY <3>1 DEF Billings
    <3> QED BY <1>0, <1>1, <3>2
  <2>7. Tally(S) = [net |-> Tally(S).net, fee |-> Tally(S).fee, present |-> Tally(S).present, seen |-> Tally(S).seen]
    BY DEF Tally
  <2>8. Bundles!Add(old, entries[i]) = Bundles!Count(entries[i], old)
    BY <1>3 DEF Bundles!Add, MonthOf
  <2>9. Bundles!Count(entries[i], old) =
          [net |-> [old.net EXCEPT ![key] = @ + entries[i].cents],
           fee |-> [old.fee EXCEPT ![key] = @ + (IF first THEN fees[v] ELSE 0)],
           present |-> old.present \cup {key},
           seen |-> IF first THEN old.seen \cup {v} ELSE old.seen]
    BY DEF Bundles!Count
  <2> HIDE DEF key, old, v, first
  <2> QED BY <2>2, <2>3, <2>5, <2>6, <2>7, <2>8, <2>9 DEF old
<1> QED BY <1>2, <1>3

(* The bridge is a fold: its steps are those of the tally.                  *)
Later(s) == CHOOSE x \in s : \A y \in s : x >= y
Folded(h, s) == IF s = {} THEN Bundles!Nothing ELSE Bundles!Add(h[s \ {Later(s)}], entries[Later(s)])
IsFolded(h, SS) == h = [s \in SS |-> Folded(h, s)]

LEMMA ActualIsChosen ==
    Bundles!Actual = (CHOOSE h : IsFolded(h, SUBSET DOMAIN entries))[DOMAIN entries]
BY DEF Bundles!Actual, Bundles!FoldLeft, Bundles!MapThenFoldSet, Bundles!Max, IsFolded, Folded, Later

LEMMA BridgeIsTally == ASSUME BundleTypes PROVE Bundles!Actual = Tally(DOMAIN entries)
<1> DEFINE D == DOMAIN entries
           SS == SUBSET D
           h == CHOOSE g : IsFolded(g, SS)
           g0 == [s \in SS |-> Tally(s)]
           T == {n \in Nat : \A s \in SS : Cardinality(s) <= n => h[s] = Tally(s)}
<1>0. D = 1 .. Len(entries) /\ Len(entries) \in Nat /\ IsFiniteSet(D)
  BY FS_Interval DEF BundleTypes
<1>1. \A s \in SS : IsFiniteSet(s) /\ Cardinality(s) \in Nat
  BY <1>0, FS_Subset, FS_CardinalityType
<1>2. ASSUME NEW s \in SS, s # {}
      PROVE  Later(s) \in s /\ s \ {Later(s)} \in SS
             /\ Cardinality(s \ {Later(s)}) = Cardinality(s) - 1
  <2>1. \E x \in s : \A y \in s : x >= y
    <3> DEFINE Good == {t \in SUBSET s : t = {} \/ \E x \in t : \A y \in t : x >= y}
    <3>1. {} \in Good
      OBVIOUS
    <3>2. ASSUME NEW t \in SUBSET s, NEW x \in s \ t, t \in Good PROVE t \cup {x} \in Good
      <4>1. \A y \in s : y \in Nat
        BY <1>0
      <4>2. CASE t = {}
        BY <4>1, <4>2
      <4>3. CASE t # {}
        <5>1. PICK y \in t : \A z \in t : y >= z
          BY <3>2, <4>3
        <5>2. CASE y >= x
          BY <5>1, <5>2
        <5>3. CASE x >= y
          <6>1. \A z \in t \cup {x} : x >= z
            BY <4>1, <5>1, <5>3
          <6> QED BY <6>1
        <5> QED BY <4>1, <5>2, <5>3
      <4> QED BY <4>2, <4>3
    <3> HIDE DEF Good
    <3>3. s \in Good
      BY <1>1, <3>1, <3>2, FiniteInduction
    <3> QED BY <1>2, <3>3 DEF Good
  <2>2. Later(s) \in s
    BY <2>1 DEF Later
  <2> QED BY <1>1, <2>2, FS_RemoveElement
<1>3. Tally({}) = Bundles!Nothing
  <2>1. \A k : Entered({}, k) = {} /\ InvoicesOf({}, k) = {}
    BY DEF Entered, InvoicesOf
  <2>2. \A k : NetIn({}, k) = 0 /\ FeesIn({}, k) = 0
    BY <2>1, SumOfEmpty DEF NetIn, FeesIn
  <2> QED BY <2>2 DEF Tally, Bundles!Nothing, Counting
<1>4. \A s \in SS : s # {} => Bundles!Add(Tally(s \ {Later(s)}), entries[Later(s)]) = Tally(s)
  BY <1>1, <1>2, TallyGrows
<1>5. IsFolded(g0, SS)
  <2>1. \A s \in SS : Folded(g0, s) = Tally(s)
    BY <1>2, <1>3, <1>4 DEF Folded
  <2> QED BY <2>1 DEF IsFolded
<1>6. IsFolded(h, SS)
  <2> HIDE DEF g0, SS
  <2> QED BY <1>5
<1> HIDE DEF h, g0
<1>7. \A s \in SS : h[s] = Folded(h, s)
  BY <1>6 DEF IsFolded
<1>8. 0 \in T
  <2> SUFFICES ASSUME NEW s \in SS, Cardinality(s) <= 0 PROVE h[s] = Tally(s)
    OBVIOUS
  <2>1. s = {}
    BY <1>1, FS_EmptySet
  <2> QED BY <1>3, <1>7, <2>1 DEF Folded
<1>9. ASSUME NEW n \in Nat, n \in T PROVE n + 1 \in T
  <2> SUFFICES \A s \in SS : Cardinality(s) <= n + 1 => h[s] = Tally(s)
    OBVIOUS
  <2> SUFFICES ASSUME NEW s \in SS, Cardinality(s) <= n + 1, s # {} PROVE h[s] = Tally(s)
    BY <1>3, <1>7 DEF Folded
  <2>1. s \ {Later(s)} \in SS /\ Cardinality(s \ {Later(s)}) <= n
    BY <1>1, <1>2
  <2>2. h[s \ {Later(s)}] = Tally(s \ {Later(s)})
    BY <1>9, <2>1
  <2> QED BY <1>4, <1>7, <2>2 DEF Folded
<1> HIDE DEF T
<1>10. \A n \in Nat : n \in T
  BY <1>8, <1>9, InductiveSet
<1>11. h[D] = Tally(D)
  BY <1>1, <1>10 DEF T
<1> QED BY <1>11, ActualIsChosen DEF h


(* The bridge ties out exactly when the gross revenue of the file is the net *)
(* revenue of its entries with each fee once.                                *)
LEMMA GrossIsTallied ==
    ASSUME BundleTypes, NEW k \in Bundles!Lines, Bundles!Within(k[1])
    PROVE  Bundles!Gross(k) = Bundles!Actual.net[k] + Bundles!Actual.fee[k]
<1> DEFINE D == DOMAIN entries
<1>1. {i \in D : Bundles!KeyOf(entries[i]) = k} = Entered(D, k)
  BY DEF Entered
<1>2. {Bundles!InvoiceOf(entries[i]) : i \in Entered(D, k) \cap Bundles!Billed} = InvoicesOf(D, k)
  BY DEF InvoicesOf
<1>3. Bundles!Gross(k) = SumFunctionOnSet(CentsOfEntry, Entered(D, k)) + SumFunctionOnSet(fees, InvoicesOf(D, k))
  BY <1>1, <1>2, SameSum DEF Bundles!Gross, CentsOfEntry
<1>4. Bundles!Actual.net[k] = NetIn(D, k) /\ Bundles!Actual.fee[k] = FeesIn(D, k)
  BY BridgeIsTally DEF Tally
<1> QED BY <1>3, <1>4 DEF NetIn, FeesIn

LEMMA TiesTruly ==
    ASSUME BundleTypes, erp # None
    PROVE  Bundles!TiesOut <=> Bundles!TrulyTies
<1> DEFINE D == DOMAIN entries
           actual == Bundles!Actual
           keys == {line.key : line \in Bundles!Expected}
           present == {Bundles!KeyOf(entries[i]) : i \in {j \in D : Bundles!Within(entries[j].month)}}
<1>1. actual.present = present
  BY BridgeIsTally DEF Tally, Counting, MonthOf
<1>2. present = {} <=> ~ \E i \in D : Bundles!Within(entries[i].month)
  OBVIOUS
<1>3. \A line \in Bundles!Expected : /\ line.key \in Bundles!Lines
                                     /\ actual.net[line.key] + actual.fee[line.key] = Bundles!Gross(line.key)
  BY GrossIsTallied DEF Bundles!Expected, BundleTypes
<1>4. \A l, m \in Bundles!Expected : l.key = m.key => l = m
  BY DEF Bundles!Expected, BundleTypes
<1>5. \A k : Bundles!Matched(k, actual) <=> k \in present /\ \E line \in Bundles!Expected : line.key = k /\ line.cents = Bundles!Gross(k)
  <2> HIDE DEF actual, present
  <2>1. \A k : Bundles!Matched(k, actual) <=>
          k \in present /\ \E line \in Bundles!Expected : line.key = k /\ line.cents = actual.net[k] + actual.fee[k]
    BY <1>1 DEF Bundles!Matched
  <2> QED BY <1>3, <2>1
<1>6. Bundles!Population(actual) = present \cup keys
  BY <1>1 DEF Bundles!Population
<1>7. Bundles!TiesOut <=> /\ covered /\ present \cup keys # {}
                          /\ \A k \in present \cup keys : Bundles!Matched(k, actual)
  BY <1>6 DEF Bundles!TiesOut
<1>8. Bundles!TrulyTies <=> /\ covered /\ present # {} /\ present = keys
                            /\ \A line \in Bundles!Expected : line.cents = Bundles!Gross(line.key)
  BY <1>2 DEF Bundles!TrulyTies
<1> HIDE DEF actual, present
<1>9. ASSUME \A k \in present \cup keys : Bundles!Matched(k, actual), present \cup keys # {}
      PROVE  present # {} /\ present = keys /\ \A line \in Bundles!Expected : line.cents = Bundles!Gross(line.key)
  BY <1>4, <1>5, <1>9
<1>10. ASSUME present # {}, present = keys, \A line \in Bundles!Expected : line.cents = Bundles!Gross(line.key)
       PROVE  present \cup keys # {} /\ \A k \in present \cup keys : Bundles!Matched(k, actual)
  BY <1>5, <1>10
<1> QED BY <1>7, <1>8, <1>9, <1>10

(* What is collected is what the frozen evidence says of each artifact.     *)
ControlsOf(given) ==
    [c \in DOMAIN MCMatrix |-> Bundles!Worst({Bundles!Standing(name, given) : name \in MCMatrix[c]})]
CollectedWell == bundle # None => bundle.controls = ControlsOf(bundle.given)
BInv == BundleTypes /\ CollectedWell

LEMMA StandingIs ==
    ASSUME NEW name, NEW given
    PROVE  /\ Bundles!Standing(name, given) = "passed" <=>
                 name = "bridge" /\ given.run /\ erp # None /\ Bundles!TiesOut /\ ~ Bundles!IsStale(name, given)
           /\ Bundles!Standing(name, given) = "failed" <=>
                 \/ Bundles!IsStale(name, given)
                 \/ name = "bridge" /\ given.run /\ erp # None /\ ~ Bundles!TiesOut
<1>1. CASE Bundles!IsStale(name, given)
  BY <1>1 DEF Bundles!Standing
<1>2. CASE ~ Bundles!IsStale(name, given) /\ name = "bridge" /\ given.run /\ erp # None
  BY <1>2 DEF Bundles!Standing, Bundles!Tied
<1>3. CASE ~ Bundles!IsStale(name, given) /\ ~ (name = "bridge" /\ given.run /\ erp # None)
  BY <1>3 DEF Bundles!Standing
<1> QED BY <1>1, <1>2, <1>3

LEMMA BundleIsTrue == BInv => BundleTellsTheTruth
<1> SUFFICES ASSUME BInv, bundle # None, NEW c \in DOMAIN MCMatrix
             PROVE  /\ bundle.controls[c] = "passed" <=>
                          /\ MCMatrix[c] = {"bridge"} /\ bundle.given.run /\ erp # None /\ Bundles!TrulyTies
                          /\ ~ Bundles!IsStale("bridge", bundle.given)
                    /\ bundle.controls[c] = "failed" =>
                          (bundle.given.run /\ erp # None /\ ~ Bundles!TrulyTies)
                            \/ \E name \in MCMatrix[c] : Bundles!IsStale(name, bundle.given)
  BY DEF BundleTellsTheTruth, Bundles!BundleTellsTheTruth
<1> DEFINE S(name) == Bundles!Standing(name, bundle.given)
           all == {S(name) : name \in MCMatrix[c]}
           stale(name) == Bundles!IsStale(name, bundle.given)
<1>1. bundle.controls[c] = Bundles!Worst(all)
  BY DEF BInv, CollectedWell, ControlsOf
<1>2. MCMatrix[c] # {}
  BY DEF MCMatrix
<1>3. erp # None => (Bundles!TiesOut <=> Bundles!TrulyTies)
  BY TiesTruly DEF BInv
<1>4. \A name : /\ S(name) = "passed" <=> name = "bridge" /\ bundle.given.run /\ erp # None /\ Bundles!TiesOut /\ ~ stale(name)
                /\ S(name) = "failed" <=> stale(name) \/ (name = "bridge" /\ bundle.given.run /\ erp # None /\ ~ Bundles!TiesOut)
                /\ S(name) \in {"passed", "failed", "not_run"}
  BY StandingIs DEF Bundles!Standing, Bundles!Tied
<1> HIDE DEF S, stale
<1>5. /\ Bundles!Worst(all) = "passed" <=> \A name \in MCMatrix[c] : S(name) = "passed"
      /\ Bundles!Worst(all) = "failed" <=> \E name \in MCMatrix[c] : S(name) = "failed"
  <2>1. all \subseteq {"passed", "failed", "not_run"}
    BY <1>4
  <2>2. /\ "failed" \in all <=> \E name \in MCMatrix[c] : S(name) = "failed"
        /\ "not_run" \in all <=> \E name \in MCMatrix[c] : S(name) = "not_run"
    OBVIOUS
  <2>3. Bundles!Worst(all) = "failed" <=> "failed" \in all
    BY DEF Bundles!Worst
  <2>4. Bundles!Worst(all) = "passed" <=> "failed" \notin all /\ "not_run" \notin all
    BY DEF Bundles!Worst
  <2> HIDE DEF all
  <2> QED BY <1>4, <2>2, <2>3, <2>4
<1>6. bundle.controls[c] = "passed" <=>
        MCMatrix[c] = {"bridge"} /\ bundle.given.run /\ erp # None /\ Bundles!TrulyTies /\ ~ stale("bridge")
  BY <1>1, <1>2, <1>3, <1>4, <1>5
<1>7. bundle.controls[c] = "failed" => (bundle.given.run /\ erp # None /\ ~ Bundles!TrulyTies) \/ \E name \in MCMatrix[c] : stale(name)
  BY <1>1, <1>3, <1>4, <1>5
<1> QED BY <1>6, <1>7 DEF stale

LEMMA BundleInit == Bundles!Init => BInv
<1> SUFFICES ASSUME Bundles!Init PROVE BInv
  OBVIOUS
<1>1. entries = << >> /\ fees \in [Ledgers \X Documents -> {0} \cup Cents] /\ erp = None /\ bundle = None
  BY DEF Bundles!Init
<1>2. entries \in Seq(Entry)
  BY <1>1, EmptySeq
<1> QED BY <1>1, <1>2 DEF BInv, BundleTypes, CollectedWell

LEMMA BundleStep == BInv /\ [Bundles!Next]_Bundles!vars => BInv'
<1> SUFFICES ASSUME BInv, [Bundles!Next]_Bundles!vars PROVE BInv'
  OBVIOUS
<1>1. ASSUME UNCHANGED <<entries, fees, erp, covered>>
      PROVE  /\ BundleTypes'
             /\ \A given : ControlsOf(given)' = ControlsOf(given)
  <2>1. BundleTypes'
    BY <1>1 DEF BInv, BundleTypes
  <2>2. Bundles!Expected' = Bundles!Expected /\ Bundles!Actual' = Bundles!Actual
    <3>1. (BundleTypes => Bundles!Actual = Tally(DOMAIN entries))'
      BY BridgeIsTally, PTL
    <3>2. Bundles!Actual' = Tally(DOMAIN entries)' /\ Bundles!Actual = Tally(DOMAIN entries)
      BY <2>1, <3>1, BridgeIsTally DEF BInv
    <3>3. Tally(DOMAIN entries)' = Tally(DOMAIN entries)
      BY <1>1 DEF Tally, NetIn, FeesIn, Entered, InvoicesOf, Counting, CentsOfEntry, MonthOf, Bundles!Billed
    <3> QED BY <1>1, <3>2, <3>3 DEF Bundles!Expected
  <2>3. Bundles!TiesOut' = Bundles!TiesOut
    BY <1>1, <2>2 DEF Bundles!TiesOut, Bundles!Population, Bundles!Matched
  <2>4. \A name, given : Bundles!Standing(name, given)' = Bundles!Standing(name, given)
    BY <1>1, <2>3 DEF Bundles!Standing, Bundles!Tied
  <2>5. \A given : ControlsOf(given)' = ControlsOf(given)
    BY <2>4 DEF ControlsOf
  <2> QED BY <2>1, <2>5
<1>2. CASE UNCHANGED Bundles!vars
  <2>1. UNCHANGED <<entries, fees, erp, covered, bundle>>
    BY <1>2 DEF Bundles!vars
  <2>2. CollectedWell'
    BY <1>1, <2>1 DEF BInv, CollectedWell
  <2> QED BY <1>1, <2>1, <2>2 DEF BInv
<1>3. ASSUME NEW f \in Families, NEW s \in Ledgers, NEW d \in Documents, NEW m \in Bundles!EntryMonths, NEW c \in Cents,
             Bundles!Recognize(f, s, d, m, c)
      PROVE  BInv'
  <2>1. /\ bundle = None /\ bundle' = bundle /\ fees' = fees /\ erp' = erp
        /\ entries' = Append(entries, [family |-> f, source |-> s, document |-> d, month |-> m, cents |-> c])
    BY <1>3 DEF Bundles!Recognize
  <2>2. entries' \in Seq(Entry)
    <3>1. [family |-> f, source |-> s, document |-> d, month |-> m, cents |-> c] \in Entry
      BY DEF Entry
    <3>2. entries \in Seq(Entry)
      BY DEF BInv, BundleTypes
    <3> HIDE DEF Entry
    <3> QED BY <2>1, <3>1, <3>2, AppendProperties
  <2> QED BY <2>1, <2>2 DEF BInv, BundleTypes, CollectedWell
<1>4. CASE Bundles!OpenErp
  <2>1. bundle = None /\ bundle' = bundle /\ erp' = {} /\ fees' = fees /\ entries' = entries
    BY <1>4 DEF Bundles!OpenErp
  <2> QED BY <2>1 DEF BInv, BundleTypes, CollectedWell
<1>5. ASSUME NEW k \in Bundles!Lines, NEW c \in 1 .. MaxGross, Bundles!EnterErp(k, c) PROVE BInv'
  <2>1. /\ bundle = None /\ bundle' = bundle /\ fees' = fees /\ entries' = entries /\ erp # None
        /\ (\A line \in erp : line.key # k) /\ erp' = erp \cup {[key |-> k, cents |-> c]}
    BY <1>5 DEF Bundles!EnterErp
  <2>2. (\A l, m \in erp : l.key = m.key => l = m) /\ (\A l \in erp : l.key \in Bundles!Lines)
    BY <2>1 DEF BInv, BundleTypes
  <2>3. (\A l, m \in erp' : l.key = m.key => l = m) /\ (\A l \in erp' : l.key \in Bundles!Lines)
    BY <2>1, <2>2
  <2> QED BY <2>1, <2>3 DEF BInv, BundleTypes, CollectedWell
<1>6. ASSUME NEW given \in Bundles!Requests, Bundles!Collect(given) PROVE BInv'
  <2>1. bundle' = [controls |-> ControlsOf(given), given |-> given, status |-> bundle'.status]
    BY <1>6 DEF Bundles!Collect, ControlsOf
  <2>2. UNCHANGED <<entries, fees, erp, covered>>
    BY <1>6 DEF Bundles!Collect
  <2>3. ControlsOf(given)' = ControlsOf(given)
    BY <1>1, <2>2
  <2>4. CollectedWell'
    BY <2>1, <2>3 DEF CollectedWell
  <2> QED BY <1>1, <2>2, <2>4 DEF BInv
<1> QED BY <1>2, <1>3, <1>4, <1>5, <1>6 DEF Bundles!Next

(* A control passes exactly when its every artifact was generated and the   *)
(* gross revenue ties out, each fee counted once, and fails only for a      *)
(* variance or stale evidence, for any entries, fees, ERP file and          *)
(* declarations (controls/reconciliation.py and controls/evidence.py).      *)
THEOREM BundleAlwaysTellsTheTruth == Bundles!Spec => []BundleTellsTheTruth
<1> QED BY BundleInit, BundleStep, BundleIsTrue, PTL DEF Bundles!Spec

(***************************************************************************)
(* What a report says of a session.                                        *)
(***************************************************************************)
\* The readings of a session, each on a line of its own.
AreReadings(R) ==
    /\ IsFiniteSet(R)
    /\ \A r \in R : r.at \in Nat /\ r.line = r.at /\ r.quantity \in Nat \cup {Unknown}
    /\ \A r, q \in R : r.line = q.line => r = q

LEMMA EarlierIs ==
    ASSUME NEW R, AreReadings(R), NEW r \in R, NEW q \in R
    PROVE  /\ Earlier(r, q) <=> r.line < q.line
           /\ r.line \in Nat /\ q.line \in Nat
           /\ r.line = q.line <=> r = q
BY DEF AreReadings, Earlier

LEMMA FirstExists ==
    ASSUME NEW R, AreReadings(R), NEW T \in SUBSET R, T # {}
    PROVE  \E r \in T : \A q \in T : r.line <= q.line
<1>1. {r.line : r \in T} \subseteq Nat /\ {r.line : r \in T} # {}
  BY DEF AreReadings
<1>2. PICK n \in {r.line : r \in T} : \A m \in {r.line : r \in T} : ~ (m < n)
  BY <1>1, LeastOfSet
<1>3. PICK r \in T : r.line = n
  BY <1>2
<1>4. \A q \in T : q.line \in Nat /\ r.line \in Nat /\ ~ (q.line < r.line)
  BY <1>1, <1>2, <1>3
<1> QED BY <1>4

LEMMA LastExists ==
    ASSUME NEW R, AreReadings(R), NEW T \in SUBSET R, T # {}
    PROVE  \E r \in T : \A q \in T : q.line <= r.line
<1> DEFINE Good == {s \in SUBSET T : s = {} \/ \E r \in s : \A q \in s : q.line <= r.line}
<1>1. IsFiniteSet(T) /\ \A r \in T : r.line \in Nat
  BY FS_Subset DEF AreReadings
<1>2. {} \in Good
  OBVIOUS
<1>3. ASSUME NEW s \in SUBSET T, NEW x \in T \ s, s \in Good PROVE s \cup {x} \in Good
  <2>1. CASE s = {}
    BY <1>1, <2>1
  <2>2. CASE s # {}
    <3>1. PICK r \in s : \A q \in s : q.line <= r.line
      BY <1>3, <2>2
    <3>2. CASE x.line <= r.line
      BY <3>1, <3>2
    <3>3. CASE r.line <= x.line
      <4>1. \A q \in s \cup {x} : q.line <= x.line
        BY <1>1, <3>1, <3>3
      <4> QED BY <4>1
    <3> QED BY <1>1, <3>2, <3>3
  <2> QED BY <2>1, <2>2
<1> HIDE DEF Good
<1>4. T \in Good
  BY <1>1, <1>2, <1>3, FiniteInduction
<1> QED BY <1>4 DEF Good

\* The reading before one: none is in between.
Lag(r, R) == CHOOSE q \in Previous(r, R) : TRUE

LEMMA LagIsNext ==
    ASSUME NEW R, AreReadings(R), NEW r \in R, Previous(r, R) # {}
    PROVE  /\ Lag(r, R) \in R /\ Lag(r, R).line < r.line
           /\ \A q \in R : q.line < r.line => q.line <= Lag(r, R).line
<1> DEFINE p == Lag(r, R)
<1>1. p \in Previous(r, R)
  BY DEF Lag
<1> HIDE DEF p
<1>2. p \in R /\ Earlier(p, r) /\ \A q \in R : ~ (Earlier(p, q) /\ Earlier(q, r))
  BY <1>1 DEF Previous
<1>3. \A q \in R : (Earlier(p, q) <=> p.line < q.line) /\ (Earlier(q, r) <=> q.line < r.line) /\ q.line \in Nat
  BY <1>2, EarlierIs
<1> QED BY <1>2, <1>3 DEF p

LEMMA LagExists ==
    ASSUME NEW R, AreReadings(R), NEW r \in R, NEW q \in R, q.line < r.line
    PROVE  Previous(r, R) # {}
<1> DEFINE T == {s \in R : s.line < r.line}
<1>1. T \in SUBSET R /\ T # {}
  OBVIOUS
<1>2. PICK p \in T : \A s \in T : s.line <= p.line
  <2> HIDE DEF T
  <2> QED BY <1>1, LastExists
<1>3. \A s \in R : /\ (Earlier(p, s) <=> p.line < s.line) /\ (Earlier(s, r) <=> s.line < r.line)
                   /\ s.line \in Nat /\ p.line \in Nat
  BY EarlierIs
<1>4. p \in Previous(r, R)
  BY <1>2, <1>3 DEF Previous
<1> QED BY <1>4

-----------------------------------------------------------------------------
(* The growth within a window, added up from its first reading on.          *)
Inside(R, window) == {r \in R : Within(r, window)}

LEMMA MeasuredIsInside ==
    ASSUME NEW R, AreReadings(R), NEW window \in [start : Int, end : Int], NEW r \in Measured(R, window)
    PROVE  /\ r \in Inside(R, window) /\ Previous(r, R) # {} /\ Lag(r, R) \in Inside(R, window)
           /\ r.quantity \in Nat /\ Lag(r, R).quantity \in Nat
<1> DEFINE p == Lag(r, R)
<1>1. r \in R /\ Within(r, window) /\ Status(r, R, window) = "observed"
  BY DEF Measured
<1>2. /\ Previous(r, R) # {} /\ ~ (p.at < window.start) /\ Counted(r, p) = "observed"
  BY <1>1 DEF Status, Lag
<1>3. p \in R /\ p.line < r.line
  BY <1>1, <1>2, LagIsNext
<1> HIDE DEF p
<1>4. r.quantity # Unknown /\ p.quantity # Unknown
  BY <1>2 DEF Counted
<1>5. r.quantity \in Nat /\ p.quantity \in Nat
  BY <1>1, <1>3, <1>4 DEF AreReadings
<1>6. Within(p, window)
  <2>1. p.at \in Nat /\ r.at \in Nat /\ p.at < r.at /\ window.start \in Int /\ window.end \in Int
    BY <1>1, <1>3 DEF AreReadings
  <2> QED BY <1>1, <1>2, <2>1 DEF Within
<1> QED BY <1>1, <1>2, <1>3, <1>5, <1>6 DEF Inside, p

\* A number is given only if all readings in the window but its first are measured.
LEMMA OthersAreMeasured ==
    ASSUME NEW R, AreReadings(R), NEW window \in [start : Int, end : Int], Tokens(R, window) # Unknown,
           NEW r \in Inside(R, window), NEW q \in Inside(R, window), q.line < r.line
    PROVE  r \in Measured(R, window)
<1> DEFINE p == Lag(r, R)
<1>1. r \in R /\ q \in R /\ Within(r, window) /\ Within(q, window)
  BY DEF Inside
<1>2. Previous(r, R) # {}
  BY <1>1, LagExists
<1>3. p \in R /\ q.line <= p.line
  BY <1>1, <1>2, LagIsNext
<1>4. ~ (p.at < window.start)
  <2>1. p.at \in Nat /\ q.at \in Nat /\ p.at = p.line /\ q.at = q.line /\ window.start \in Int
    BY <1>1, <1>3 DEF AreReadings
  <2>2. window.start <= q.at
    BY <1>1 DEF Within
  <2> HIDE DEF p
  <2> QED BY <1>3, <2>1, <2>2
<1>5. Status(r, R, window) = Counted(r, p)
  BY <1>2, <1>4 DEF Status, Lag
<1>6. Status(r, R, window) \notin {"missing_counter", "counter_reset"}
  <2>1. Status(r, R, window) \in {Status(s, R, window) : s \in {t \in R : Within(t, window)}}
    BY <1>1
  <2> QED BY <2>1 DEF Tokens
<1>7. Status(r, R, window) = "observed"
  BY <1>5, <1>6 DEF Counted
<1> QED BY <1>1, <1>7 DEF Measured

LEMMA GrowthAddsUp ==
    ASSUME NEW R, AreReadings(R), NEW window \in [start : Int, end : Int], Tokens(R, window) # Unknown
    PROVE  Tokens(R, window) = SpanOf(R, window)
<1> DEFINE inside == Inside(R, window)
           measured == Measured(R, window)
           g == [r \in measured |-> Growth(r, R)]
           Upto(r) == {q \in measured : q.line <= r.line}
<1>1. measured # {} /\ Tokens(R, window) = SumFunctionOnSet(g, measured)
  BY DEF Tokens, SumFunction
<1>2. inside \in SUBSET R /\ measured \in SUBSET inside /\ inside # {}
  BY <1>1, MeasuredIsInside DEF Inside
<1>3. IsFiniteSet(measured) /\ \A r \in measured : IsFiniteSet(Upto(r))
  BY <1>2, FS_Subset DEF AreReadings
<1>4. \A r \in inside : r \in R /\ r.line \in Nat
  BY <1>2 DEF AreReadings
<1>5. \A r \in measured : /\ g[r] = r.quantity - Lag(r, R).quantity /\ g[r] \in Int
                          /\ r.quantity \in Nat /\ Lag(r, R).quantity \in Nat
                          /\ Lag(r, R) \in inside /\ Lag(r, R).line < r.line
                          /\ \A q \in R : q.line < r.line => q.line <= Lag(r, R).line
  <2> SUFFICES ASSUME NEW r \in measured
               PROVE  /\ g[r] = r.quantity - Lag(r, R).quantity /\ g[r] \in Int
                      /\ r.quantity \in Nat /\ Lag(r, R).quantity \in Nat
                      /\ Lag(r, R) \in inside /\ Lag(r, R).line < r.line
                      /\ \A q \in R : q.line < r.line => q.line <= Lag(r, R).line
    OBVIOUS
  <2>1. /\ Previous(r, R) # {} /\ Lag(r, R) \in inside /\ r \in R
        /\ r.quantity \in Nat /\ Lag(r, R).quantity \in Nat
    BY <1>2, <1>4, MeasuredIsInside
  <2>2. g[r] = r.quantity - Lag(r, R).quantity
    BY DEF Growth, Lag
  <2> HIDE DEF g, measured, inside
  <2>3. Lag(r, R).line < r.line /\ \A q \in R : q.line < r.line => q.line <= Lag(r, R).line
    BY <2>1, LagIsNext
  <2> QED BY <2>1, <2>2, <2>3
<1>6. PICK first \in inside : \A q \in inside : first.line <= q.line
  <2> HIDE DEF inside
  <2> QED BY <1>2, FirstExists
<1>7. PICK last \in inside : \A q \in inside : q.line <= last.line
  <2> HIDE DEF inside
  <2> QED BY <1>2, LastExists
<1>8. \A r \in inside : r.line = first.line <=> r = first
  BY <1>4, EarlierIs
<1>9. \A r \in inside : r # first => r \in measured
  <2> SUFFICES ASSUME NEW r \in inside, r # first PROVE r \in measured
    OBVIOUS
  <2>1. first.line < r.line
    BY <1>4, <1>6, <1>8
  <2> QED BY <2>1, OthersAreMeasured
<1>10. first \notin measured
  <2> SUFFICES ASSUME first \in measured PROVE FALSE
    OBVIOUS
  <2>1. Lag(first, R) \in inside /\ Lag(first, R).line < first.line
    BY <1>5
  <2> QED BY <1>4, <1>6, <2>1
<1>11. FirstReading(inside) = first /\ LastReading(inside) = last
  <2>1. \A r, q \in inside : /\ (Earlier(r, q) <=> r.line < q.line)
                             /\ r.line \in Nat /\ q.line \in Nat /\ (r.line = q.line <=> r = q)
    BY <1>4, EarlierIs
  <2> HIDE DEF inside
  <2>2. \A q \in inside \ {first} : Earlier(first, q)
    BY <1>6, <2>1
  <2>3. \A r \in inside : (\A q \in inside \ {r} : Earlier(r, q)) => r = first
    BY <1>6, <2>1
  <2>4. \A q \in inside \ {last} : Earlier(q, last)
    BY <1>7, <2>1
  <2>5. \A r \in inside : (\A q \in inside \ {r} : Earlier(q, r)) => r = last
    BY <1>7, <2>1
  <2> QED BY <2>2, <2>3, <2>4, <2>5 DEF FirstReading, LastReading
<1>12. SpanOf(R, window) = last.quantity - first.quantity
  BY <1>11 DEF SpanOf, Inside
<1> HIDE DEF inside, measured, g
<1>13. first.quantity \in Nat
  <2>1. PICK x \in measured : \A q \in measured : x.line <= q.line
    <3>1. measured \in SUBSET R
      BY <1>2
    <3> QED BY <1>1, <3>1, FirstExists
  <2>2. Lag(x, R) \in inside /\ Lag(x, R).line < x.line /\ Lag(x, R).quantity \in Nat
    BY <1>5
  <2>3. Lag(x, R) \notin measured
    BY <1>2, <1>4, <2>1, <2>2
  <2> QED BY <1>9, <2>2, <2>3
<1> DEFINE Counts(r) == SumFunctionOnSet(g, Upto(r)) = r.quantity - first.quantity
           T == {n \in Nat : \A r \in inside : r.line <= n => Counts(r)}
<1>14. Counts(first)
  <2>1. Upto(first) = {}
    <3> SUFFICES ASSUME NEW q \in Upto(first) PROVE FALSE
      OBVIOUS
    <3>1. q \in measured /\ q \in inside /\ q.line <= first.line
      BY <1>2
    <3>2. q.line = first.line
      BY <1>4, <1>6, <3>1
    <3> QED BY <1>8, <1>10, <3>1, <3>2
  <2>2. SumFunctionOnSet(g, Upto(first)) = 0
    BY <2>1, SumOfEmpty
  <2> QED BY <1>13, <2>2
<1>15. ASSUME NEW r \in measured, Counts(Lag(r, R)) PROVE Counts(r)
  <2> DEFINE p == Lag(r, R)
  <2>1. Upto(r) \ {r} = Upto(p) /\ r \in Upto(r)
    <3>1. \A q \in measured : q.line \in Nat /\ q \in R /\ (q.line = r.line => q = r)
      BY <1>2, <1>4, EarlierIs
    <3>2. p.line \in Nat /\ p.line < r.line
      BY <1>4, <1>5
    <3>3. \A q \in measured : q.line < r.line => q.line <= p.line
      BY <1>5, <3>1
    <3> HIDE DEF p
    <3> QED BY <3>1, <3>2, <3>3
  <2>2. IsFiniteSet(Upto(r)) /\ \A q \in Upto(r) : g[q] \in Int
    BY <1>3, <1>5
  <2>3. SumFunctionOnSet(g, Upto(r)) = g[r] + SumFunctionOnSet(g, Upto(p))
    <3> HIDE DEF p, Upto
    <3> QED BY <2>1, <2>2, SumOfAny
  <2>4. /\ g[r] = r.quantity - p.quantity /\ r.quantity \in Int /\ p.quantity \in Int /\ first.quantity \in Int
        /\ SumFunctionOnSet(g, Upto(p)) = p.quantity - first.quantity
    BY <1>5, <1>13, <1>15
  <2> HIDE DEF p, Upto
  <2> QED BY <2>3, <2>4
<1>16. 0 \in T
  <2> SUFFICES ASSUME NEW r \in inside, r.line <= 0 PROVE Counts(r)
    OBVIOUS
  <2>1. r.line = first.line
    BY <1>4, <1>6
  <2> QED BY <1>8, <1>14, <2>1
<1>17. ASSUME NEW n \in Nat, n \in T PROVE n + 1 \in T
  <2> SUFFICES \A r \in inside : r.line <= n + 1 => Counts(r)
    OBVIOUS
  <2> SUFFICES ASSUME NEW r \in inside, r.line <= n + 1, r # first PROVE Counts(r)
    BY <1>14
  <2>1. r \in measured /\ Lag(r, R) \in inside /\ Lag(r, R).line < r.line
    BY <1>5, <1>9
  <2>2. Lag(r, R).line <= n
    BY <1>4, <2>1
  <2>3. Counts(Lag(r, R))
    BY <1>17, <2>1, <2>2
  <2> HIDE DEF Counts
  <2> QED BY <1>15, <2>1, <2>3
<1> HIDE DEF T
<1>18. \A n \in Nat : n \in T
  BY <1>16, <1>17, InductiveSet
<1>19. Counts(last)
  BY <1>4, <1>7, <1>18 DEF T
<1>20. Upto(last) = measured
  BY <1>2, <1>7
<1> QED BY <1>1, <1>12, <1>19, <1>20

-----------------------------------------------------------------------------
(* What is kept in a stream of an application: the import of usage samples, *)
(* for any operators, accounts, sessions, logs and templates.               *)
CONSTANTS Operators, Files, FirstRelease, MaxSamples, MaxFailures
VARIABLES release, rooted, templates, schema, doing
Usage == INSTANCE UsageImport WITH call <- doing, catalog <- templates

(* What a call of an operator carries along.                                *)
Carries(r) ==
    \/ /\ r = [step |-> r.step]
       /\ r.step \in {"idle", "copy", "config", "schema", "bind", "sync"}
    \/ /\ r = [step |-> r.step, file |-> r.file]
       /\ r.step = "syncing"
    \/ /\ r = [step |-> r.step, sample |-> r.sample]
       /\ r.step \in {"read", "quarantine", "report"}
    \/ /\ r = [step |-> r.step, sample |-> r.sample, ready |-> r.ready]
       /\ r.step \in {"retain", "retaining", "append", "summary", "quarantine", "report"}

EvidenceTypes ==
    /\ samples \in Seq([account : Accounts, session : Sessions, lines : Logs])
    /\ packets \in Seq({"absent", "cut", "whole"})
    /\ Len(packets) = Len(samples)

ImportTypes ==
    /\ config \in {"absent", "cut"} \cup Operators
    /\ EvidenceTypes
    /\ DOMAIN doing = Operators
    /\ \A o \in Operators : Carries(doing[o])

(* The configuration is created once, and what initialises the root after   *)
(* that is the call that has created it.                                    *)
Naming == {"config", "schema", "bind"}
RootIsNamedOnce ==
    /\ \A o, p \in Operators : doing[o].step \in Naming /\ doing[p].step \in Naming => o = p
    /\ \A o \in Operators : doing[o].step = "config" => config = "cut"
    /\ \A o \in Operators : doing[o].step \in {"schema", "bind"} => config = o

BoundOnce ==
    /\ \A e \in stream : e.kind = "application_bound" => config \in Operators /\ e = Usage!Bound(config)
    /\ stream # {} => config \in Operators /\ Usage!Bound(config) \in stream

(* What an import is to append has been made of its sample; before that its *)
(* packet is whole, and before a failure is reported it is retained.        *)
CarriesOut(o) ==
    LET r == doing[o] IN
    /\ r.step \in {"read", "retain", "retaining", "append", "summary", "quarantine", "report"} =>
          r.sample \in 1 .. Len(samples)
    /\ r.step \in {"retain", "retaining", "append"} => r.ready \subseteq Usage!EventsFor(r.sample, o)
    /\ r.step = "append" => packets[r.sample] = "whole"
    /\ r.step = "report" => [sample |-> r.sample, actor |-> o] \in failures
ImportsCarry == \A o \in Operators : CarriesOut(o)

RowsPerform ==
    /\ \A e \in stream : e.kind = "usage_coverage" => [sample |-> e.sample, actor |-> e.actor] \in failures
    /\ \A e \in stream : e.kind = "usage_observed" =>
          /\ e.packet \in 1 .. Len(samples) /\ packets[e.packet] = "whole"
          /\ e \in Usage!EventsFor(e.packet, e.actor)

UInv == ImportTypes /\ RootIsNamedOnce /\ BoundOnce /\ ImportsCarry /\ RowsPerform /\ Usage!FirstAdmissionStands

LEMMA ImportsInitially == Usage!Init => UInv
<1> SUFFICES ASSUME Usage!Init PROVE UInv
    OBVIOUS
<1> USE DEF Usage!Init, Usage!Idle
<1>1. ImportTypes
    BY DEF ImportTypes, EvidenceTypes, Carries
<1>2. RootIsNamedOnce /\ BoundOnce
    BY DEF RootIsNamedOnce, BoundOnce, Naming
<1>3. ImportsCarry /\ RowsPerform /\ Usage!FirstAdmissionStands
    BY DEF ImportsCarry, CarriesOut, RowsPerform, Usage!FirstAdmissionStands, Usage!Observed
<1> QED BY <1>1, <1>2, <1>3 DEF UInv

(* The records of the calls that go on.                                     *)
Moves(o) ==
    /\ DOMAIN doing' = Operators
    /\ \A p \in Operators : p # o => doing'[p] = doing[p]
    /\ Carries(doing'[o])

(* Evidence is added, and what has been retained stays.                     *)
EvidenceGrows ==
    /\ EvidenceTypes'
    /\ Len(samples) <= Len(samples')
    /\ \A n \in 1 .. Len(samples) :
          samples'[n] = samples[n] /\ (packets[n] = "whole" => packets'[n] = "whole")
    /\ failures \subseteq failures'

LEMMA EvidenceKeeps ==
    ASSUME UInv, EvidenceGrows
    PROVE  /\ \A n \in 1 .. Len(samples), p \in Operators : Usage!EventsFor(n, p)' = Usage!EventsFor(n, p)
           /\ \A p \in Operators : doing'[p] = doing[p] => CarriesOut(p)'
<1>1. \A n \in 1 .. Len(samples), p \in Operators : Usage!EventsFor(n, p)' = Usage!EventsFor(n, p)
    BY DEF EvidenceGrows, Usage!EventsFor
<1>2. \A n \in 1 .. Len(samples) : n \in 1 .. Len(samples')
    BY DEF EvidenceGrows, EvidenceTypes, UInv, ImportTypes
<1>3. ASSUME NEW p \in Operators, doing'[p] = doing[p] PROVE CarriesOut(p)'
    BY <1>1, <1>2, <1>3 DEF UInv, ImportsCarry, CarriesOut, EvidenceGrows
<1> QED BY <1>1, <1>3

LEMMA StreamStays ==
    ASSUME UInv, EvidenceGrows, UNCHANGED <<config, stream>>
    PROVE  BoundOnce' /\ RowsPerform' /\ Usage!FirstAdmissionStands'
<1>1. BoundOnce' /\ Usage!FirstAdmissionStands'
    BY DEF UInv, BoundOnce, Usage!FirstAdmissionStands, Usage!Observed, Usage!Identity, Usage!Bound
<1>2. \A n \in 1 .. Len(samples) : n \in 1 .. Len(samples')
    BY DEF EvidenceGrows, EvidenceTypes, UInv, ImportTypes
<1>3. \A n \in 1 .. Len(samples) : \A p : Usage!EventsFor(n, p)' = Usage!EventsFor(n, p)
    BY DEF EvidenceGrows, Usage!EventsFor
<1>4. RowsPerform'
    BY <1>2, <1>3 DEF UInv, RowsPerform, EvidenceGrows
<1> QED BY <1>1, <1>4

LEMMA ImportMoves ==
    ASSUME UInv, EvidenceGrows, UNCHANGED config, NEW o \in Operators, Moves(o), CarriesOut(o)',
           doing'[o].step \in Naming => doing'[o].step = "bind" /\ doing[o].step = "schema",
           BoundOnce', RowsPerform', Usage!FirstAdmissionStands'
    PROVE  UInv'
<1>1. ImportTypes'
    BY DEF UInv, ImportTypes, EvidenceGrows, Moves
<1>2. RootIsNamedOnce'
    BY DEF UInv, RootIsNamedOnce, Moves, Naming
<1>3. ImportsCarry'
    BY EvidenceKeeps DEF ImportsCarry, Moves
<1> QED BY <1>1, <1>2, <1>3 DEF UInv

LEMMA EvidenceStays ==
    ASSUME UInv, UNCHANGED <<samples, packets, failures>>
    PROVE  EvidenceGrows
BY DEF UInv, ImportTypes, EvidenceTypes, EvidenceGrows

(* A step that leaves configuration, stream and evidence alone.             *)
LEMMA QuietMoves ==
    ASSUME UInv, UNCHANGED <<config, stream, samples, packets, failures>>, NEW o \in Operators, Moves(o),
           CarriesOut(o)',
           doing'[o].step \in Naming => doing'[o].step = "bind" /\ doing[o].step = "schema"
    PROVE  UInv'
BY EvidenceStays, StreamStays, ImportMoves

(* How a call is left: at rest, or at another step with what it carries.    *)
LEMMA Ending ==
    ASSUME UInv, NEW o \in Operators, Usage!End(o)
    PROVE  Moves(o) /\ doing'[o].step = "idle" /\ CarriesOut(o)'
<1>1. /\ DOMAIN doing' = Operators /\ doing'[o] = [step |-> "idle"]
      /\ \A p \in Operators : p # o => doing'[p] = doing[p]
    BY DEF Usage!End, Usage!Idle, UInv, ImportTypes
<1> QED BY <1>1 DEF Moves, Carries, CarriesOut

LEMMA Setting ==
    ASSUME UInv, NEW o \in Operators, NEW r, Carries(r), doing' = [doing EXCEPT ![o] = r]
    PROVE  Moves(o) /\ doing'[o] = r
BY DEF UInv, ImportTypes, Moves

LEMMA StepAlone == \A s, step : [[step |-> s] EXCEPT !.step = step] = [step |-> step]
OBVIOUS
LEMMA StepWithSample ==
    \A s, n, step : [[step |-> s, sample |-> n] EXCEPT !.step = step] = [step |-> step, sample |-> n]
OBVIOUS
LEMMA StepWithRows ==
    \A s, n, added, step : [[step |-> s, sample |-> n, ready |-> added] EXCEPT !.step = step]
                              = [step |-> step, sample |-> n, ready |-> added]
OBVIOUS

LEMMA GoingOnRoot ==
    ASSUME UInv, NEW o \in Operators, NEW step \in {"idle", "copy", "config", "schema", "bind", "sync"},
           Usage!Go(o, step), doing[o].step \in {"idle", "copy", "config", "schema", "bind", "sync"}
    PROVE  Moves(o) /\ doing'[o].step = step /\ CarriesOut(o)'
<1>1. Carries(doing[o]) /\ doing[o] = [step |-> doing[o].step]
    BY DEF UInv, ImportTypes, Carries
<1>2. doing' = [doing EXCEPT ![o] = [step |-> step]]
    <2>1. PICK s : doing[o] = [step |-> s]
        BY <1>1
    <2>2. doing' = [doing EXCEPT ![o] = [[step |-> s] EXCEPT !.step = step]]
        BY <2>1 DEF Usage!Go
    <2> QED BY <2>2, StepAlone
<1>3. Carries([step |-> step])
    BY DEF Carries
<1>4. Moves(o) /\ doing'[o] = [step |-> step]
    BY <1>2, <1>3, Setting
<1> QED BY <1>4 DEF CarriesOut

LEMMA GoingOnImport ==
    ASSUME UInv, NEW o \in Operators, NEW step \in {"retaining", "append", "summary", "quarantine", "report"},
           Usage!Go(o, step),
           doing[o].step \in {"retain", "retaining", "append", "summary"} \/ step \in {"quarantine", "report"},
           doing[o].step \in {"read", "retain", "retaining", "append", "summary", "quarantine", "report"}
    PROVE  /\ Moves(o) /\ doing'[o].step = step /\ doing'[o].sample = doing[o].sample
           /\ step \in {"retaining", "append", "summary"} => doing'[o].ready = doing[o].ready
<1>1. Carries(doing[o])
    BY DEF UInv, ImportTypes
<1>2. CASE doing[o] = [step |-> doing[o].step, sample |-> doing[o].sample]
    <2>1. step \in {"quarantine", "report"}
        BY <1>1, <1>2 DEF Carries
    <2>2. doing' = [doing EXCEPT ![o] = [step |-> step, sample |-> doing[o].sample]]
        <3>1. PICK s, n : doing[o] = [step |-> s, sample |-> n]
            BY <1>2
        <3>2. doing' = [doing EXCEPT ![o] = [[step |-> s, sample |-> n] EXCEPT !.step = step]]
            BY <3>1 DEF Usage!Go
        <3>3. doing[o].sample = n
            BY <3>1
        <3>4. doing' = [doing EXCEPT ![o] = [step |-> step, sample |-> n]]
            <4> DEFINE before == [[step |-> s, sample |-> n] EXCEPT !.step = step]
                       after == [step |-> step, sample |-> n]
            <4>1. before = after
                BY StepWithSample
            <4>2. doing' = [doing EXCEPT ![o] = before]
                BY <3>2
            <4> HIDE DEF before, after
            <4>3. doing' = [doing EXCEPT ![o] = after]
                BY <4>1, <4>2
            <4> QED BY <4>3 DEF after
        <3> QED BY <3>3, <3>4
    <2>3. Carries([step |-> step, sample |-> doing[o].sample])
        BY <2>1 DEF Carries
    <2>4. Moves(o) /\ doing'[o] = [step |-> step, sample |-> doing[o].sample]
        BY <2>2, <2>3, Setting
    <2> QED BY <2>1, <2>4
<1>3. CASE doing[o] = [step |-> doing[o].step, sample |-> doing[o].sample, ready |-> doing[o].ready]
    <2>2. doing' = [doing EXCEPT ![o] = [step |-> step, sample |-> doing[o].sample, ready |-> doing[o].ready]]
        <3>1. PICK s, n, added : doing[o] = [step |-> s, sample |-> n, ready |-> added]
            BY <1>3
        <3>2. doing' = [doing EXCEPT ![o] = [[step |-> s, sample |-> n, ready |-> added] EXCEPT !.step = step]]
            BY <3>1 DEF Usage!Go
        <3>3. doing[o].sample = n /\ doing[o].ready = added
            BY <3>1
        <3>4. doing' = [doing EXCEPT ![o] = [step |-> step, sample |-> n, ready |-> added]]
            <4> DEFINE before == [[step |-> s, sample |-> n, ready |-> added] EXCEPT !.step = step]
                       after == [step |-> step, sample |-> n, ready |-> added]
            <4>1. before = after
                BY StepWithRows
            <4>2. doing' = [doing EXCEPT ![o] = before]
                BY <3>2
            <4> HIDE DEF before, after
            <4>3. doing' = [doing EXCEPT ![o] = after]
                BY <4>1, <4>2
            <4> QED BY <4>3 DEF after
        <3> QED BY <3>3, <3>4
    <2>3. Carries([step |-> step, sample |-> doing[o].sample, ready |-> doing[o].ready])
        BY DEF Carries
    <2>4. Moves(o) /\ doing'[o] = [step |-> step, sample |-> doing[o].sample, ready |-> doing[o].ready]
        BY <2>2, <2>3, Setting
    <2> QED BY <2>4
<1> QED BY <1>1, <1>2, <1>3 DEF Carries

(* The root.                                                                *)
LEMMA RootSteps ==
    ASSUME UInv, Usage!NamesDiffer, NEW o \in Operators, Usage!Initialize(o) \/ Usage!Sync(o)
    PROVE  UInv'
<1> USE DEF Usage!At, Usage!root, Usage!evidence, Usage!Idle
<1>1. CASE Usage!BeginInit(o)
    <2>1. Usage!Go(o, "copy") /\ doing[o].step = "idle"
        BY <1>1 DEF Usage!BeginInit
    <2>2. UNCHANGED <<config, stream, samples, packets, failures>>
        BY <1>1 DEF Usage!BeginInit
    <2> QED BY <2>1, <2>2, GoingOnRoot, QuietMoves DEF Naming
<1>2. CASE Usage!CopyTemplate(o)
    <2>1. UNCHANGED <<config, stream, samples, packets, failures, doing>>
        BY <1>2 DEF Usage!CopyTemplate
    <2>2. Moves(o) /\ CarriesOut(o)'
        BY <2>1, EvidenceStays, EvidenceKeeps DEF UInv, ImportTypes, Moves
    <2>3. doing'[o].step = "copy"
        BY <1>2, <2>1 DEF Usage!CopyTemplate
    <2> QED BY <2>1, <2>2, <2>3, QuietMoves DEF Naming
<1>3. CASE Usage!CreateConfig(o)
    <2>1. /\ config = "absent" /\ config' = "cut" /\ Usage!Go(o, "config") /\ doing[o].step = "copy"
          /\ UNCHANGED <<stream, samples, packets, failures>>
        BY <1>3 DEF Usage!CreateConfig
    <2>2. Moves(o) /\ doing'[o].step = "config" /\ CarriesOut(o)'
        BY <2>1, GoingOnRoot
    <2>3. \A p \in Operators : doing[p].step \notin Naming
        BY <2>1 DEF UInv, RootIsNamedOnce, Naming, Usage!NamesDiffer
    <2>4. stream = {}
        BY <2>1 DEF UInv, BoundOnce, Usage!NamesDiffer
    <2>5. ImportTypes' /\ RootIsNamedOnce'
        BY <2>1, <2>2, <2>3 DEF UInv, ImportTypes, EvidenceTypes, RootIsNamedOnce, Moves, Naming
    <2>6. BoundOnce' /\ RowsPerform' /\ Usage!FirstAdmissionStands'
        BY <2>1, <2>4 DEF BoundOnce, RowsPerform, Usage!FirstAdmissionStands, Usage!Observed
    <2>7. ImportsCarry'
        BY <2>1, <2>2, EvidenceStays, EvidenceKeeps DEF ImportsCarry, Moves
    <2> QED BY <2>5, <2>6, <2>7 DEF UInv
<1>4. CASE Usage!WriteConfig(o)
    <2>1. /\ config' = o /\ Usage!Go(o, "schema") /\ doing[o].step = "config"
          /\ UNCHANGED <<stream, samples, packets, failures>>
        BY <1>4 DEF Usage!WriteConfig
    <2>2. Moves(o) /\ doing'[o].step = "schema" /\ CarriesOut(o)'
        BY <2>1, GoingOnRoot
    <2>3. /\ config = "cut"
          /\ \A p \in Operators : p # o => doing[p].step \notin Naming
        BY <2>1 DEF UInv, RootIsNamedOnce, Naming
    <2>4. stream = {}
        BY <2>3 DEF UInv, BoundOnce, Usage!NamesDiffer
    <2>5. ImportTypes' /\ RootIsNamedOnce'
        BY <2>1, <2>2, <2>3 DEF UInv, ImportTypes, EvidenceTypes, RootIsNamedOnce, Moves, Naming
    <2>6. BoundOnce' /\ RowsPerform' /\ Usage!FirstAdmissionStands'
        BY <2>1, <2>4 DEF BoundOnce, RowsPerform, Usage!FirstAdmissionStands, Usage!Observed
    <2>7. ImportsCarry'
        BY <2>1, <2>2, EvidenceStays, EvidenceKeeps DEF ImportsCarry, Moves
    <2> QED BY <2>5, <2>6, <2>7 DEF UInv
<1>5. CASE Usage!CreateStream(o)
    <2>1. Usage!Go(o, "bind") /\ doing[o].step = "schema" /\ UNCHANGED <<config, stream, samples, packets, failures>>
        BY <1>5 DEF Usage!CreateStream
    <2> QED BY <2>1, GoingOnRoot, QuietMoves DEF Naming
<1>6. CASE Usage!Bind(o)
    <2>1. /\ stream' = stream \cup {Usage!Bound(o)} /\ doing[o].step = "bind" /\ Usage!End(o)
          /\ UNCHANGED <<config, samples, packets, failures>>
        BY <1>6 DEF Usage!Bind
    <2>2. config = o
        BY <2>1 DEF UInv, RootIsNamedOnce
    <2>3. BoundOnce'
        BY <2>1, <2>2 DEF UInv, BoundOnce, Usage!Bound
    <2>4. Usage!Bound(o).kind = "application_bound"
        BY DEF Usage!Bound
    <2>5. \A n, p : Usage!EventsFor(n, p)' = Usage!EventsFor(n, p)
        BY <2>1 DEF Usage!EventsFor
    <2>6. RowsPerform' /\ Usage!FirstAdmissionStands'
        BY <2>1, <2>4, <2>5 DEF UInv, RowsPerform, Usage!FirstAdmissionStands, Usage!Observed
    <2> QED BY <2>1, <2>3, <2>6, Ending, EvidenceStays, ImportMoves DEF Naming
<1>7. CASE Usage!BeginSync(o)
    <2>1. Usage!Go(o, "sync") /\ doing[o].step = "idle" /\ UNCHANGED <<config, stream, samples, packets, failures>>
        BY <1>7 DEF Usage!BeginSync
    <2> QED BY <2>1, GoingOnRoot, QuietMoves DEF Naming
<1>8. CASE Usage!OpenTemplate(o)
    <2>1. UNCHANGED <<config, stream, samples, packets, failures>>
        BY <1>8 DEF Usage!OpenTemplate
    <2>2. PICK f : doing' = [doing EXCEPT ![o] = [step |-> "syncing", file |-> f]]
        BY <1>8 DEF Usage!OpenTemplate
    <2>3. Carries([step |-> "syncing", file |-> f])
        BY DEF Carries
    <2> DEFINE r == [step |-> "syncing", file |-> f]
    <2>6. r.step = "syncing"
        OBVIOUS
    <2> HIDE DEF r
    <2>7. Moves(o) /\ doing'[o] = r
        BY <2>2, <2>3, Setting DEF r
    <2>4. Moves(o) /\ doing'[o].step = "syncing"
        BY <2>6, <2>7
    <2>5. CarriesOut(o)'
        BY <2>4 DEF CarriesOut
    <2> QED BY <2>1, <2>4, <2>5, QuietMoves DEF Naming
<1>9. CASE Usage!WriteTemplate(o)
    <2>1. UNCHANGED <<config, stream, samples, packets, failures>> /\ doing' = [doing EXCEPT ![o] = [step |-> "sync"]]
        BY <1>9 DEF Usage!WriteTemplate
    <2>3. Carries([step |-> "sync"])
        BY DEF Carries
    <2> DEFINE r == [step |-> "sync"]
    <2>6. r.step = "sync"
        OBVIOUS
    <2> HIDE DEF r
    <2>7. Moves(o) /\ doing'[o] = r
        BY <2>1, <2>3, Setting DEF r
    <2>4. Moves(o) /\ doing'[o].step = "sync"
        BY <2>6, <2>7
    <2>5. CarriesOut(o)'
        BY <2>4 DEF CarriesOut
    <2> QED BY <2>1, <2>4, <2>5, QuietMoves DEF Naming
<1>10. CASE Usage!EndSync(o)
    <2>1. Usage!End(o) /\ UNCHANGED <<config, stream, samples, packets, failures>>
        BY <1>10 DEF Usage!EndSync
    <2> QED BY <2>1, Ending, QuietMoves DEF Naming
<1> QED BY <1>1, <1>2, <1>3, <1>4, <1>5, <1>6, <1>7, <1>8, <1>9, <1>10 DEF Usage!Initialize, Usage!Sync

(* Accounts and samples.                                                    *)
LEMMA ConfirmStep ==
    ASSUME UInv, NEW account \in Accounts, Usage!Confirm(account)
    PROVE  UInv'
<1>1. /\ stream' = stream \cup {Usage!Inventory(account)} /\ UNCHANGED <<config, samples, packets, failures, doing>>
      /\ config \in Operators /\ Usage!Bound(config) \in stream
    BY DEF Usage!Confirm, Usage!Valid, Usage!IsBoundTo, Usage!root, Usage!evidence
<1>2. Usage!Inventory(account).kind = "application_inventory"
    BY DEF Usage!Inventory
<1>3. BoundOnce'
    BY <1>1, <1>2 DEF UInv, BoundOnce, Usage!Bound
<1>4. \A n, p : Usage!EventsFor(n, p)' = Usage!EventsFor(n, p)
    BY <1>1 DEF Usage!EventsFor
<1>5. RowsPerform' /\ Usage!FirstAdmissionStands'
    BY <1>1, <1>2, <1>4 DEF UInv, RowsPerform, Usage!FirstAdmissionStands, Usage!Observed
<1>6. ImportTypes' /\ RootIsNamedOnce'
    BY <1>1 DEF UInv, ImportTypes, EvidenceTypes, RootIsNamedOnce
<1>7. ImportsCarry'
    BY <1>1, EvidenceStays, EvidenceKeeps DEF ImportsCarry
<1> QED BY <1>3, <1>5, <1>6, <1>7 DEF UInv

LEMMA SampleStep ==
    ASSUME UInv, NEW s \in Sessions, NEW account \in Accounts, NEW lines \in Logs, Usage!TakeSample(s, account, lines)
    PROVE  UInv'
<1> DEFINE sample == [account |-> account, session |-> s, lines |-> lines]
<1>1. /\ samples' = Append(samples, sample) /\ packets' = Append(packets, "absent")
      /\ UNCHANGED <<config, stream, failures, doing>>
    BY DEF Usage!TakeSample, Usage!root
<1>2. sample \in [account : Accounts, session : Sessions, lines : Logs]
    OBVIOUS
<1> HIDE DEF sample
<1>3. EvidenceGrows
    BY <1>1, <1>2 DEF UInv, ImportTypes, EvidenceTypes, EvidenceGrows
<1>4. ImportTypes' /\ RootIsNamedOnce'
    BY <1>1, <1>3 DEF UInv, ImportTypes, EvidenceGrows, RootIsNamedOnce
<1>5. ImportsCarry'
    BY <1>1, <1>3, EvidenceKeeps DEF ImportsCarry
<1> QED BY <1>1, <1>3, <1>4, <1>5, StreamStays DEF UInv

(* An import.                                                               *)
LEMMA ReadingSteps ==
    ASSUME UInv, NEW o \in Operators,
           (\E n \in 1 .. Len(samples) : Usage!BeginImport(o, n)) \/ Usage!ReadAdmitted(o)
    PROVE  UInv'
<1>1. UNCHANGED <<config, stream, samples, packets, failures>>
    BY DEF Usage!BeginImport, Usage!ReadAdmitted, Usage!root, Usage!evidence
<1>2. ASSUME NEW n \in 1 .. Len(samples), Usage!BeginImport(o, n) PROVE UInv'
    <2> DEFINE r == [step |-> "read", sample |-> n]
    <2>1. doing' = [doing EXCEPT ![o] = r]
        BY <1>2 DEF Usage!BeginImport
    <2>2. Carries(r) /\ r.step = "read" /\ r.sample = n
        BY DEF Carries
    <2> HIDE DEF r
    <2>3. Moves(o) /\ doing'[o] = r
        BY <2>1, <2>2, Setting
    <2>4. CarriesOut(o)'
        BY <1>1, <2>2, <2>3 DEF CarriesOut
    <2> QED BY <1>1, <2>2, <2>3, <2>4, QuietMoves DEF Naming
<1>3. CASE Usage!ReadAdmitted(o)
    <2>1. PICK n \in 1 .. Len(samples) : n = doing[o].sample
        BY <1>3 DEF Usage!ReadAdmitted, Usage!At, UInv, ImportsCarry, CarriesOut
    <2>2. CASE doing' = [doing EXCEPT ![o] = [step |-> "quarantine", sample |-> n]]
        <3> DEFINE r == [step |-> "quarantine", sample |-> n]
        <3>1. Carries(r) /\ r.step = "quarantine" /\ r.sample = n
            BY DEF Carries
        <3>2. doing' = [doing EXCEPT ![o] = r]
            BY <2>2
        <3> HIDE DEF r
        <3>3. Moves(o) /\ doing'[o] = r
            BY <3>1, <3>2, Setting
        <3>4. CarriesOut(o)'
            BY <1>1, <2>1, <3>1, <3>3 DEF CarriesOut
        <3> QED BY <1>1, <3>1, <3>3, <3>4, QuietMoves DEF Naming
    <2>3. ASSUME NEW added \in SUBSET Usage!EventsFor(n, o),
                 doing' = [doing EXCEPT ![o] = [step |-> "retain", sample |-> n, ready |-> added]]
          PROVE  UInv'
        <3> DEFINE r == [step |-> "retain", sample |-> n, ready |-> added]
        <3>1. Carries(r) /\ r.step = "retain" /\ r.sample = n /\ r.ready = added
            BY DEF Carries
        <3>2. doing' = [doing EXCEPT ![o] = r]
            BY <2>3
        <3> HIDE DEF r
        <3>3. Moves(o) /\ doing'[o] = r
            BY <3>1, <3>2, Setting
        <3>4. CarriesOut(o)'
            BY <1>1, <2>1, <2>3, <3>1, <3>3 DEF CarriesOut, Usage!EventsFor
        <3> QED BY <1>1, <3>1, <3>3, <3>4, QuietMoves DEF Naming
    <2> DEFINE added == {e \in Usage!EventsFor(n, o) : ~ Usage!Admitted(e, Usage!Observed)}
    <2>4. \/ doing' = [doing EXCEPT ![o] = [step |-> "quarantine", sample |-> n]]
          \/ doing' = [doing EXCEPT ![o] = [step |-> "retain", sample |-> n, ready |-> added]]
        BY <1>3, <2>1 DEF Usage!ReadAdmitted
    <2>5. added \in SUBSET Usage!EventsFor(n, o)
        OBVIOUS
    <2> QED BY <2>2, <2>3, <2>4, <2>5
<1> QED BY <1>2, <1>3

LEMMA PacketSteps ==
    ASSUME UInv, NEW o \in Operators, Usage!RetainPacket(o) \/ Usage!WritePacket(o)
    PROVE  UInv'
<1>1. PICK n \in 1 .. Len(samples) : n = doing[o].sample
    BY DEF Usage!RetainPacket, Usage!WritePacket, Usage!At, UInv, ImportsCarry, CarriesOut
<1>2. /\ UNCHANGED <<config, stream, samples, failures>>
      /\ doing[o].step \in {"retain", "retaining"}
      /\ doing[o].ready \subseteq Usage!EventsFor(n, o)
    BY <1>1 DEF Usage!RetainPacket, Usage!WritePacket, Usage!At, Usage!root, UInv, ImportsCarry, CarriesOut
<1>3. /\ packets \in Seq({"absent", "cut", "whole"}) /\ Len(packets) = Len(samples)
      /\ samples \in Seq([account : Accounts, session : Sessions, lines : Logs])
    BY DEF UInv, ImportTypes, EvidenceTypes
<1>4. ASSUME NEW step \in {"retaining", "append"}, Usage!Go(o, step), EvidenceGrows,
             step = "append" => packets'[n] = "whole"
      PROVE  UInv'
    <2>1. /\ Moves(o) /\ doing'[o].step = step /\ doing'[o].sample = n
          /\ doing'[o].ready = doing[o].ready
        BY <1>1, <1>2, <1>4, GoingOnImport
    <2>2. CarriesOut(o)'
        BY <1>2, <1>4, <2>1 DEF CarriesOut, Usage!EventsFor
    <2> QED BY <1>2, <1>4, <2>1, <2>2, StreamStays, ImportMoves DEF Naming
<1>5. ASSUME Usage!Go(o, "quarantine"), EvidenceGrows
      PROVE  UInv'
    <2>1. Moves(o) /\ doing'[o].step = "quarantine" /\ doing'[o].sample = n
        BY <1>1, <1>2, <1>5, GoingOnImport
    <2>2. CarriesOut(o)'
        BY <1>2, <2>1 DEF CarriesOut
    <2> QED BY <1>2, <1>5, <2>1, <2>2, StreamStays, ImportMoves DEF Naming
<1>6. UNCHANGED packets => EvidenceGrows
    BY <1>2, EvidenceStays
<1>7. ASSUME NEW state \in {"cut", "whole"}, packets' = [packets EXCEPT ![n] = state], packets[n] = "whole" => state = "whole"
      PROVE  EvidenceGrows /\ packets'[n] = state
    <2>1. packets' \in Seq({"absent", "cut", "whole"}) /\ Len(packets') = Len(packets)
        BY <1>3, <1>7
    <2>2. /\ packets'[n] = state
          /\ \A k \in 1 .. Len(samples) : k # n => packets'[k] = packets[k]
        BY <1>3, <1>7
    <2> QED BY <1>2, <1>3, <1>7, <2>1, <2>2 DEF EvidenceGrows, EvidenceTypes
<1>8. CASE Usage!RetainPacket(o)
    <2>1. \/ packets[n] = "absent" /\ packets' = [packets EXCEPT ![n] = "cut"] /\ Usage!Go(o, "retaining")
          \/ Usage!Go(o, "quarantine") /\ UNCHANGED packets
          \/ packets[n] = "whole" /\ Usage!Go(o, "append") /\ UNCHANGED packets
        BY <1>1, <1>8 DEF Usage!RetainPacket
    <2> QED BY <1>4, <1>5, <1>6, <1>7, <2>1
<1>9. CASE Usage!WritePacket(o)
    <2>1. \/ packets' = [packets EXCEPT ![n] = "whole"] /\ Usage!Go(o, "append")
          \/ Usage!Go(o, "quarantine") /\ UNCHANGED packets
        BY <1>1, <1>9 DEF Usage!WritePacket
    <2> QED BY <1>4, <1>5, <1>6, <1>7, <2>1
<1> QED BY <1>8, <1>9

(* The added of an import agree with what came in since they were compared,  *)
(* and with each other.                                                     *)
LEMMA AppendStep ==
    ASSUME UInv, NEW o \in Operators, Usage!AppendRows(o)
    PROVE  UInv'
<1>1. PICK n \in 1 .. Len(samples) : n = doing[o].sample
    BY DEF Usage!AppendRows, Usage!At, UInv, ImportsCarry, CarriesOut
<1>2. /\ UNCHANGED <<config, samples, packets, failures>>
      /\ doing[o].step = "append" /\ packets[n] = "whole"
      /\ doing[o].ready \subseteq Usage!EventsFor(n, o)
    BY <1>1 DEF Usage!AppendRows, Usage!At, Usage!root, Usage!evidence, UInv, ImportsCarry, CarriesOut
<1>3. ASSUME NEW step \in {"summary", "quarantine"}, Usage!Go(o, step)
      PROVE  Moves(o) /\ CarriesOut(o)' /\ doing'[o].step = step
    <2>1. Moves(o) /\ doing'[o].step = step /\ doing'[o].sample = n
        BY <1>1, <1>2, <1>3, GoingOnImport
    <2> QED BY <1>2, <2>1 DEF CarriesOut
<1>4. EvidenceGrows
    BY <1>2, EvidenceStays
<1>5. CASE Usage!Go(o, "quarantine") /\ UNCHANGED stream
    BY <1>2, <1>3, <1>4, <1>5, StreamStays, ImportMoves DEF Naming
<1>6. CASE /\ Usage!Valid
           /\ \A e \in doing[o].ready : Usage!Admitted(e, Usage!Observed) => e \in stream
           /\ stream' = stream \cup doing[o].ready /\ Usage!Go(o, "summary")
    <2>1. config \in Operators /\ Usage!Bound(config) \in stream
        BY <1>6 DEF Usage!Valid, Usage!IsBoundTo
    <2>2. \A e \in doing[o].ready : e.kind = "usage_observed" /\ e.packet = n /\ e.actor = o
        BY <1>2 DEF Usage!EventsFor
    <2>3. BoundOnce'
        BY <1>2, <1>6, <2>1, <2>2 DEF UInv, BoundOnce, Usage!Bound
    <2>4. RowsPerform'
        <3>1. \A m, p : Usage!EventsFor(m, p)' = Usage!EventsFor(m, p)
            BY <1>2 DEF Usage!EventsFor
        <3>2. \A e \in doing[o].ready : e \in Usage!EventsFor(e.packet, e.actor)
            BY <1>2, <2>2
        <3> QED BY <1>2, <1>6, <2>2, <3>1, <3>2 DEF UInv, RowsPerform
    <2>5. \A e, f \in doing[o].ready : e.line = f.line => e = f
        BY <1>2 DEF Usage!EventsFor
    <2>6. ASSUME NEW e \in doing[o].ready, NEW f \in stream, f.kind = "usage_observed",
                 e.account = f.account, e.session = f.session, e.line = f.line
          PROVE  e = f
        <3>1. Usage!Admitted(e, Usage!Observed)
            BY <2>6 DEF Usage!Admitted, Usage!Observed, Usage!Identity
        <3>2. e \in stream /\ e.kind = "usage_observed"
            BY <1>6, <2>2, <3>1
        <3> QED BY <2>6, <3>2 DEF UInv, Usage!FirstAdmissionStands, Usage!Observed
    <2>7. Usage!FirstAdmissionStands'
        BY <1>6, <2>5, <2>6 DEF UInv, Usage!FirstAdmissionStands, Usage!Observed
    <2> QED BY <1>2, <1>3, <1>4, <1>6, <2>3, <2>4, <2>7, ImportMoves DEF Naming
<1> QED BY <1>5, <1>6 DEF Usage!AppendRows

LEMMA FailureSteps ==
    ASSUME UInv, NEW o \in Operators, Usage!Quarantine(o) \/ Usage!ReportFailure(o)
    PROVE  UInv'
<1>1. PICK n \in 1 .. Len(samples) : n = doing[o].sample
    BY DEF Usage!Quarantine, Usage!ReportFailure, Usage!At, UInv, ImportsCarry, CarriesOut
<1>2. CASE Usage!Quarantine(o)
    <2>1. /\ failures' = failures \cup {[sample |-> n, actor |-> o]} /\ Usage!Go(o, "report")
          /\ doing[o].step = "quarantine" /\ UNCHANGED <<config, stream, samples, packets>>
        BY <1>1, <1>2 DEF Usage!Quarantine, Usage!At, Usage!root
    <2>2. EvidenceGrows
        BY <2>1 DEF UInv, ImportTypes, EvidenceTypes, EvidenceGrows
    <2>3. Moves(o) /\ doing'[o].step = "report" /\ doing'[o].sample = n
        BY <1>1, <2>1, GoingOnImport
    <2>4. CarriesOut(o)'
        BY <2>1, <2>3 DEF CarriesOut
    <2> QED BY <2>1, <2>2, <2>3, <2>4, StreamStays, ImportMoves DEF Naming
<1>3. CASE Usage!ReportFailure(o)
    <2>1. /\ Usage!End(o) /\ UNCHANGED <<config, samples, packets, failures>>
          /\ doing[o].step = "report"
          /\ [sample |-> n, actor |-> o] \in failures
        BY <1>1, <1>3 DEF Usage!ReportFailure, Usage!At, Usage!root, Usage!evidence, UInv, ImportsCarry, CarriesOut
    <2>2. CASE UNCHANGED stream
        BY <2>1, <2>2, Ending, EvidenceStays, StreamStays, ImportMoves DEF Naming
    <2> DEFINE e == Usage!Failure(n, o)
    <2>3. CASE Usage!Valid /\ stream' = stream \cup {e}
        <3>1. e.kind = "usage_coverage" /\ e.sample = n /\ e.actor = o
            BY DEF Usage!Failure
        <3> HIDE DEF e
        <3>2. config \in Operators /\ Usage!Bound(config) \in stream
            BY <2>3 DEF Usage!Valid, Usage!IsBoundTo
        <3>3. BoundOnce'
            BY <2>1, <2>3, <3>1, <3>2 DEF UInv, BoundOnce, Usage!Bound
        <3>4. \A m, p : Usage!EventsFor(m, p)' = Usage!EventsFor(m, p)
            BY <2>1 DEF Usage!EventsFor
        <3>5. RowsPerform' /\ Usage!FirstAdmissionStands'
            BY <2>1, <2>3, <3>1, <3>4 DEF UInv, RowsPerform, Usage!FirstAdmissionStands, Usage!Observed
        <3> QED BY <2>1, <3>3, <3>5, Ending, EvidenceStays, ImportMoves DEF Naming
    <2> QED BY <1>1, <1>3, <2>2, <2>3 DEF Usage!ReportFailure
<1> QED BY <1>2, <1>3

LEMMA ImportStep == UInv /\ Usage!NamesDiffer /\ [Usage!Next]_Usage!vars => UInv'
<1> SUFFICES ASSUME UInv, Usage!NamesDiffer, [Usage!Next]_Usage!vars PROVE UInv'
    OBVIOUS
<1>1. ASSUME UNCHANGED <<config, stream, samples, packets, failures, doing>> PROVE UInv'
    <2>1. ImportTypes' /\ RootIsNamedOnce'
        BY <1>1 DEF UInv, ImportTypes, EvidenceTypes, RootIsNamedOnce
    <2>2. ImportsCarry'
        BY <1>1, EvidenceStays, EvidenceKeeps DEF ImportsCarry
    <2> QED BY <1>1, <2>1, <2>2, EvidenceStays, StreamStays DEF UInv
<1>2. CASE UNCHANGED Usage!vars \/ \E f \in Files : Usage!Upgrade(f)
    BY <1>1, <1>2 DEF Usage!vars, Usage!root, Usage!evidence, Usage!Upgrade
<1>3. ASSUME NEW o \in Operators, Usage!Die(o) \/ Usage!Summarize(o) PROVE UInv'
    <2>1. UNCHANGED <<config, stream, samples, packets, failures>>
        BY <1>3 DEF Usage!Die, Usage!Summarize, Usage!root, Usage!evidence
    <2>2. CASE Usage!End(o)
        BY <2>1, <2>2, Ending, QuietMoves DEF Naming
    <2>3. CASE Usage!Go(o, "quarantine") /\ doing[o].step = "summary"
        <3>1. doing[o].sample \in 1 .. Len(samples)
            BY <2>3 DEF UInv, ImportsCarry, CarriesOut
        <3>2. Moves(o) /\ doing'[o].step = "quarantine" /\ doing'[o].sample = doing[o].sample
            BY <2>3, GoingOnImport
        <3>3. CarriesOut(o)'
            BY <2>1, <3>1, <3>2 DEF CarriesOut
        <3> QED BY <2>1, <3>2, <3>3, QuietMoves DEF Naming
    <2> QED BY <1>3, <2>2, <2>3 DEF Usage!Die, Usage!Summarize, Usage!At
<1>4. ASSUME NEW o \in Operators, Usage!Initialize(o) \/ Usage!Sync(o) PROVE UInv'
    BY <1>4, RootSteps
<1>5. ASSUME NEW o \in Operators, Usage!Import(o) PROVE UInv'
    BY <1>3, <1>5, ReadingSteps, PacketSteps, AppendStep, FailureSteps DEF Usage!Import
<1>6. ASSUME NEW a \in Accounts, Usage!Confirm(a) PROVE UInv'
    BY <1>6, ConfirmStep
<1>7. ASSUME NEW s \in Sessions, NEW a \in Accounts, NEW lines \in Logs, Usage!TakeSample(s, a, lines) PROVE UInv'
    BY <1>7, SampleStep
<1> QED BY <1>2, <1>3, <1>4, <1>5, <1>6, <1>7 DEF Usage!Next

LEMMA ImportsInductive == ASSUME Usage!NamesDiffer PROVE Usage!Spec => []UInv
<1>1. Usage!NamesDiffer
    OBVIOUS
<1> QED BY <1>1, ImportsInitially, ImportStep, PTL DEF Usage!Spec

(* Whichever calls of initialize are cut off, a stream has one binding, and *)
(* it is to the identity that the configuration of its root names.          *)
THEOREM RootHasOneIdentity == ASSUME Usage!NamesDiffer PROVE Usage!Spec => []OneIdentity
<1>1. UInv => OneIdentity
    BY DEF UInv, BoundOnce, OneIdentity, Bound, Usage!Bound
<1> QED BY <1>1, ImportsInductive, PTL

(* Every event an import has left can be made again from its retained       *)
(* packet, and every failure on record has its candidate.                   *)
THEOREM EvidenceAlwaysPerforms == ASSUME Usage!NamesDiffer PROVE Usage!Spec => []EvidencePerforms
<1>1. UInv => EvidencePerforms
    BY DEF UInv, RowsPerform, EvidencePerforms, Observed, EventsFor, Usage!EventsFor
<1> QED BY <1>1, ImportsInductive, PTL

(* However imports overlap, a line of a session is on record once per       *)
(* account.                                                                 *)
THEOREM FirstAdmissionAlwaysStands == ASSUME Usage!NamesDiffer PROVE Usage!Spec => []FirstAdmissionStands
<1>1. UInv => FirstAdmissionStands
    BY DEF UInv, FirstAdmissionStands, Observed, Usage!FirstAdmissionStands, Usage!Observed
<1> QED BY <1>1, ImportsInductive, PTL

\* The readings on record of a session have a line each and are finitely many.
LEMMA LinesAreRead ==
    ASSUME UInv, NEW a \in Accounts, NEW s \in Sessions PROVE AreReadings(Readings(a, s))
<1> DEFINE R == Readings(a, s)
           E == {e \in Observed : e.account = a /\ e.session = s}
           upto == [n \in 1 .. Len(samples) |-> 1 .. Len(samples[n].lines)]
           lines == UNION {upto[n] : n \in 1 .. Len(samples)}
<1>1. /\ samples \in Seq([account : Accounts, session : Sessions, lines : Logs])
      /\ \A n \in 1 .. Len(samples) : samples[n].lines \in Seq(Nat \cup {Unknown})
  <2>1. samples \in Seq([account : Accounts, session : Sessions, lines : Logs])
    BY DEF UInv, ImportTypes, EvidenceTypes
  <2> DEFINE Sampled == [account : Accounts, session : Sessions, lines : Logs]
  <2>2. \A n \in 1 .. Len(samples) : samples[n].lines \in Logs
    <3> SUFFICES ASSUME NEW n \in 1 .. Len(samples) PROVE samples[n].lines \in Logs
      OBVIOUS
    <3>1. samples[n] \in Sampled
      <4> HIDE DEF Sampled
      <4>1. samples \in Seq(Sampled)
        BY <2>1 DEF Sampled
      <4> QED BY <4>1
    <3> QED BY <3>1
  <2> QED BY <2>1, <2>2, LogsAssumption
<1>2. ASSUME NEW e \in E PROVE e.line \in lines /\ e.line \in Nat /\ e.quantity \in Nat \cup {Unknown}
  <2>1. e.packet \in 1 .. Len(samples) /\ e \in Usage!EventsFor(e.packet, e.actor)
    BY <1>2 DEF UInv, RowsPerform, Observed
  <2>2. e.line \in 1 .. Len(samples[e.packet].lines) /\ e.quantity = samples[e.packet].lines[e.line]
    BY <2>1 DEF Usage!EventsFor
  <2>3. samples[e.packet].lines \in Seq(Nat \cup {Unknown})
    BY <1>1, <2>1
  <2>4. e.line \in Nat /\ e.quantity \in Nat \cup {Unknown}
    BY <2>2, <2>3
  <2>5. e.line \in upto[e.packet]
    BY <2>1, <2>2
  <2> QED BY <2>1, <2>4, <2>5
<1>3. \A e, f \in E : e.line = f.line => e = f
  BY DEF UInv, Usage!FirstAdmissionStands, Usage!Observed, Observed
<1>4. IsFiniteSet(lines)
  <2> DEFINE N == 1 .. Len(samples)
             images == {upto[n] : n \in N}
  <2>1. IsFiniteSet(N)
    BY <1>1, FS_Interval
  <2>2. upto \in Surjection(N, images)
    BY DEF Surjection
  <2>3. IsFiniteSet(images)
    <3> HIDE DEF N, images, upto
    <3> QED BY <2>1, <2>2, FS_Surjection
  <2>4. \A i \in images : IsFiniteSet(i)
    <3> SUFFICES ASSUME NEW n \in N PROVE IsFiniteSet(1 .. Len(samples[n].lines))
      OBVIOUS
    <3>1. Len(samples[n].lines) \in Int
      BY <1>1
    <3> HIDE DEF N
    <3>2. IsFiniteSet(1 .. Len(samples[n].lines))
      BY <3>1, FS_Interval
    <3> QED BY <3>2
  <2> HIDE DEF images
  <2>5. IsFiniteSet(UNION images)
    BY <2>3, <2>4, FS_UNION
  <2> QED BY <2>5 DEF images
<1>5. R = {[at |-> e.line, line |-> e.line, quantity |-> e.quantity] : e \in E}
  BY DEF Readings
<1> HIDE DEF R, E, lines
<1>6. \A r \in R : r.line \in lines /\ r.line \in Nat /\ r.at = r.line /\ r.quantity \in Nat \cup {Unknown}
  BY <1>2, <1>5
<1>7. \A r, q \in R : r.line = q.line => r = q
  BY <1>3, <1>5
<1>8. IsFiniteSet(R)
  <2> DEFINE lineOf == [r \in R |-> r.line]
  <2>1. lineOf \in Injection(R, lines)
    BY <1>6, <1>7 DEF Injection, IsInjective
  <2> HIDE DEF lineOf
  <2> QED BY <1>4, <2>1, FS_Injection
<1> QED BY <1>6, <1>7, <1>8 DEF AreReadings, R

(* A number in a report is the growth of a session's counter inside the     *)
(* window, whichever readings were admitted by whom and whatever the window *)
(* (tl/usage/sql/views/intervals.sql and usage_tokens.sql).                 *)
THEOREM GrowthIsAlwaysWithinTheWindow ==
    ASSUME Usage!NamesDiffer PROVE Usage!Spec => []GrowthIsWithinTheWindow
<1>1. UInv => GrowthIsWithinTheWindow
  <2> SUFFICES ASSUME UInv, NEW a \in Accounts, NEW s \in Sessions, NEW window \in ReportWindows,
                      Tokens(Readings(a, s), window) # Unknown
               PROVE  Tokens(Readings(a, s), window) = SpanOf(Readings(a, s), window)
    BY DEF GrowthIsWithinTheWindow
  <2>1. window \in [start : Int, end : Int]
    BY WindowsAssumption
  <2> QED BY <2>1, LinesAreRead, GrowthAddsUp
<1> QED BY <1>1, ImportsInductive, PTL
=============================================================================
