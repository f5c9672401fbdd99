-------------------------- MODULE TrialSuiteProofs --------------------------
(* Proofs about TrialSuite and PairedTrial, for any drivers, number of      *)
(* trials, cap and allowance, about the challenge, for any rows, graders    *)
(* and answers, and about the denial probes, for any roles and actions.     *)
EXTENDS MCTrialSuite, FiniteSetTheorems, SequenceTheorems, TLAPS

Before == {"admit", "bind", "check", "reserve", "launch"}
Owning == Before \cup {"wait", "finish", "execution"}

Row == [event : {"suite_bound"}]
       \cup [event : {"trial_reserved"}, trial : Trials, total : Int]
       \cup [event : {"trial_finished"}, trial : Trials, bytes : Int, status : {"equivalent", "failed"}]

Statuses == {"equivalent", "failed"}
Files == [made : BOOLEAN, admission : BOOLEAN, rows : Seq(Row), cut : BOOLEAN,
          execution : {None} \cup [outcomes : Seq(Statuses), total : Int]]
Places == {"idle", "make"} \cup Owning
Charges == {0, Cap}
Call == [pc : Places, index : Trials, reserved : Int, held : Charges,
         outcomes : Seq(Statuses), status : Statuses]
Reports(outcomes) ==
    [pc : {"idle", "trials", "ledger", "execution"}, next : Trials, sealed : SUBSET Trials,
     kept : SUBSET Trials, ok : BOOLEAN, outcomes : {outcomes}, total : Int,
     result : {"none", "measured", "incomplete"}]

TypeOK ==
    /\ suite \in Files
    /\ trial \in [Trials -> {"absent", "partial", "equivalent", "different"}]
    /\ worker \in [Trials -> {"none", "running", "zero", "other"}]
    /\ driver \in [Drivers -> Call]
    /\ reader \in Reports(reader.outcomes)
    /\ launches \in [Trials -> Nat]

(* Only the driver that has made the directory goes on, and nothing was     *)
(* launched before.                                                         *)
OneOwns ==
    /\ \A d, e \in Drivers : driver[d].pc \in Owning /\ driver[e].pc \in Owning => d = e
    /\ \A d \in Drivers : IF driver[d].pc \in Owning THEN suite.made ELSE driver[d].index = 1
    /\ ~ suite.made => \A i \in Trials : launches[i] = 0

(* A driver launches one trial after the other.                             *)
LaunchedBehind ==
    \A d \in Drivers : driver[d].pc \in Owning =>
        \A i \in Trials : launches[i] > 0 =>
            i < driver[d].index \/ (i = driver[d].index /\ driver[d].pc \notin Before)

(* It goes on only after it has recorded that the trial succeeded.          *)
Recorded(i) == \E k \in 1 .. Len(suite.rows) : suite.rows[k] = FinishedRow(i, Cap, "equivalent")
SuccessIsRecorded ==
    /\ \A d \in Drivers : driver[d].pc \in Owning =>
          \A i \in Trials : i < driver[d].index => Recorded(i)
    /\ \A i, j \in Trials : launches[j] > 0 /\ i < j => Recorded(i)
    /\ \A d \in Drivers :
          /\ driver[d].pc \in {"reserve", "launch", "wait"} => driver[d].held = Cap
          /\ driver[d].pc = "finish" /\ driver[d].status = "equivalent" => driver[d].held = Cap

(* What a trial has left comes from a worker that was launched, once; what  *)
(* a report keeps was sealed for good.                                      *)
LeftByAWorker ==
    \A i \in Trials :
        /\ launches[i] <= 1
        /\ worker[i] = "running" \/ trial[i] # "absent" => launches[i] = 1
KeptIsSealed ==
    /\ \A i \in reader.kept : trial[i] = "equivalent"
    /\ reader.result = "measured" => \A i \in Trials : trial[i] = "equivalent"

IInv == TypeOK /\ OneOwns /\ LaunchedBehind /\ SuccessIsRecorded /\ LeftByAWorker /\ KeptIsSealed

-----------------------------------------------------------------------------
LEMMA InitHolds == Init => IInv
<1> SUFFICES ASSUME Init PROVE IInv
  OBVIOUS
<1>1. 1 \in Trials /\ 0 \in {0, Cap}
  BY TrialsAssumption DEF Trials
<1>2. TypeOK
  BY <1>1 DEF Init, TypeOK, Resting, Unread, Owning, Before, Statuses, Files, Call, Places, Charges, Reports
<1>3. OneOwns /\ LaunchedBehind /\ LeftByAWorker /\ KeptIsSealed
  BY DEF Init, OneOwns, LaunchedBehind, LeftByAWorker, KeptIsSealed, Resting, Unread, Owning, Before
<1>4. SuccessIsRecorded
  BY DEF Init, SuccessIsRecorded, Resting, Owning, Before
<1> QED
  BY <1>2, <1>3, <1>4 DEF IInv

LEMMA CallAt ==
  ASSUME NEW c \in Call, NEW pc \in Places
  PROVE  [c EXCEPT !.pc = pc] \in Call
BY DEF Call

(* A row may be added, cut or left out: what is recorded stays so.          *)
LEMMA RowsStay ==
  ASSUME TypeOK, NEW row \in Row, FailToAppend(row)
  PROVE  /\ suite' \in Files
         /\ suite'.made = suite.made
         /\ \A i \in Trials : Recorded(i) => Recorded(i)'
<1>1. suite.rows \in Seq(Row)
  BY DEF TypeOK, Files
<1>2. CASE AppendRow(row)
  <2>1. suite'.rows = Append(suite.rows, row) /\ suite'.made = suite.made
    BY <1>2 DEF AppendRow, TypeOK, Files
  <2>2. suite'.rows \in Seq(Row) /\ Len(suite'.rows) = Len(suite.rows) + 1
    BY <1>1, <2>1
  <2>3. \A k \in 1 .. Len(suite.rows) : suite'.rows[k] = suite.rows[k]
    BY <1>1, <2>1
  <2>4. \A i \in Trials : Recorded(i) => Recorded(i)'
    BY <1>1, <2>2, <2>3 DEF Recorded, FinishedRow
  <2> QED
    BY <1>2, <2>1, <2>2, <2>4 DEF AppendRow, TypeOK, Files
<1>3. CASE suite' = [suite EXCEPT !.cut = TRUE]
  BY <1>3 DEF TypeOK, Recorded, Files
<1>4. CASE UNCHANGED suite
  BY <1>4 DEF TypeOK, Recorded, Files
<1> QED
  BY <1>2, <1>3, <1>4 DEF FailToAppend

(* What holds of a step that moves one driver and launches nothing.         *)
LEMMA DriverStep ==
  ASSUME IInv, NEW d \in Drivers, NEW now,
         now \in Call,
         driver' = [driver EXCEPT ![d] = now],
         UNCHANGED <<trial, worker, reader, launches>>,
         suite' \in Files,
         suite.made => suite'.made,
         \A i \in Trials : Recorded(i) => Recorded(i)',
         now.pc \in Owning =>
            /\ suite'.made
            /\ driver[d].pc \in Owning \/ ~ suite.made
            /\ \A i \in Trials : launches[i] > 0 => i < now.index \/ (i = now.index /\ now.pc \notin Before)
            /\ \A i \in Trials : i < now.index => Recorded(i)',
         now.pc \notin Owning => now.index = 1,
         now.pc \in {"reserve", "launch", "wait"} => now.held = Cap,
         now.pc = "finish" /\ now.status = "equivalent" => now.held = Cap
  PROVE  IInv'
<1> USE DEF IInv
<1>1. \A e \in Drivers : driver'[e] = IF e = d THEN now ELSE driver[e]
  BY DEF TypeOK
<1>2. TypeOK'
  BY DEF TypeOK
<1>3. OneOwns'
  BY <1>1 DEF OneOwns
<1>4. LaunchedBehind'
  BY <1>1 DEF LaunchedBehind
<1>5. SuccessIsRecorded'
  BY <1>1 DEF SuccessIsRecorded
<1>6. LeftByAWorker' /\ KeptIsSealed'
  BY DEF LeftByAWorker, KeptIsSealed
<1> QED
  BY <1>2, <1>3, <1>4, <1>5, <1>6

LEMMA RestingIsFine ==
  Resting \in Call
<1>1. 1 \in Trials /\ 0 \in {0, Cap}
  BY TrialsAssumption DEF Trials
<1> QED
  BY <1>1 DEF Resting, Statuses, Call, Places, Charges

(* A call that ends leaves its place, whatever it does to the files.        *)
LEMMA EndStep ==
  ASSUME IInv, NEW d \in Drivers, End(d), UNCHANGED <<trial, worker, reader, launches>>,
         suite' \in Files,
         suite'.made = suite.made,
         \A i \in Trials : Recorded(i) => Recorded(i)'
  PROVE  IInv'
<1>1. Resting.pc \notin Owning /\ Resting.index = 1
  BY DEF Resting, Owning, Before
<1>2. Resting.pc \notin {"reserve", "launch", "wait", "finish"}
  BY DEF Resting
<1> QED
  BY <1>1, <1>2, RestingIsFine, DriverStep DEF End

(* The driver that goes on has made the directory, and is where it is.      *)
LEMMA OwnerHolds ==
  ASSUME IInv, NEW d \in Drivers, driver[d].pc \in Owning
  PROVE  /\ suite.made
         /\ \A i \in Trials : launches[i] > 0 =>
               i < driver[d].index \/ (i = driver[d].index /\ driver[d].pc \notin Before)
         /\ \A i \in Trials : i < driver[d].index => Recorded(i)
BY DEF IInv, OneOwns, LaunchedBehind, SuccessIsRecorded

LEMMA Unchanged ==
  ASSUME IInv, UNCHANGED suite
  PROVE  /\ suite' \in Files
         /\ \A i \in Trials : Recorded(i) => Recorded(i)'
BY DEF IInv, TypeOK, Recorded, Files

LEMMA PreflightStep == ASSUME IInv, NEW d \in Drivers, Preflight(d) PROVE IInv'
<1> DEFINE now == [driver[d] EXCEPT !.pc = "make"]
<1>1. driver[d].index = 1
  BY DEF IInv, OneOwns, Preflight, Owning, Before
<1>2. now \in Call
  BY CallAt DEF IInv, TypeOK, Places, Owning, Before
<1>3. /\ driver' = [driver EXCEPT ![d] = now] /\ now.pc = "make" /\ now.index = 1
      /\ UNCHANGED <<suite, trial, worker, reader, launches>>
  BY <1>1 DEF Preflight, Goto, IInv, TypeOK, Call
<1> HIDE DEF now
<1> QED
  BY <1>2, <1>3, Unchanged, DriverStep DEF Owning, Before

LEMMA MakeRootStep == ASSUME IInv, NEW d \in Drivers, MakeRoot(d) PROVE IInv'
<1>1. CASE suite.made
  BY <1>1, Unchanged, EndStep DEF MakeRoot
<1>2. CASE ~ suite.made
  <2> DEFINE now == [driver[d] EXCEPT !.pc = "admit"]
  <2>1. driver[d].pc = "make" /\ driver[d].index = 1
    BY DEF IInv, OneOwns, MakeRoot, Owning, Before
  <2>2. now \in Call
    BY CallAt DEF IInv, TypeOK, Places, Owning, Before
  <2>3. /\ driver' = [driver EXCEPT ![d] = now] /\ now.pc = "admit" /\ now.index = 1
        /\ UNCHANGED <<trial, worker, reader, launches>>
        /\ suite' = [suite EXCEPT !.made = TRUE]
    BY <1>2, <2>1 DEF MakeRoot, Goto, IInv, TypeOK, Call
  <2>4. /\ suite' \in Files
        /\ suite'.made /\ \A i \in Trials : Recorded(i) => Recorded(i)'
    BY <2>3 DEF IInv, TypeOK, Recorded, Files
  <2>5. \A i \in Trials : launches[i] = 0 /\ ~ (i < 1)
    BY <1>2, TrialsAssumption DEF IInv, OneOwns, Trials
  <2> HIDE DEF now
  <2>6. /\ now.pc \in Owning /\ now.pc \notin {"reserve", "launch", "wait", "finish"}
        /\ \A i \in Trials : ~ (launches[i] > 0) /\ ~ (i < now.index)
    BY <2>3, <2>5 DEF Owning, Before
  <2> QED
    BY <1>2, <2>2, <2>3, <2>4, <2>6, DriverStep
<1> QED
  BY <1>1, <1>2

LEMMA WriteAdmissionStep == ASSUME IInv, NEW d \in Drivers, WriteAdmission(d) PROVE IInv'
<1> DEFINE now == [driver[d] EXCEPT !.pc = "bind"]
<1>1. driver[d].pc = "admit" /\ driver[d].pc \in Owning /\ driver[d].pc \in Before
  BY DEF WriteAdmission, Owning, Before
<1>2. now \in Call
  BY CallAt DEF IInv, TypeOK, Places, Owning, Before
<1>3. /\ driver' = [driver EXCEPT ![d] = now] /\ now.pc = "bind" /\ now.index = driver[d].index
      /\ UNCHANGED <<trial, worker, reader, launches>>
      /\ suite' = [suite EXCEPT !.admission = TRUE]
  BY DEF WriteAdmission, Goto, IInv, TypeOK, Call
<1>4. /\ suite' \in Files
      /\ suite'.made = suite.made /\ \A i \in Trials : Recorded(i) => Recorded(i)'
  BY <1>3 DEF IInv, TypeOK, Recorded, Files
<1> HIDE DEF now
<1> QED
  BY <1>1, <1>2, <1>3, <1>4, OwnerHolds, DriverStep DEF Owning, Before

LEMMA BindStep == ASSUME IInv, NEW d \in Drivers, Bind(d) PROVE IInv'
<1>1. driver[d].pc = "bind" /\ driver[d].pc \in Owning /\ driver[d].pc \in Before
  BY DEF Bind, Owning, Before
<1>2. Bound \in Row /\ FailToAppend(Bound)
  BY DEF Bind, FailToAppend, Bound, Row
<1>3. CASE End(d)
  BY <1>2, <1>3, RowsStay, EndStep DEF Bind, IInv
<1>4. CASE Goto(d, "check")
  <2> DEFINE now == [driver[d] EXCEPT !.pc = "check"]
  <2>1. now \in Call
    BY CallAt DEF IInv, TypeOK, Places, Owning, Before
  <2>2. driver' = [driver EXCEPT ![d] = now] /\ now.pc = "check" /\ now.index = driver[d].index
    BY <1>4 DEF Goto, IInv, TypeOK, Call
  <2> HIDE DEF now
  <2> QED
    BY <1>1, <1>2, <2>1, <2>2, OwnerHolds, RowsStay, DriverStep DEF Bind, Owning, Before, IInv
<1> QED
  BY <1>3, <1>4 DEF Bind

LEMMA CheckStep == ASSUME IInv, NEW d \in Drivers, Check(d) PROVE IInv'
<1>1. driver[d].pc = "check" /\ driver[d].pc \in Owning /\ driver[d].pc \in Before
  BY DEF Check, Owning, Before
<1>2. driver[d] \in Call
  BY DEF IInv, TypeOK
<1>3. PICK now : /\ driver' = [driver EXCEPT ![d] = now]
                 /\ \/ now = [driver[d] EXCEPT !.pc = "reserve", !.reserved = driver[d].reserved + Cap, !.held = Cap]
                    \/ now = [driver[d] EXCEPT !.pc = "finish", !.held = 0, !.status = "failed"]
  BY DEF Check, IInv, TypeOK
<1>4. now \in Call
  <2>1. /\ driver[d].reserved + Cap \in Int /\ Cap \in Charges /\ 0 \in Charges
        /\ {"reserve", "finish"} \subseteq Places /\ "failed" \in Statuses
    BY <1>2, PlanAssumption DEF Call, Places, Owning, Before, Charges, Statuses
  <2>2. ASSUME NEW c \in Call, NEW reserved \in Int, NEW held \in Charges, NEW pc \in Places
        PROVE  /\ [c EXCEPT !.pc = pc, !.reserved = reserved, !.held = held] \in Call
               /\ \A status \in Statuses : [c EXCEPT !.pc = pc, !.held = held, !.status = status] \in Call
    BY DEF Call
  <2>3. CASE now = [driver[d] EXCEPT !.pc = "reserve", !.reserved = driver[d].reserved + Cap, !.held = Cap]
    <3> HIDE DEF Call
    <3> QED
      BY <1>2, <2>1, <2>2, <2>3
  <2>4. CASE now = [driver[d] EXCEPT !.pc = "finish", !.held = 0, !.status = "failed"]
    BY <1>2, <2>1, <2>2, <2>4
  <2> QED
    BY <1>3, <2>3, <2>4
<1>5. /\ now.index = driver[d].index
      /\ (now.pc = "reserve" /\ now.held = Cap) \/ (now.pc = "finish" /\ now.status = "failed")
  BY <1>2, <1>3 DEF Call
<1> QED
  BY <1>1, <1>3, <1>4, <1>5, OwnerHolds, Unchanged, DriverStep DEF Check, Owning, Before

LEMMA OutcomeType ==
  ASSUME NEW c \in Call, NEW status \in Statuses
  PROVE  [c EXCEPT !.pc = "finish", !.status = status] \in Call
BY DEF Call, Places, Owning, Before

(* A driver that leaves its trial with an outcome.                          *)
LEMMA OutcomeStep ==
  ASSUME IInv, NEW d \in Drivers, driver[d].pc \in Owning, NEW status \in Statuses,
         status = "failed" \/ driver[d].held = Cap,
         Outcome(d, status), UNCHANGED <<trial, worker, reader, launches>>,
         suite' \in Files, suite'.made = suite.made,
         \A i \in Trials : Recorded(i) => Recorded(i)'
  PROVE  IInv'
<1> DEFINE now == [driver[d] EXCEPT !.pc = "finish", !.status = status]
<1>1. driver[d] \in Call
  BY DEF IInv, TypeOK
<1>2. now \in Call
  BY <1>1, OutcomeType
<1>3. /\ driver' = [driver EXCEPT ![d] = now] /\ now.pc = "finish" /\ now.index = driver[d].index
      /\ now.status = status /\ now.held = driver[d].held
  BY <1>1 DEF Outcome, IInv, TypeOK, Call
<1> HIDE DEF now
<1> QED
  BY <1>2, <1>3, OwnerHolds, DriverStep DEF Owning, Before

LEMMA ReserveStep == ASSUME IInv, NEW d \in Drivers, Reserve(d) PROVE IInv'
<1> DEFINE row == ReservedRow(driver[d].index, driver[d].reserved)
<1>1. driver[d].pc = "reserve" /\ driver[d].pc \in Owning /\ driver[d].pc \in Before
  BY DEF Reserve, Owning, Before
<1>2. driver[d] \in Call
  BY DEF IInv, TypeOK
<1>3. row \in Row
  BY <1>2 DEF Row, ReservedRow, Call
<1>4. FailToAppend(row)
  BY DEF Reserve, FailToAppend
<1>5. suite' \in Files /\ suite'.made = suite.made /\ \A i \in Trials : Recorded(i) => Recorded(i)'
  BY <1>3, <1>4, RowsStay DEF IInv
<1>6. CASE Outcome(d, "failed")
  BY <1>1, <1>5, <1>6, OutcomeStep DEF Reserve, Statuses
<1>7. CASE Goto(d, "launch")
  <2> DEFINE now == [driver[d] EXCEPT !.pc = "launch"]
  <2>1. now \in Call
    BY <1>2, CallAt DEF Places, Owning, Before
  <2>2. /\ driver' = [driver EXCEPT ![d] = now] /\ now.pc = "launch" /\ now.index = driver[d].index
        /\ now.held = Cap
    BY <1>1, <1>2, <1>7 DEF Goto, IInv, TypeOK, Call, SuccessIsRecorded
  <2> HIDE DEF now
  <2> QED
    BY <1>1, <1>5, <2>1, <2>2, OwnerHolds, DriverStep DEF Reserve, Owning, Before
<1> QED
  BY <1>6, <1>7 DEF Reserve

LEMMA CollectStep == ASSUME IInv, NEW d \in Drivers, Collect(d) PROVE IInv'
<1>1. driver[d].pc \in Owning /\ driver[d].held = Cap
  BY DEF Collect, Owning, Before, IInv, SuccessIsRecorded
<1>2. PICK status \in Statuses : Outcome(d, status)
  BY DEF Collect, Statuses
<1>3. suite' \in Files /\ suite'.made = suite.made /\ \A i \in Trials : Recorded(i) => Recorded(i)'
  BY Unchanged DEF Collect
<1> QED
  BY <1>1, <1>2, <1>3, OutcomeStep DEF Collect

LEMMA FinishStep == ASSUME IInv, NEW d \in Drivers, Finish(d) PROVE IInv'
<1> DEFINE row == FinishedRow(driver[d].index, driver[d].held, driver[d].status)
           more == driver[d].status = "equivalent" /\ driver[d].index < N
<1>1. driver[d].pc = "finish" /\ driver[d].pc \in Owning /\ driver[d].pc \notin Before
  BY DEF Finish, Owning, Before
<1>2. driver[d] \in Call
  BY DEF IInv, TypeOK
<1>3. row \in Row
  BY <1>2, PlanAssumption DEF Row, FinishedRow, Call, Charges, Statuses
<1>4. FailToAppend(row)
  BY DEF Finish, FailToAppend
<1>5. suite' \in Files /\ suite'.made = suite.made /\ \A i \in Trials : Recorded(i) => Recorded(i)'
  BY <1>3, <1>4, RowsStay DEF IInv
<1>6. CASE End(d)
  BY <1>5, <1>6, EndStep DEF Finish
<1>7. CASE ~ End(d)
  <2>1. PICK now : /\ driver' = [driver EXCEPT ![d] = now]
                   /\ now = [driver[d] EXCEPT !.outcomes = Append(@, driver[d].status),
                                              !.pc = IF more THEN "check" ELSE "execution",
                                              !.index = IF more THEN @ + 1 ELSE @]
    BY <1>7 DEF Finish, IInv, TypeOK
  <2>2. AppendRow(row)
    BY <1>7 DEF Finish
  <2>3. now \in Call
    <3>1. ASSUME NEW c \in Call, NEW outcomes \in Seq(Statuses), NEW pc \in Places, NEW index \in Trials
          PROVE  [c EXCEPT !.outcomes = outcomes, !.pc = pc, !.index = index] \in Call
      BY DEF Call
    <3>2. Append(driver[d].outcomes, driver[d].status) \in Seq(Statuses)
      BY <1>2 DEF Call
    <3>3. (IF more THEN driver[d].index + 1 ELSE driver[d].index) \in Trials
      BY <1>2, TrialsAssumption DEF Call, Trials
    <3>4. (IF more THEN "check" ELSE "execution") \in Places
      BY DEF Places, Owning, Before
    <3>5. now = [driver[d] EXCEPT !.outcomes = Append(driver[d].outcomes, driver[d].status),
                                  !.pc = IF more THEN "check" ELSE "execution",
                                  !.index = IF more THEN driver[d].index + 1 ELSE driver[d].index]
      BY <2>1
    <3> HIDE DEF more
    <3> QED
      BY <1>2, <3>1, <3>2, <3>3, <3>4, <3>5
  <2>4. CASE ~ more
    <3>1. now.pc = "execution" /\ now.index = driver[d].index
      BY <1>2, <2>1, <2>4 DEF Call
    <3>2. driver' = [driver EXCEPT ![d] = now] /\ UNCHANGED <<trial, worker, reader, launches>>
      BY <2>1 DEF Finish
    <3>3. now.pc \in Owning /\ now.pc \notin Before /\ now.pc \notin {"reserve", "launch", "wait", "finish"}
      BY <3>1 DEF Owning, Before
    <3>4. /\ suite.made
          /\ \A i \in Trials : launches[i] > 0 => i < now.index \/ (i = now.index /\ now.pc \notin Before)
          /\ \A i \in Trials : i < now.index => Recorded(i)'
      BY <1>1, <1>5, <3>1, <3>3, OwnerHolds
    <3> HIDE DEF more, row
    <3> QED
      BY <1>1, <1>5, <2>3, <3>2, <3>3, <3>4, DriverStep
  <2>5. CASE more
    <3>1. now.pc = "check" /\ now.index = driver[d].index + 1
      BY <1>2, <2>1, <2>5 DEF Call
    <3>2. ASSUME NEW i \in Trials, i = driver[d].index PROVE Recorded(i)'
      <4>1. row = FinishedRow(i, Cap, "equivalent")
        BY <1>1, <2>5, <3>2 DEF IInv, SuccessIsRecorded, FinishedRow
      <4>2. suite'.rows = Append(suite.rows, row) /\ suite.rows \in Seq(Row)
        BY <2>2 DEF AppendRow, IInv, TypeOK, Files
      <4>3. Len(suite'.rows) = Len(suite.rows) + 1 /\ suite'.rows[Len(suite'.rows)] = row
        BY <1>3, <4>2
      <4>4. Len(suite'.rows) \in 1 .. Len(suite'.rows)
        BY <4>2, <4>3
      <4> QED
        BY <4>1, <4>3, <4>4 DEF Recorded
    <3>3. \A i \in Trials : i < now.index => i < driver[d].index \/ i = driver[d].index
      BY <1>2, <3>1 DEF Call, Trials
    <3>4. \A i \in Trials : launches[i] > 0 => i < now.index
      BY <1>1, <1>2, <3>1, OwnerHolds DEF Call, Trials
    <3>5. \A i \in Trials : i < now.index => Recorded(i)'
      BY <1>1, <1>5, <3>2, <3>3, OwnerHolds
    <3> QED
      BY <1>1, <1>5, <2>1, <2>3, <3>1, <3>4, <3>5, OwnerHolds, DriverStep DEF Finish, Owning, Before
  <2> QED
    BY <2>4, <2>5
<1> QED
  BY <1>6, <1>7

LEMMA WriteExecutionStep == ASSUME IInv, NEW d \in Drivers, WriteExecution(d) PROVE IInv'
<1>1. driver[d] \in Call
  BY DEF IInv, TypeOK
<1>2. suite' \in Files /\ suite'.made = suite.made /\ suite'.rows = suite.rows
  BY <1>1 DEF WriteExecution, IInv, TypeOK, Files, Call
<1> QED
  BY <1>2, EndStep DEF WriteExecution, Recorded

LEMMA CrashStep == ASSUME IInv, NEW d \in Drivers, Crash(d) PROVE IInv'
<1>1. suite' \in Files /\ suite'.made = suite.made /\ suite'.rows = suite.rows
  BY DEF Crash, IInv, TypeOK, Files
<1> QED
  BY <1>1, EndStep DEF Crash, Recorded

-----------------------------------------------------------------------------
(* The steps that touch the trials, and those of the report.                *)

LEMMA LaunchStep == ASSUME IInv, NEW d \in Drivers, Launch(d) PROVE IInv'
<1>1. driver[d].pc = "launch" /\ driver[d].pc \in Owning /\ driver[d].pc \in Before
  BY DEF Launch, Owning, Before
<1>2. driver[d] \in Call /\ driver[d].index \in Trials
  BY DEF IInv, TypeOK, Call
<1>3. CASE Outcome(d, "failed") /\ UNCHANGED <<worker, launches>>
  BY <1>1, <1>3, Unchanged, OutcomeStep DEF Launch, Statuses
<1>4. CASE Goto(d, "wait")
  <2> DEFINE i == driver[d].index
             now == [driver[d] EXCEPT !.pc = "wait"]
  <2>1. /\ worker' = [worker EXCEPT ![i] = "running"] /\ launches' = [launches EXCEPT ![i] = @ + 1]
        /\ driver' = [driver EXCEPT ![d] = now] /\ UNCHANGED <<suite, trial, reader>>
    BY <1>1, <1>4 DEF Launch, Goto, Outcome, IInv, TypeOK, Call
  <2>2. now \in Call /\ now.pc = "wait" /\ now.index = i /\ now.held = Cap
    BY <1>1, <1>2, CallAt DEF IInv, SuccessIsRecorded, Call, Places, Owning, Before
  <2>3. launches[i] = 0
    BY <1>1, <1>2, OwnerHolds DEF IInv, TypeOK, Trials
  <2>4. \A j \in Trials : launches'[j] = IF j = i THEN 1 ELSE launches[j]
    BY <1>2, <2>1, <2>3 DEF IInv, TypeOK
  <2>5. \A e \in Drivers : driver'[e] = IF e = d THEN now ELSE driver[e]
    BY <2>1 DEF IInv, TypeOK
  <2> HIDE DEF now
  <2>6. TypeOK'
    BY <1>2, <2>1, <2>2, <2>4 DEF IInv, TypeOK
  <2>7. OneOwns'
    BY <1>1, <2>1, <2>2, <2>5, OwnerHolds DEF IInv, OneOwns, Owning, Before
  <2>8. LaunchedBehind'
    <3> SUFFICES ASSUME NEW e \in Drivers, driver'[e].pc \in Owning, NEW j \in Trials, launches'[j] > 0
                 PROVE  j < driver'[e].index \/ (j = driver'[e].index /\ driver'[e].pc \notin Before)
      BY DEF LaunchedBehind
    <3>1. e = d
      BY <1>1, <2>5 DEF IInv, OneOwns
    <3>2. j = i \/ j < i
      BY <1>1, <2>4, OwnerHolds
    <3> QED
      BY <2>2, <2>5, <3>1, <3>2 DEF Before
  <2>9. SuccessIsRecorded'
    <3>1. \A j \in Trials : Recorded(j)' <=> Recorded(j)
      BY <2>1 DEF Recorded
    <3>2. \A e \in Drivers : driver'[e].pc \in Owning => \A j \in Trials : j < driver'[e].index => Recorded(j)'
      BY <1>1, <2>2, <2>5, <3>1 DEF IInv, SuccessIsRecorded
    <3>3. \A j, k \in Trials : launches'[k] > 0 /\ j < k => Recorded(j)'
      BY <1>1, <2>4, <3>1, OwnerHolds DEF IInv, SuccessIsRecorded
    <3> QED
      BY <2>2, <2>5, <3>2, <3>3 DEF IInv, SuccessIsRecorded
  <2>10. LeftByAWorker'
    BY <2>1, <2>4 DEF IInv, LeftByAWorker, TypeOK
  <2>11. KeptIsSealed'
    BY <2>1 DEF IInv, KeptIsSealed
  <2> QED
    BY <2>6, <2>7, <2>8, <2>9, <2>10, <2>11 DEF IInv
<1> QED
  BY <1>3, <1>4 DEF Launch

(* A worker that ends, sealed or not, is one that was launched.             *)
LEMMA WorkerStep ==
  ASSUME IInv, UNCHANGED <<suite, driver, reader, launches>>,
         worker' \in [Trials -> {"none", "running", "zero", "other"}],
         trial' \in [Trials -> {"absent", "partial", "equivalent", "different"}],
         \A i \in Trials : /\ worker'[i] = "running" => worker[i] = "running"
                           /\ trial'[i] # "absent" => trial[i] # "absent" \/ worker[i] = "running"
                           /\ trial[i] = "equivalent" => trial'[i] = "equivalent"
  PROVE  IInv'
<1>1. TypeOK' /\ OneOwns' /\ LaunchedBehind'
  BY DEF IInv, TypeOK, OneOwns, LaunchedBehind
<1>2. SuccessIsRecorded'
  BY DEF IInv, SuccessIsRecorded, Recorded
<1>3. LeftByAWorker' /\ KeptIsSealed'
  BY DEF IInv, TypeOK, LeftByAWorker, KeptIsSealed, Reports
<1> QED
  BY <1>1, <1>2, <1>3 DEF IInv

LEMMA WorkersStep ==
  ASSUME IInv, NEW i \in Trials, WorkerStarts(i) \/ WorkerSeals(i) \/ WorkerExits(i)
  PROVE  IInv'
<1>1. UNCHANGED <<suite, driver, reader, launches>>
  BY DEF WorkerStarts, WorkerSeals, WorkerExits
<1>2. /\ worker' \in [Trials -> {"none", "running", "zero", "other"}]
      /\ trial' \in [Trials -> {"absent", "partial", "equivalent", "different"}]
  BY DEF WorkerStarts, WorkerSeals, WorkerExits, IInv, TypeOK
<1>3. \A j \in Trials : /\ worker'[j] = "running" => worker[j] = "running"
                        /\ trial'[j] # "absent" => trial[j] # "absent" \/ worker[j] = "running"
                        /\ trial[j] = "equivalent" => trial'[j] = "equivalent"
  BY DEF WorkerStarts, WorkerSeals, WorkerExits, IInv, TypeOK
<1> QED
  BY <1>1, <1>2, <1>3, WorkerStep

LEMMA InterruptStep == ASSUME IInv, NEW d \in Drivers, Interrupt(d) PROVE IInv'
<1>1. driver[d].pc \in Owning /\ driver[d].pc \notin Before
  BY DEF Interrupt, Owning, Before
<1> DEFINE now == [driver[d] EXCEPT !.pc = "finish", !.status = "failed"]
<1>2. now \in Call /\ now.pc = "finish" /\ now.index = driver[d].index /\ now.status = "failed"
  BY OutcomeType DEF IInv, TypeOK, Call, Statuses
<1>3. \A e \in Drivers : driver'[e] = IF e = d THEN now ELSE driver[e]
  BY DEF Interrupt, Outcome, IInv, TypeOK
<1>4. driver' \in [Drivers -> Call]
  BY <1>2 DEF Interrupt, Outcome, IInv, TypeOK
<1>5. /\ worker' \in [Trials -> {"none", "running", "zero", "other"}]
      /\ \A i \in Trials : worker'[i] = "running" => worker[i] = "running"
      /\ UNCHANGED <<suite, trial, reader, launches>>
  BY DEF Interrupt, IInv, TypeOK
<1> HIDE DEF now
<1>6. TypeOK'
  BY <1>4, <1>5 DEF IInv, TypeOK
<1>7. OneOwns'
  BY <1>1, <1>2, <1>3, <1>5, OwnerHolds DEF IInv, OneOwns, Owning, Before
<1>8. LaunchedBehind'
  BY <1>1, <1>2, <1>3, <1>5 DEF IInv, LaunchedBehind, Before
<1>9. SuccessIsRecorded'
  <2>1. \A i \in Trials : Recorded(i)' <=> Recorded(i)
    BY <1>5 DEF Recorded
  <2> QED
    BY <1>1, <1>2, <1>3, <1>5, <2>1 DEF IInv, SuccessIsRecorded
<1>10. LeftByAWorker' /\ KeptIsSealed'
  BY <1>5 DEF IInv, LeftByAWorker, KeptIsSealed
<1> QED
  BY <1>6, <1>7, <1>8, <1>9, <1>10 DEF IInv

LEMMA ReportStep ==
  ASSUME IInv, BeginReport \/ ReadTrial \/ ReadLedger \/ Conclude
  PROVE  IInv'
<1>1. UNCHANGED <<suite, trial, worker, driver, launches>>
  BY DEF BeginReport, ReadTrial, ReadLedger, Conclude
<1>2. OneOwns' /\ LaunchedBehind' /\ SuccessIsRecorded' /\ LeftByAWorker'
  BY <1>1 DEF IInv, OneOwns, LaunchedBehind, SuccessIsRecorded, LeftByAWorker, Recorded
<1> DEFINE Typed == \E outcomes : reader' \in Reports(outcomes)
<1>7. Typed => TypeOK'
  BY <1>1 DEF IInv, TypeOK, Reports
<1>3. CASE BeginReport
  <2>1. reader'.kept = {} /\ reader'.result = "none"
    BY <1>3 DEF BeginReport, Unread
  <2>2. TypeOK'
    <3>1. 1 \in Trials
      BY TrialsAssumption DEF Trials
    <3>2. Unread \in Reports(<< >>)
      BY <3>1 DEF Unread, Reports
    <3>3. reader' \in Reports(<< >>)
      BY <1>3, <3>2 DEF BeginReport, Reports
    <3> QED
      BY <1>7, <3>3
  <2> QED
    BY <1>1, <1>2, <2>1, <2>2 DEF IInv, KeptIsSealed
<1>4. CASE ReadTrial
  <2>1. /\ reader'.kept \subseteq reader.kept \cup {i \in Trials : trial[i] = "equivalent"}
        /\ reader'.result = reader.result
    BY <1>4 DEF IInv, TypeOK, ReadTrial, Reports
  <2>2. TypeOK'
    <3>1. reader.next < N => reader.next + 1 \in Trials
      BY TrialsAssumption DEF IInv, TypeOK, Reports, Trials
    <3>2. reader' \in Reports(reader.outcomes)
      BY <1>4, <3>1 DEF IInv, TypeOK, ReadTrial, Reports
    <3> QED
      BY <1>7, <3>2
  <2> QED
    BY <1>1, <1>2, <2>1, <2>2 DEF IInv, KeptIsSealed
<1>5. CASE ReadLedger
  <2>1. reader'.kept = reader.kept /\ reader'.result = reader.result
    BY <1>5 DEF IInv, TypeOK, ReadLedger, Reports
  <2>2. TypeOK'
    <3> DEFINE body == Tail(suite.rows)
    <3>1. suite.rows # << >> => Len(body) \in Nat
      BY DEF IInv, TypeOK, Files
    <3>2. suite.rows # << >> => ((Len(body) + 1) \div 2) * Cap \in Int
      BY <3>1, PlanAssumption
    <3>3. \/ reader' \in Reports(OutcomesOf(body))
          \/ reader' \in Reports(reader.outcomes)
      BY <1>5, <3>2 DEF IInv, TypeOK, ReadLedger, Reports
    <3> QED
      BY <1>7, <3>3
  <2> QED
    BY <1>1, <1>2, <2>1, <2>2 DEF IInv, KeptIsSealed
<1>6. CASE Conclude
  <2>1. reader'.kept = {} /\ (reader'.result = "measured" => reader.kept = Trials)
    BY <1>6 DEF Conclude, Unread
  <2>2. TypeOK'
    <3>1. 1 \in Trials
      BY TrialsAssumption DEF Trials
    <3>2. Unread \in Reports(<< >>)
      BY <3>1 DEF Unread, Reports
    <3>3. reader' \in Reports(<< >>)
      BY <1>6, <3>2 DEF Conclude, Reports
    <3> QED
      BY <1>7, <3>3
  <2> QED
    BY <1>1, <1>2, <2>1, <2>2 DEF IInv, KeptIsSealed
<1> QED
  BY <1>3, <1>4, <1>5, <1>6

LEMMA StepHolds == IInv /\ [Next]_vars => IInv'
<1> SUFFICES ASSUME IInv, [Next]_vars PROVE IInv'
  OBVIOUS
<1>1. CASE UNCHANGED vars
  BY <1>1 DEF vars, IInv, TypeOK, OneOwns, LaunchedBehind, SuccessIsRecorded, Recorded, LeftByAWorker, KeptIsSealed
<1>2. ASSUME NEW d \in Drivers,
             \/ Preflight(d) \/ MakeRoot(d) \/ WriteAdmission(d) \/ Bind(d)
             \/ Check(d) \/ Reserve(d) \/ Launch(d) \/ Collect(d) \/ Interrupt(d)
             \/ Finish(d) \/ WriteExecution(d) \/ Crash(d)
      PROVE  IInv'
  BY <1>2, PreflightStep, MakeRootStep, WriteAdmissionStep, BindStep, CheckStep, ReserveStep, LaunchStep,
     CollectStep, InterruptStep, FinishStep, WriteExecutionStep, CrashStep
<1> QED
  BY <1>1, <1>2, WorkersStep, ReportStep DEF Next

LEMMA Inductive == Spec => []IInv
  BY InitHolds, StepHolds, PTL DEF Spec

-----------------------------------------------------------------------------
(* Every step keeps the types of the files, the calls and the workers.      *)
THEOREM TypeCorrect == Spec => []TypeOK
<1>1. IInv => TypeOK
  BY DEF IInv
<1> QED
  BY <1>1, Inductive, PTL

(* However many drivers are given the plan and wherever they die, no trial  *)
(* is launched a second time, and all launches fit the allowance.           *)
THEOREM LaunchesAlwaysFit == Spec => []LaunchesFitTheAllowance
<1>1. IInv => LaunchesFitTheAllowance
  <2> SUFFICES ASSUME IInv PROVE LaunchesFitTheAllowance
    OBVIOUS
  <2> DEFINE launched == {i \in Trials : launches[i] > 0}
  <2>1. IsFiniteSet(Trials) /\ Cardinality(Trials) = N
    BY FS_Interval, TrialsAssumption DEF Trials
  <2>2. Cardinality(launched) \in Nat /\ Cardinality(launched) <= N
    BY <2>1, FS_Subset, FS_CardinalityType
  <2>3. Cap * Cardinality(launched) <= Cap * N
    BY <2>2, PlanAssumption, TrialsAssumption
  <2>4. Cap * Cardinality(launched) <= Allowance
    BY <2>2, <2>3, PlanAssumption, TrialsAssumption
  <2> QED
    BY <2>4 DEF IInv, LeftByAWorker, LaunchesFitTheAllowance
<1> QED
  BY <1>1, Inductive, PTL

(* A report that says measured has found every trial sealed for good, each  *)
(* launched once, and all but the last recorded as a success.               *)
THEOREM MeasuredIsAlwaysComplete == Spec => []MeasuredIsComplete
<1>1. IInv => MeasuredIsComplete
  <2> SUFFICES ASSUME IInv, reader.result = "measured", NEW i \in Trials
               PROVE  /\ launches[i] = 1 /\ trial[i] = "equivalent"
                      /\ i < N => FinishedRow(i, Cap, "equivalent") \in {suite.rows[k] : k \in 1 .. Len(suite.rows)}
    BY DEF MeasuredIsComplete
  <2>1. \A j \in Trials : trial[j] = "equivalent" /\ launches[j] = 1
    BY DEF IInv, KeptIsSealed, LeftByAWorker
  <2>2. N \in Trials
    BY TrialsAssumption DEF Trials
  <2>3. i < N => Recorded(i)
    BY <2>1, <2>2 DEF IInv, SuccessIsRecorded
  <2> QED
    BY <2>1, <2>3 DEF Recorded
<1> QED
  BY <1>1, Inductive, PTL

-----------------------------------------------------------------------------
(* The worker of a pair: what it has done, between the steps of its program. *)
Works == [pc : {"admit", "run", "refresh", "ledger", "seal"}, at : 1 .. 14, jobs : Nat, offset : Nat,
          attributed : [Architectures -> SUBSET Nat],
          from : [Architectures -> SUBSET Conditions],
          equal : BOOLEAN, records : {"none", "some", "all"}, ledger : SUBSET Architectures,
          status : {"running", "failed", "equivalent", "different"}]

PairTypes ==
    /\ source \in {"frozen", "edited"} /\ code \in {"pinned", "edited"}
    /\ work \in [Trials -> Works]
    /\ \A i \in Trials : work[i].pc = "run" => work[i].at <= 13
    /\ \A i \in Trials : work[i].pc = "admit" => work[i] = Unstarted

(* The first n jobs have an owner each.                                     *)
Covers(w, n) ==
    /\ w.attributed["baseline"] \cap w.attributed["native"] = {}
    /\ w.attributed["baseline"] \union w.attributed["native"] = 1 .. n

(* Inside a window, the jobs since its offset have none yet.                *)
Inside(step) == IsQuery(step) /\ ~ Opens(step)
Accounted(i, w) ==
    IF w.pc = "run" /\ Inside(Program(i)[w.at])
    THEN w.offset <= w.jobs /\ Covers(w, w.offset)
    ELSE Covers(w, w.jobs)

(* All a pair has derived, from the frozen rows or by the pinned code; and  *)
(* what is known of it from what stands there now, for no edit is undone.   *)
OnFrozen(w) == \A a \in Architectures : \A d \in w.from[a] : d.source = "frozen"
ByPinned(w) == \A a \in Architectures : \A d \in w.from[a] : d.code = "pinned"
Clean(w) == (source = "frozen" => OnFrozen(w)) /\ (code = "pinned" => ByPinned(w))

(* What the steps behind a worker have left.                                *)
Passed(i, w) ==
    \A k \in 1 .. w.at - 1 :
        LET step == Program(i)[k]
        IN  /\ Derives(step) => w.from[Owner(step)] # {}
            /\ step = "source_after" => OnFrozen(w)
            /\ step = "export_postflight" => ByPinned(w)
            /\ step = "source_recheck" => "native" \in w.ledger
            /\ step = "comparison" => w.records = "all"

(* An outcome of a pair, before and after its receipts are on the ledger.   *)
Compared(w) ==
    /\ w.equal /\ w.records = "all" /\ "native" \in w.ledger
    /\ \A a \in Architectures : w.from[a] = {Intended}
    /\ w.pc \in {"refresh", "ledger", "seal"}
    /\ w.pc = "seal" => w.ledger = Architectures

(* The inductive invariant of PairedTrial.                                  *)
PInv ==
    /\ PairTypes
    /\ \A i \in Trials : Accounted(i, work[i])
    /\ \A i \in Trials : work[i].pc = "run" => Passed(i, work[i])
    /\ \A i \in Trials : work[i].status = "equivalent" => Compared(work[i])
    /\ \A i \in Trials : Clean(work[i])
    /\ \A i \in Trials : Sealed(i) => work[i].pc = "seal"
    /\ \A i \in Trials : trial[i] = "equivalent" => work[i].status = "equivalent"
(* How the program of a worker is put together, and what it lists.         *)
Assembled(p, opening, first, second, closing) == p = opening \o first \o second \o closing
Long(s, n) == Len(s) = n

Lists(q, opening, first, second, closing) ==
    /\ Len(q) = 13
    /\ q[1] = opening[1] /\ q[2] = opening[2]
    /\ q[3] = first[1] /\ q[4] = first[2] /\ q[5] = first[3] /\ q[6] = first[4]
    /\ q[7] = second[1] /\ q[8] = second[2] /\ q[9] = second[3] /\ q[10] = second[4]
    /\ q[11] = closing[1] /\ q[12] = closing[2] /\ q[13] = closing[3]

LEMMA ProgramFrom ==
    ASSUME NEW S, NEW first \in Seq(S), NEW second \in Seq(S), Long(first, 4), Long(second, 4),
           NEW opening \in Seq(S), NEW closing \in Seq(S), Long(opening, 2), Long(closing, 3),
           NEW q, Assembled(q, opening, first, second, closing)
    PROVE  Lists(q, opening, first, second, closing)
<1> DEFINE a == opening \o first
           b == a \o second
           p == b \o closing
<1>2. /\ a \in Seq(S) /\ Len(a) = 6
      /\ \A k \in 1 .. 2 : a[k] = opening[k]
      /\ a[3] = first[1] /\ a[4] = first[2] /\ a[5] = first[3] /\ a[6] = first[4]
    <2>1. opening \in Seq(S)
        OBVIOUS
    <2>2. /\ a \in Seq(S) /\ Len(a) = Len(opening) + Len(first)
          /\ \A k \in 1 .. Len(opening) : a[k] = opening[k]
          /\ \A k \in Len(opening) + 1 .. Len(opening) + Len(first) : a[k] = first[k - Len(opening)]
        BY <2>1
    <2> HIDE DEF a
    <2>3. Len(opening) = 2 /\ Len(first) = 4
        BY DEF Long
    <2>4. \A k \in 3 .. 6 : a[k] = first[k - 2]
        BY <2>2, <2>3
    <2>5. a[3] = first[1] /\ a[4] = first[2] /\ a[5] = first[3] /\ a[6] = first[4]
        BY <2>4
    <2> QED BY <2>2, <2>3, <2>5
<1> HIDE DEF a
<1>3. /\ b \in Seq(S) /\ Len(b) = 10
      /\ \A k \in 1 .. 6 : b[k] = a[k]
      /\ b[7] = second[1] /\ b[8] = second[2] /\ b[9] = second[3] /\ b[10] = second[4]
    <2>1. a \in Seq(S)
        BY <1>2
    <2>2. /\ b \in Seq(S) /\ Len(b) = Len(a) + Len(second)
          /\ \A k \in 1 .. Len(a) : b[k] = a[k]
          /\ \A k \in Len(a) + 1 .. Len(a) + Len(second) : b[k] = second[k - Len(a)]
        BY <2>1
    <2> HIDE DEF b
    <2>3. Len(a) = 6 /\ Len(second) = 4
        BY <1>2 DEF Long
    <2>4. \A k \in 7 .. 10 : b[k] = second[k - 6]
        BY <2>2, <2>3
    <2>5. b[7] = second[1] /\ b[8] = second[2] /\ b[9] = second[3] /\ b[10] = second[4]
        BY <2>4
    <2> QED BY <2>2, <2>3, <2>5
<1> HIDE DEF b
<1>4. /\ p \in Seq(S) /\ Len(p) = 13
      /\ \A k \in 1 .. 10 : p[k] = b[k]
      /\ p[11] = closing[1] /\ p[12] = closing[2] /\ p[13] = closing[3]
    <2>1. b \in Seq(S)
        BY <1>3
    <2>2. /\ p \in Seq(S) /\ Len(p) = Len(b) + Len(closing)
          /\ \A k \in 1 .. Len(b) : p[k] = b[k]
          /\ \A k \in Len(b) + 1 .. Len(b) + Len(closing) : p[k] = closing[k - Len(b)]
        BY <2>1
    <2> HIDE DEF p
    <2>3. Len(b) = 10 /\ Len(closing) = 3
        BY <1>3 DEF Long
    <2>4. \A k \in 11 .. 13 : p[k] = closing[k - 10]
        <3>1. Len(b) + 1 = 11 /\ Len(b) + Len(closing) = 13 /\ \A k \in 11 .. 13 : k - Len(b) = k - 10
            BY <2>3
        <3> QED BY <2>2, <3>1
    <2>5. p[11] = closing[1] /\ p[12] = closing[2] /\ p[13] = closing[3]
        BY <2>4
    <2> QED BY <2>2, <2>3, <2>5
<1>5. q = p
    BY DEF a, b, Assembled
<1> HIDE DEF p
<1>6. p[1] = opening[1] /\ p[2] = opening[2] /\ \A k \in 1 .. 6 : p[k] = a[k]
    <2>1. \A k \in 1 .. 6 : b[k] = a[k]
        BY <1>3
    <2>2. \A k \in 1 .. 10 : p[k] = b[k]
        BY <1>4
    <2>3. \A k \in 1 .. 2 : a[k] = opening[k]
        BY <1>2
    <2>4. \A k \in 1 .. 6 : p[k] = a[k]
        BY <2>1, <2>2
    <2> QED BY <2>3, <2>4
<1>7. p[3] = first[1] /\ p[4] = first[2] /\ p[5] = first[3] /\ p[6] = first[4]
    <2>1. a[3] = first[1] /\ a[4] = first[2] /\ a[5] = first[3] /\ a[6] = first[4]
        BY <1>2
    <2>2. p[3] = a[3] /\ p[4] = a[4] /\ p[5] = a[5] /\ p[6] = a[6]
        BY <1>6
    <2> QED BY <2>1, <2>2
<1>8. p[7] = second[1] /\ p[8] = second[2] /\ p[9] = second[3] /\ p[10] = second[4]
    <2>1. b[7] = second[1] /\ b[8] = second[2] /\ b[9] = second[3] /\ b[10] = second[4]
        BY <1>3
    <2>2. \A k \in 1 .. 10 : p[k] = b[k]
        BY <1>4
    <2> QED BY <2>1, <2>2
<1>9. p \in Seq(S) /\ Len(p) = 13 /\ p[11] = closing[1] /\ p[12] = closing[2] /\ p[13] = closing[3]
    BY <1>4
<1> QED BY <1>5, <1>6, <1>7, <1>8, <1>9 DEF Lists

Steps == {"source_before", "source_checks", "projection", "projections", "dbt_build", "outputs",
          "source_snapshot", "query", "queries", "source_recheck", "comparison", "source_after",
          "export_postflight"}

LEMMA ProgramIs ==
    ASSUME NEW i \in Trials
    PROVE  LET p == Program(i)
           IN  /\ Len(p) = 13
               /\ p[1] = "source_before" /\ p[2] = "source_checks"
               /\ \/ /\ p[3] = "projection" /\ p[4] = "projections" /\ p[5] = "dbt_build" /\ p[6] = "outputs"
                     /\ p[7] = "source_snapshot" /\ p[8] = "query" /\ p[9] = "queries" /\ p[10] = "source_recheck"
                  \/ /\ p[7] = "projection" /\ p[8] = "projections" /\ p[9] = "dbt_build" /\ p[10] = "outputs"
                     /\ p[3] = "source_snapshot" /\ p[4] = "query" /\ p[5] = "queries" /\ p[6] = "source_recheck"
               /\ p[11] = "comparison" /\ p[12] = "source_after" /\ p[13] = "export_postflight"
<1> DEFINE opening == <<"source_before", "source_checks">>
           baseline == <<"projection", "projections", "dbt_build", "outputs">>
           native == <<"source_snapshot", "query", "queries", "source_recheck">>
           closing == <<"comparison", "source_after", "export_postflight">>
<1>1. /\ opening \in Seq(Steps) /\ Long(opening, 2)
      /\ opening[1] = "source_before" /\ opening[2] = "source_checks"
    BY DEF Steps, Long
<1>2. /\ closing \in Seq(Steps) /\ Long(closing, 3)
      /\ closing[1] = "comparison" /\ closing[2] = "source_after" /\ closing[3] = "export_postflight"
    BY DEF Steps, Long
<1>3. /\ baseline \in Seq(Steps) /\ Long(baseline, 4)
      /\ baseline[1] = "projection" /\ baseline[2] = "projections"
      /\ baseline[3] = "dbt_build" /\ baseline[4] = "outputs"
    BY DEF Steps, Long
<1>4. /\ native \in Seq(Steps) /\ Long(native, 4)
      /\ native[1] = "source_snapshot" /\ native[2] = "query"
      /\ native[3] = "queries" /\ native[4] = "source_recheck"
    BY DEF Steps, Long
<1>5. \/ Assembled(Program(i), opening, baseline, native, closing)
      \/ Assembled(Program(i), opening, native, baseline, closing)
    <2>1. Stage("baseline") = baseline /\ Stage("native") = native
        BY DEF Stage
    <2>2. CASE i % 2 = 1
        <3>1. Sequence(i)[1] = "baseline" /\ Sequence(i)[2] = "native"
            BY <2>2 DEF Sequence
        <3> QED BY <2>1, <3>1, Zenon DEF Program, Assembled
    <2>3. CASE i % 2 # 1
        <3>1. Sequence(i)[1] = "native" /\ Sequence(i)[2] = "baseline"
            BY <2>3 DEF Sequence
        <3> QED BY <2>1, <3>1, Zenon DEF Program, Assembled
    <2> QED BY <2>2, <2>3
<1> HIDE DEF opening, baseline, native, closing
<1> DEFINE Typed == /\ opening \in Seq(Steps) /\ Long(opening, 2)
                    /\ baseline \in Seq(Steps) /\ Long(baseline, 4)
                    /\ native \in Seq(Steps) /\ Long(native, 4)
                    /\ closing \in Seq(Steps) /\ Long(closing, 3)
<1>8. Typed
    BY <1>1, <1>2, <1>3, <1>4
<1>6. CASE Assembled(Program(i), opening, baseline, native, closing)
    <2>1. Lists(Program(i), opening, baseline, native, closing)
        BY <1>8, <1>6, ProgramFrom
    <2> QED BY <1>1, <1>2, <1>3, <1>4, <2>1 DEF Lists
<1>7. CASE Assembled(Program(i), opening, native, baseline, closing)
    <2>1. Lists(Program(i), opening, native, baseline, closing)
        BY <1>8, <1>7, ProgramFrom
    <2> QED BY <1>1, <1>2, <1>3, <1>4, <2>1 DEF Lists
<1> QED BY <1>5, <1>6, <1>7

(* A query that closes no window is followed by a query in the same window; *)
(* anything else by one that opens a window, or by no query.                *)
LEMMA WindowsFollow ==
    ASSUME NEW i \in Trials, NEW k \in 1 .. 12
    PROVE  LET step == Program(i)[k]
               next == Program(i)[k + 1]
           IN  /\ IsQuery(step) /\ ~ Closes(step) => IsQuery(next) /\ ~ Opens(next)
               /\ ~ IsQuery(step) \/ Closes(step) => Opens(next) \/ ~ IsQuery(next)
<1> DEFINE p == Program(i)
<1>1. /\ p[1] = "source_before" /\ p[2] = "source_checks"
               /\ \/ /\ p[3] = "projection" /\ p[4] = "projections" /\ p[5] = "dbt_build" /\ p[6] = "outputs"
                     /\ p[7] = "source_snapshot" /\ p[8] = "query" /\ p[9] = "queries" /\ p[10] = "source_recheck"
                  \/ /\ p[7] = "projection" /\ p[8] = "projections" /\ p[9] = "dbt_build" /\ p[10] = "outputs"
                     /\ p[3] = "source_snapshot" /\ p[4] = "query" /\ p[5] = "queries" /\ p[6] = "source_recheck"
               /\ p[11] = "comparison" /\ p[12] = "source_after" /\ p[13] = "export_postflight"
    BY ProgramIs
<1> HIDE DEF p
<1>2. k \in {1, 2, 3, 4, 5, 6, 7, 8, 9, 10, 11, 12}
    OBVIOUS
<1> QED BY <1>1, <1>2 DEF IsQuery, Closes, Opens, p

-----------------------------------------------------------------------------
(* Every step of the paired worker is one that TrialSuite allows.           *)
LEMMA PairRefines == PairInit => Init
BY DEF PairInit

LEMMA PairStepRefines == [PairNext]_pairVars => [Next]_vars
<1> SUFFICES ASSUME [PairNext]_pairVars PROVE [Next]_vars
    OBVIOUS
<1>1. CASE UNCHANGED pairVars
    BY <1>1 DEF pairVars
<1>2. CASE Suite
    BY <1>2 DEF Suite, Next
<1>3. CASE Edit
    BY <1>3 DEF Edit
<1>4. ASSUME NEW i \in Trials, Start(i) \/ Exit(i)
      PROVE  Next
    BY <1>4 DEF Start, Exit, Next
<1>5. ASSUME NEW i \in Trials, Admit(i) \/ RunStep(i) \/ Refresh(i) \/ AppendRecords(i)
      PROVE  UNCHANGED vars
    BY <1>5 DEF Admit, RunStep, Refresh, AppendRecords
<1>6. ASSUME NEW i \in Trials, Seal(i)
      PROVE  Next
    <2>1. WorkerSeals(i)
        BY <1>6 DEF Seal, Running, WorkerSeals, Elsewhere
    <2> QED BY <2>1 DEF Next
<1> QED BY <1>1, <1>2, <1>3, <1>4, <1>5, <1>6 DEF PairNext

-----------------------------------------------------------------------------
LEMMA PairInitially == PairInit => PInv
<1> SUFFICES ASSUME PairInit PROVE PInv
    OBVIOUS
<1>1. Unstarted \in Works
    BY DEF Unstarted, Works
<1>2. \A i \in Trials : work[i] = Unstarted /\ trial[i] = "absent"
    BY DEF PairInit, Init
<1>3. PairTypes
    BY <1>1 DEF PairTypes, PairInit, Unstarted
<1>4. \A i \in Trials : Accounted(i, work[i])
    BY <1>2 DEF Accounted, Covers, Unstarted, Architectures
<1>5. \A i \in Trials : Clean(work[i])
    BY <1>2 DEF Clean, OnFrozen, ByPinned, Unstarted
<1> QED BY <1>2, <1>3, <1>4, <1>5 DEF PInv, Unstarted, Sealed

(* A worker moves: what has to hold of its own work.                        *)
LEMMA WorkMoves ==
    ASSUME PInv, NEW i \in Trials, NEW w \in Works, ~ Sealed(i),
           work' = [work EXCEPT ![i] = w], UNCHANGED <<trial, source, code>>,
           w.pc = "run" => w.at <= 13 /\ Passed(i, w),
           w.pc # "admit",
           Accounted(i, w),
           w.status = "equivalent" => Compared(w),
           Clean(w)
    PROVE  PInv'
<1>1. work'[i] = w /\ \A j \in Trials \ {i} : work'[j] = work[j]
    BY DEF PInv, PairTypes
<1>2. PairTypes'
    BY <1>1 DEF PInv, PairTypes
<1>3. \A j \in Trials : Sealed(j)' <=> Sealed(j)
    BY DEF Sealed
<1>4. (\A j \in Trials : Sealed(j) => work[j].pc = "seal")'
    BY <1>1, <1>3 DEF PInv
<1>5. (\A j \in Trials : trial[j] = "equivalent" => work[j].status = "equivalent")'
    BY <1>1 DEF PInv, Sealed
<1>6. (\A j \in Trials : Accounted(j, work[j]))'
    BY <1>1 DEF PInv
<1>7. (\A j \in Trials : work[j].pc = "run" => Passed(j, work[j]))'
    BY <1>1 DEF PInv
<1>8. (\A j \in Trials : work[j].status = "equivalent" => Compared(work[j]))'
    BY <1>1 DEF PInv
<1>9. (\A j \in Trials : Clean(work[j]))'
    BY <1>1 DEF PInv, Clean, OnFrozen, ByPinned
<1> QED BY <1>2, <1>4, <1>5, <1>6, <1>7, <1>8, <1>9 DEF PInv

LEMMA UnstartedIs ==
    /\ Unstarted \in Works /\ Unstarted.at = 1 /\ Unstarted.jobs = 0 /\ Unstarted.status = "running"
    /\ Covers(Unstarted, 0) /\ \A a \in Architectures : Unstarted.from[a] = {}
<1>1. /\ Unstarted \in Works /\ Unstarted.at = 1 /\ Unstarted.jobs = 0 /\ Unstarted.status = "running"
      /\ \A a \in Architectures : Unstarted.from[a] = {} /\ Unstarted.attributed[a] = {}
    BY DEF Unstarted, Works
<1>2. 1 .. 0 = {}
    OBVIOUS
<1> QED BY <1>1, <1>2 DEF Covers, Architectures

LEMMA AdmitStep ==
    ASSUME PInv, NEW i \in Trials, Admit(i)
    PROVE  PInv'
<1>1. work[i] = Unstarted /\ ~ Sealed(i)
    BY DEF Admit, Running, PInv, PairTypes, Sealed
<1>2. CASE work' = [work EXCEPT ![i] = [Unstarted EXCEPT !.pc = "run"]]
    <2> DEFINE w == [Unstarted EXCEPT !.pc = "run"]
    <2>1. /\ w \in Works /\ w.pc = "run" /\ w.at = 1 /\ w.status = "running" /\ w.jobs = 0
          /\ w.from = Unstarted.from /\ w.attributed = Unstarted.attributed
        BY UnstartedIs DEF Works
    <2> HIDE DEF w
    <2>2. Passed(i, w)
        BY <2>1 DEF Passed
    <2>3. ~ Inside(Program(i)[1])
        BY ProgramIs DEF Inside, Opens
    <2>4. Accounted(i, w)
        BY <2>1, <2>3, UnstartedIs DEF Accounted, Covers
    <2>5. work' = [work EXCEPT ![i] = w] /\ UNCHANGED <<trial, source, code>>
        BY <1>2 DEF w, Admit, vars
    <2>6. Clean(w)
        BY <2>1, UnstartedIs DEF Clean, OnFrozen, ByPinned
    <2>7. w.at <= 13 /\ w.pc # "admit" /\ w.status # "equivalent" /\ w \in Works
        BY <2>1
    <2> QED BY <1>1, <2>2, <2>4, <2>5, <2>6, <2>7, WorkMoves
<1>3. CASE work' = [work EXCEPT ![i] = [Unstarted EXCEPT !.pc = "ledger", !.status = "failed"]]
    <2> DEFINE w == [Unstarted EXCEPT !.pc = "ledger", !.status = "failed"]
    <2>1. /\ w \in Works /\ w.pc = "ledger" /\ w.status = "failed" /\ w.jobs = 0
          /\ w.from = Unstarted.from /\ w.attributed = Unstarted.attributed
        BY UnstartedIs DEF Works
    <2> HIDE DEF w
    <2>2. Accounted(i, w)
        BY <2>1, UnstartedIs DEF Accounted, Covers
    <2>3. work' = [work EXCEPT ![i] = w] /\ UNCHANGED <<trial, source, code>>
        BY <1>3 DEF w, Admit, vars
    <2>4. Clean(w)
        BY <2>1, UnstartedIs DEF Clean, OnFrozen, ByPinned
    <2> QED BY <1>1, <2>1, <2>2, <2>3, <2>4, WorkMoves
<1>4. work' = [work EXCEPT ![i] = IF code = "pinned" THEN [work[i] EXCEPT !.pc = "run"]
                                  ELSE [work[i] EXCEPT !.pc = "ledger", !.status = "failed"]]
    BY DEF Admit
<1>5. CASE code = "pinned"
    BY <1>1, <1>2, <1>4, <1>5
<1>6. CASE code # "pinned"
    BY <1>1, <1>3, <1>4, <1>6
<1> QED BY <1>5, <1>6

(* The jobs of a window go to its owner.                                    *)
LEMMA Capturing ==
    ASSUME NEW w \in Works, NEW step, NEW jobs \in Nat, w.offset <= jobs, Covers(w, w.offset),
           NEW after \in Works, after.attributed = Captured(w, step, jobs)
    PROVE  Covers(after, jobs)
<1> DEFINE a == Owner(step)
           mine == (w.offset + 1) .. jobs
<1>1. a \in {"native", "baseline"} /\ w.offset \in Nat
    BY DEF Owner, Works
<1>2. /\ w.attributed["baseline"] \cap w.attributed["native"] = {}
      /\ w.attributed["baseline"] \union w.attributed["native"] = 1 .. w.offset
    BY DEF Covers
<1>3. after.attributed = [w.attributed EXCEPT ![a] = w.attributed[a] \union mine]
    BY DEF Captured
<1>4. w.attributed \in [Architectures -> SUBSET Nat] /\ Architectures = {"baseline", "native"}
    BY DEF Works, Architectures
<1>5. (1 .. w.offset) \cap mine = {} /\ (1 .. w.offset) \union mine = 1 .. jobs
    BY <1>1
<1> HIDE DEF mine, a
<1>6. CASE a = "native"
    <2>1. /\ after.attributed["native"] = w.attributed["native"] \union mine
          /\ after.attributed["baseline"] = w.attributed["baseline"]
        BY <1>3, <1>4, <1>6
    <2> QED BY <1>2, <1>5, <2>1 DEF Covers
<1>7. CASE a = "baseline"
    <2>1. /\ after.attributed["baseline"] = w.attributed["baseline"] \union mine
          /\ after.attributed["native"] = w.attributed["native"]
        BY <1>3, <1>4, <1>7
    <2> QED BY <1>2, <1>5, <2>1 DEF Covers
<1> QED BY <1>1, <1>6, <1>7


(* What a worker knows at a step of its program.                            *)
LEMMA AtAStep ==
    ASSUME PInv, NEW i \in Trials, Running(i, "run")
    PROVE  /\ work[i] \in Works /\ work[i].pc = "run" /\ work[i].at \in 1 .. 13 /\ ~ Sealed(i)
           /\ Passed(i, work[i])
           /\ Inside(Program(i)[work[i].at]) => work[i].offset <= work[i].jobs /\ Covers(work[i], work[i].offset)
           /\ ~ Inside(Program(i)[work[i].at]) => Covers(work[i], work[i].jobs)
           /\ Clean(work[i])
           /\ work[i].status # "equivalent"
<1>1. work[i] \in Works /\ work[i].pc = "run" /\ work[i].at <= 13 /\ ~ Sealed(i)
    BY DEF PInv, PairTypes, Running, Sealed
<1>2. work[i].at \in 1 .. 13
    BY <1>1 DEF Works
<1> QED BY <1>1, <1>2 DEF PInv, Accounted, Compared

(* A window that is open, or opens with this step, starts after the jobs    *)
(* that have an owner.                                                      *)
LEMMA Opening ==
    ASSUME NEW w \in Works, NEW step, IsQuery(step),
           Inside(step) => w.offset <= w.jobs /\ Covers(w, w.offset),
           ~ Inside(step) => Covers(w, w.jobs)
    PROVE  LET opened == Open(w, step)
           IN  /\ opened \in Works /\ opened.offset <= opened.jobs /\ Covers(opened, opened.offset)
               /\ opened.jobs = w.jobs /\ opened.attributed = w.attributed /\ opened.from = w.from
               /\ opened.pc = w.pc /\ opened.at = w.at /\ opened.records = w.records
               /\ opened.ledger = w.ledger /\ opened.status = w.status /\ opened.equal = w.equal
<1>1. CASE Opens(step)
    <2> DEFINE opened == [w EXCEPT !.offset = w.jobs]
    <2>1. /\ opened \in Works /\ opened.offset = w.jobs /\ opened.offset <= opened.jobs
          /\ opened.jobs = w.jobs /\ opened.attributed = w.attributed /\ opened.from = w.from
          /\ opened.pc = w.pc /\ opened.at = w.at /\ opened.records = w.records
          /\ opened.ledger = w.ledger /\ opened.status = w.status /\ opened.equal = w.equal
        BY DEF Works
    <2>2. Open(w, step) = opened
        BY <1>1 DEF Open
    <2> HIDE DEF opened
    <2> QED BY <1>1, <2>1, <2>2 DEF Inside, Covers
<1>2. CASE ~ Opens(step)
    BY <1>2 DEF Inside, Open
<1> QED BY <1>1, <1>2

LEMMA CapturedType ==
    ASSUME NEW w \in Works, NEW step, NEW jobs \in Nat
    PROVE  Captured(w, step, jobs) \in [Architectures -> SUBSET Nat]
<1>1. (w.offset + 1) .. jobs \subseteq Nat
    BY DEF Works
<1>2. Owner(step) \in Architectures
    BY DEF Owner, Architectures
<1> QED BY <1>1, <1>2 DEF Captured, Works

LEMMA FailStep ==
    ASSUME PInv, NEW i \in Trials, Running(i, "run"), UNCHANGED <<trial, source, code>>,
           NEW w2 \in Fail(work[i], Program(i)[work[i].at]), work' = [work EXCEPT ![i] = w2]
    PROVE  PInv'
<1> DEFINE w == work[i]
           step == Program(i)[w.at]
<1>1. /\ w \in Works /\ ~ Sealed(i) /\ w.jobs \in Nat
      /\ Inside(step) => w.offset <= w.jobs /\ Covers(w, w.offset)
      /\ ~ Inside(step) => Covers(w, w.jobs)
      /\ Clean(w)
    BY AtAStep DEF Works
<1> HIDE DEF w, step
<1>2. w2 \in Fail(w, step)
    BY DEF w, step
<1>3. CASE IsQuery(step)
    <2> DEFINE opened == Open(w, step)
    <2>1. /\ opened \in Works /\ opened.offset <= w.jobs /\ Covers(opened, opened.offset)
        BY <1>1, <1>3, Opening
    <2> HIDE DEF opened
    <2>2. PICK jobs \in {w.jobs, w.jobs + 1} :
            w2 = [w EXCEPT !.pc = "refresh", !.status = "failed", !.jobs = jobs,
                           !.attributed = Captured(opened, step, jobs)]
        BY <1>2, <1>3 DEF Fail, opened
    <2>3. jobs \in Nat /\ opened.offset <= jobs
        BY <1>1, <2>1 DEF Works
    <2>4. Captured(opened, step, jobs) \in [Architectures -> SUBSET Nat]
        BY <2>1, <2>3, CapturedType
    <2>5. /\ w2 \in Works /\ w2.pc = "refresh" /\ w2.status = "failed" /\ w2.jobs = jobs
          /\ w2.attributed = Captured(opened, step, jobs) /\ w2.from = w.from
        BY <1>1, <2>2, <2>3, <2>4 DEF Works
    <2>6. Covers(w2, jobs)
        BY <2>1, <2>3, <2>5, Capturing
    <2>7. Accounted(i, w2)
        BY <2>5, <2>6 DEF Accounted
    <2>8. Clean(w2)
        BY <1>1, <2>5 DEF Clean, OnFrozen, ByPinned
    <2> QED BY <1>1, <2>5, <2>7, <2>8, WorkMoves
<1>4. CASE ~ IsQuery(step)
    <2>1. PICK records \in {"none", "some", w.records} :
            w2 = [w EXCEPT !.pc = "refresh", !.status = "failed", !.records = records]
        BY <1>2, <1>4 DEF Fail
    <2>2. /\ w2 \in Works /\ w2.pc = "refresh" /\ w2.status = "failed" /\ w2.jobs = w.jobs
          /\ w2.attributed = w.attributed /\ w2.from = w.from
        BY <1>1, <2>1 DEF Works
    <2>3. Accounted(i, w2)
        BY <1>1, <1>4, <2>2 DEF Accounted, Covers, Inside
    <2>4. Clean(w2)
        BY <1>1, <2>2 DEF Clean, OnFrozen, ByPinned
    <2> QED BY <1>1, <2>2, <2>3, <2>4, WorkMoves
<1> QED BY <1>3, <1>4


(* What a step that succeeds makes of the work.                             *)
SucceedsTo(w, step, equal, w2) ==
    /\ w2 \in Works /\ w2.pc = "run" /\ w2.status = w.status /\ w2.at = w.at + 1
    /\ w2.jobs = (IF IsQuery(step) THEN w.jobs + 1 ELSE w.jobs)
    /\ w2.offset = Open(w, step).offset /\ w2.equal = equal
    /\ w2.attributed = (IF Closes(step) THEN Captured(Open(w, step), step, w2.jobs) ELSE w.attributed)
    /\ \A a \in Architectures :
          w2.from[a] = (IF a = Owner(step) /\ Derives(step) THEN w.from[a] \union {Now} ELSE w.from[a])
    /\ w2.records = (IF step = "comparison" THEN "all" ELSE w.records)
    /\ w2.ledger = (IF step = "source_recheck" THEN w.ledger \union {"native"} ELSE w.ledger)

LEMMA SucceedIs ==
    ASSUME PairTypes, NEW w \in Works, w.pc = "run", w.at \in 1 .. 13, NEW step, NEW equal \in BOOLEAN
    PROVE  SucceedsTo(w, step, equal, [Succeed(w, step) EXCEPT !.equal = equal])
<1> DEFINE opened == Open(w, step)
           jobs == IF IsQuery(step) THEN w.jobs + 1 ELSE w.jobs
           attributed == IF Closes(step) THEN Captured(opened, step, jobs) ELSE opened.attributed
           from == [opened.from EXCEPT ![Owner(step)] = IF Derives(step) THEN opened.from[Owner(step)] \union {Now}
                                                        ELSE opened.from[Owner(step)]]
           records == IF step = "comparison" THEN "all" ELSE opened.records
           ledgers == IF step = "source_recheck" THEN opened.ledger \union {"native"} ELSE opened.ledger
           w1 == [opened EXCEPT !.at = opened.at + 1, !.jobs = jobs, !.attributed = attributed, !.from = from,
                                !.records = records, !.ledger = ledgers]
           w2 == [w1 EXCEPT !.equal = equal]
<1>1. /\ opened \in Works /\ opened.jobs = w.jobs /\ opened.attributed = w.attributed /\ opened.from = w.from
      /\ opened.pc = w.pc /\ opened.at = w.at /\ opened.records = w.records
      /\ opened.ledger = w.ledger /\ opened.status = w.status
    <2>1. CASE Opens(step)
        <3>1. [w EXCEPT !.offset = w.jobs] \in Works
            BY DEF Works
        <3> QED BY <2>1, <3>1 DEF Open, Works
    <2>2. CASE ~ Opens(step)
        BY <2>2 DEF Open
    <2> QED BY <2>1, <2>2
<1>2. Succeed(w, step) = w1
    <2>1. Open(w, step) \in Works
        BY <1>1
    <2> QED BY <2>1 DEF Succeed, Works
<1>3. jobs \in Nat /\ opened.at + 1 \in 1 .. 14 /\ records \in {"none", "some", "all"} /\ ledgers \in SUBSET Architectures
    BY <1>1 DEF Works, Architectures
<1>4. attributed \in [Architectures -> SUBSET Nat]
    BY <1>1, <1>3, CapturedType DEF Works
<1>5. /\ from \in [Architectures -> SUBSET Conditions]
      /\ \A a \in Architectures :
            from[a] = (IF a = Owner(step) /\ Derives(step) THEN w.from[a] \union {Now} ELSE w.from[a])
    <2>1. Owner(step) \in Architectures /\ Now \in Conditions
        BY DEF Owner, Architectures, PairTypes, Now, Conditions
    <2>2. w.from \in [Architectures -> SUBSET Conditions]
        BY DEF Works
    <2> QED BY <1>1, <2>1, <2>2
<1> HIDE DEF opened, jobs, attributed, from, records, ledgers
<1>6. /\ w2 \in Works /\ w2.pc = opened.pc /\ w2.status = opened.status /\ w2.at = opened.at + 1
      /\ w2.jobs = jobs /\ w2.offset = opened.offset /\ w2.equal = equal /\ w2.attributed = attributed
      /\ w2.from = from /\ w2.records = records /\ w2.ledger = ledgers
    BY <1>1, <1>3, <1>4, <1>5 DEF Works
<1>7. [Succeed(w, step) EXCEPT !.equal = equal] = w2
    BY <1>2
<1> HIDE DEF w2
<1>8. w2.attributed = (IF Closes(step) THEN Captured(opened, step, w2.jobs) ELSE w.attributed)
    BY <1>1, <1>6 DEF attributed
<1>9. w2.records = (IF step = "comparison" THEN "all" ELSE w.records)
      /\ w2.ledger = (IF step = "source_recheck" THEN w.ledger \union {"native"} ELSE w.ledger)
      /\ w2.jobs = (IF IsQuery(step) THEN w.jobs + 1 ELSE w.jobs)
    BY <1>1, <1>6 DEF records, ledgers, jobs
<1>10. SucceedsTo(w, step, equal, w2)
    BY <1>1, <1>5, <1>6, <1>8, <1>9 DEF SucceedsTo, opened
<1> QED BY <1>7, <1>10

(* The accounts after a step that succeeds.                                 *)
LEMMA SucceedAccounts ==
    ASSUME NEW w \in Works, NEW step, NEW equal, NEW w2, SucceedsTo(w, step, equal, w2),
           Inside(step) => w.offset <= w.jobs /\ Covers(w, w.offset),
           ~ Inside(step) => Covers(w, w.jobs)
    PROVE  /\ IsQuery(step) /\ ~ Closes(step) => w2.offset <= w2.jobs /\ Covers(w2, w2.offset)
           /\ ~ IsQuery(step) \/ Closes(step) => Covers(w2, w2.jobs)
<1>1. CASE IsQuery(step)
    <2> DEFINE opened == Open(w, step)
    <2>1. opened \in Works /\ opened.offset <= w.jobs /\ Covers(opened, opened.offset) /\ opened.attributed = w.attributed
        BY <1>1, Opening
    <2> HIDE DEF opened
    <2>2. w2 \in Works /\ w2.jobs = w.jobs + 1 /\ w2.offset = opened.offset
        BY <1>1 DEF SucceedsTo, opened
    <2>3. opened.offset <= w2.jobs /\ w2.jobs \in Nat
        BY <2>1, <2>2 DEF Works
    <2>4. CASE Closes(step)
        <3>1. w2.attributed = Captured(opened, step, w2.jobs)
            BY <2>4 DEF SucceedsTo, opened
        <3> QED BY <2>1, <2>2, <2>3, <2>4, <3>1, <1>1, Capturing
    <2>5. CASE ~ Closes(step)
        <3>1. w2.attributed = w.attributed
            BY <2>5 DEF SucceedsTo
        <3> QED BY <1>1, <2>1, <2>2, <2>3, <2>5, <3>1 DEF Covers
    <2> QED BY <2>4, <2>5
<1>2. CASE ~ IsQuery(step)
    <2>1. ~ Inside(step) /\ ~ Closes(step)
        BY <1>2 DEF Inside, IsQuery, Closes
    <2>2. w2.attributed = w.attributed /\ w2.jobs = w.jobs
        BY <1>2, <2>1 DEF SucceedsTo
    <2> QED BY <1>2, <2>1, <2>2 DEF Covers
<1> QED BY <1>1, <1>2

(* What it leaves behind: nothing is derived after the source was looked at *)
(* for the last time.                                                       *)
LEMMA SucceedPasses ==
    ASSUME NEW i \in Trials, NEW w \in Works, w.at \in 1 .. 13, Passed(i, w), NEW equal, NEW w2,
           Admitted(Program(i)[w.at]), SucceedsTo(w, Program(i)[w.at], equal, w2),
           Clean(w)
    PROVE  Passed(i, w2)
<1> DEFINE step == Program(i)[w.at]
<1>1. SucceedsTo(w, step, equal, w2) /\ Admitted(step)
    OBVIOUS
<1>2. w2.at - 1 = w.at /\ w2 \in Works
    BY DEF SucceedsTo
<1>3. ASSUME NEW k \in 1 .. w.at - 1
      PROVE  LET s == Program(i)[k]
             IN  /\ Derives(s) => w2.from[Owner(s)] # {}
                 /\ s = "source_after" => OnFrozen(w2)
                 /\ s = "export_postflight" => ByPinned(w2)
                 /\ s = "source_recheck" => "native" \in w2.ledger
                 /\ s = "comparison" => w2.records = "all"
    <2> DEFINE s == Program(i)[k]
    <2>1. /\ Derives(s) => w.from[Owner(s)] # {}
          /\ s = "source_after" => OnFrozen(w)
          /\ s = "export_postflight" => ByPinned(w)
          /\ s = "source_recheck" => "native" \in w.ledger
          /\ s = "comparison" => w.records = "all"
        BY DEF Passed
    <2>2. Owner(s) \in Architectures
        BY DEF Owner, Architectures
    <2>3. s = "source_after" => step = "export_postflight"
        <3>1. k \in 1 .. 12 /\ k < w.at
            OBVIOUS
        <3>2. k # 12 => s # "source_after"
            BY <3>1, ProgramIs
        <3>3. k = 12 => w.at = 13
            BY <3>1
        <3> QED BY <3>2, <3>3, ProgramIs
    <2>4. step = "export_postflight" => ~ Derives(step)
        BY DEF Derives
    <2> HIDE DEF s, step
    <2>5. Derives(s) => w2.from[Owner(s)] # {}
        BY <1>1, <2>1, <2>2 DEF SucceedsTo
    <2>6. /\ s = "source_after" => OnFrozen(w2)
          /\ s = "export_postflight" => ByPinned(w2)
        <3>1. k # 13 /\ (s = "export_postflight" => k = 13)
            BY ProgramIs DEF s
        <3>2. step = "export_postflight" => \A a \in Architectures : w2.from[a] = w.from[a]
            BY <1>1, <2>4 DEF SucceedsTo
        <3> QED BY <2>1, <2>3, <3>1, <3>2 DEF OnFrozen
    <2>7. s = "source_recheck" => "native" \in w2.ledger
        BY <1>1, <2>1 DEF SucceedsTo
    <2>8. s = "comparison" => w2.records = "all"
        BY <1>1, <2>1 DEF SucceedsTo
    <2> QED BY <2>5, <2>6, <2>7, <2>8 DEF s
<1> HIDE DEF step
<1>4. /\ Derives(step) => w2.from[Owner(step)] # {}
      /\ step = "source_after" => OnFrozen(w2)
      /\ step = "export_postflight" => ByPinned(w2)
      /\ step = "source_recheck" => "native" \in w2.ledger
      /\ step = "comparison" => w2.records = "all"
    <2>1. Owner(step) \in Architectures
        BY DEF Owner, Architectures
    <2>2. /\ step = "source_after" => source = "frozen" /\ ~ Derives(step)
          /\ step = "export_postflight" => code = "pinned" /\ ~ Derives(step)
        BY <1>1 DEF Admitted, Fingerprinted, Derives
    <2>3. ~ Derives(step) => \A a \in Architectures : w2.from[a] = w.from[a]
        BY <1>1 DEF SucceedsTo
    <2>4. /\ step = "source_after" => OnFrozen(w2)
          /\ step = "export_postflight" => ByPinned(w2)
        BY <2>2, <2>3 DEF Clean, OnFrozen, ByPinned
    <2> QED BY <1>1, <2>1, <2>4 DEF SucceedsTo
<1> QED BY <1>2, <1>3, <1>4 DEF Passed, step


(* The whole program behind it, a pair has been compared.                   *)
LEMMA AllPassed ==
    ASSUME NEW i \in Trials, NEW w \in Works, w.at = 14, Passed(i, w)
    PROVE  /\ w.records = "all" /\ "native" \in w.ledger
           /\ \A a \in Architectures : w.from[a] = {Intended}
<1> DEFINE p == Program(i)
<1>1. \A k \in 1 .. 13 :
        /\ Derives(p[k]) => w.from[Owner(p[k])] # {}
        /\ p[k] = "source_after" => OnFrozen(w)
        /\ p[k] = "export_postflight" => ByPinned(w)
        /\ p[k] = "source_recheck" => "native" \in w.ledger
        /\ p[k] = "comparison" => w.records = "all"
    BY DEF Passed
<1>2. PICK projection \in 1 .. 13 : p[projection] = "projection"
    BY ProgramIs
<1>3. PICK query \in 1 .. 13 : p[query] = "query"
    BY ProgramIs
<1>4. PICK recheck \in 1 .. 13 : p[recheck] = "source_recheck"
    BY ProgramIs
<1>5. p[11] = "comparison" /\ p[12] = "source_after" /\ p[13] = "export_postflight"
    BY ProgramIs
<1> HIDE DEF p
<1>6. w.records = "all" /\ OnFrozen(w) /\ ByPinned(w)
    BY <1>1, <1>5
<1>7. "native" \in w.ledger
    BY <1>1, <1>4
<1>8. w.from["baseline"] # {}
    BY <1>1, <1>2 DEF Derives, Owner
<1>9. w.from["native"] # {}
    BY <1>1, <1>3 DEF Derives, Owner
<1>10. ASSUME NEW a \in Architectures
       PROVE  w.from[a] = {Intended}
    <2>1. w.from[a] # {} /\ w.from[a] \subseteq Conditions
        BY <1>8, <1>9 DEF Works, Architectures
    <2>2. \A d \in w.from[a] : d = Intended
        BY <1>6, <2>1 DEF OnFrozen, ByPinned, Conditions, Intended
    <2> QED BY <2>1, <2>2
<1> QED BY <1>6, <1>7, <1>10

LEMMA SucceedStep ==
    ASSUME PInv, NEW i \in Trials, Running(i, "run"), UNCHANGED <<trial, source, code>>,
           Admitted(Program(i)[work[i].at]), NEW equal \in BOOLEAN,
           LET w2 == [Succeed(work[i], Program(i)[work[i].at]) EXCEPT !.equal = equal]
           IN  work' = [work EXCEPT ![i] =
                  IF work[i].at < Len(Program(i)) THEN w2
                  ELSE [w2 EXCEPT !.pc = "refresh", !.status = IF equal THEN "equivalent" ELSE "different"]]
    PROVE  PInv'
<1> DEFINE w == work[i]
           step == Program(i)[w.at]
           w2 == [Succeed(w, step) EXCEPT !.equal = equal]
<1>1. /\ w \in Works /\ w.pc = "run" /\ w.at \in 1 .. 13 /\ ~ Sealed(i)
      /\ Passed(i, w)
      /\ Inside(step) => w.offset <= w.jobs /\ Covers(w, w.offset)
      /\ ~ Inside(step) => Covers(w, w.jobs)
      /\ Clean(w)
      /\ w.status # "equivalent"
    BY AtAStep
<1>2. SucceedsTo(w, step, equal, w2)
    BY <1>1, SucceedIs DEF PInv
<1>3. work' = [work EXCEPT ![i] =
                  IF w.at < 13 THEN w2
                  ELSE [w2 EXCEPT !.pc = "refresh", !.status = IF equal THEN "equivalent" ELSE "different"]]
    BY ProgramIs
<1> HIDE DEF w, w2
<1>4. Passed(i, w2)
    BY <1>1, <1>2, SucceedPasses DEF w
<1> HIDE DEF step
<1>5. /\ IsQuery(step) /\ ~ Closes(step) => w2.offset <= w2.jobs /\ Covers(w2, w2.offset)
      /\ ~ IsQuery(step) \/ Closes(step) => Covers(w2, w2.jobs)
    BY <1>1, <1>2, SucceedAccounts
<1>6. Clean(w2)
    <2>1. \A a \in Architectures : \A d \in w2.from[a] : d \in w.from[a] \/ d = Now
        BY <1>2 DEF SucceedsTo
    <2>2. Now.source = source /\ Now.code = code
        BY DEF Now
    <2> QED BY <1>1, <2>1, <2>2 DEF Clean, OnFrozen, ByPinned
<1>7. w2 \in Works /\ w2.at = w.at + 1 /\ w2.pc = "run" /\ w2.status = w.status /\ w2.equal = equal
    BY <1>2 DEF SucceedsTo
<1>8. CASE w.at < 13
    <2>1. w.at \in 1 .. 12 /\ w2.at <= 13
        BY <1>1, <1>7, <1>8
    <2>2. /\ IsQuery(step) /\ ~ Closes(step) => Inside(Program(i)[w.at + 1])
          /\ ~ IsQuery(step) \/ Closes(step) => ~ Inside(Program(i)[w.at + 1])
        BY <2>1, WindowsFollow DEF step, Inside
    <2>3. Accounted(i, w2)
        BY <1>5, <1>7, <2>2 DEF Accounted
    <2>4. work' = [work EXCEPT ![i] = w2]
        BY <1>3, <1>8
    <2> QED BY <1>1, <1>4, <1>6, <1>7, <2>1, <2>3, <2>4, WorkMoves
<1>9. CASE w.at = 13
    <2> DEFINE w3 == [w2 EXCEPT !.pc = "refresh", !.status = IF equal THEN "equivalent" ELSE "different"]
    <2>1. step = "export_postflight"
        BY <1>9, ProgramIs DEF step
    <2>2. Covers(w2, w2.jobs)
        BY <1>5, <2>1 DEF IsQuery
    <2>3. /\ w3 \in Works /\ w3.pc = "refresh" /\ w3.jobs = w2.jobs /\ w3.attributed = w2.attributed
          /\ w3.from = w2.from /\ w3.records = w2.records /\ w3.ledger = w2.ledger /\ w3.equal = w2.equal
          /\ w3.status = "equivalent" => equal
        BY <1>7 DEF Works
    <2>4. work' = [work EXCEPT ![i] = w3]
        <3>1. ~ (w.at < 13)
            BY <1>9
        <3> QED BY <1>3, <3>1
    <2> HIDE DEF w3
    <2>5. /\ w2.records = "all" /\ "native" \in w2.ledger
          /\ \A a \in Architectures : w2.from[a] = {Intended}
        BY <1>4, <1>7, <1>9, AllPassed
    <2>6. w3.status = "equivalent" => Compared(w3)
        BY <1>7, <2>3, <2>5 DEF Compared
    <2>7. Accounted(i, w3)
        BY <2>2, <2>3 DEF Accounted, Covers
    <2>8. Clean(w3)
        BY <1>6, <2>3 DEF Clean, OnFrozen, ByPinned
    <2> QED BY <1>1, <2>3, <2>4, <2>6, <2>7, <2>8, WorkMoves
<1> QED BY <1>1, <1>8, <1>9

LEMMA RunStepStep ==
    ASSUME PInv, NEW i \in Trials, RunStep(i)
    PROVE  PInv'
<1> DEFINE w == work[i]
           step == Program(i)[w.at]
<1>1. Running(i, "run") /\ UNCHANGED <<trial, source, code>>
    BY DEF RunStep, vars
<1>2. ASSUME NEW w2 \in Fail(w, step), work' = [work EXCEPT ![i] = w2]
      PROVE  PInv'
    BY <1>1, <1>2, FailStep
<1>3. ASSUME Admitted(step), NEW equal \in IF step = "comparison" THEN BOOLEAN ELSE {w.equal},
             LET w2 == [Succeed(w, step) EXCEPT !.equal = equal]
             IN  work' = [work EXCEPT ![i] =
                    IF w.at < Len(Program(i)) THEN w2
                    ELSE [w2 EXCEPT !.pc = "refresh", !.status = IF equal THEN "equivalent" ELSE "different"]]
      PROVE  PInv'
    <2>1. w.equal \in BOOLEAN
        BY DEF PInv, PairTypes, Works
    <2>2. equal \in BOOLEAN
        BY <1>3, <2>1
    <2> QED BY <1>1, <1>3, <2>2, SucceedStep
<1> QED BY <1>2, <1>3 DEF RunStep

(* The end of a worker: its accounts are made, and nothing is derived.      *)
LEMMA RefreshStep ==
    ASSUME PInv, NEW i \in Trials, Refresh(i)
    PROVE  PInv'
<1> DEFINE w == work[i]
<1>1. /\ w \in Works /\ w.pc = "refresh" /\ ~ Sealed(i) /\ Covers(w, w.jobs)
      /\ Clean(w)
      /\ w.status = "equivalent" => Compared(w)
      /\ UNCHANGED <<trial, source, code>>
    BY DEF Refresh, Running, PInv, PairTypes, Accounted, vars
<1>2. PICK w2 : /\ work' = [work EXCEPT ![i] = w2]
                /\ \/ w2 = [w EXCEPT !.pc = "ledger"]
                   \/ w2 = [w EXCEPT !.pc = "ledger", !.status = "failed"]
    BY DEF Refresh
<1> HIDE DEF w
<1>3. /\ w2 \in Works /\ w2.pc = "ledger" /\ w2.jobs = w.jobs /\ w2.attributed = w.attributed
      /\ w2.from = w.from /\ w2.records = w.records /\ w2.ledger = w.ledger /\ w2.equal = w.equal
      /\ w2.status = w.status \/ w2.status = "failed"
    <2>1. CASE w2 = [w EXCEPT !.pc = "ledger"]
        BY <1>1, <2>1 DEF Works
    <2>2. CASE w2 = [w EXCEPT !.pc = "ledger", !.status = "failed"]
        BY <1>1, <2>2 DEF Works
    <2> QED BY <1>2, <2>1, <2>2
<1>4. Accounted(i, w2)
    BY <1>1, <1>3 DEF Accounted, Covers
<1>5. w2.status = "equivalent" => Compared(w2)
    BY <1>1, <1>3 DEF Compared
<1>6. Clean(w2)
    BY <1>1, <1>3 DEF Clean, OnFrozen, ByPinned
<1> QED BY <1>1, <1>2, <1>3, <1>4, <1>5, <1>6, WorkMoves

LEMMA AppendRecordsStep ==
    ASSUME PInv, NEW i \in Trials, AppendRecords(i)
    PROVE  PInv'
<1> DEFINE w == work[i]
<1>1. /\ w \in Works /\ w.pc = "ledger" /\ ~ Sealed(i) /\ Covers(w, w.jobs)
      /\ Clean(w)
      /\ w.status = "equivalent" => Compared(w)
      /\ UNCHANGED <<trial, source, code>>
    BY DEF AppendRecords, Running, PInv, PairTypes, Accounted, vars
<1>2. PICK w2 : /\ work' = [work EXCEPT ![i] = w2]
                /\ \/ w2 = [w EXCEPT !.pc = "seal",
                                     !.ledger = IF w.records = "none" THEN w.ledger ELSE w.ledger \union {"baseline"}]
                   \/ w2 = [w EXCEPT !.pc = "seal", !.status = "failed"]
    <2>1. \/ work' = [work EXCEPT ![i] = [w EXCEPT !.pc = "seal",
                                     !.ledger = IF w.records = "none" THEN w.ledger ELSE w.ledger \union {"baseline"}]]
          \/ work' = [work EXCEPT ![i] = [w EXCEPT !.pc = "seal", !.status = "failed"]]
        BY DEF AppendRecords
    <2> QED BY <2>1
<1> HIDE DEF w
<1>3. /\ w2 \in Works /\ w2.pc = "seal" /\ w2.jobs = w.jobs /\ w2.attributed = w.attributed
      /\ w2.from = w.from /\ w2.records = w.records /\ w2.equal = w.equal
      /\ \/ /\ w2.status = w.status
            /\ w2.ledger = (IF w.records = "none" THEN w.ledger ELSE w.ledger \union {"baseline"})
         \/ w2.status = "failed"
    <2>1. w.ledger \union {"baseline"} \in SUBSET Architectures
        BY <1>1 DEF Works, Architectures
    <2>2. CASE w2 = [w EXCEPT !.pc = "seal",
                              !.ledger = IF w.records = "none" THEN w.ledger ELSE w.ledger \union {"baseline"}]
        BY <1>1, <2>1, <2>2 DEF Works
    <2>3. CASE w2 = [w EXCEPT !.pc = "seal", !.status = "failed"]
        BY <1>1, <2>3 DEF Works
    <2> QED BY <1>2, <2>2, <2>3
<1>4. Accounted(i, w2)
    BY <1>1, <1>3 DEF Accounted, Covers
<1>5. w2.status = "equivalent" => Compared(w2)
    <2>1. w2 \in Works => w2.ledger \subseteq Architectures
        BY DEF Works
    <2> QED BY <1>1, <1>3, <2>1 DEF Compared, Architectures
<1>6. Clean(w2)
    BY <1>1, <1>3 DEF Clean, OnFrozen, ByPinned
<1> QED BY <1>1, <1>2, <1>3, <1>4, <1>5, <1>6, WorkMoves

(* Steps that leave the work alone.                                         *)
LEMMA WorkStays ==
    ASSUME PInv, UNCHANGED work, source' \in {"frozen", "edited"}, code' \in {"pinned", "edited"},
           source' = "frozen" => source = "frozen", code' = "pinned" => code = "pinned",
           \A i \in Trials : Sealed(i)' => Sealed(i) \/ work[i].pc = "seal",
           \A i \in Trials : trial'[i] = "equivalent" => trial[i] = "equivalent" \/ work[i].status = "equivalent"
    PROVE  PInv'
<1>1. PairTypes'
    BY DEF PInv, PairTypes
<1>2. (\A i \in Trials : Clean(work[i]))'
    BY DEF PInv, Clean, OnFrozen, ByPinned
<1> QED BY <1>1, <1>2 DEF PInv, Sealed

LEMMA SealStep ==
    ASSUME PInv, TypeOK, NEW i \in Trials, Seal(i)
    PROVE  PInv'
<1>1. /\ work[i].pc = "seal" /\ UNCHANGED <<work, source, code>>
      /\ trial' = [trial EXCEPT ![i] = IF work[i].status = "equivalent" THEN "equivalent" ELSE "different"]
    BY DEF Seal, Running
<1>2. trial \in [Trials -> {"absent", "partial", "equivalent", "different"}]
    BY DEF TypeOK
<1> QED BY <1>1, <1>2, WorkStays DEF Sealed, PInv, PairTypes

LEMMA StartStep ==
    ASSUME PInv, TypeOK, NEW i \in Trials, Start(i)
    PROVE  PInv'
<1>1. UNCHANGED <<work, source, code>> /\ trial' = [trial EXCEPT ![i] = "partial"]
    BY DEF Start, WorkerStarts
<1>2. trial \in [Trials -> {"absent", "partial", "equivalent", "different"}]
    BY DEF TypeOK
<1> QED BY <1>1, <1>2, WorkStays DEF Sealed, PInv, PairTypes

LEMMA OtherStep ==
    ASSUME PInv, Suite \/ Edit \/ (\E i \in Trials : Exit(i)) \/ UNCHANGED pairVars
    PROVE  PInv'
<1>1. UNCHANGED <<work, trial>>
    <2>1. CASE Suite
        BY <2>1 DEF Suite, Preflight, MakeRoot, WriteAdmission, Bind, Check, Reserve, Launch, Collect, Interrupt,
            Finish, WriteExecution, Crash, BeginReport, ReadTrial, ReadLedger, Conclude
    <2>2. CASE Edit
        BY <2>2 DEF Edit, vars
    <2>3. CASE \E i \in Trials : Exit(i)
        BY <2>3 DEF Exit, WorkerExits
    <2>4. CASE UNCHANGED pairVars
        BY <2>4 DEF pairVars, vars
    <2> QED BY <2>1, <2>2, <2>3, <2>4
<1>2. /\ source' \in {"frozen", "edited"} /\ (source' = "frozen" => source = "frozen")
      /\ code' \in {"pinned", "edited"} /\ (code' = "pinned" => code = "pinned")
    BY DEF Suite, Edit, Exit, pairVars, PInv, PairTypes
<1> QED BY <1>1, <1>2, WorkStays DEF Sealed

LEMMA PairStep == PInv /\ TypeOK /\ [PairNext]_pairVars => PInv'
BY AdmitStep, RunStepStep, RefreshStep, AppendRecordsStep, SealStep, StartStep, OtherStep DEF PairNext

(* The worker of a pair keeps the promise of TrialSuite: every behaviour of *)
(* a suite with the real workers is one of the suite, so all that is proved *)
(* of the drivers and the reports holds with them.                          *)
THEOREM PairImplementsSuite == PairSpec => ImplementsSuite
BY PairRefines, PairStepRefines, PTL DEF PairSpec, ImplementsSuite, Spec

(* Whatever is edited between two queries of a pair, and however it fails:  *)
(* a trial sealed as equivalent compared what both architectures made of    *)
(* the frozen source, its ledger has both receipts, and each job of any     *)
(* sealed trial is attributed to exactly one architecture.                  *)
THEOREM PairsAreAlwaysBacked == PairSpec => []PairsAreBacked
<1>1. PInv => PairsAreBacked
    <2>1. PInv => EquivalentIsBacked
        BY DEF PInv, EquivalentIsBacked, Compared, Sealed
    <2>2. PInv => JobsAreAttributed
        BY DEF PInv, JobsAreAttributed, Accounted, Covers
    <2> QED BY <2>1, <2>2 DEF PairsAreBacked
<1>2. PairSpec => []TypeOK
    BY PairImplementsSuite, TypeCorrect, PTL DEF ImplementsSuite
<1> QED BY <1>1, <1>2, PairInitially, PairStep, PTL DEF PairSpec
-----------------------------------------------------------------------------
(* The challenge (Challenge, as Challenged), for any captured rows, rows of *)
(* others, graders, answers and directories.                                *)

(* A finite set of numbers has a greatest one, which Max is.                *)
LEMMA MaxIsGreatest ==
    ASSUME NEW S, S \subseteq Nat, IsFiniteSet(S), S # {}
    PROVE  Challenged!Max(S) \in S /\ \A y \in S : y <= Challenged!Max(S)
<1> DEFINE Above(x) == {y \in S : y > x}
           Tops == {Above(x) : x \in S}
<1>1. IsWellFoundedOn(StrictSubsetOrdering(S), FiniteSubsetsOf(S))
    BY FS_StrictSubsetOrderingWellFounded
<1>2. Tops \subseteq FiniteSubsetsOf(S) /\ Tops # {}
    <2>1. \A x \in S : Above(x) \subseteq S /\ IsFiniteSet(Above(x))
        <3> TAKE x \in S
        <3>1. Above(x) \in SUBSET S
            OBVIOUS
        <3> QED BY <3>1, FS_Subset
    <2>2. \A x \in S : Above(x) \in FiniteSubsetsOf(S)
        BY <2>1 DEF FiniteSubsetsOf
    <2> QED BY <2>2
<1>3. PICK top \in Tops : \A t \in Tops : ~ (<<t, top>> \in StrictSubsetOrdering(S))
    BY <1>1, <1>2, WFMin
<1>4. PICK x \in S : top = Above(x)
    OBVIOUS
<1>5. Above(x) = {}
    <2> SUFFICES ASSUME NEW y \in S, y > x PROVE FALSE
        OBVIOUS
    <2>1. Above(y) \subseteq Above(x) /\ y \in Above(x) /\ y \notin Above(y)
        <3>1. x \in Nat /\ y \in Nat /\ \A z \in S : z \in Nat
            OBVIOUS
        <3>2. \A z \in S : z > y => z > x
            BY <3>1
        <3>3. ~ y > y
            BY <3>1
        <3> QED BY <3>2, <3>3
    <2>2. Above(y) \in SUBSET S /\ Above(x) \in SUBSET S /\ Above(y) \in Tops
        OBVIOUS
    <2> QED BY <1>3, <1>4, <2>1, <2>2 DEF StrictSubsetOrdering
<1>6. \A y \in S : x >= y
    BY <1>5
<1>7. Challenged!Max(S) \in S /\ \A y \in S : Challenged!Max(S) >= y
    BY <1>6 DEF Challenged!Max
<1> QED BY <1>7

(* Sequences that stay prefixes.                                            *)
Content == Source \cup Strays
LongerThan(t, s) == Len(t) >= Len(s) /\ \A i \in 1 .. Len(s) : t[i] = s[i]

LEMMA SameNotions ==
    ASSUME NEW S
    PROVE  (Challenged!IsFiniteSet(S) <=> IsFiniteSet(S)) /\ Challenged!Cardinality(S) = Cardinality(S)
BY DEF IsFiniteSet, Challenged!IsFiniteSet, Cardinality, Challenged!Cardinality

LEMMA SetToSeqIsSeq ==
    ASSUME NEW S, IsFiniteSet(S) PROVE Challenged!SetToSeq(S) \in Seq(S)
<1>1. PICK n \in Nat : ExistsBijection(1 .. n, S)
    BY FS_NatBijection
<1>2. Cardinality(S) = n
    BY <1>1, FS_CountingElements
<1>3. PICK f \in Bijection(1 .. n, S) : TRUE
    BY <1>1 DEF ExistsBijection
<1>4. f \in [1 .. Cardinality(S) -> S] /\ Challenged!IsInjective(f)
    BY <1>2, <1>3, SameNotions DEF Bijection, Injection, IsInjective, Challenged!IsInjective
<1>5. Challenged!SetToSeq(S) \in [1 .. Cardinality(S) -> S]
    <2>1. \E g \in [1 .. Challenged!Cardinality(S) -> S] : Challenged!IsInjective(g)
        BY <1>4, SameNotions
    <2>2. Challenged!SetToSeq(S) \in [1 .. Challenged!Cardinality(S) -> S]
        BY <2>1, Zenon DEF Challenged!SetToSeq
    <2> QED BY <2>2, SameNotions
<1> QED BY <1>1, <1>2, <1>5

LEMMA NothingToIngest == Challenged!SetToSeq({}) = << >>
<1>1. Challenged!SetToSeq({}) \in Seq({})
    BY SetToSeqIsSeq, FS_EmptySet
<1> QED BY <1>1

LEMMA JoinedIsLonger ==
    ASSUME NEW S, NEW s \in Seq(S), NEW t \in Seq(S)
    PROVE  s \o t \in Seq(S) /\ LongerThan(s \o t, s)
BY DEF LongerThan

LEMMA AppendedIsLonger ==
    ASSUME NEW S, NEW s \in Seq(S), NEW e \in S
    PROVE  Append(s, e) \in Seq(S) /\ LongerThan(Append(s, e), s)
BY DEF LongerThan

(* What the gate sees up to a watermark stays as it is.                     *)
LEMMA SeenStays ==
    ASSUME NEW S, NEW s \in Seq(S), NEW t \in Seq(S), LongerThan(t, s), NEW w \in 0 .. Len(s)
    PROVE  /\ Challenged!Positions(t, w) = Challenged!Positions(s, w)
           /\ Challenged!Seen(t, w) = Challenged!Seen(s, w)
           /\ Challenged!Gate(t, w) = Challenged!Gate(s, w)
           /\ w \in 0 .. Len(t)
<1>1. \A i \in 1 .. w : t[i] = s[i]
    BY DEF LongerThan
<1>2. w \in 0 .. Len(t)
    BY DEF LongerThan
<1>3. Challenged!Positions(t, w) = Challenged!Positions(s, w)
    BY <1>1 DEF Challenged!Positions
<1>4. Challenged!Seen(t, w) = Challenged!Seen(s, w)
    <2>1. \A i \in Challenged!Positions(s, w) : t[i] = s[i]
        BY <1>1 DEF Challenged!Positions
    <2> QED BY <1>3, <2>1 DEF Challenged!Seen
<1>5. Challenged!Gate(t, w) = Challenged!Gate(s, w)
    BY <1>3, <1>4 DEF Challenged!Gate
<1> QED BY <1>2, <1>3, <1>4, <1>5

(* The gate's own watermark lies within the source and hides nothing.       *)
LEMMA GateLooksAtAll ==
    ASSUME NEW S, NEW s \in Seq(S), NEW d, d = Challenged!Gate(s, Len(s))
    PROVE  /\ d.watermark \in 0 .. Len(s)
           /\ d.inputs = Challenged!Seen(s, d.watermark)
           /\ d.inputs = Challenged!Seen(s, Len(s))
           /\ d.inputs \subseteq S
           /\ d.status \in {"ready", "held"}
           /\ d.status = "ready" <=> Challenged!Reconciles(d.inputs)
<1> DEFINE P == {0} \cup Challenged!Positions(s, Len(s))
<1>1. P \subseteq 0 .. Len(s) /\ P # {} /\ Len(s) \in Nat
    BY DEF Challenged!Positions
<1>2. IsFiniteSet(P) /\ P \subseteq Nat
    <2>1. IsFiniteSet(0 .. Len(s)) /\ 0 .. Len(s) \subseteq Nat
        BY <1>1, FS_Interval
    <2> QED BY <1>1, <2>1, FS_Subset
<1>3. /\ d.watermark = Challenged!Max(P) /\ d.inputs = Challenged!Seen(s, Len(s))
      /\ d.status = IF Challenged!Reconciles(d.inputs) THEN "ready" ELSE "held"
    BY DEF Challenged!Gate
<1>4. d.watermark \in P /\ \A y \in P : y <= d.watermark
    <2> HIDE DEF P
    <2> QED BY <1>1, <1>2, <1>3, MaxIsGreatest
<1>5. d.watermark \in 0 .. Len(s)
    BY <1>1, <1>4
<1>6. Challenged!Positions(s, d.watermark) = Challenged!Positions(s, Len(s))
    <2>1. \A i \in Challenged!Positions(s, Len(s)) : i <= d.watermark
        BY <1>4
    <2> HIDE DEF P
    <2> QED BY <1>5, <2>1 DEF Challenged!Positions
<1>7. d.inputs = Challenged!Seen(s, d.watermark)
    BY <1>3, <1>6 DEF Challenged!Seen
<1>8. d.inputs \subseteq S
    BY <1>3 DEF Challenged!Seen, Challenged!Positions
<1> QED BY <1>3, <1>5, <1>7, <1>8

(* The fixture: what prepare has established, given the source so far, the  *)
(* publication, the proof and the ledger.                                   *)
Decisions == [status : {"ready", "held"}, inputs : SUBSET Content, watermark : Nat]
Publications == [inputs : SUBSET Content, population : SUBSET Content]
Passing == {"publishing", "published", "retried", "derived", "sealed", "ledgered"}
Closed == {"published", "retried", "derived", "sealed", "ledgered"}
Stages == {"new", "captured", "imported", "held", "recovering", "over"} \cup Passing
Preparations == [at : Stages, pins : 1 .. 2 \cup {None}, failed : Decisions \cup {None},
                 recovered : Decisions \cup {None}, inserted : {0, None}]

Decided(s, d) == d \in Decisions /\ d.watermark \in 0 .. Len(s)
Granted(s, d) ==
    Decided(s, d) /\ d.inputs = Challenged!Seen(s, d.watermark) /\ Challenged!Reconciles(d.inputs)

(* Challenge's Derives, of any source and publication.                      *)
DerivesFrom(s, pub, failed, recovered) ==
    /\ Challenged!Gate(s, failed.watermark).inputs = failed.inputs
    /\ Challenged!Gate(s, failed.watermark).status = "held"
    /\ Challenged!Gate(s, recovered.watermark).inputs = recovered.inputs
    /\ Challenged!Gate(s, recovered.watermark).status = "ready"
    /\ Source \ Challenged!Gate(s, failed.watermark).inputs = {Missing}
    /\ pub.inputs = Challenged!Gate(s, recovered.watermark).inputs
    /\ Challenged!Seen(s, recovered.watermark) = pub.population

Kept(s, pub, failed, recovered) ==
    /\ pub # None /\ Decided(s, failed) /\ Decided(s, recovered)
    /\ DerivesFrom(s, pub, failed, recovered)

ProofOf(p) == [pins |-> p.pins, failed |-> p.failed, recovered |-> p.recovered, inserted |-> p.inserted]

Prepared(s, p, pub, prf, led) ==
    /\ s \in Seq(Content) /\ p \in Preparations /\ pub \in Publications \cup {None}
    /\ p.at \in {"held", "recovering"} \cup Passing => Decided(s, p.failed)
    /\ p.at \in Passing => Granted(s, p.recovered)
    /\ p.at \in Closed => pub # None
    /\ p.at \in {"derived", "sealed", "ledgered"} => Kept(s, pub, p.failed, p.recovered)
    /\ p.at \in {"sealed", "ledgered"} => prf = ProofOf(p)
    /\ p.at = "ledgered" => [kind |-> "proof", of |-> prf] \in led

(* What challenge.json points to.                                           *)
Pointed(s, p, pub, prf, ptr, led) ==
    /\ ptr \in BOOLEAN
    /\ ptr => /\ p.at = "over" /\ Kept(s, pub, prf.failed, prf.recovered)
              /\ [kind |-> "proof", of |-> prf] \in led

FixtureHolds ==
    /\ Prepared(source_rows, prep, published, proof, receipts)
    /\ Pointed(source_rows, prep, published, proof, pointer, receipts)
    /\ Challenged!PublishedIsReconciled

(* All of it stays when the source grows.                                   *)
LEMMA KeptStays ==
    ASSUME NEW s \in Seq(Content), NEW t \in Seq(Content), LongerThan(t, s),
           NEW pub, NEW failed, NEW recovered, Kept(s, pub, failed, recovered)
    PROVE  Kept(t, pub, failed, recovered)
<1>1. failed.watermark \in 0 .. Len(s) /\ recovered.watermark \in 0 .. Len(s)
    BY DEF Kept, Decided
<1>2. /\ Challenged!Gate(t, failed.watermark) = Challenged!Gate(s, failed.watermark)
      /\ failed.watermark \in 0 .. Len(t)
    BY <1>1, SeenStays
<1>3. /\ Challenged!Gate(t, recovered.watermark) = Challenged!Gate(s, recovered.watermark)
      /\ Challenged!Seen(t, recovered.watermark) = Challenged!Seen(s, recovered.watermark)
      /\ recovered.watermark \in 0 .. Len(t)
    BY <1>1, SeenStays
<1> QED BY <1>2, <1>3 DEF Kept, Decided, DerivesFrom

LEMMA DecisionsStay ==
    ASSUME NEW s \in Seq(Content), NEW t \in Seq(Content), LongerThan(t, s), NEW d, Decided(s, d)
    PROVE  Decided(t, d) /\ (Granted(s, d) => Granted(t, d))
<1>1. d.watermark \in 0 .. Len(s)
    BY DEF Decided
<1>2. d.watermark \in 0 .. Len(t) /\ Challenged!Seen(t, d.watermark) = Challenged!Seen(s, d.watermark)
    BY <1>1, SeenStays
<1> QED BY <1>2 DEF Decided, Granted

LEMMA PreparedStays ==
    ASSUME NEW s, NEW t \in Seq(Content), LongerThan(t, s), NEW p, NEW pub, NEW prf, NEW led, NEW more,
           led \subseteq more, Prepared(s, p, pub, prf, led)
    PROVE  Prepared(t, p, pub, prf, more)
<1>1. s \in Seq(Content)
    BY DEF Prepared
<1>2. p.at \in {"held", "recovering"} \cup Passing => Decided(t, p.failed)
    BY <1>1, DecisionsStay DEF Prepared
<1>3. p.at \in Passing => Granted(t, p.recovered)
    BY <1>1, DecisionsStay DEF Prepared, Granted
<1>4. p.at \in {"derived", "sealed", "ledgered"} => Kept(t, pub, p.failed, p.recovered)
    BY <1>1, KeptStays DEF Prepared
<1> QED BY <1>2, <1>3, <1>4 DEF Prepared

LEMMA PointedStays ==
    ASSUME NEW s \in Seq(Content), NEW t \in Seq(Content), LongerThan(t, s),
           NEW p, NEW pub, NEW prf, NEW ptr, NEW led, NEW more,
           led \subseteq more, Pointed(s, p, pub, prf, ptr, led)
    PROVE  Pointed(t, p, pub, prf, ptr, more)
BY KeptStays DEF Pointed

LEMMA SameIsLonger == ASSUME NEW s \in Seq(Content) PROVE LongerThan(s, s)
BY DEF LongerThan

(* The source grows, or somebody adds to the ledger; the fixture stays.     *)
LEMMA FixtureStays ==
    ASSUME FixtureHolds, source_rows' \in Seq(Content), LongerThan(source_rows', source_rows),
           receipts \subseteq receipts', UNCHANGED <<prep, published, proof, pointer>>
    PROVE  FixtureHolds'
<1>1. Prepared(source_rows', prep, published, proof, receipts')
    BY PreparedStays DEF FixtureHolds
<1>2. Pointed(source_rows', prep, published, proof, pointer, receipts')
    BY PointedStays DEF FixtureHolds, Prepared
<1>3. Challenged!PublishedIsReconciled'
    BY DEF FixtureHolds, Challenged!PublishedIsReconciled
<1> QED BY <1>1, <1>2, <1>3 DEF FixtureHolds

(* The stages of prepare.                                                   *)
LEMMA ChallengeInitHolds == ASSUME Challenged!Init PROVE FixtureHolds
<1> USE DEF Challenged!Init
<1>1. << >> \in Seq(Content)
    OBVIOUS
<1>2. prep \in Preparations
    BY DEF Preparations, Stages
<1>3. Prepared(source_rows, prep, published, proof, receipts)
    BY <1>1, <1>2 DEF Prepared, Passing, Closed
<1> QED BY <1>3 DEF FixtureHolds, Pointed, Challenged!PublishedIsReconciled

(* A stage passed, with nothing but the stage changed.                      *)
LEMMA StageStep ==
    ASSUME FixtureHolds, NEW from, NEW to \in Stages, Challenged!Step(from, to)
    PROVE  /\ prep.at = from /\ prep'.at = to /\ prep' \in Preparations
           /\ prep'.pins = prep.pins /\ prep'.failed = prep.failed /\ prep'.recovered = prep.recovered
           /\ prep'.inserted = prep.inserted
BY DEF FixtureHolds, Prepared, Preparations, Challenged!Step

LEMMA CaptureStep ==
    ASSUME FixtureHolds, version \in 1 .. 2, Challenged!Capture
    PROVE  FixtureHolds'
<1> USE DEF Challenged!Capture
<1>1. prep' \in Preparations /\ prep'.at = "captured"
    BY DEF FixtureHolds, Prepared, Preparations, Stages
<1>2. prep.at = "new"
    OBVIOUS
<1>3. Prepared(source_rows, prep', published, proof, receipts)
    BY <1>1 DEF FixtureHolds, Prepared, Passing, Closed
<1>4. ~ pointer
    BY <1>2 DEF FixtureHolds, Pointed
<1>5. Challenged!PublishedIsReconciled'
    BY DEF FixtureHolds, Challenged!PublishedIsReconciled
<1> QED BY <1>3, <1>4, <1>5 DEF FixtureHolds, Pointed

LEMMA ImportStep ==
    ASSUME FixtureHolds, Challenged!ValuesAreApart, Challenged!Import
    PROVE  FixtureHolds'
<1> USE DEF Challenged!Import
<1>1. source_rows' \in Seq(Content) /\ LongerThan(source_rows', source_rows)
    <2>1. IsFiniteSet(Source \ {Missing})
        BY SameNotions, FS_Subset DEF Challenged!ValuesAreApart
    <2>2. Challenged!SetToSeq(Source \ {Missing}) \in Seq(Content)
        BY <2>1, SetToSeqIsSeq DEF Content
    <2>3. source_rows \in Seq(Content)
        BY DEF FixtureHolds, Prepared
    <2> QED BY <2>2, <2>3, JoinedIsLonger
<1>2. prep' \in Preparations /\ prep'.at = "imported" /\ prep.at = "captured"
    BY StageStep DEF Stages
<1>3. Prepared(source_rows', prep', published, proof, receipts)
    BY <1>1, <1>2 DEF FixtureHolds, Prepared, Passing, Closed
<1>4. ~ pointer
    BY <1>2 DEF FixtureHolds, Pointed
<1>5. Challenged!PublishedIsReconciled'
    BY DEF FixtureHolds, Challenged!PublishedIsReconciled
<1> QED BY <1>3, <1>4, <1>5 DEF FixtureHolds, Pointed

(* A decision of the gate on the whole source.                              *)
LEMMA GateDecides ==
    ASSUME source_rows \in Seq(Content), NEW d, d = Challenged!Gate(source_rows, Len(source_rows))
    PROVE  /\ Decided(source_rows, d)
           /\ d.status # "held" => Granted(source_rows, d)
<1>1. /\ d.watermark \in 0 .. Len(source_rows) /\ d.inputs \subseteq Content /\ d.status \in {"ready", "held"}
      /\ d.inputs = Challenged!Seen(source_rows, d.watermark)
      /\ d.status = "ready" <=> Challenged!Reconciles(d.inputs)
    BY GateLooksAtAll
<1>2. d = [status |-> d.status, inputs |-> d.inputs, watermark |-> d.watermark]
    BY DEF Challenged!Gate
<1>3. d \in Decisions
    BY <1>1, <1>2 DEF Decisions
<1> QED BY <1>1, <1>3 DEF Decided, Granted

LEMMA HoldStep ==
    ASSUME FixtureHolds, Challenged!Hold
    PROVE  FixtureHolds'
<1>1. PICK d : d = Challenged!Gate(source_rows, Len(source_rows))
    OBVIOUS
<1>2. Decided(source_rows, d) /\ d \in Decisions
    BY <1>1, GateDecides DEF FixtureHolds, Prepared, Decided
<1>3. /\ prep.at = "imported" /\ prep' = [prep EXCEPT !.at = "held", !.failed = d]
      /\ UNCHANGED <<source_rows, published, proof, pointer, receipts>>
    BY <1>1 DEF Challenged!Hold
<1>4. prep' \in Preparations /\ prep'.at = "held" /\ prep'.failed = d
    BY <1>2, <1>3 DEF FixtureHolds, Prepared, Preparations, Stages
<1>5. Prepared(source_rows, prep', published, proof, receipts)
    BY <1>2, <1>4 DEF FixtureHolds, Prepared, Passing, Closed
<1>6. ~ pointer
    BY <1>3 DEF FixtureHolds, Pointed
<1>7. Challenged!PublishedIsReconciled'
    BY <1>3 DEF FixtureHolds, Challenged!PublishedIsReconciled
<1> QED BY <1>3, <1>5, <1>6, <1>7 DEF FixtureHolds, Pointed

LEMMA RecoverStep ==
    ASSUME FixtureHolds, Challenged!ValuesAreApart, Challenged!Recover
    PROVE  FixtureHolds'
<1> USE DEF Challenged!Recover
<1>1. source_rows' \in Seq(Content) /\ LongerThan(source_rows', source_rows)
    <2>1. IsFiniteSet(Source \ Challenged!ToSet(source_rows))
        BY SameNotions, FS_Subset DEF Challenged!ValuesAreApart
    <2>2. Challenged!SetToSeq(Source \ Challenged!ToSet(source_rows)) \in Seq(Source \ Challenged!ToSet(source_rows))
        BY <2>1, SetToSeqIsSeq
    <2>3. Challenged!SetToSeq(Source \ Challenged!ToSet(source_rows)) \in Seq(Content)
        BY <2>2 DEF Content
    <2>4. source_rows \in Seq(Content)
        BY DEF FixtureHolds, Prepared
    <2> QED BY <2>3, <2>4, JoinedIsLonger DEF Challenged!Ingested
<1>2. /\ prep.at = "held" /\ prep'.at = "recovering" /\ prep' \in Preparations /\ prep'.failed = prep.failed
    BY StageStep DEF Stages
<1>3. Decided(source_rows', prep'.failed)
    BY <1>1, <1>2, DecisionsStay DEF FixtureHolds, Prepared
<1>4. Prepared(source_rows', prep', published, proof, receipts)
    BY <1>1, <1>2, <1>3 DEF FixtureHolds, Prepared, Passing, Closed
<1>5. ~ pointer
    BY <1>2 DEF FixtureHolds, Pointed
<1>6. Challenged!PublishedIsReconciled'
    BY DEF FixtureHolds, Challenged!PublishedIsReconciled
<1> QED BY <1>4, <1>5, <1>6 DEF FixtureHolds, Pointed

LEMMA AdmitCloseStep ==
    ASSUME FixtureHolds, Challenged!Admit
    PROVE  FixtureHolds'
<1>1. PICK d : d = Challenged!Gate(source_rows, Len(source_rows))
    OBVIOUS
<1>2. /\ prep.at = "recovering" /\ prep' = [prep EXCEPT !.at = "publishing", !.recovered = d]
      /\ d.status # "held" /\ UNCHANGED <<source_rows, published, proof, pointer, receipts>>
    BY <1>1 DEF Challenged!Admit, Challenged!Publication
<1>3. Granted(source_rows, d) /\ d \in Decisions
    BY <1>1, <1>2, GateDecides DEF FixtureHolds, Prepared, Granted, Decided
<1>4. prep' \in Preparations /\ prep'.at = "publishing" /\ prep'.failed = prep.failed /\ prep'.recovered = d
    BY <1>2, <1>3 DEF FixtureHolds, Prepared, Preparations, Stages, Passing
<1>5. Prepared(source_rows, prep', published, proof, receipts)
    BY <1>2, <1>3, <1>4 DEF FixtureHolds, Prepared, Passing, Closed
<1>6. ~ pointer
    BY <1>2 DEF FixtureHolds, Pointed
<1>7. Challenged!PublishedIsReconciled'
    BY <1>2 DEF FixtureHolds, Challenged!PublishedIsReconciled
<1> QED BY <1>2, <1>5, <1>6, <1>7 DEF FixtureHolds, Pointed

LEMMA PublishStep ==
    ASSUME FixtureHolds, Challenged!ValuesAreApart, Challenged!Publish
    PROVE  FixtureHolds'
<1> USE DEF Challenged!Publish
<1>1. /\ prep.at = "publishing" /\ prep'.at = "published" /\ prep' \in Preparations
      /\ prep'.failed = prep.failed /\ prep'.recovered = prep.recovered
    BY StageStep DEF Stages, Passing
<1>2. Decided(source_rows, prep.failed) /\ Granted(source_rows, prep.recovered)
    BY <1>1 DEF FixtureHolds, Prepared, Passing
<1>3. /\ published' = [inputs |-> prep.recovered.inputs, population |-> prep.recovered.inputs]
      /\ prep.recovered.inputs \in SUBSET Content
    BY <1>2 DEF Granted, Decided, Decisions
<1>4. /\ published' \in Publications /\ published' # None
      /\ published'.inputs = prep.recovered.inputs /\ published'.population = prep.recovered.inputs
    <2>1. published' \in Publications
        BY <1>3 DEF Publications
    <2> QED BY <1>3, <2>1 DEF Publications, Content, Challenged!ValuesAreApart
<1>5. Prepared(source_rows, prep', published', proof, receipts)
    BY <1>1, <1>2, <1>4 DEF FixtureHolds, Prepared, Passing, Closed
<1>6. ~ pointer
    BY <1>1 DEF FixtureHolds, Pointed
<1>7. Challenged!PublishedIsReconciled'
    BY <1>2, <1>4 DEF Challenged!PublishedIsReconciled, Granted, Challenged!Reconciles
<1> QED BY <1>5, <1>6, <1>7 DEF FixtureHolds, Pointed

LEMMA RetryStep ==
    ASSUME FixtureHolds, Challenged!Retry
    PROVE  FixtureHolds'
<1> USE DEF Challenged!Retry
<1>1. /\ prep' \in Preparations /\ prep'.at = "retried"
      /\ prep'.failed = prep.failed /\ prep'.recovered = prep.recovered /\ prep.at = "published"
    BY DEF FixtureHolds, Prepared, Preparations, Stages, Passing
<1>2. Prepared(source_rows, prep', published, proof, receipts)
    BY <1>1 DEF FixtureHolds, Prepared, Passing, Closed
<1>3. ~ pointer
    BY <1>1 DEF FixtureHolds, Pointed
<1>4. Challenged!PublishedIsReconciled'
    BY DEF FixtureHolds, Challenged!PublishedIsReconciled
<1> QED BY <1>2, <1>3, <1>4 DEF FixtureHolds, Pointed

LEMMA DeriveStep ==
    ASSUME FixtureHolds, Challenged!Derive
    PROVE  FixtureHolds'
<1> USE DEF Challenged!Derive
<1>1. /\ prep' \in Preparations /\ prep'.at = "derived" /\ prep.at = "retried"
      /\ prep'.failed = prep.failed /\ prep'.recovered = prep.recovered
    BY StageStep DEF Stages, Passing
<1>2. Kept(source_rows, published, prep.failed, prep.recovered)
    <2>1. DerivesFrom(source_rows, published, prep.failed, prep.recovered)
        BY DEF DerivesFrom, Challenged!Derives
    <2>2. /\ Decided(source_rows, prep.failed) /\ Decided(source_rows, prep.recovered) /\ published # None
        BY <1>1 DEF FixtureHolds, Prepared, Passing, Closed, Granted
    <2> QED BY <2>1, <2>2 DEF Kept
<1>3. Prepared(source_rows, prep', published, proof, receipts)
    BY <1>1, <1>2 DEF FixtureHolds, Prepared, Passing, Closed
<1>4. ~ pointer
    BY <1>1 DEF FixtureHolds, Pointed
<1>5. Challenged!PublishedIsReconciled'
    BY DEF FixtureHolds, Challenged!PublishedIsReconciled
<1> QED BY <1>3, <1>4, <1>5 DEF FixtureHolds, Pointed

LEMMA WriteRunStep ==
    ASSUME FixtureHolds, Challenged!WriteRun
    PROVE  FixtureHolds'
<1> USE DEF Challenged!WriteRun
<1>1. /\ prep' \in Preparations /\ prep'.at = "sealed" /\ prep.at = "derived"
      /\ prep'.failed = prep.failed /\ prep'.recovered = prep.recovered /\ proof' = ProofOf(prep')
    BY StageStep DEF Stages, Passing, ProofOf
<1>2. Prepared(source_rows, prep', published, proof', receipts)
    BY <1>1 DEF FixtureHolds, Prepared, Passing, Closed
<1>3. ~ pointer
    BY <1>1 DEF FixtureHolds, Pointed
<1>4. Challenged!PublishedIsReconciled'
    BY DEF FixtureHolds, Challenged!PublishedIsReconciled
<1> QED BY <1>2, <1>3, <1>4 DEF FixtureHolds, Pointed

LEMMA AppendProofStep ==
    ASSUME FixtureHolds, Challenged!AppendProof
    PROVE  FixtureHolds'
<1> USE DEF Challenged!AppendProof
<1>1. /\ prep' \in Preparations /\ prep'.at = "ledgered" /\ prep.at = "sealed"
      /\ prep'.failed = prep.failed /\ prep'.recovered = prep.recovered /\ ProofOf(prep') = ProofOf(prep)
    BY StageStep DEF Stages, Passing, ProofOf
<1>2. receipts' = receipts \cup {[kind |-> "proof", of |-> proof]}
    BY DEF Challenged!Proof
<1>3. Prepared(source_rows, prep', published, proof, receipts')
    BY <1>1, <1>2 DEF FixtureHolds, Prepared, Passing, Closed
<1>4. ~ pointer
    BY <1>1 DEF FixtureHolds, Pointed
<1>5. Challenged!PublishedIsReconciled'
    BY DEF FixtureHolds, Challenged!PublishedIsReconciled
<1> QED BY <1>3, <1>4, <1>5 DEF FixtureHolds, Pointed

LEMMA WritePointerStep ==
    ASSUME FixtureHolds, Challenged!WritePointer
    PROVE  FixtureHolds'
<1> USE DEF Challenged!WritePointer
<1>1. prep' \in Preparations /\ prep'.at = "over" /\ prep.at = "ledgered"
    BY StageStep DEF Stages
<1>2. Prepared(source_rows, prep', published, proof, receipts)
    BY <1>1 DEF FixtureHolds, Prepared, Passing, Closed
<1>3. /\ Kept(source_rows, published, prep.failed, prep.recovered) /\ proof = ProofOf(prep)
      /\ [kind |-> "proof", of |-> proof] \in receipts
    BY <1>1 DEF FixtureHolds, Prepared
<1>4. Pointed(source_rows, prep', published, proof, pointer', receipts)
    BY <1>1, <1>3 DEF Pointed, ProofOf
<1>5. Challenged!PublishedIsReconciled'
    BY DEF FixtureHolds, Challenged!PublishedIsReconciled
<1> QED BY <1>2, <1>4, <1>5 DEF FixtureHolds

LEMMA StopStep ==
    ASSUME FixtureHolds, Challenged!Stop
    PROVE  FixtureHolds'
<1> USE DEF Challenged!Stop
<1>1. prep' \in Preparations /\ prep'.at = "over" /\ prep.at # "over"
    BY DEF FixtureHolds, Prepared, Preparations, Stages
<1>2. Prepared(source_rows, prep', published, proof, receipts)
    BY <1>1 DEF FixtureHolds, Prepared, Passing, Closed
<1>3. ~ pointer
    BY <1>1 DEF FixtureHolds, Pointed
<1>4. Challenged!PublishedIsReconciled'
    BY DEF FixtureHolds, Challenged!PublishedIsReconciled
<1> QED BY <1>2, <1>3, <1>4 DEF FixtureHolds, Pointed

-----------------------------------------------------------------------------
(* The graders.                                                             *)
Passes == {"new", "verifying", "verified", "retaining", "retained", "writing", "over"}
Gradings(led) == [at : Passes, answer : Answers \cup {None}, to : Destinations \cup {None},
                  retained : SUBSET led, elapsed : 1 .. 2 \cup {None}]

(* A call retains under the lock, and writes where nobody else does.        *)
Grades(g, r, led, lock, cards) ==
    /\ r.at # "new" => r.to \in Destinations
    /\ r.at = "retaining" => lock = g /\ r.retained = led
    /\ r.at \in {"retained", "writing"} =>
          {Challenged!ScoreReceipt(r.answer), Challenged!Observation(r.answer, r.elapsed)} \subseteq led
    /\ r.at = "writing" => cards[r.to] = [by |-> g, card |-> None]

(* A scorecard is of its writer.                                            *)
Scored(d, s, runs, led) ==
    s # None =>
        /\ s = [by |-> s.by, card |-> s.card] /\ s.by \in Graders
        /\ runs[s.by].at \in {"writing", "over"} /\ runs[s.by].to = d
        /\ s.card # None =>
              /\ s.card.score = Challenged!ScoreReceipt(runs[s.by].answer)
              /\ {s.card.score, s.card.timing} \subseteq led

GradingHolds ==
    /\ version \in 1 .. 2
    /\ grader \in [Graders -> Gradings(receipts)]
    /\ scores = [d \in Destinations |-> scores[d]]
    /\ \A g \in Graders : Grades(g, grader[g], receipts, retention, scores)
    /\ \A d \in Destinations : Scored(d, scores[d], grader, receipts)
    /\ ~ pointer => (\A g \in Graders : grader[g].at = "new") /\ (\A d \in Destinations : scores[d] = None)

ChallengeInv == FixtureHolds /\ GradingHolds

(* Nobody else is concerned by what one of them does.                       *)
OtherGraders(g) == \A h \in Graders : h # g => grader'[h] = grader[h]

LEMMA GraderMoves ==
    ASSUME NEW led, grader \in [Graders -> Gradings(led)], NEW g \in Graders, NEW at \in Passes,
           Challenged!Goto(g, at)
    PROVE  /\ grader' \in [Graders -> Gradings(led)] /\ OtherGraders(g)
           /\ grader'[g].at = at /\ grader'[g].to = grader[g].to /\ grader'[g].answer = grader[g].answer
           /\ grader'[g].elapsed = grader[g].elapsed /\ grader'[g].retained = grader[g].retained
BY DEF Gradings, OtherGraders, Challenged!Goto

LEMMA GraderReads ==
    ASSUME NEW led, grader \in [Graders -> Gradings(led)], NEW g \in Graders,
           grader' = [grader EXCEPT ![g].at = "retaining", ![g].retained = led]
    PROVE  /\ grader' \in [Graders -> Gradings(led)] /\ OtherGraders(g)
           /\ grader'[g].at = "retaining" /\ grader'[g].to = grader[g].to /\ grader'[g].retained = led
BY DEF Gradings, OtherGraders, Passes

LEMMA GraderRetains ==
    ASSUME NEW led, grader \in [Graders -> Gradings(led)], NEW g \in Graders, NEW elapsed \in 1 .. 2,
           grader' = [grader EXCEPT ![g].at = "retained", ![g].elapsed = elapsed]
    PROVE  /\ grader' \in [Graders -> Gradings(led)] /\ OtherGraders(g)
           /\ grader'[g].at = "retained" /\ grader'[g].to = grader[g].to /\ grader'[g].answer = grader[g].answer
           /\ grader'[g].elapsed = elapsed
BY DEF Gradings, OtherGraders, Passes

LEMMA GraderStep ==
    ASSUME GradingHolds, pointer, NEW g \in Graders, grader' \in [Graders -> Gradings(receipts')], OtherGraders(g),
           receipts \subseteq receipts', UNCHANGED <<scores, version, pointer>>,
           grader[g].at \in {"writing", "over"} =>
              grader'[g].at = "over" /\ grader'[g].to = grader[g].to /\ grader'[g].answer = grader[g].answer,
           Grades(g, grader'[g], receipts', retention', scores),
           \A h \in Graders : h # g => Grades(h, grader[h], receipts', retention', scores)
    PROVE  GradingHolds'
<1>1. \A h \in Graders : Grades(h, grader'[h], receipts', retention', scores)
    BY DEF OtherGraders
<1>2. \A d \in Destinations : Scored(d, scores[d], grader', receipts')
    <2> TAKE d \in Destinations
    <2>1. Scored(d, scores[d], grader, receipts)
        BY DEF GradingHolds
    <2>2. CASE scores[d].by = g
        BY <2>1, <2>2 DEF Scored
    <2>3. CASE scores[d].by # g
        BY <2>1, <2>3 DEF Scored, OtherGraders
    <2> QED BY <2>2, <2>3
<1> QED BY <1>1, <1>2 DEF GradingHolds

(* What an unlocked step of a grader leaves alone.                          *)
LEMMA OthersGrade ==
    ASSUME GradingHolds, NEW g \in Graders, UNCHANGED receipts,
           retention' = retention \/ retention \notin Graders \/ retention = g
    PROVE  \A h \in Graders : h # g => Grades(h, grader[h], receipts', retention', scores)
BY DEF GradingHolds, Grades

LEMMA Underway ==
    ASSUME GradingHolds, NEW g \in Graders, grader[g].at # "new" PROVE pointer
BY DEF GradingHolds

(* Nothing of the fixture but its ledger is touched while grading.          *)
LEMMA FixtureRests ==
    ASSUME FixtureHolds, receipts \subseteq receipts', UNCHANGED <<source_rows, prep, published, proof, pointer>>
    PROVE  FixtureHolds'
BY FixtureStays, SameIsLonger DEF FixtureHolds, Prepared

LEMMA BeginGradeStep ==
    ASSUME GradingHolds, NEW g \in Graders, NEW answer \in Answers, NEW d \in Destinations,
           Challenged!BeginGrade(g, answer, d)
    PROVE  GradingHolds'
<1> USE DEF Challenged!BeginGrade, Challenged!fixture
<1>1. /\ grader' \in [Graders -> Gradings(receipts)] /\ OtherGraders(g)
      /\ grader'[g].at = "verifying" /\ grader'[g].to = d
    <2>1. grader \in [Graders -> Gradings(receipts)]
        BY DEF GradingHolds
    <2> QED BY <2>1 DEF Gradings, OtherGraders, Passes, Challenged!Grading
<1>2. Grades(g, grader'[g], receipts, retention', scores)
    BY <1>1 DEF Grades
<1> QED BY <1>1, <1>2, OthersGrade, GraderStep

LEMMA VerifyStep ==
    ASSUME GradingHolds, NEW g \in Graders, Challenged!Verify(g)
    PROVE  GradingHolds'
<1> USE DEF Challenged!Verify, Challenged!fixture
<1>1. /\ grader' \in [Graders -> Gradings(receipts)] /\ OtherGraders(g)
      /\ grader'[g].at = "verified" /\ grader'[g].to = grader[g].to
    BY GraderMoves DEF GradingHolds, Passes
<1>2. Grades(g, grader'[g], receipts, retention', scores)
    BY <1>1 DEF GradingHolds, Grades
<1> QED BY <1>1, <1>2, OthersGrade, GraderStep, Underway

LEMMA ReadRetainedStep ==
    ASSUME GradingHolds, Challenged!ValuesAreApart, NEW g \in Graders, Challenged!ReadRetained(g)
    PROVE  GradingHolds'
<1> USE DEF Challenged!ReadRetained, Challenged!fixture, Challenged!RetentionIsFree
<1>1. /\ grader' \in [Graders -> Gradings(receipts)] /\ OtherGraders(g)
      /\ grader'[g].at = "retaining" /\ grader'[g].to = grader[g].to /\ grader'[g].retained = receipts
    BY GraderReads DEF GradingHolds
<1>2. Grades(g, grader'[g], receipts, retention', scores)
    BY <1>1 DEF GradingHolds, Grades
<1>3. retention \notin Graders
    BY DEF Challenged!ValuesAreApart
<1> QED BY <1>1, <1>2, <1>3, OthersGrade, GraderStep, Underway

(* Under the lock, what is pending is still not in the ledger.              *)
LEMMA RetainStep ==
    ASSUME GradingHolds, NEW g \in Graders, NEW elapsed \in 1 .. 2, Challenged!Retain(g, elapsed)
    PROVE  GradingHolds' /\ receipts \subseteq receipts'
<1> DEFINE pending == Challenged!Pending(g, elapsed)
<1>1. grader[g].at = "retaining" /\ retention = g /\ grader[g].retained = receipts
    BY DEF GradingHolds, Grades, Challenged!Retain
<1>2. pending \cap receipts = {} /\ receipts \cup pending = receipts \cup
          {Challenged!ScoreReceipt(grader[g].answer), Challenged!Observation(grader[g].answer, elapsed)}
    BY <1>1 DEF Challenged!Pending
<1>3. /\ receipts' = receipts \cup pending
      /\ grader' = [grader EXCEPT ![g].at = "retained", ![g].elapsed = elapsed]
      /\ UNCHANGED <<scores, version, pointer>>
    BY <1>2 DEF Challenged!Retain, Challenged!fixture
<1> HIDE DEF pending
<1>4. /\ grader' \in [Graders -> Gradings(receipts)] /\ OtherGraders(g)
      /\ grader'[g].at = "retained" /\ grader'[g].to = grader[g].to /\ grader'[g].answer = grader[g].answer
      /\ grader'[g].elapsed = elapsed
    BY <1>3, GraderRetains DEF GradingHolds
<1>5. grader' \in [Graders -> Gradings(receipts')]
    BY <1>3, <1>4 DEF Gradings
<1>6. Grades(g, grader'[g], receipts', retention', scores)
    BY <1>1, <1>2, <1>3, <1>4 DEF GradingHolds, Grades
<1>7. \A h \in Graders : h # g => Grades(h, grader[h], receipts', retention', scores)
    BY <1>1, <1>3 DEF GradingHolds, Grades
<1> QED BY <1>1, <1>3, <1>4, <1>5, <1>6, <1>7, GraderStep, Underway

LEMMA DieGradingStep ==
    ASSUME GradingHolds, NEW g \in Graders, Challenged!DieGrading(g)
    PROVE  GradingHolds'
<1> USE DEF Challenged!DieGrading, Challenged!fixture
<1>1. /\ grader' \in [Graders -> Gradings(receipts)] /\ OtherGraders(g)
      /\ grader'[g].at = "over" /\ grader'[g].to = grader[g].to /\ grader'[g].answer = grader[g].answer
    BY GraderMoves DEF GradingHolds, Passes
<1>2. Grades(g, grader'[g], receipts, retention', scores)
    BY <1>1 DEF GradingHolds, Grades
<1> QED BY <1>1, <1>2, OthersGrade, GraderStep, Underway

LEMMA MakeDestinationStep ==
    ASSUME GradingHolds, Challenged!ValuesAreApart, NEW g \in Graders, Challenged!MakeDestination(g)
    PROVE  GradingHolds'
<1> USE DEF Challenged!MakeDestination, Challenged!fixture
<1>1. pointer
    BY Underway
<1>2. CASE scores[grader[g].to] # None
    <2>1. /\ grader' \in [Graders -> Gradings(receipts)] /\ OtherGraders(g)
          /\ grader'[g].at = "over" /\ grader'[g].to = grader[g].to
        BY <1>2, GraderMoves DEF GradingHolds, Passes
    <2>2. Grades(g, grader'[g], receipts, retention', scores)
        BY <2>1 DEF GradingHolds, Grades
    <2> QED BY <1>1, <1>2, <2>1, <2>2, OthersGrade, GraderStep
<1>3. CASE scores[grader[g].to] = None
    <2>1. /\ grader' \in [Graders -> Gradings(receipts)] /\ OtherGraders(g)
          /\ grader'[g].at = "writing" /\ grader'[g].to = grader[g].to /\ grader'[g].answer = grader[g].answer
          /\ grader'[g].elapsed = grader[g].elapsed
        BY <1>3, GraderMoves DEF GradingHolds, Passes
    <2>2. PICK to \in Destinations : to = grader[g].to
        BY DEF GradingHolds, Grades
    <2>3. scores' = [scores EXCEPT ![to] = [by |-> g, card |-> None]] /\ scores[to] = None
        BY <1>3, <2>2
    <2>4. /\ scores' = [d \in Destinations |-> scores'[d]] /\ scores'[to] = [by |-> g, card |-> None]
          /\ \A d \in Destinations : d # to => scores'[d] = scores[d]
        BY <2>3 DEF GradingHolds
    <2>5. ASSUME NEW h \in Graders PROVE Grades(h, grader'[h], receipts, retention, scores')
        <3>1. CASE h = g
            BY <2>1, <2>2, <2>4, <3>1 DEF GradingHolds, Grades
        <3>2. CASE h # g
            <4>1. grader'[h] = grader[h] /\ Grades(h, grader[h], receipts, retention, scores)
                BY <2>1, <3>2 DEF OtherGraders, GradingHolds
            <4>2. grader[h].at = "writing" => grader[h].to # to
                BY <2>3, <4>1 DEF Grades, Challenged!ValuesAreApart
            <4> QED BY <2>4, <4>1, <4>2 DEF Grades
        <3> QED BY <3>1, <3>2
    <2>6. ASSUME NEW d \in Destinations PROVE Scored(d, scores'[d], grader', receipts)
        <3>1. CASE d = to
            BY <2>1, <2>2, <2>4, <3>1 DEF Scored
        <3>2. CASE d # to
            <4>1. Scored(d, scores[d], grader, receipts) /\ scores'[d] = scores[d]
                BY <2>4, <3>2 DEF GradingHolds
            <4>2. scores[d] # None => scores[d].by # g
                BY <4>1 DEF Scored
            <4> QED BY <2>1, <4>1, <4>2 DEF Scored, OtherGraders
        <3> QED BY <3>1, <3>2
    <2> QED BY <1>1, <2>1, <2>4, <2>5, <2>6 DEF GradingHolds
<1> QED BY <1>2, <1>3

LEMMA WriteCardStep ==
    ASSUME GradingHolds, NEW g \in Graders, Challenged!WriteCard(g)
    PROVE  GradingHolds'
<1> USE DEF Challenged!WriteCard, Challenged!fixture
<1>1. pointer
    BY Underway
<1>2. /\ grader' \in [Graders -> Gradings(receipts)] /\ OtherGraders(g)
      /\ grader'[g].at = "over" /\ grader'[g].to = grader[g].to /\ grader'[g].answer = grader[g].answer
    BY GraderMoves DEF GradingHolds, Passes
<1>3. PICK to \in Destinations : to = grader[g].to
    BY DEF GradingHolds, Grades
<1>4. PICK card : card = [score |-> Challenged!ScoreReceipt(grader[g].answer),
                          timing |-> Challenged!Observation(grader[g].answer, grader[g].elapsed)]
    OBVIOUS
<1>5. /\ scores[to] = [by |-> g, card |-> None]
      /\ card.score = Challenged!ScoreReceipt(grader[g].answer) /\ {card.score, card.timing} \subseteq receipts
    BY <1>3, <1>4 DEF GradingHolds, Grades
<1>6. /\ scores' = [d \in Destinations |-> scores'[d]] /\ scores'[to] = [by |-> g, card |-> card]
      /\ \A d \in Destinations : d # to => scores'[d] = scores[d]
    <2>1. scores' = [scores EXCEPT ![to].card = card]
        BY <1>3, <1>4
    <2> QED BY <1>5, <2>1 DEF GradingHolds
<1>7. ASSUME NEW h \in Graders PROVE Grades(h, grader'[h], receipts, retention, scores')
    <2>1. CASE h = g
        BY <1>2, <1>3, <2>1 DEF GradingHolds, Grades
    <2>2. CASE h # g
        <3>1. grader'[h] = grader[h] /\ Grades(h, grader[h], receipts, retention, scores)
            BY <1>2, <2>2 DEF OtherGraders, GradingHolds
        <3>2. grader[h].at = "writing" => grader[h].to # to
            <4>1. [by |-> g, card |-> None] # [by |-> h, card |-> None]
                BY <2>2
            <4> QED BY <1>5, <3>1, <4>1 DEF Grades
        <3> QED BY <1>6, <3>1, <3>2 DEF Grades
    <2> QED BY <2>1, <2>2
<1>8. ASSUME NEW d \in Destinations PROVE Scored(d, scores'[d], grader', receipts)
    <2>1. CASE d = to
        BY <1>2, <1>3, <1>5, <1>6, <2>1 DEF Scored
    <2>2. CASE d # to
        <3>1. Scored(d, scores[d], grader, receipts) /\ scores'[d] = scores[d]
            BY <1>6, <2>2 DEF GradingHolds
        <3>2. CASE scores[d] # None /\ scores[d].by = g
            BY <1>3, <2>2, <3>1, <3>2 DEF Scored
        <3>3. CASE ~ (scores[d] # None /\ scores[d].by = g)
            BY <1>2, <3>1, <3>3 DEF Scored, OtherGraders
        <3> QED BY <3>2, <3>3
    <2> QED BY <2>1, <2>2
<1> QED BY <1>1, <1>2, <1>6, <1>7, <1>8 DEF GradingHolds

(* The steps of prepare and of everybody else, as the graders see them.     *)
LEMMA GradingRests ==
    ASSUME GradingHolds, UNCHANGED <<grader, retention, scores, receipts>>, version' \in 1 .. 2,
           pointer => pointer'
    PROVE  GradingHolds'
BY DEF GradingHolds

LEMMA PrepareStep ==
    ASSUME ChallengeInv, Challenged!ValuesAreApart,
           \/ Challenged!Capture \/ Challenged!Import \/ Challenged!Hold \/ Challenged!Recover
           \/ Challenged!Admit \/ Challenged!Publish \/ Challenged!Retry \/ Challenged!Derive
           \/ Challenged!WriteRun \/ Challenged!WritePointer \/ Challenged!Stop
    PROVE  ChallengeInv'
<1>1. FixtureHolds'
    BY CaptureStep, ImportStep, HoldStep, RecoverStep, AdmitCloseStep, PublishStep, RetryStep, DeriveStep,
       WriteRunStep, WritePointerStep, StopStep DEF ChallengeInv, GradingHolds
<1>2. UNCHANGED <<grader, retention, scores, receipts, version>> /\ (pointer => pointer')
    <2>1. CASE Challenged!Capture
        BY <2>1 DEF Challenged!Capture, Challenged!grading
    <2>2. CASE Challenged!Import
        BY <2>2 DEF Challenged!Import, Challenged!grading
    <2>3. CASE Challenged!Hold
        BY <2>3 DEF Challenged!Hold, Challenged!grading
    <2>4. CASE Challenged!Recover
        BY <2>4 DEF Challenged!Recover, Challenged!grading
    <2>5. CASE Challenged!Admit
        BY <2>5 DEF Challenged!Admit, Challenged!grading
    <2>6. CASE Challenged!Publish
        BY <2>6 DEF Challenged!Publish, Challenged!grading
    <2>7. CASE Challenged!Retry
        BY <2>7 DEF Challenged!Retry, Challenged!grading
    <2>8. CASE Challenged!Derive
        BY <2>8 DEF Challenged!Derive, Challenged!grading
    <2>9. CASE Challenged!WriteRun
        BY <2>9 DEF Challenged!WriteRun, Challenged!grading
    <2>10. CASE Challenged!WritePointer
        BY <2>10 DEF Challenged!WritePointer, Challenged!grading
    <2>11. CASE Challenged!Stop
        BY <2>11 DEF Challenged!Stop, Challenged!grading
    <2> QED BY <2>1, <2>2, <2>3, <2>4, <2>5, <2>6, <2>7, <2>8, <2>9, <2>10, <2>11
<1>3. GradingHolds'
    BY <1>2, GradingRests DEF ChallengeInv, GradingHolds
<1> QED BY <1>1, <1>3 DEF ChallengeInv

(* Nobody grades before challenge.json is there.                            *)
LEMMA LedgeredStep ==
    ASSUME ChallengeInv, Challenged!AppendProof
    PROVE  ChallengeInv'
<1> USE DEF Challenged!AppendProof, Challenged!grading
<1>1. FixtureHolds'
    BY AppendProofStep DEF ChallengeInv
<1>2. ~ pointer
    BY DEF ChallengeInv, FixtureHolds, Pointed, Challenged!Step
<1>3. (\A g \in Graders : grader[g].at = "new") /\ (\A d \in Destinations : scores[d] = None)
    BY <1>2 DEF ChallengeInv, GradingHolds
<1>4. grader \in [Graders -> Gradings(receipts')]
    BY DEF ChallengeInv, GradingHolds, Gradings
<1>5. GradingHolds'
    BY <1>3, <1>4 DEF ChallengeInv, GradingHolds, Grades, Scored
<1> QED BY <1>1, <1>5 DEF ChallengeInv

LEMMA OthersAppendStep ==
    ASSUME ChallengeInv, NEW row \in Strays, Challenged!OthersAppend(row)
    PROVE  ChallengeInv'
<1> USE DEF Challenged!OthersAppend, Challenged!grading, Challenged!fixture
<1>1. source_rows' \in Seq(Content) /\ LongerThan(source_rows', source_rows)
    BY AppendedIsLonger DEF ChallengeInv, FixtureHolds, Prepared, Content
<1>2. FixtureHolds'
    BY <1>1, FixtureStays DEF ChallengeInv
<1>3. GradingHolds'
    BY GradingRests DEF ChallengeInv, GradingHolds
<1> QED BY <1>2, <1>3 DEF ChallengeInv

LEMMA GradeStep ==
    ASSUME ChallengeInv, Challenged!ValuesAreApart, NEW g \in Graders,
           \/ \E answer \in Answers, d \in Destinations : Challenged!BeginGrade(g, answer, d)
           \/ Challenged!Verify(g) \/ Challenged!ReadRetained(g) \/ Challenged!MakeDestination(g)
           \/ Challenged!WriteCard(g) \/ Challenged!DieGrading(g)
           \/ \E elapsed \in 1 .. 2 : Challenged!Retain(g, elapsed)
    PROVE  ChallengeInv'
<1>1. CASE \E elapsed \in 1 .. 2 : Challenged!Retain(g, elapsed)
    <2>1. GradingHolds' /\ receipts \subseteq receipts'
        BY <1>1, RetainStep DEF ChallengeInv
    <2>2. UNCHANGED <<source_rows, prep, published, proof, pointer>>
        BY <1>1 DEF Challenged!Retain, Challenged!fixture
    <2> QED BY <2>1, <2>2, FixtureRests DEF ChallengeInv
<1>2. CASE \/ \E answer \in Answers, d \in Destinations : Challenged!BeginGrade(g, answer, d)
           \/ Challenged!Verify(g) \/ Challenged!ReadRetained(g) \/ Challenged!MakeDestination(g)
           \/ Challenged!WriteCard(g) \/ Challenged!DieGrading(g)
    <2>1. GradingHolds'
        BY <1>2, BeginGradeStep, VerifyStep, ReadRetainedStep, MakeDestinationStep, WriteCardStep, DieGradingStep
           DEF ChallengeInv
    <2>2. UNCHANGED <<source_rows, prep, published, proof, pointer, receipts>>
        BY <1>2 DEF Challenged!BeginGrade, Challenged!Verify, Challenged!ReadRetained, Challenged!MakeDestination,
                    Challenged!WriteCard, Challenged!DieGrading, Challenged!fixture
    <2> QED BY <2>1, <2>2, FixtureRests DEF ChallengeInv
<1> QED BY <1>1, <1>2

LEMMA ChallengeStep ==
    ASSUME ChallengeInv, Challenged!ValuesAreApart, Challenged!Next \/ UNCHANGED Challenged!vars
    PROVE  ChallengeInv'
<1>1. CASE Challenged!Edit
    <2>1. FixtureHolds'
        BY <1>1, FixtureRests DEF ChallengeInv, Challenged!Edit, Challenged!fixture
    <2>2. GradingHolds'
        BY <1>1, GradingRests DEF ChallengeInv, Challenged!Edit, Challenged!fixture, Challenged!grading
    <2> QED BY <2>1, <2>2 DEF ChallengeInv
<1>2. CASE UNCHANGED Challenged!vars
    <2>1. FixtureHolds'
        BY <1>2, FixtureRests DEF ChallengeInv, Challenged!vars
    <2>2. GradingHolds'
        BY <1>2, GradingRests DEF ChallengeInv, Challenged!vars, GradingHolds
    <2> QED BY <2>1, <2>2 DEF ChallengeInv
<1>3. ASSUME NEW g \in Graders,
             \/ \E answer \in Answers, d \in Destinations : Challenged!BeginGrade(g, answer, d)
             \/ Challenged!Verify(g) \/ Challenged!ReadRetained(g) \/ Challenged!MakeDestination(g)
             \/ Challenged!WriteCard(g) \/ Challenged!DieGrading(g)
             \/ \E elapsed \in 1 .. 2 : Challenged!Retain(g, elapsed)
      PROVE  ChallengeInv'
    BY <1>3, GradeStep
<1>4. CASE \E row \in Strays : Challenged!OthersAppend(row)
    BY <1>4, OthersAppendStep
<1> QED BY <1>1, <1>2, <1>3, <1>4, PrepareStep, LedgeredStep DEF Challenged!Next

(* The closes of a fixture that verifies.                                   *)
LEMMA SettledWhenVerified ==
    ASSUME FixtureHolds, Challenged!Verifies
    PROVE  /\ Challenged!CloseAnswers("failed") = "held"
           /\ Challenged!CloseAnswers("recovered") = "already_published"
           /\ Challenged!CloseAnswers("recovery") # "to be published"
           /\ Challenged!Ingested(source_rows) = source_rows
<1>1. /\ pointer /\ DerivesFrom(source_rows, published, proof.failed, proof.recovered)
      /\ Kept(source_rows, published, proof.failed, proof.recovered)
    BY DEF FixtureHolds, Pointed, Kept, Challenged!Verifies, Challenged!Loads
<1>2. published # None
    BY <1>1 DEF Kept
<1>3. Challenged!CloseAnswers("failed") = "held"
    BY <1>1 DEF DerivesFrom, Challenged!CloseAnswers, Challenged!Publication
<1>4. Challenged!CloseAnswers("recovered") = "already_published"
    BY <1>1, <1>2 DEF DerivesFrom, Challenged!CloseAnswers, Challenged!Publication
<1>5. Challenged!CloseAnswers("recovery") # "to be published"
    BY <1>2 DEF Challenged!CloseAnswers, Challenged!Publication
<1>6. Challenged!Ingested(source_rows) = source_rows
    <2>1. PICK w : w = proof.recovered.watermark
        OBVIOUS
    <2>2. Source = {r \in Challenged!Seen(source_rows, w) : r.inside} /\ w \in 0 .. Len(source_rows)
        BY <1>1, <2>1 DEF DerivesFrom, Kept, Decided, Challenged!Gate, Challenged!Reconciles
    <2>3. source_rows \in Seq(Content)
        BY DEF FixtureHolds, Prepared
    <2>4. Challenged!Seen(source_rows, w) \subseteq Challenged!ToSet(source_rows)
        BY <2>2, <2>3 DEF Challenged!Seen, Challenged!Positions, Challenged!ToSet
    <2>5. Source \ Challenged!ToSet(source_rows) = {}
        BY <2>2, <2>4
    <2>6. Challenged!Ingested(source_rows) = source_rows \o << >>
        BY <2>5, NothingToIngest DEF Challenged!Ingested
    <2> QED BY <2>3, <2>6
<1> QED BY <1>3, <1>4, <1>5, <1>6

LEMMA ChallengeInvSuffices == ASSUME ChallengeInv PROVE ChallengeHolds
<1>1. Challenged!PublishedIsReconciled
    BY DEF ChallengeInv, FixtureHolds
<1>2. Challenged!PreparedStays
    BY DEF ChallengeInv, FixtureHolds, Pointed, Kept, DerivesFrom, Challenged!PreparedStays, Challenged!Verifies,
           Challenged!Loads, Challenged!Proof, Challenged!Derives
<1>3. Challenged!ClosesAreSettled
    BY SettledWhenVerified DEF ChallengeInv, Challenged!ClosesAreSettled
<1>4. Challenged!ScoresAreRetained
    <2>1. \A g \in Graders : grader[g].at # "refused"
        BY DEF ChallengeInv, GradingHolds, Gradings, Passes
    <2>2. ASSUME NEW d \in Destinations, scores[d] # None, scores[d].card # None
          PROVE  /\ {Challenged!Proof, scores[d].card.score, scores[d].card.timing} \subseteq receipts
                 /\ grader[scores[d].by].to = d
                 /\ scores[d].card.score = Challenged!ScoreReceipt(grader[scores[d].by].answer)
        <3>1. Scored(d, scores[d], grader, receipts)
            BY DEF ChallengeInv, GradingHolds
        <3>2. Challenged!Proof \in receipts
            <4>1. pointer
                BY <2>2 DEF ChallengeInv, GradingHolds
            <4> QED BY <4>1 DEF ChallengeInv, FixtureHolds, Pointed, Challenged!Proof
        <3> QED BY <2>2, <3>1, <3>2 DEF Scored
    <2> QED BY <2>1, <2>2 DEF Challenged!ScoresAreRetained
<1> QED BY <1>1, <1>2, <1>3, <1>4 DEF ChallengeHolds, Challenged!ChallengeHolds

(* Whatever others append, edit or interrupt: accounts are published of the *)
(* rows that the gate let through, a prepared fixture replays for good and  *)
(* its closes are settled, and graders do not refuse one another            *)
(* (challenge/close.py, engine.py, grade.py).                               *)
THEOREM ChallengeAlwaysHolds == Challenged!Spec => []ChallengeHolds
<1>1. Challenged!Init => ChallengeInv
    <2> SUFFICES ASSUME Challenged!Init PROVE ChallengeInv
        OBVIOUS
    <2>1. grader \in [Graders -> Gradings(receipts)] /\ \A g \in Graders : grader[g].at = "new"
        BY DEF Challenged!Init, Gradings, Passes, Challenged!Grading
    <2>2. GradingHolds
        BY <2>1 DEF Challenged!Init, GradingHolds, Grades, Scored
    <2> QED BY <2>2, ChallengeInitHolds DEF ChallengeInv
<1>2. ChallengeInv /\ [Challenged!Next]_Challenged!vars => ChallengeInv'
    BY ChallengeAssumption, ChallengeStep
<1>3. ChallengeInv => ChallengeHolds
    BY ChallengeInvSuffices
<1> QED BY <1>1, <1>2, <1>3, PTL DEF Challenged!Spec

-----------------------------------------------------------------------------
(* The denial probes (DenialProbes, as Denials), for any roles, forbidden   *)
(* actions and ceilings.                                                    *)
Area == Len(Roles) * Len(Actions)
RoleSet == Denials!ToSet(Roles)
ActionSet == Denials!ToSet(Actions)

LEMMA NamedOnceMeans ==
    ASSUME Denials!NamedOnce
    PROVE  /\ Roles \in Seq(RoleSet) /\ Actions \in Seq(ActionSet)
           /\ \A i, j \in 1 .. Len(Roles) : Roles[i] = Roles[j] => i = j
           /\ \A i, j \in 1 .. Len(Actions) : Actions[i] = Actions[j] => i = j
           /\ RoleSet = {Roles[i] : i \in 1 .. Len(Roles)} /\ ActionSet = {Actions[i] : i \in 1 .. Len(Actions)}
           /\ "copy_overwrite" \in ActionSet
           /\ Len(Roles) \in Nat /\ Len(Actions) \in Nat /\ Len(Actions) > 0 /\ Area \in Nat
<1>1. Roles \in Seq(RoleSet) /\ Actions \in Seq(ActionSet) /\ "copy_overwrite" \in ActionSet
    BY DEF Denials!NamedOnce, RoleSet, ActionSet
<1>2. DOMAIN Roles = 1 .. Len(Roles) /\ DOMAIN Actions = 1 .. Len(Actions)
    BY <1>1
<1>3. Len(Roles) \in Nat /\ Len(Actions) \in Nat
    BY <1>1
<1>4. Area \in Nat
    BY <1>3 DEF Area
<1>5. /\ \A i, j \in 1 .. Len(Roles) : Roles[i] = Roles[j] => i = j
      /\ \A i, j \in 1 .. Len(Actions) : Actions[i] = Actions[j] => i = j
    BY <1>2 DEF Denials!NamedOnce, Denials!IsInjective
<1>6. RoleSet = {Roles[i] : i \in 1 .. Len(Roles)} /\ ActionSet = {Actions[i] : i \in 1 .. Len(Actions)}
    BY <1>2 DEF RoleSet, ActionSet, Denials!ToSet
<1>7. Len(Actions) > 0
    BY <1>1, <1>3, <1>6
<1> QED BY <1>1, <1>3, <1>4, <1>5, <1>6, <1>7

(* Quotients and remainders of places in the matrix.                        *)
LEMMA PlacesSplit ==
    ASSUME NEW h \in Nat, NEW w \in Nat, w > 0, NEW i \in 1 .. h * w
    PROVE  /\ (i - 1) \div w \in 0 .. h - 1 /\ (i - 1) % w \in 0 .. w - 1
           /\ i - 1 = w * ((i - 1) \div w) + ((i - 1) % w)
<1> DEFINE q == (i - 1) \div w
           r == (i - 1) % w
<1>1. q \in Int /\ r \in 0 .. w - 1 /\ i - 1 = w * q + r
    OBVIOUS
<1>2. q >= 0
    BY <1>1
<1>3. q <= h - 1
    BY <1>1
<1> QED BY <1>1, <1>2, <1>3

LEMMA PlaceOf ==
    ASSUME NEW h \in Nat, NEW w \in Nat, w > 0, NEW x \in 0 .. h - 1, NEW y \in 0 .. w - 1
    PROVE  /\ w * x + y + 1 \in 1 .. h * w
           /\ (w * x + y) \div w = x /\ (w * x + y) % w = y
OBVIOUS

(* The matrix names every pair of a role and an action once.                *)
LEMMA MatrixIsAll ==
    ASSUME Denials!NamedOnce
    PROVE  /\ Denials!Matrix \in Seq([role : RoleSet, action : ActionSet]) /\ Len(Denials!Matrix) = Area
           /\ DOMAIN Denials!Matrix = 1 .. Area
           /\ \A i \in 1 .. Area : Denials!Matrix[i] \in [role : RoleSet, action : ActionSet]
           /\ \A i, j \in 1 .. Area : Denials!Matrix[i] = Denials!Matrix[j] => i = j
           /\ \A r \in RoleSet, a \in ActionSet :
                \E i \in 1 .. Area : Denials!Matrix[i] = [role |-> r, action |-> a]
<1> DEFINE h == Len(Roles)
           w == Len(Actions)
           RowAt(i) == ((i - 1) \div w) + 1
           ColumnAt(i) == ((i - 1) % w) + 1
<1>1. h \in Nat /\ w \in Nat /\ w > 0 /\ Area = h * w /\ Area \in Nat
    BY NamedOnceMeans DEF Area
<1>2. \A i \in 1 .. Area : /\ RowAt(i) \in 1 .. h /\ ColumnAt(i) \in 1 .. w
                           /\ i - 1 = w * (RowAt(i) - 1) + (ColumnAt(i) - 1)
    <2> SUFFICES ASSUME NEW i \in 1 .. Area
                 PROVE  /\ RowAt(i) \in 1 .. h /\ ColumnAt(i) \in 1 .. w
                        /\ i - 1 = w * (RowAt(i) - 1) + (ColumnAt(i) - 1)
        OBVIOUS
    <2>1. /\ (i - 1) \div w \in 0 .. h - 1 /\ (i - 1) % w \in 0 .. w - 1
          /\ i - 1 = w * ((i - 1) \div w) + ((i - 1) % w)
        BY <1>1, PlacesSplit
    <2> HIDE DEF h, w
    <2>2. PICK q : q = (i - 1) \div w
        OBVIOUS
    <2>3. PICK r : r = (i - 1) % w
        OBVIOUS
    <2>4. q \in 0 .. h - 1 /\ r \in 0 .. w - 1 /\ i - 1 = w * q + r
        BY <2>1, <2>2, <2>3
    <2>5. RowAt(i) = q + 1 /\ ColumnAt(i) = r + 1
        BY <2>2, <2>3
    <2> HIDE DEF RowAt, ColumnAt
    <2>6. RowAt(i) - 1 = q /\ ColumnAt(i) - 1 = r
        BY <2>4, <2>5
    <2>7. q + 1 \in 1 .. h /\ r + 1 \in 1 .. w
        BY <1>1, <2>4
    <2> QED BY <2>4, <2>5, <2>6, <2>7
<1> HIDE DEF RowAt, ColumnAt
<1>3. Denials!Matrix = [i \in 1 .. Area |-> [role |-> Roles[RowAt(i)], action |-> Actions[ColumnAt(i)]]]
    BY DEF Denials!Matrix, RowAt, ColumnAt, Area
<1>4. \A i \in 1 .. Area : Roles[RowAt(i)] \in RoleSet /\ Actions[ColumnAt(i)] \in ActionSet
    BY <1>2, NamedOnceMeans
<1>5. /\ Denials!Matrix \in Seq([role : RoleSet, action : ActionSet])
      /\ Len(Denials!Matrix) = Area /\ DOMAIN Denials!Matrix = 1 .. Area
      /\ \A i \in 1 .. Area : Denials!Matrix[i] \in [role : RoleSet, action : ActionSet]
    BY <1>1, <1>3, <1>4
<1>6. ASSUME NEW i \in 1 .. Area, NEW j \in 1 .. Area, Denials!Matrix[i] = Denials!Matrix[j]
      PROVE  i = j
    <2>1. Roles[RowAt(i)] = Roles[RowAt(j)] /\ Actions[ColumnAt(i)] = Actions[ColumnAt(j)]
        BY <1>3, <1>6
    <2>2. RowAt(i) = RowAt(j) /\ ColumnAt(i) = ColumnAt(j)
        BY <1>2, <2>1, NamedOnceMeans
    <2>3. i - 1 = j - 1
        BY <1>2, <2>2
    <2> QED BY <2>3
<1>7. ASSUME NEW r \in RoleSet, NEW a \in ActionSet
      PROVE  \E i \in 1 .. Area : Denials!Matrix[i] = [role |-> r, action |-> a]
    <2>1. PICK x \in 1 .. h : r = Roles[x]
        BY NamedOnceMeans
    <2>2. PICK y \in 1 .. w : a = Actions[y]
        BY NamedOnceMeans
    <2> HIDE DEF h, w
    <2>3. PICK u \in 0 .. h - 1 : u = x - 1
        BY <1>1
    <2>4. PICK v \in 0 .. w - 1 : v = y - 1
        BY <1>1
    <2>5. PICK i : i = w * u + v + 1
        OBVIOUS
    <2>6. i \in 1 .. Area /\ (i - 1) \div w = u /\ (i - 1) % w = v
        <3>1. w * u \in Nat /\ i - 1 = w * u + v
            BY <1>1, <2>5
        <3> QED BY <1>1, <2>5, <3>1, PlaceOf
    <2>7. RowAt(i) = x /\ ColumnAt(i) = y
        BY <2>3, <2>4, <2>6 DEF RowAt, ColumnAt
    <2> QED BY <1>3, <2>1, <2>2, <2>6, <2>7
<1> QED BY <1>5, <1>6, <1>7

(* A run that probes, and what its result may say.                          *)
Refusing == {"iam_denied", "structural_rejection"}
Replies == Refusing \cup {"unexpected_success", "oauth_scope_denied", "error"}
Verdicts == Replies \cup {"not_run", "source_changed_or_unreadable"}
ProbeCases == [role : RoleSet, action : ActionSet, status : Verdicts, unchanged : BOOLEAN]
Results == [status : {"failed", "incomplete", "refusals_observed"}, cases : Seq(ProbeCases), partial : BOOLEAN]
Finished == {"returned", "writing", "sealing", "manifested", "ledgered", "over"}
Sealing == Finished \ {"returned"}
ProbeRuns == [at : {"new", "pinning", "probing", "attempting", "attempted"} \cup Finished,
              frozen : 1 .. 2 \cup {None}, bound : SUBSET RoleSet, copy : BOOLEAN,
              reserved : Int, asked : Int, description : 0 .. 1, stopped : BOOLEAN,
              answer : Replies \cup {None}, cases : Seq(ProbeCases), events : Seq(ProbeCases),
              result : Results \cup {None}, evidence : {None, "sealed", "incomplete"}]
Tables == [{"incarnation", "rows", "description"} -> 0 .. 1]

Runnable(r, i) ==
    /\ Denials!Matrix[i].role \in r.bound
    /\ Denials!Matrix[i].action = "copy_overwrite" => r.copy

(* The cases are the matrix so far, and what was run could be run.          *)
Follows(r) ==
    /\ Len(r.cases) <= Area
    /\ r.at \in {"new", "pinning"} => r.cases = << >>
    /\ r.at \in {"probing", "attempting", "attempted"} => r.bound # {}
    /\ \A i \in 1 .. Len(r.cases) :
          /\ r.cases[i].role = Denials!Matrix[i].role /\ r.cases[i].action = Denials!Matrix[i].action
          /\ r.cases[i].status # "not_run" => Runnable(r, i)
    /\ r.at \in {"attempting", "attempted"} => Len(r.cases) < Area /\ Runnable(r, Len(r.cases) + 1)

(* An attempt that was permitted shows in a case, or will.                  *)
Shows(cases) == \E i \in 1 .. Len(cases) : cases[i].status \notin Refusing
Tells(r, permitted) ==
    /\ r.at = "attempted" => r.answer \in Replies
    /\ (permitted /\ r.at \notin Finished) =>
          Shows(r.cases) \/ (r.at = "attempted" /\ r.answer \notin Refusing)

WholeMatrix(cases) == [i \in DOMAIN cases |-> [role |-> cases[i].role, action |-> cases[i].action]] = Denials!Matrix
Truthful(r, permitted) ==
    r.at \in Finished =>
        /\ r.result \in Results
        /\ r.result.status = "refusals_observed" =>
              /\ ~ permitted /\ r.bound = RoleSet /\ r.copy
              /\ WholeMatrix(r.result.cases)

SealedAsSeen(r, fs, led) ==
    /\ DOMAIN fs = Denials!Names
    /\ fs["after"] # None => r.at \in Sealing /\ r.result.status = "failed"
    /\ r.at \notin {"ledgered", "over"} => led = {}
    /\ \A key \in led : key.report = r.result /\ key.execution = r.frozen

(* After an effect the source shows it, and the run goes no further.        *)
Unharmed(r, n, t) ==
    /\ n \in Nat
    /\ r.at \in {"new", "pinning"} => n = 0
    /\ (r.description = 0 /\ n # 0) =>
          /\ n = 1 /\ \E f \in DOMAIN t : t[f] = 1
          /\ r.at \in {"attempted"} \cup Finished \/ (r.stopped /\ r.at = "probing")

DenialsInv ==
    /\ table \in Tables /\ run \in ProbeRuns /\ revision \in 1 .. 2 /\ allowed \in BOOLEAN
    /\ run.at = "attempting" => ~ run.stopped
    /\ Follows(run) /\ Tells(run, allowed) /\ Truthful(run, allowed)
    /\ SealedAsSeen(run, files, ledger) /\ Unharmed(run, effects, table)

LEMMA DenialsInit == ASSUME Denials!NamedOnce, Denials!Init PROVE DenialsInv
<1> USE DEF Denials!Init, Denials!Pinned
<1>1. Area \in Nat
    BY NamedOnceMeans
<1>2. table \in Tables
    BY DEF Tables
<1>3. run \in ProbeRuns
    BY DEF ProbeRuns
<1>4. Follows(run) /\ Tells(run, allowed) /\ Truthful(run, allowed)
    BY <1>1 DEF Follows, Tells, Truthful, Finished
<1>5. SealedAsSeen(run, files, ledger)
    BY DEF SealedAsSeen, Denials!Names, Denials!Evidence
<1>6. Unharmed(run, effects, table)
    BY DEF Unharmed
<1>7. revision \in 1 .. 2 /\ run.at = "new"
    OBVIOUS
<1>8. allowed \in BOOLEAN
    OBVIOUS
<1> HIDE DEF Denials!Init, Denials!Pinned
<1> QED BY <1>2, <1>3, <1>4, <1>5, <1>6, <1>7, <1>8 DEF DenialsInv

LEMMA BeginStep ==
    ASSUME DenialsInv, Denials!Begin
    PROVE  DenialsInv'
<1> USE DEF Denials!Begin
<1>1. run' \in ProbeRuns
    BY DEF DenialsInv, ProbeRuns
<1>2. /\ run'.at = "pinning" /\ run'.cases = run.cases /\ run'.bound = run.bound /\ run'.copy = run.copy
      /\ run'.description = run.description
    BY DEF DenialsInv, ProbeRuns
<1>3. Follows(run') /\ Tells(run', allowed) /\ Truthful(run', allowed)
    BY <1>2 DEF DenialsInv, Follows, Tells, Truthful, Finished, Runnable
<1>4. SealedAsSeen(run', files', ledger)
    <2>1. DOMAIN files' = Denials!Names /\ files'["after"] = files["after"]
        BY DEF DenialsInv, SealedAsSeen
    <2>2. run.at = "new" 
        OBVIOUS
    <2> QED BY <1>2, <2>1, <2>2 DEF DenialsInv, SealedAsSeen, Sealing, Finished
<1>5. Unharmed(run', effects, table)
    BY <1>2 DEF DenialsInv, Unharmed
<1> QED BY <1>1, <1>2, <1>3, <1>4, <1>5 DEF DenialsInv

LEMMA PinStep ==
    ASSUME DenialsInv, NEW bound \in SUBSET RoleSet, NEW copy \in BOOLEAN, NEW ceiling,
           Denials!Pin(bound, copy, ceiling), Denials!Reserved(bound, copy) \in Int
    PROVE  DenialsInv'
<1>1. PICK n \in Int : n = Denials!Reserved(bound, copy)
    OBVIOUS
<1>2. PICK d \in 0 .. 1 : d = table.description
    BY DEF DenialsInv, Tables
<1>3. /\ run.at = "pinning"
      /\ run' = [run EXCEPT !.at = "probing", !.bound = bound, !.copy = copy,
                            !.reserved = n, !.asked = 1, !.description = d]
      /\ bound # {}
      /\ UNCHANGED <<table, revision, effects, allowed, files, ledger, tampered>>
    BY <1>1, <1>2 DEF Denials!Pin
<1>4. run' \in ProbeRuns
    <2>1. PICK r : r = [run EXCEPT !.at = "probing", !.bound = bound, !.copy = copy]
        OBVIOUS
    <2>2. r \in ProbeRuns
        BY <2>1 DEF DenialsInv, ProbeRuns
    <2>3. PICK s : s = [r EXCEPT !.reserved = n]
        OBVIOUS
    <2>4. s \in ProbeRuns
        BY <2>2, <2>3 DEF ProbeRuns
    <2>5. PICK u : u = [s EXCEPT !.asked = 1]
        OBVIOUS
    <2>6. u \in ProbeRuns
        <3>1. 1 \in Int
            OBVIOUS
        <3> QED BY <2>4, <2>5, <3>1 DEF ProbeRuns
    <2>7. run' = [u EXCEPT !.description = d]
        BY <1>3, <2>1, <2>3, <2>5
    <2> QED BY <2>6, <2>7 DEF ProbeRuns
<1>5. run'.at = "probing" /\ run'.cases = run.cases /\ run'.bound = bound
    BY <1>3 DEF DenialsInv, ProbeRuns
<1>6. run.cases = << >>
    BY <1>3 DEF DenialsInv, Follows
<1>7. Follows(run') /\ Tells(run', allowed) /\ Truthful(run', allowed)
    BY <1>3, <1>5, <1>6 DEF DenialsInv, Follows, Tells, Truthful, Finished, Shows
<1>8. SealedAsSeen(run', files, ledger)
    BY <1>3, <1>5 DEF DenialsInv, SealedAsSeen, Sealing, Finished
<1>9. Unharmed(run', effects, table)
    BY <1>3, <1>5 DEF DenialsInv, Unharmed
<1> QED BY <1>3, <1>4, <1>5, <1>7, <1>8, <1>9 DEF DenialsInv

LEMMA InterruptProbesStep ==
    ASSUME DenialsInv, Denials!Interrupt
    PROVE  DenialsInv'
<1>1. PICK r \in Results : r = Denials!Partial(run) /\ r.status = "failed"
    <2>1. run.events \in Seq(ProbeCases)
        BY DEF DenialsInv, ProbeRuns
    <2>2. Denials!Partial(run) \in Results /\ Denials!Partial(run).status = "failed"
        BY <2>1 DEF Denials!Partial, Results
    <2> QED BY <2>2
<1>2. /\ run.at \in {"pinning", "attempting", "attempted"}
      /\ run' = [run EXCEPT !.at = "returned", !.result = r]
      /\ UNCHANGED <<table, revision, effects, allowed, files, ledger, tampered>>
    BY <1>1 DEF Denials!Interrupt
<1>3. run' \in ProbeRuns
    BY <1>2 DEF DenialsInv, ProbeRuns, Finished
<1>4. /\ run'.at = "returned" /\ run'.result = r /\ run'.cases = run.cases /\ run'.bound = run.bound
      /\ run'.copy = run.copy /\ run'.description = run.description /\ run'.frozen = run.frozen
    BY <1>2 DEF DenialsInv, ProbeRuns
<1>5. Follows(run') /\ Tells(run', allowed) /\ Truthful(run', allowed)
    BY <1>1, <1>4 DEF DenialsInv, Follows, Tells, Truthful, Finished, Runnable
<1>6. SealedAsSeen(run', files, ledger)
    BY <1>2, <1>4 DEF DenialsInv, SealedAsSeen, Sealing, Finished
<1>7. Unharmed(run', effects, table)
    BY <1>2, <1>4 DEF DenialsInv, Unharmed, Finished
<1> QED BY <1>2, <1>3, <1>4, <1>5, <1>6, <1>7 DEF DenialsInv

(* A case that is added.                                                    *)
LEMMA CasesGrow ==
    ASSUME NEW cs \in Seq(ProbeCases), NEW c \in ProbeCases
    PROVE  /\ Append(cs, c) \in Seq(ProbeCases) /\ Len(Append(cs, c)) = Len(cs) + 1
           /\ Append(cs, c)[Len(cs) + 1] = c
           /\ \A i \in 1 .. Len(cs) : Append(cs, c)[i] = cs[i]
OBVIOUS

LEMMA CurrentCase ==
    ASSUME Denials!NamedOnce, DenialsInv, Len(run.cases) < Area, NEW status \in Verdicts, NEW unchanged \in BOOLEAN
    PROVE  /\ Denials!Cased(status, unchanged) \in ProbeCases
           /\ Denials!Cased(status, unchanged).role = Denials!Matrix[Len(run.cases) + 1].role
           /\ Denials!Cased(status, unchanged).action = Denials!Matrix[Len(run.cases) + 1].action
           /\ Denials!Cased(status, unchanged).status = status
           /\ Denials!Current = Denials!Matrix[Len(run.cases) + 1]
<1>1. run.cases \in Seq(ProbeCases)
    BY DEF DenialsInv, ProbeRuns
<1>2. Len(run.cases) + 1 \in 1 .. Area
    BY <1>1, NamedOnceMeans
<1>3. Denials!Matrix[Len(run.cases) + 1] \in [role : RoleSet, action : ActionSet]
    BY <1>2, MatrixIsAll
<1> QED BY <1>3 DEF Denials!Cased, Denials!Current, ProbeCases

LEMMA CaseStep ==
    ASSUME Denials!NamedOnce, DenialsInv, NEW c \in ProbeCases, Len(run.cases) < Area,
           run.at \in {"probing", "attempted"}, run' \in ProbeRuns,
           run'.at = "probing", run'.cases = Append(run.cases, c), run'.bound = run.bound, run'.copy = run.copy,
           c.role = Denials!Matrix[Len(run.cases) + 1].role, c.action = Denials!Matrix[Len(run.cases) + 1].action,
           c.status # "not_run" => Runnable(run, Len(run.cases) + 1),
           run.at = "attempted" => c.status = run.answer
    PROVE  Follows(run') /\ Tells(run', allowed) /\ Truthful(run', allowed)
<1>1. run.cases \in Seq(ProbeCases) /\ Len(run.cases) \in Nat /\ Area \in Nat
    BY NamedOnceMeans DEF DenialsInv, ProbeRuns
<1>2. /\ Len(run'.cases) = Len(run.cases) + 1 /\ run'.cases[Len(run.cases) + 1] = c
      /\ \A i \in 1 .. Len(run.cases) : run'.cases[i] = run.cases[i]
    BY <1>1, CasesGrow
<1>3. \A i : Runnable(run', i) <=> Runnable(run, i)
    BY DEF Runnable
<1>4. Follows(run')
    <2>1. Len(run'.cases) <= Area
        BY <1>1, <1>2
    <2>2. ASSUME NEW i \in 1 .. Len(run'.cases)
          PROVE  /\ run'.cases[i].role = Denials!Matrix[i].role /\ run'.cases[i].action = Denials!Matrix[i].action
                 /\ run'.cases[i].status # "not_run" => Runnable(run', i)
        <3>1. CASE i = Len(run.cases) + 1
            BY <1>2, <1>3, <3>1
        <3>2. CASE i \in 1 .. Len(run.cases)
            BY <1>2, <1>3, <3>2 DEF DenialsInv, Follows
        <3> QED BY <1>1, <1>2, <3>1, <3>2
    <2> QED BY <2>1, <2>2 DEF DenialsInv, Follows
<1>5. allowed => Shows(run'.cases)
    <2> SUFFICES ASSUME allowed PROVE Shows(run'.cases)
        OBVIOUS
    <2>1. Shows(run.cases) \/ (run.at = "attempted" /\ run.answer \notin Refusing)
        BY DEF DenialsInv, Tells, Finished
    <2>2. CASE Shows(run.cases)
        <3>1. PICK i \in 1 .. Len(run.cases) : run.cases[i].status \notin Refusing
            BY <2>2 DEF Shows
        <3>2. i \in 1 .. Len(run'.cases) /\ run'.cases[i].status \notin Refusing
            BY <1>1, <1>2, <3>1
        <3> QED BY <3>2 DEF Shows
    <2>3. CASE run.at = "attempted" /\ run.answer \notin Refusing
        <3>1. Len(run.cases) + 1 \in 1 .. Len(run'.cases) /\ run'.cases[Len(run.cases) + 1].status \notin Refusing
            BY <1>1, <1>2, <2>3
        <3> QED BY <3>1 DEF Shows
    <2> QED BY <2>1, <2>2, <2>3
<1>6. Tells(run', allowed) /\ Truthful(run', allowed)
    BY <1>5 DEF Tells, Truthful, Finished
<1> QED BY <1>4, <1>6

LEMMA SkipStep ==
    ASSUME Denials!NamedOnce, DenialsInv, Denials!Skip
    PROVE  DenialsInv'
<1>1. run.at = "probing" /\ Len(run.cases) < Area
    BY MatrixIsAll DEF Denials!Skip, Denials!HasCase
<1>2. PICK c \in ProbeCases : c = Denials!Cased("not_run", FALSE)
    BY <1>1, CurrentCase DEF Verdicts
<1>3. c.status = "not_run" /\ c.role = Denials!Matrix[Len(run.cases) + 1].role
      /\ c.action = Denials!Matrix[Len(run.cases) + 1].action
    BY <1>1, <1>2, CurrentCase DEF Verdicts
<1>4. /\ run' = [run EXCEPT !.cases = Append(run.cases, c)]
      /\ UNCHANGED <<table, revision, effects, allowed, files, ledger, tampered>>
    BY <1>2 DEF Denials!Skip
<1>5. Append(run.cases, c) \in Seq(ProbeCases)
    BY CasesGrow DEF DenialsInv, ProbeRuns
<1>6. run' \in ProbeRuns
    BY <1>4, <1>5 DEF DenialsInv, ProbeRuns
<1>7. /\ run'.at = "probing" /\ run'.cases = Append(run.cases, c) /\ run'.bound = run.bound /\ run'.copy = run.copy
      /\ run'.description = run.description /\ run'.frozen = run.frozen /\ run'.result = run.result
      /\ run'.stopped = run.stopped
    BY <1>1, <1>4 DEF DenialsInv, ProbeRuns
<1>8. Follows(run') /\ Tells(run', allowed) /\ Truthful(run', allowed)
    BY <1>1, <1>3, <1>6, <1>7, CaseStep
<1>9. SealedAsSeen(run', files, ledger)
    BY <1>1, <1>7 DEF DenialsInv, SealedAsSeen
<1>10. Unharmed(run', effects, table)
    BY <1>1, <1>7 DEF DenialsInv, Unharmed
<1> QED BY <1>4, <1>6, <1>7, <1>8, <1>9, <1>10 DEF DenialsInv

LEMMA MissBeforeStep ==
    ASSUME Denials!NamedOnce, DenialsInv, Denials!MissBefore
    PROVE  DenialsInv'
<1>1. /\ run.at = "probing" /\ Len(run.cases) < Area
      /\ ~ Denials!CannotRun
    BY MatrixIsAll DEF Denials!MissBefore, Denials!HasCase
<1>2. PICK c \in ProbeCases : c = Denials!Cased("source_changed_or_unreadable", FALSE)
    BY <1>1, CurrentCase DEF Verdicts
<1>3. c.role = Denials!Matrix[Len(run.cases) + 1].role /\ c.action = Denials!Matrix[Len(run.cases) + 1].action
      /\ Denials!Current = Denials!Matrix[Len(run.cases) + 1]
    BY <1>1, <1>2, CurrentCase DEF Verdicts
<1>4. PICK n \in Int : n = run.asked + Denials!AskedBySnapshot
    BY DEF DenialsInv, ProbeRuns, Denials!AskedBySnapshot
<1>5. /\ run' = [run EXCEPT !.cases = Append(run.cases, c), !.stopped = TRUE, !.asked = n]
      /\ UNCHANGED <<table, revision, effects, allowed, files, ledger, tampered>>
    BY <1>2, <1>4 DEF Denials!MissBefore
<1>6. run' \in ProbeRuns
    <2>1. Append(run.cases, c) \in Seq(ProbeCases)
        BY CasesGrow DEF DenialsInv, ProbeRuns
    <2> QED BY <1>5, <2>1 DEF DenialsInv, ProbeRuns
<1>7. /\ run'.at = "probing" /\ run'.cases = Append(run.cases, c) /\ run'.bound = run.bound /\ run'.copy = run.copy
      /\ run'.description = run.description /\ run'.frozen = run.frozen /\ run'.result = run.result
      /\ run'.stopped
    BY <1>1, <1>5 DEF DenialsInv, ProbeRuns
<1>8. Runnable(run, Len(run.cases) + 1)
    BY <1>1, <1>3 DEF Runnable, Denials!CannotRun
<1>9. Follows(run') /\ Tells(run', allowed) /\ Truthful(run', allowed)
    BY <1>1, <1>3, <1>6, <1>7, <1>8, CaseStep
<1>10. SealedAsSeen(run', files, ledger)
    BY <1>1, <1>7 DEF DenialsInv, SealedAsSeen
<1>11. Unharmed(run', effects, table)
    BY <1>1, <1>7 DEF DenialsInv, Unharmed
<1> QED BY <1>5, <1>6, <1>7, <1>9, <1>10, <1>11 DEF DenialsInv

LEMMA LookBeforeStep ==
    ASSUME Denials!NamedOnce, DenialsInv, Denials!LookBefore
    PROVE  DenialsInv'
<1>1. /\ run.at = "probing" /\ Len(run.cases) < Area
      /\ ~ Denials!CannotRun
    BY MatrixIsAll DEF Denials!LookBefore, Denials!HasCase
<1>2. Denials!Current = Denials!Matrix[Len(run.cases) + 1]
    BY DEF Denials!Current
<1>3. PICK n \in Int : n = run.asked + 1
    BY DEF DenialsInv, ProbeRuns
<1>4. /\ run' = [run EXCEPT !.at = "attempting", !.asked = n]
      /\ UNCHANGED <<table, revision, effects, allowed, files, ledger, tampered>>
    BY <1>3 DEF Denials!LookBefore
<1>5. run' \in ProbeRuns
    BY <1>4 DEF DenialsInv, ProbeRuns
<1>6. /\ run'.at = "attempting" /\ run'.cases = run.cases /\ run'.bound = run.bound /\ run'.copy = run.copy
      /\ run'.description = run.description /\ run'.frozen = run.frozen /\ run'.result = run.result
      /\ run'.stopped = run.stopped
    BY <1>4 DEF DenialsInv, ProbeRuns
<1>7. Runnable(run', Len(run'.cases) + 1) /\ ~ run.stopped
    BY <1>1, <1>2, <1>6 DEF Runnable, Denials!CannotRun
<1>8. Follows(run')
    <2>1. \A i : Runnable(run', i) <=> Runnable(run, i)
        BY <1>6 DEF Runnable
    <2> QED BY <1>1, <1>6, <1>7, <2>1 DEF DenialsInv, Follows
<1>9. Tells(run', allowed) /\ Truthful(run', allowed)
    BY <1>1, <1>6 DEF DenialsInv, Tells, Truthful, Finished
<1>10. SealedAsSeen(run', files, ledger)
    BY <1>1, <1>6 DEF DenialsInv, SealedAsSeen, Sealing, Finished
<1>11. Unharmed(run', effects, table)
    BY <1>1, <1>6, <1>7 DEF DenialsInv, Unharmed, Finished
<1> QED BY <1>4, <1>5, <1>6, <1>7, <1>8, <1>9, <1>10, <1>11 DEF DenialsInv

(* What the service says, and what it is taken for.                         *)
LEMMA RepliesAreTold == ASSUME NEW action, NEW answer PROVE Denials!StatusOf(action, answer) \in Replies
BY DEF Denials!StatusOf, Replies, Refusing

LEMMA PermittedIsNoRefusal ==
    ASSUME NEW action, NEW answer \in {None, Denials!Lost, Denials!Unscoped, Denials!OverQuota}
    PROVE  Denials!StatusOf(action, answer) \notin Refusing
<1>1. CASE answer = None
    BY <1>1 DEF Denials!StatusOf, Refusing
<1>2. CASE answer = Denials!Lost /\ answer # None
    <2>1. answer.code # 403 /\ answer.code # 400
        BY <1>2 DEF Denials!Lost, Denials!Said
    <2>2. Denials!StatusOf(action, answer) = "error"
        BY <1>2, <2>1 DEF Denials!StatusOf
    <2> QED BY <2>2 DEF Refusing
<1>3. CASE answer = Denials!Unscoped /\ answer # None
    <2>1. answer.code = 403 /\ answer.code # 400 /\ "scope" \in answer.says
        BY <1>3 DEF Denials!Unscoped, Denials!Said
    <2>2. Denials!StatusOf(action, answer) = "oauth_scope_denied"
        BY <1>3, <2>1 DEF Denials!StatusOf
    <2> QED BY <2>2 DEF Refusing
<1>4. CASE answer = Denials!OverQuota /\ answer # None
    <2>1. answer.code = 403 /\ answer.code # 400 /\ "scope" \notin answer.says /\ "quota" \in answer.says
        BY <1>4 DEF Denials!OverQuota, Denials!Said
    <2>2. Denials!StatusOf(action, answer) = "error"
        BY <1>4, <2>1 DEF Denials!StatusOf
    <2> QED BY <2>2 DEF Refusing
<1> QED BY <1>1, <1>2, <1>3, <1>4

LEMMA AnsweredIs ==
    ASSUME DenialsInv, run.at = "attempting", NEW answer, Denials!Answered(answer)
    PROVE  /\ run' \in ProbeRuns /\ run'.at = "attempted"
           /\ run'.answer = Denials!StatusOf(Denials!Current.action, answer)
           /\ run'.cases = run.cases /\ run'.bound = run.bound /\ run'.copy = run.copy
           /\ run'.description = run.description /\ run'.frozen = run.frozen /\ run'.result = run.result
           /\ Follows(run') /\ Truthful(run', allowed')
           /\ run.description # 0 \/ effects = 0
<1>1. PICK reply \in Replies : reply = Denials!StatusOf(Denials!Current.action, answer)
    BY RepliesAreTold
<1>2. PICK n \in Int : n = run.asked + (IF Denials!Current.action \in Denials!SqlActions THEN 1 ELSE 0)
    BY DEF DenialsInv, ProbeRuns
<1>3. run' = [run EXCEPT !.at = "attempted", !.asked = n, !.answer = reply]
    BY <1>1, <1>2 DEF Denials!Answered
<1>4. run' \in ProbeRuns
    BY <1>3 DEF DenialsInv, ProbeRuns
<1>5. /\ run'.at = "attempted" /\ run'.answer = reply
      /\ run'.cases = run.cases /\ run'.bound = run.bound /\ run'.copy = run.copy
      /\ run'.description = run.description /\ run'.frozen = run.frozen /\ run'.result = run.result
    BY <1>3 DEF DenialsInv, ProbeRuns
<1>6. Follows(run')
    <2>1. \A i : Runnable(run', i) <=> Runnable(run, i)
        BY <1>5 DEF Runnable
    <2> QED BY <1>5, <2>1 DEF DenialsInv, Follows
<1>7. Truthful(run', allowed')
    BY <1>5 DEF Truthful, Finished
<1>8. run.description # 0 \/ effects = 0
    BY DEF DenialsInv, Unharmed, Finished
<1> QED BY <1>1, <1>4, <1>5, <1>6, <1>7, <1>8

(* The step of any answer: one that was permitted is taken for no refusal.  *)
LEMMA AnswerStep ==
    ASSUME DenialsInv, run.at = "attempting", NEW answer, Denials!Answered(answer),
           UNCHANGED <<revision, files, ledger>>, allowed' \in BOOLEAN,
           allowed' => allowed \/ answer \in {None, Denials!Lost, Denials!Unscoped, Denials!OverQuota},
           \/ UNCHANGED <<table, effects>>
           \/ \E f \in DOMAIN table : table' = [table EXCEPT ![f] = 1] /\ effects' = effects + 1
    PROVE  DenialsInv'
<1>1. /\ run' \in ProbeRuns /\ run'.at = "attempted"
      /\ run'.answer = Denials!StatusOf(Denials!Current.action, answer)
      /\ run'.cases = run.cases /\ run'.bound = run.bound /\ run'.copy = run.copy
      /\ run'.description = run.description /\ run'.frozen = run.frozen /\ run'.result = run.result
      /\ Follows(run') /\ Truthful(run', allowed')
      /\ run.description # 0 \/ effects = 0
    BY AnsweredIs
<1>2. Tells(run', allowed')
    <2>1. run'.answer \in Replies
        BY <1>1, RepliesAreTold
    <2>2. CASE allowed
        BY <1>1, <2>1, <2>2 DEF DenialsInv, Tells, Finished
    <2>3. CASE ~ allowed /\ allowed'
        <3>1. run'.answer \notin Refusing
            BY <1>1, <2>3, PermittedIsNoRefusal
        <3> QED BY <1>1, <2>1, <3>1 DEF Tells
    <2>4. CASE ~ allowed'
        BY <2>1, <2>4 DEF Tells
    <2> QED BY <2>2, <2>3, <2>4
<1>3. SealedAsSeen(run', files', ledger')
    BY <1>1 DEF DenialsInv, SealedAsSeen, Sealing, Finished
<1>4. table' \in Tables /\ Unharmed(run', effects', table')
    <2>1. CASE UNCHANGED <<table, effects>>
        BY <1>1, <2>1 DEF DenialsInv, Unharmed
    <2>2. CASE \E f \in DOMAIN table : table' = [table EXCEPT ![f] = 1] /\ effects' = effects + 1
        <3>1. PICK f \in DOMAIN table : table' = [table EXCEPT ![f] = 1] /\ effects' = effects + 1
            BY <2>2
        <3>2. table' \in Tables
            BY <3>1 DEF DenialsInv, Tables
        <3>3. f \in DOMAIN table' /\ table'[f] = 1
            BY <3>1 DEF DenialsInv, Tables
        <3>4. effects \in Nat
            BY DEF DenialsInv, Unharmed
        <3> QED BY <1>1, <3>1, <3>2, <3>3, <3>4 DEF Unharmed
    <2> QED BY <2>1, <2>2
<1> QED BY <1>1, <1>2, <1>3, <1>4 DEF DenialsInv

LEMMA ServiceStep ==
    ASSUME DenialsInv, Denials!Service
    PROVE  DenialsInv'
<1>1. CASE Denials!Refuse
    BY <1>1, AnswerStep DEF Denials!Refuse, DenialsInv
<1>2. CASE Denials!RejectDeletes
    BY <1>2, AnswerStep DEF Denials!RejectDeletes, DenialsInv
<1>3. ASSUME NEW answer \in {None, Denials!Lost}, Denials!LetThrough(answer)
      PROVE  DenialsInv'
    <2>1. Denials!EffectOn(Denials!Current.action) \in DOMAIN table
        BY DEF DenialsInv, Tables, Denials!EffectOn
    <2>2. \E f \in DOMAIN table : table' = [table EXCEPT ![f] = 1] /\ effects' = effects + 1
        BY <1>3, <2>1 DEF Denials!LetThrough
    <2>3. allowed' \in BOOLEAN
        BY <1>3 DEF Denials!LetThrough
    <2> QED BY <1>3, <2>2, <2>3, AnswerStep DEF Denials!LetThrough
<1>4. ASSUME NEW answer \in {Denials!Unscoped, Denials!OverQuota, Denials!Lost}, Denials!TurnAway(answer)
      PROVE  DenialsInv'
    <2>1. allowed' \in BOOLEAN
        BY <1>4 DEF Denials!TurnAway
    <2> QED BY <1>4, <2>1, AnswerStep DEF Denials!TurnAway
<1> QED BY <1>1, <1>2, <1>3, <1>4 DEF Denials!Service

(* The look after an attempt.                                               *)
LEMMA ObservedStep ==
    ASSUME Denials!NamedOnce, DenialsInv, run.at = "attempted", NEW unchanged \in BOOLEAN,
           Denials!Observed(unchanged), unchanged => Denials!IsPinned
    PROVE  DenialsInv'
<1>1. /\ Len(run.cases) < Area /\ Runnable(run, Len(run.cases) + 1)
      /\ run.answer \in Replies /\ run.answer \in Verdicts
    BY DEF DenialsInv, Follows, Tells, Verdicts
<1>2. PICK c \in ProbeCases : c = Denials!Cased(run.answer, unchanged)
    BY <1>1, CurrentCase
<1>3. c.role = Denials!Matrix[Len(run.cases) + 1].role /\ c.action = Denials!Matrix[Len(run.cases) + 1].action
      /\ c.status = run.answer
    BY <1>1, <1>2, CurrentCase
<1>4. PICK n \in Int : n = run.asked + (IF unchanged THEN 1 ELSE Denials!AskedBySnapshot)
    BY DEF DenialsInv, ProbeRuns, Denials!AskedBySnapshot
<1>5. PICK b \in BOOLEAN : b = (run.stopped \/ ~ unchanged \/ run.answer = "unexpected_success")
    OBVIOUS
<1>6. /\ run' = [run EXCEPT !.at = "probing", !.cases = Append(run.cases, c), !.events = Append(run.events, c),
                            !.answer = None, !.stopped = b, !.asked = n]
      /\ files' = [files EXCEPT !["progress"] = run'.events]
      /\ UNCHANGED <<table, revision, effects, allowed, ledger, tampered>>
    BY <1>2, <1>4, <1>5 DEF Denials!Observed
<1>7. Append(run.cases, c) \in Seq(ProbeCases) /\ Append(run.events, c) \in Seq(ProbeCases)
    BY CasesGrow DEF DenialsInv, ProbeRuns
<1>8. run' \in ProbeRuns
    <2>1. PICK r : r = [run EXCEPT !.at = "probing", !.cases = Append(run.cases, c), !.events = Append(run.events, c)]
        OBVIOUS
    <2>2. r \in ProbeRuns
        BY <1>7, <2>1 DEF DenialsInv, ProbeRuns
    <2>3. PICK s : s = [r EXCEPT !.answer = None, !.stopped = b]
        OBVIOUS
    <2>4. s \in ProbeRuns
        BY <2>2, <2>3 DEF ProbeRuns
    <2>5. run' = [s EXCEPT !.asked = n]
        BY <1>6, <2>1, <2>3
    <2> QED BY <2>4, <2>5 DEF ProbeRuns
<1>9. /\ run'.at = "probing" /\ run'.cases = Append(run.cases, c) /\ run'.bound = run.bound /\ run'.copy = run.copy
      /\ run'.description = run.description /\ run'.frozen = run.frozen /\ run'.result = run.result
      /\ run'.stopped = b
    BY <1>6 DEF DenialsInv, ProbeRuns
<1>10. Follows(run') /\ Tells(run', allowed) /\ Truthful(run', allowed)
    BY <1>1, <1>3, <1>8, <1>9, CaseStep
<1>11. SealedAsSeen(run', files', ledger)
    <2>1. DOMAIN files' = Denials!Names /\ files'["after"] = files["after"]
        BY <1>6 DEF DenialsInv, SealedAsSeen
    <2> QED BY <1>9, <2>1 DEF DenialsInv, SealedAsSeen, Sealing, Finished
<1>12. Unharmed(run', effects, table)
    <2>1. CASE unchanged
        <3>1. run.description = 0 => \A f \in DOMAIN table : table[f] = 0
            BY <2>1 DEF DenialsInv, Tables, Denials!IsPinned, Denials!SameTable, Denials!Pinned
        <3> QED BY <1>9, <3>1 DEF DenialsInv, Unharmed
    <2>2. CASE ~ unchanged
        BY <1>5, <1>9, <2>2 DEF DenialsInv, Unharmed
    <2> QED BY <2>1, <2>2
<1> QED BY <1>6, <1>8, <1>9, <1>10, <1>11, <1>12 DEF DenialsInv

(* A matrix of refusals names all roles and needs the copy to overwrite.    *)
LEMMA RefusedIsWhole ==
    ASSUME Denials!NamedOnce, DenialsInv, run.at = "probing", Denials!AllRefused(run.cases)
    PROVE  ~ allowed /\ run.bound = RoleSet /\ run.copy /\ WholeMatrix(run.cases)
<1>1. /\ run.cases \in Seq(ProbeCases) /\ Len(run.cases) = Area /\ Area \in Nat
      /\ DOMAIN run.cases = 1 .. Area
      /\ \A i \in 1 .. Area : run.cases[i].status \in Refusing
    <2>1. run.cases \in Seq(ProbeCases)
        BY DEF DenialsInv, ProbeRuns
    <2>2. Len(run.cases) = Area /\ DOMAIN run.cases = 1 .. Area
        BY <2>1, MatrixIsAll DEF Denials!AllRefused
    <2>3. \A i \in 1 .. Area : run.cases[i].status \in Refusing
        BY <2>2 DEF Denials!AllRefused, Refusing
    <2> QED BY <2>1, <2>2, <2>3, NamedOnceMeans
<1>2. \A i \in 1 .. Area : /\ Runnable(run, i)
                           /\ run.cases[i].role = Denials!Matrix[i].role
                           /\ run.cases[i].action = Denials!Matrix[i].action
    BY <1>1 DEF DenialsInv, Follows, Refusing
<1>3. ~ allowed
    BY <1>1 DEF DenialsInv, Tells, Shows, Finished
<1>4. \A r \in RoleSet, a \in ActionSet : r \in run.bound /\ (a = "copy_overwrite" => run.copy)
    <2> TAKE r \in RoleSet, a \in ActionSet
    <2>1. PICK i \in 1 .. Area : Denials!Matrix[i] = [role |-> r, action |-> a]
        BY MatrixIsAll
    <2>2. Denials!Matrix[i].role = r /\ Denials!Matrix[i].action = a
        BY <2>1
    <2> QED BY <1>2, <2>2 DEF Runnable
<1>5. run.bound \subseteq RoleSet /\ run.bound # {}
    BY DEF DenialsInv, ProbeRuns, Follows
<1>6. "copy_overwrite" \in ActionSet
    BY NamedOnceMeans
<1>7. WholeMatrix(run.cases)
    <2>1. \A i \in 1 .. Area :
              [role |-> run.cases[i].role, action |-> run.cases[i].action] = Denials!Matrix[i]
        <3> TAKE i \in 1 .. Area
        <3>1. PICK m \in [role : RoleSet, action : ActionSet] : m = Denials!Matrix[i]
            BY MatrixIsAll
        <3>2. m = [role |-> m.role, action |-> m.action]
            OBVIOUS
        <3> QED BY <1>2, <3>1, <3>2
    <2>2. Denials!Matrix = [i \in 1 .. Area |-> Denials!Matrix[i]]
        BY MatrixIsAll DEF Denials!Matrix
    <2>3. [i \in DOMAIN run.cases |-> [role |-> run.cases[i].role, action |-> run.cases[i].action]]
             = [i \in 1 .. Area |-> Denials!Matrix[i]]
        BY <1>1, <2>1
    <2> QED BY <2>2, <2>3 DEF WholeMatrix
<1> QED BY <1>3, <1>4, <1>5, <1>6, <1>7

LEMMA ReturnStep ==
    ASSUME Denials!NamedOnce, DenialsInv, Denials!Return
    PROVE  DenialsInv'
<1>1. run.at = "probing"
    BY DEF Denials!Return
<1>2. /\ Denials!Status \in {"failed", "incomplete", "refusals_observed"}
      /\ Denials!Status = "refusals_observed" => Denials!AllRefused(run.cases)
    BY DEF Denials!Status
<1>3. run.cases \in Seq(ProbeCases)
    BY DEF DenialsInv, ProbeRuns
<1>4. PICK r \in Results : r = [status |-> Denials!Status, cases |-> run.cases, partial |-> FALSE]
    BY <1>2, <1>3 DEF Results
<1>5. /\ run' = [run EXCEPT !.at = "returned", !.result = r]
      /\ UNCHANGED <<table, revision, effects, allowed, files, ledger, tampered>>
    BY <1>4 DEF Denials!Return
<1>6. run' \in ProbeRuns
    BY <1>5 DEF DenialsInv, ProbeRuns, Finished
<1>7. /\ run'.at = "returned" /\ run'.result = r /\ run'.cases = run.cases /\ run'.bound = run.bound
      /\ run'.copy = run.copy /\ run'.description = run.description /\ run'.frozen = run.frozen
    BY <1>5 DEF DenialsInv, ProbeRuns
<1>8. r.status = "refusals_observed" => /\ ~ allowed /\ run.bound = RoleSet /\ run.copy
                                        /\ WholeMatrix(r.cases)
    BY <1>1, <1>2, <1>4, RefusedIsWhole
<1>9. Follows(run') /\ Tells(run', allowed) /\ Truthful(run', allowed)
    BY <1>7, <1>8 DEF DenialsInv, Follows, Tells, Truthful, Finished, Runnable
<1>10. SealedAsSeen(run', files, ledger)
    BY <1>1, <1>7 DEF DenialsInv, SealedAsSeen, Sealing, Finished
<1>11. Unharmed(run', effects, table)
    BY <1>1, <1>7 DEF DenialsInv, Unharmed, Finished
<1> QED BY <1>5, <1>6, <1>7, <1>9, <1>10, <1>11 DEF DenialsInv

(* A step of sealing.                                                       *)
LEMMA LaterStep ==
    ASSUME DenialsInv, run.at \in Finished, run'.at \in Finished,
           run'.cases = run.cases, run'.bound = run.bound, run'.copy = run.copy,
           run'.description = run.description, run'.result = run.result,
           UNCHANGED <<table, effects, allowed>>
    PROVE  Follows(run') /\ Tells(run', allowed') /\ Truthful(run', allowed') /\ Unharmed(run', effects', table')
<1>1. Follows(run')
    BY DEF DenialsInv, Follows, Finished, Runnable
<1>2. Tells(run', allowed') /\ Truthful(run', allowed')
    BY DEF DenialsInv, Tells, Truthful, Finished
<1>3. Unharmed(run', effects', table')
    BY DEF DenialsInv, Unharmed, Finished
<1> QED BY <1>1, <1>2, <1>3

LEMMA CheckCodeStep ==
    ASSUME DenialsInv, Denials!CheckCode
    PROVE  DenialsInv'
<1>1. /\ run.at = "returned" /\ run.result \in Results
      /\ files["after"] = None
    BY DEF DenialsInv, Denials!CheckCode, Truthful, SealedAsSeen, Sealing, Finished
<1>2. PICK r \in Results :
          /\ r = IF revision # run.frozen THEN [run.result EXCEPT !.status = "failed"] ELSE run.result
          /\ r.status = "refusals_observed" => r = run.result
          /\ revision # run.frozen => r.status = "failed"
    <2>1. CASE revision # run.frozen
        <3>1. PICK r : r = [run.result EXCEPT !.status = "failed"]
            OBVIOUS
        <3>2. r \in Results /\ r.status = "failed"
            BY <1>1, <3>1 DEF Results
        <3> QED BY <2>1, <3>1, <3>2
    <2>2. CASE revision = run.frozen
        BY <1>1, <2>2
    <2> QED BY <2>1, <2>2
<1>3. /\ run' = [run EXCEPT !.at = "writing", !.result = r]
      /\ files' = [files EXCEPT !["after"] = IF revision # run.frozen THEN revision ELSE None]
      /\ UNCHANGED <<table, revision, effects, allowed, ledger, tampered>>
    BY <1>2 DEF Denials!CheckCode
<1>4. run' \in ProbeRuns
    BY <1>3 DEF DenialsInv, ProbeRuns, Finished
<1>5. /\ run'.at = "writing" /\ run'.result = r /\ run'.cases = run.cases /\ run'.bound = run.bound
      /\ run'.copy = run.copy /\ run'.description = run.description /\ run'.frozen = run.frozen
    BY <1>3 DEF DenialsInv, ProbeRuns
<1>6. Follows(run') /\ Tells(run', allowed) /\ Truthful(run', allowed)
    BY <1>1, <1>2, <1>5 DEF DenialsInv, Follows, Tells, Truthful, Finished, Runnable
<1>7. SealedAsSeen(run', files', ledger)
    <2>1. /\ DOMAIN files' = Denials!Names
          /\ files'["after"] = IF revision # run.frozen THEN revision ELSE None
        BY <1>3 DEF DenialsInv, SealedAsSeen, Denials!Names, Denials!Evidence
    <2>2. files'["after"] # None => r.status = "failed"
        BY <1>2, <2>1
    <2> QED BY <1>1, <1>5, <2>1, <2>2 DEF DenialsInv, SealedAsSeen, Sealing, Finished
<1>8. Unharmed(run', effects, table)
    BY <1>1, <1>5 DEF DenialsInv, Unharmed, Finished
<1> QED BY <1>3, <1>4, <1>5, <1>6, <1>7, <1>8 DEF DenialsInv

LEMMA WriteFilesStep ==
    ASSUME DenialsInv, NEW artifact, Denials!WriteFiles(artifact)
    PROVE  DenialsInv'
<1> USE DEF Denials!WriteFiles
<1>1. run' \in ProbeRuns
    BY DEF DenialsInv, ProbeRuns, Finished
<1>2. /\ run.at = "writing" /\ run'.at = "sealing" /\ run'.result = run.result /\ run'.cases = run.cases
      /\ run'.bound = run.bound /\ run'.copy = run.copy /\ run'.description = run.description
      /\ run'.frozen = run.frozen
    BY DEF DenialsInv, ProbeRuns
<1>3. Follows(run') /\ Tells(run', allowed') /\ Truthful(run', allowed') /\ Unharmed(run', effects', table')
    BY <1>2, LaterStep DEF Finished
<1>4. DOMAIN files' = Denials!Names /\ files'["after"] = files["after"]
    BY DEF DenialsInv, SealedAsSeen, Denials!Names, Denials!Evidence
<1>5. SealedAsSeen(run', files', ledger')
    BY <1>2, <1>4 DEF DenialsInv, SealedAsSeen, Sealing, Finished
<1> QED BY <1>1, <1>2, <1>3, <1>5 DEF DenialsInv

LEMMA WriteManifestStep ==
    ASSUME DenialsInv, Denials!WriteManifest
    PROVE  DenialsInv'
<1>1. PICK status \in {"sealed", "incomplete"} : status = Denials!EvidenceStatus
    BY DEF Denials!EvidenceStatus
<1>2. /\ run.at = "sealing"
      /\ run' = [run EXCEPT !.at = "manifested", !.evidence = status]
      /\ files' = [files EXCEPT !["manifest"] = [status |-> status, files |-> Denials!Inventory]]
      /\ UNCHANGED <<table, revision, effects, allowed, ledger, tampered>>
    BY <1>1 DEF Denials!WriteManifest
<1>3. run' \in ProbeRuns
    BY <1>2 DEF DenialsInv, ProbeRuns, Finished
<1>4. /\ run'.at = "manifested" /\ run'.result = run.result /\ run'.cases = run.cases
      /\ run'.bound = run.bound /\ run'.copy = run.copy /\ run'.description = run.description
      /\ run'.frozen = run.frozen
    BY <1>2 DEF DenialsInv, ProbeRuns
<1>5. Follows(run') /\ Tells(run', allowed') /\ Truthful(run', allowed') /\ Unharmed(run', effects', table')
    BY <1>2, <1>4, LaterStep DEF Finished
<1>6. DOMAIN files' = Denials!Names /\ files'["after"] = files["after"]
    BY <1>2 DEF DenialsInv, SealedAsSeen, Denials!Names, Denials!Evidence
<1>7. SealedAsSeen(run', files', ledger')
    BY <1>2, <1>4, <1>6 DEF DenialsInv, SealedAsSeen, Sealing, Finished
<1> QED BY <1>2, <1>3, <1>4, <1>5, <1>7 DEF DenialsInv

LEMMA AppendReceiptStep ==
    ASSUME DenialsInv, Denials!AppendReceipt
    PROVE  DenialsInv'
<1> USE DEF Denials!AppendReceipt
<1>1. run' \in ProbeRuns
    BY DEF DenialsInv, ProbeRuns, Finished
<1>2. /\ run.at = "manifested" /\ run'.at = "ledgered" /\ run'.result = run.result /\ run'.cases = run.cases
      /\ run'.bound = run.bound /\ run'.copy = run.copy /\ run'.description = run.description
      /\ run'.frozen = run.frozen
    BY DEF DenialsInv, ProbeRuns
<1>3. Follows(run') /\ Tells(run', allowed') /\ Truthful(run', allowed') /\ Unharmed(run', effects', table')
    BY <1>2, LaterStep DEF Finished
<1>4. ledger' = {Denials!Receipt}
    BY <1>2 DEF DenialsInv, SealedAsSeen
<1>5. Denials!Receipt.report = run.result /\ Denials!Receipt.execution = run.frozen
    BY DEF Denials!Receipt
<1>6. SealedAsSeen(run', files', ledger')
    BY <1>2, <1>4, <1>5 DEF DenialsInv, SealedAsSeen, Sealing, Finished
<1> QED BY <1>1, <1>2, <1>3, <1>6 DEF DenialsInv

LEMMA ExposeReceiptStep ==
    ASSUME DenialsInv, Denials!ExposeReceipt
    PROVE  DenialsInv'
<1> USE DEF Denials!ExposeReceipt
<1>1. run' \in ProbeRuns
    BY DEF DenialsInv, ProbeRuns, Finished
<1>2. /\ run.at = "ledgered" /\ run'.at = "over" /\ run'.result = run.result /\ run'.cases = run.cases
      /\ run'.bound = run.bound /\ run'.copy = run.copy /\ run'.description = run.description
      /\ run'.frozen = run.frozen
    BY DEF DenialsInv, ProbeRuns
<1>3. Follows(run') /\ Tells(run', allowed') /\ Truthful(run', allowed') /\ Unharmed(run', effects', table')
    BY <1>2, LaterStep DEF Finished
<1>4. DOMAIN files' = Denials!Names /\ files'["after"] = files["after"]
    BY DEF DenialsInv, SealedAsSeen, Denials!Names, Denials!Evidence
<1>5. SealedAsSeen(run', files', ledger')
    BY <1>2, <1>4 DEF DenialsInv, SealedAsSeen, Sealing, Finished
<1> QED BY <1>1, <1>2, <1>3, <1>5 DEF DenialsInv

LEMMA OthersStep ==
    ASSUME DenialsInv, Denials!Others
    PROVE  DenialsInv'
<1>1. ASSUME NEW field \in DOMAIN table, Denials!OthersChange(field)
      PROVE  DenialsInv'
    <2>1. table' \in Tables
        BY <1>1 DEF DenialsInv, Tables, Denials!OthersChange
    <2>2. \A f \in DOMAIN table : table[f] = 1 => f \in DOMAIN table' /\ table'[f] = 1
        BY <1>1 DEF DenialsInv, Tables, Denials!OthersChange
    <2>3. Unharmed(run, effects, table')
        BY <2>2 DEF DenialsInv, Unharmed
    <2> QED BY <1>1, <2>1, <2>3 DEF DenialsInv, Denials!OthersChange
<1>2. CASE Denials!Edit
    BY <1>2 DEF DenialsInv, Denials!Edit
<1>3. ASSUME NEW name \in Denials!Names, NEW content \in {None, Altered}, Denials!Tamper(name, content)
      PROVE  DenialsInv'
    <2>1. DOMAIN files' = Denials!Names
        BY <1>3 DEF DenialsInv, SealedAsSeen, Denials!Tamper
    <2>2. files'["after"] # None => files["after"] # None
        <3>1. "after" \in DOMAIN files
            BY DEF DenialsInv, SealedAsSeen, Denials!Names, Denials!Evidence
        <3>2. name = "after" => files["after"] # None
            BY <1>3 DEF Denials!Tamper
        <3> QED BY <1>3, <3>1, <3>2 DEF Denials!Tamper
    <2>3. SealedAsSeen(run, files', ledger)
        BY <2>1, <2>2 DEF DenialsInv, SealedAsSeen
    <2> QED BY <1>3, <2>3 DEF DenialsInv, Denials!Tamper
<1> QED BY <1>1, <1>2, <1>3 DEF Denials!Others

(* What a run may be charged for: of each case it may try, the looks before *)
(* and after and, for a statement, the attempt itself.                      *)
Tried(copy) == {a \in ActionSet : a = "copy_overwrite" => copy}
Costs(copy) == (Tried(copy) \X (1 .. 2)) \cup (Denials!SqlActions \X {3})
Payable(bound, copy) ==
    {p \in (1 .. Area) \X (1 .. 3) :
        /\ Denials!Matrix[p[1]].role \in bound /\ Denials!Matrix[p[1]].action \in Tried(copy)
        /\ p[2] = 3 => Denials!Matrix[p[1]].action \in Denials!SqlActions}
Paid(r) ==
    {p \in Payable(r.bound, r.copy) :
        \/ p[1] <= Len(r.cases)
        \/ p[1] = Len(r.cases) + 1 /\ r.at = "attempting" /\ p[2] = 1
        \/ p[1] = Len(r.cases) + 1 /\ r.at = "attempted" /\ p[2] \in {1, 3}}

LEMMA ActionsAreCounted ==
    ASSUME Denials!NamedOnce
    PROVE  IsFiniteSet(RoleSet) /\ IsFiniteSet(ActionSet) /\ Cardinality(ActionSet) = Len(Actions)
<1>1. \A n \in Nat : IsFiniteSet(1 .. n) /\ Cardinality(1 .. n) = n
    BY FS_Interval
<1>2. Len(Roles) \in Nat /\ Len(Actions) \in Nat
    BY NamedOnceMeans
<1>3. Roles \in Surjection(1 .. Len(Roles), RoleSet)
    <2>1. Roles \in [1 .. Len(Roles) -> RoleSet]
        BY NamedOnceMeans
    <2>2. RoleSet = {Roles[i] : i \in 1 .. Len(Roles)}
        BY NamedOnceMeans
    <2>3. \A r \in RoleSet : \E i \in 1 .. Len(Roles) : Roles[i] = r
        BY <2>2, Zenon
    <2> QED BY <2>1, <2>3 DEF Surjection
<1>4. IsFiniteSet(RoleSet)
    BY <1>1, <1>2, <1>3, FS_Surjection
<1>5. Actions \in Surjection(1 .. Len(Actions), ActionSet) /\ Actions \in Injection(1 .. Len(Actions), ActionSet)
    <2>1. Actions \in [1 .. Len(Actions) -> ActionSet]
        BY NamedOnceMeans
    <2>2. ActionSet = {Actions[i] : i \in 1 .. Len(Actions)}
        BY NamedOnceMeans
    <2>5. \A a \in ActionSet : \E i \in 1 .. Len(Actions) : Actions[i] = a
        BY <2>2, Zenon
    <2>3. \A i, j \in 1 .. Len(Actions) : Actions[i] = Actions[j] => i = j
        BY NamedOnceMeans
    <2>4. Actions \in Injection(1 .. Len(Actions), ActionSet)
        BY <2>1, <2>3 DEF Injection, IsInjective
    <2> QED BY <2>1, <2>4, <2>5 DEF Surjection
<1>6. IsFiniteSet(ActionSet) /\ Cardinality(ActionSet) = Len(Actions)
    BY <1>1, <1>2, <1>5, FS_Surjection
<1> QED BY <1>4, <1>6

LEMMA CostsAreFew ==
    ASSUME Denials!NamedOnce, NEW copy \in BOOLEAN
    PROVE  /\ IsFiniteSet(Costs(copy)) /\ Cardinality(Costs(copy)) \in Nat
           /\ Cardinality(Denials!SqlActions) \in Nat
           /\ Cardinality(Costs(copy))
                <= 2 * (Len(Actions) - (IF copy THEN 0 ELSE 1)) + Cardinality(Denials!SqlActions)
<1>1. IsFiniteSet(ActionSet) /\ Cardinality(ActionSet) = Len(Actions) /\ Len(Actions) \in Nat
    BY ActionsAreCounted, NamedOnceMeans
<1>2. /\ IsFiniteSet(Tried(copy)) /\ Cardinality(Tried(copy)) \in Nat
      /\ Cardinality(Tried(copy)) = Len(Actions) - (IF copy THEN 0 ELSE 1)
    <2>1. CASE copy
        <3>1. Tried(copy) = ActionSet
            BY <2>1 DEF Tried
        <3>2. IsFiniteSet(Tried(copy)) /\ Cardinality(Tried(copy)) = Len(Actions)
            BY <1>1, <3>1, Zenon
        <3>3. (IF copy THEN 0 ELSE 1) = 0
            BY <2>1
        <3> QED BY <1>1, <3>2, <3>3
    <2>2. CASE ~ copy
        <3>1. Tried(copy) = ActionSet \ {"copy_overwrite"}
            BY <2>2 DEF Tried
        <3>2. "copy_overwrite" \in ActionSet
            BY NamedOnceMeans
        <3>3. IsFiniteSet(Tried(copy)) /\ Cardinality(Tried(copy)) = Cardinality(ActionSet) - 1
            BY <1>1, <3>1, <3>2, FS_RemoveElement
        <3>4. Cardinality(Tried(copy)) \in Nat
            BY <3>3, FS_CardinalityType
        <3> QED BY <1>1, <2>2, <3>3, <3>4
    <2> QED BY <2>1, <2>2
<1>3. IsFiniteSet(Denials!SqlActions) /\ Cardinality(Denials!SqlActions) \in Nat
    <2>1. Denials!SqlActions \in SUBSET ActionSet
        BY DEF Denials!SqlActions, ActionSet
    <2> QED BY <1>1, <2>1, FS_Subset, FS_CardinalityType
<1>4. IsFiniteSet(1 .. 2) /\ Cardinality(1 .. 2) = 2
    <2>1. 1 \in Int /\ 2 \in Int /\ ~ 1 > 2 /\ 2 - 1 + 1 = 2
        OBVIOUS
    <2> QED BY <2>1, FS_Interval
<1>5. IsFiniteSet({3}) /\ Cardinality({3}) = 1
    BY FS_Singleton
<1>6. IsFiniteSet(Tried(copy) \X (1 .. 2)) /\ Cardinality(Tried(copy) \X (1 .. 2)) = Cardinality(Tried(copy)) * 2
    BY <1>2, <1>4, FS_Product
<1>7. /\ IsFiniteSet(Denials!SqlActions \X {3})
      /\ Cardinality(Denials!SqlActions \X {3}) = Cardinality(Denials!SqlActions) * 1
    BY <1>3, <1>5, FS_Product
<1>8. /\ IsFiniteSet(Costs(copy))
      /\ Cardinality(Costs(copy)) = Cardinality(Tried(copy) \X (1 .. 2)) + Cardinality(Denials!SqlActions \X {3})
            - Cardinality((Tried(copy) \X (1 .. 2)) \cap (Denials!SqlActions \X {3}))
    BY <1>6, <1>7, FS_Union DEF Costs
<1>9. Cardinality((Tried(copy) \X (1 .. 2)) \cap (Denials!SqlActions \X {3})) \in Nat
    BY <1>6, FS_Intersection, FS_CardinalityType
<1>10. Cardinality(Costs(copy)) \in Nat
    BY <1>8, FS_CardinalityType
<1>11. PICK x \in Nat, y \in Nat, z \in Nat, c \in Nat :
          /\ x = Cardinality(Tried(copy)) /\ y = Cardinality(Denials!SqlActions)
          /\ z = Cardinality((Tried(copy) \X (1 .. 2)) \cap (Denials!SqlActions \X {3}))
          /\ c = Cardinality(Costs(copy))
    BY <1>2, <1>3, <1>9, <1>10
<1>12. c = x * 2 + y * 1 - z
    BY <1>6, <1>7, <1>8, <1>11
<1>13. c <= 2 * x + y
    BY <1>12
<1> QED BY <1>2, <1>3, <1>8, <1>10, <1>11, <1>13

(* All of it is reserved before the first query.                            *)
LEMMA PayableIsReserved ==
    ASSUME Denials!NamedOnce, NEW bound \in SUBSET RoleSet, NEW copy \in BOOLEAN
    PROVE  /\ Denials!Reserved(bound, copy) \in Int
           /\ IsFiniteSet(Payable(bound, copy)) /\ Cardinality(Payable(bound, copy)) \in Nat
           /\ 1 + Cardinality(Payable(bound, copy)) <= Denials!Reserved(bound, copy)
<1>1. IsFiniteSet(bound) /\ Cardinality(bound) \in Nat
    BY ActionsAreCounted, FS_Subset, FS_CardinalityType
<1>2. /\ IsFiniteSet(Costs(copy)) /\ Cardinality(Costs(copy)) \in Nat
      /\ Cardinality(Denials!SqlActions) \in Nat
      /\ Cardinality(Costs(copy))
           <= 2 * (Len(Actions) - (IF copy THEN 0 ELSE 1)) + Cardinality(Denials!SqlActions)
    BY CostsAreFew
<1>3. IsFiniteSet(bound \X Costs(copy)) /\ Cardinality(bound \X Costs(copy)) = Cardinality(bound) * Cardinality(Costs(copy))
    BY <1>1, <1>2, FS_Product
<1> DEFINE f == [p \in Payable(bound, copy) |->
                    <<Denials!Matrix[p[1]].role, <<Denials!Matrix[p[1]].action, p[2]>> >>]
<1>4. f \in Injection(Payable(bound, copy), bound \X Costs(copy))
    <2>1. ASSUME NEW p \in Payable(bound, copy)
          PROVE  <<Denials!Matrix[p[1]].role, <<Denials!Matrix[p[1]].action, p[2]>> >> \in bound \X Costs(copy)
        <3>1. /\ p[2] \in 1 .. 3 /\ Denials!Matrix[p[1]].role \in bound /\ Denials!Matrix[p[1]].action \in Tried(copy)
              /\ p[2] = 3 => Denials!Matrix[p[1]].action \in Denials!SqlActions
            BY <2>1 DEF Payable
        <3>2. <<Denials!Matrix[p[1]].action, p[2]>> \in Costs(copy)
            <4>1. CASE p[2] = 3
                BY <3>1, <4>1 DEF Costs
            <4>2. CASE p[2] \in 1 .. 2
                BY <3>1, <4>2 DEF Costs
            <4> QED BY <3>1, <4>1, <4>2
        <3> QED BY <3>1, <3>2
    <2>2. ASSUME NEW p \in Payable(bound, copy), NEW q \in Payable(bound, copy),
                 Denials!Matrix[p[1]].role = Denials!Matrix[q[1]].role,
                 Denials!Matrix[p[1]].action = Denials!Matrix[q[1]].action, p[2] = q[2]
          PROVE  p = q
        <3>1. p \in (1 .. Area) \X (1 .. 3) /\ q \in (1 .. Area) \X (1 .. 3)
            BY DEF Payable
        <3>2. PICK m \in [role : RoleSet, action : ActionSet] : m = Denials!Matrix[p[1]]
            BY <3>1, MatrixIsAll
        <3>3. PICK n \in [role : RoleSet, action : ActionSet] : n = Denials!Matrix[q[1]]
            BY <3>1, MatrixIsAll
        <3>4. m = n
            BY <2>2, <3>2, <3>3
        <3>5. p[1] = q[1]
            BY <3>1, <3>2, <3>3, <3>4, MatrixIsAll
        <3> QED BY <2>2, <3>1, <3>5
    <2>3. \A p, q \in Payable(bound, copy) : f[p] = f[q] => p = q
        BY <2>2
    <2>4. f \in [Payable(bound, copy) -> bound \X Costs(copy)]
        BY <2>1
    <2> QED BY <2>3, <2>4 DEF Injection, IsInjective
<1>5. IsFiniteSet(Payable(bound, copy)) /\ Cardinality(Payable(bound, copy)) <= Cardinality(bound \X Costs(copy))
    BY <1>3, <1>4, FS_Injection
<1>6. Cardinality(Payable(bound, copy)) \in Nat
    BY <1>5, FS_CardinalityType
<1> HIDE DEF f
<1>7. PICK b \in Nat, c \in Nat, y \in Nat, t \in Int, x \in Nat :
          /\ b = Cardinality(bound) /\ c = Cardinality(Costs(copy)) /\ y = Cardinality(Denials!SqlActions)
          /\ t = Len(Actions) - (IF copy THEN 0 ELSE 1) /\ x = Cardinality(Payable(bound, copy))
    <2>1. Len(Actions) - (IF copy THEN 0 ELSE 1) \in Int
        BY NamedOnceMeans
    <2> QED BY <1>1, <1>2, <1>6, <2>1
<1>8. Denials!Reserved(bound, copy) = 1 + b * (2 * t + y)
    <2>1. Denials!Cardinality(bound) = b /\ Denials!Cardinality(Denials!SqlActions) = y
        BY <1>7 DEF Cardinality, Denials!Cardinality
    <2> QED BY <1>7, <2>1 DEF Denials!Reserved
<1>9. c <= 2 * t + y /\ x <= b * c
    BY <1>2, <1>3, <1>5, <1>7
<1>10. b * c <= b * (2 * t + y)
    BY <1>9
<1>11. 1 + b * (2 * t + y) \in Int /\ 1 + x <= 1 + b * (2 * t + y)
    BY <1>9, <1>10
<1> QED BY <1>5, <1>6, <1>7, <1>8, <1>11

Probing == {"probing", "attempting", "attempted"}
Affordable(r) ==
    /\ r.asked <= r.reserved
    /\ r.at \in {"new", "pinning"} => r.asked = 0
    /\ r.at \in Probing => /\ r.reserved = Denials!Reserved(r.bound, r.copy)
                           /\ r.asked <= 1 + Cardinality(Paid(r))

LEMMA OneMore ==
    ASSUME NEW T, IsFiniteSet(T), NEW S \in SUBSET T
    PROVE  /\ Cardinality(S) \in Nat /\ Cardinality(T) \in Nat /\ Cardinality(S) <= Cardinality(T)
           /\ (\E e \in T : e \notin S) => Cardinality(S) + 1 <= Cardinality(T)
<1>1. IsFiniteSet(S) /\ Cardinality(S) <= Cardinality(T) /\ Cardinality(S) \in Nat /\ Cardinality(T) \in Nat
    BY FS_Subset, FS_CardinalityType
<1>2. ASSUME NEW e \in T, e \notin S
      PROVE  Cardinality(S) + 1 <= Cardinality(T)
    <2>1. IsFiniteSet(S \cup {e}) /\ Cardinality(S \cup {e}) = Cardinality(S) + 1
        BY <1>1, <1>2, FS_AddElement
    <2>2. S \cup {e} \in SUBSET T
        BY <1>2
    <2>3. Cardinality(S \cup {e}) <= Cardinality(T)
        BY <2>2, FS_Subset
    <2> QED BY <2>1, <2>3
<1> QED BY <1>1, <1>2

LEMMA PaidIsReserved ==
    ASSUME Denials!NamedOnce, NEW r \in ProbeRuns
    PROVE  /\ IsFiniteSet(Paid(r)) /\ Cardinality(Paid(r)) \in Nat
           /\ Denials!Reserved(r.bound, r.copy) \in Int
           /\ 1 + Cardinality(Paid(r)) <= Denials!Reserved(r.bound, r.copy)
<1>1. PICK bound \in SUBSET RoleSet, copy \in BOOLEAN : bound = r.bound /\ copy = r.copy
    BY DEF ProbeRuns
<1>2. Paid(r) \in SUBSET Payable(bound, copy)
    BY <1>1 DEF Paid
<1>3. /\ Denials!Reserved(bound, copy) \in Int
      /\ IsFiniteSet(Payable(bound, copy)) /\ Cardinality(Payable(bound, copy)) \in Nat
      /\ 1 + Cardinality(Payable(bound, copy)) <= Denials!Reserved(bound, copy)
    BY PayableIsReserved
<1>4. /\ IsFiniteSet(Paid(r)) /\ Cardinality(Paid(r)) \in Nat
      /\ Cardinality(Paid(r)) <= Cardinality(Payable(bound, copy))
    BY <1>2, <1>3, OneMore, FS_Subset
<1>5. 1 + Cardinality(Paid(r)) <= Denials!Reserved(bound, copy)
    BY <1>3, <1>4
<1> QED BY <1>1, <1>3, <1>4, <1>5

(* One more query, for a pair not yet paid for.                             *)
LEMMA ChargeStep ==
    ASSUME Denials!NamedOnce, run \in ProbeRuns, run' \in ProbeRuns, Affordable(run),
           run.at \in Probing, run'.at \in Probing, run'.bound = run.bound, run'.copy = run.copy,
           run'.reserved = run.reserved, Paid(run) \subseteq Paid(run'),
           \/ run'.asked = run.asked
           \/ run'.asked = run.asked + 1 /\ \E e \in Paid(run') : e \notin Paid(run)
    PROVE  Affordable(run')
<1>1. run.asked \in Int /\ run'.asked \in Int
    BY DEF ProbeRuns
<1>2. /\ IsFiniteSet(Paid(run')) /\ Cardinality(Paid(run')) \in Nat
      /\ Denials!Reserved(run'.bound, run'.copy) \in Int
      /\ 1 + Cardinality(Paid(run')) <= Denials!Reserved(run'.bound, run'.copy)
    BY PaidIsReserved
<1>3. Paid(run) \in SUBSET Paid(run')
    OBVIOUS
<1>4. /\ Cardinality(Paid(run)) \in Nat /\ Cardinality(Paid(run)) <= Cardinality(Paid(run'))
      /\ (\E e \in Paid(run') : e \notin Paid(run)) => Cardinality(Paid(run)) + 1 <= Cardinality(Paid(run'))
    BY <1>2, <1>3, OneMore
<1>5. run.asked <= 1 + Cardinality(Paid(run)) /\ run.reserved = Denials!Reserved(run.bound, run.copy)
    BY DEF Affordable
<1>6. run'.asked <= 1 + Cardinality(Paid(run'))
    BY <1>1, <1>2, <1>4, <1>5
<1>7. run'.reserved = Denials!Reserved(run'.bound, run'.copy)
    BY <1>5
<1>8. run'.asked <= run'.reserved
    BY <1>1, <1>2, <1>6, <1>7
<1>9. run'.at \notin {"new", "pinning"}
    BY DEF Probing
<1> QED BY <1>6, <1>7, <1>8, <1>9 DEF Affordable

(* The case that is tried may be charged for.                               *)
LEMMA TriedIsPayable ==
    ASSUME Denials!NamedOnce, DenialsInv, Len(run.cases) < Area, Runnable(run, Len(run.cases) + 1)
    PROVE  /\ \A k \in 1 .. 2 : <<Len(run.cases) + 1, k>> \in Payable(run.bound, run.copy)
           /\ Denials!Current.action \in Denials!SqlActions => <<Len(run.cases) + 1, 3>> \in Payable(run.bound, run.copy)
           /\ Len(run.cases) \in Nat /\ Area \in Nat
<1>1. Len(run.cases) \in Nat /\ Area \in Nat
    BY NamedOnceMeans DEF DenialsInv, ProbeRuns
<1>2. PICK n \in 1 .. Area : n = Len(run.cases) + 1
    BY <1>1
<1>3. Denials!Current = Denials!Matrix[n]
    BY <1>2 DEF Denials!Current
<1>4. PICK m \in [role : RoleSet, action : ActionSet] : m = Denials!Matrix[n]
    BY MatrixIsAll
<1>5. m.role \in run.bound /\ m.action \in Tried(run.copy)
    BY <1>2, <1>4 DEF Runnable, Tried
<1>6. \A k \in 1 .. 3 : (k = 3 => m.action \in Denials!SqlActions) => <<n, k>> \in Payable(run.bound, run.copy)
    BY <1>4, <1>5 DEF Payable
<1> QED BY <1>1, <1>2, <1>3, <1>4, <1>6

LEMMA CannotRunMeans ==
    ASSUME Denials!HasCase, ~ Denials!CannotRun, Denials!NamedOnce
    PROVE  Len(run.cases) < Area /\ Runnable(run, Len(run.cases) + 1)
BY MatrixIsAll DEF Denials!HasCase, Denials!CannotRun, Denials!Current, Runnable

LEMMA ProbingIsAffordable ==
    ASSUME Denials!NamedOnce, DenialsInv, DenialsInv', Affordable(run),
           \/ Denials!Skip \/ Denials!LookBefore \/ Denials!MissBefore \/ Denials!LookAfter \/ Denials!MissAfter
           \/ \E answer : run.at = "attempting" /\ Denials!Answered(answer)
    PROVE  Affordable(run')
<1>1. run \in ProbeRuns /\ run' \in ProbeRuns /\ run.cases \in Seq(ProbeCases) /\ Len(run.cases) \in Nat
    BY DEF DenialsInv, ProbeRuns
<1>2. CASE Denials!Skip
    <2>1. /\ run.at = "probing" /\ run'.at = "probing" /\ run'.bound = run.bound /\ run'.copy = run.copy
          /\ run'.reserved = run.reserved /\ run'.asked = run.asked
          /\ run'.cases = Append(run.cases, Denials!Cased("not_run", FALSE))
        BY <1>2 DEF DenialsInv, ProbeRuns, Denials!Skip, Denials!HasCase
    <2>2. Len(run'.cases) = Len(run.cases) + 1
        BY <1>1, <2>1
    <2>3. Paid(run) \subseteq Paid(run')
        BY <1>1, <2>1, <2>2 DEF Paid, Payable
    <2> QED BY <1>1, <2>1, <2>3, ChargeStep DEF Probing
<1>3. CASE Denials!LookBefore
    <2>1. /\ run.at = "probing" /\ run'.at = "attempting" /\ run'.bound = run.bound /\ run'.copy = run.copy
          /\ run'.reserved = run.reserved /\ run'.asked = run.asked + 1 /\ run'.cases = run.cases
        BY <1>3 DEF DenialsInv, ProbeRuns, Denials!LookBefore, Denials!HasCase
    <2>2. <<Len(run.cases) + 1, 1>> \in Payable(run.bound, run.copy)
        BY <1>3, CannotRunMeans, TriedIsPayable DEF Denials!LookBefore
    <2>3. Paid(run) \subseteq Paid(run')
        BY <2>1 DEF Paid
    <2>4. <<Len(run.cases) + 1, 1>> \in Paid(run') /\ <<Len(run.cases) + 1, 1>> \notin Paid(run)
        BY <1>1, <2>1, <2>2 DEF Paid
    <2> QED BY <1>1, <2>1, <2>3, <2>4, ChargeStep DEF Probing
<1>4. CASE Denials!MissBefore
    <2>1. /\ run.at = "probing" /\ run'.at = "probing" /\ run'.bound = run.bound /\ run'.copy = run.copy
          /\ run'.reserved = run.reserved /\ run'.asked = run.asked + Denials!AskedBySnapshot
          /\ run'.cases = Append(run.cases, Denials!Cased("source_changed_or_unreadable", FALSE))
        BY <1>4 DEF DenialsInv, ProbeRuns, Denials!MissBefore, Denials!HasCase
    <2>2. Len(run'.cases) = Len(run.cases) + 1
        BY <1>1, <2>1
    <2>3. <<Len(run.cases) + 1, 1>> \in Payable(run.bound, run.copy)
        BY <1>4, CannotRunMeans, TriedIsPayable DEF Denials!MissBefore
    <2>4. Paid(run) \subseteq Paid(run')
        BY <1>1, <2>1, <2>2 DEF Paid, Payable
    <2>5. <<Len(run.cases) + 1, 1>> \in Paid(run') /\ <<Len(run.cases) + 1, 1>> \notin Paid(run)
        BY <1>1, <2>1, <2>2, <2>3 DEF Paid
    <2>6. run'.asked = run.asked \/ run'.asked = run.asked + 1
        BY <1>1, <2>1 DEF Denials!AskedBySnapshot, ProbeRuns
    <2> QED BY <1>1, <2>1, <2>4, <2>5, <2>6, ChargeStep DEF Probing
<1>5. CASE Denials!LookAfter \/ Denials!MissAfter
    <2>1. PICK unchanged \in BOOLEAN : run.at = "attempted" /\ Denials!Observed(unchanged)
        BY <1>5 DEF Denials!LookAfter, Denials!MissAfter
    <2>2. PICK n \in 0 .. 1 : n = IF unchanged THEN 1 ELSE Denials!AskedBySnapshot
        BY DEF Denials!AskedBySnapshot
    <2>3. /\ run'.at = "probing" /\ run'.bound = run.bound /\ run'.copy = run.copy
          /\ run'.reserved = run.reserved /\ run'.asked = run.asked + n
          /\ run'.cases = Append(run.cases, Denials!Cased(run.answer, unchanged))
        BY <2>1, <2>2 DEF DenialsInv, ProbeRuns, Denials!Observed
    <2>4. Len(run'.cases) = Len(run.cases) + 1
        BY <1>1, <2>3
    <2>5. <<Len(run.cases) + 1, 2>> \in Payable(run.bound, run.copy)
        BY <2>1, TriedIsPayable DEF DenialsInv, Follows
    <2>6. Paid(run) \subseteq Paid(run')
        BY <1>1, <2>3, <2>4 DEF Paid, Payable
    <2>7. <<Len(run.cases) + 1, 2>> \in Paid(run') /\ <<Len(run.cases) + 1, 2>> \notin Paid(run)
        BY <1>1, <2>1, <2>3, <2>4, <2>5 DEF Paid
    <2>8. run'.asked = run.asked \/ run'.asked = run.asked + 1
        BY <1>1, <2>3 DEF ProbeRuns
    <2> QED BY <1>1, <2>1, <2>3, <2>6, <2>7, <2>8, ChargeStep DEF Probing
<1>6. CASE \E answer : run.at = "attempting" /\ Denials!Answered(answer)
    <2>1. PICK answer : run.at = "attempting" /\ Denials!Answered(answer)
        BY <1>6
    <2>2. PICK n \in 0 .. 1 : n = IF Denials!Current.action \in Denials!SqlActions THEN 1 ELSE 0
        OBVIOUS
    <2>3. /\ run'.at = "attempted" /\ run'.bound = run.bound /\ run'.copy = run.copy
          /\ run'.reserved = run.reserved /\ run'.asked = run.asked + n /\ run'.cases = run.cases
        BY <2>1, <2>2 DEF DenialsInv, ProbeRuns, Denials!Answered
    <2>4. Denials!Current.action \in Denials!SqlActions => <<Len(run.cases) + 1, 3>> \in Payable(run.bound, run.copy)
        BY <2>1, TriedIsPayable DEF DenialsInv, Follows
    <2>5. Paid(run) \subseteq Paid(run')
        BY <2>1, <2>3 DEF Paid
    <2>6. Denials!Current.action \in Denials!SqlActions =>
              <<Len(run.cases) + 1, 3>> \in Paid(run') /\ <<Len(run.cases) + 1, 3>> \notin Paid(run)
        BY <1>1, <2>1, <2>3, <2>4 DEF Paid
    <2>7. run'.asked = run.asked \/ (run'.asked = run.asked + 1 /\ Denials!Current.action \in Denials!SqlActions)
        BY <1>1, <2>2, <2>3 DEF ProbeRuns
    <2> QED BY <1>1, <2>1, <2>3, <2>5, <2>6, <2>7, ChargeStep DEF Probing
<1> QED BY <1>2, <1>3, <1>4, <1>5, <1>6

LEMMA RestIsAffordable ==
    ASSUME Denials!NamedOnce, DenialsInv, DenialsInv', Affordable(run),
           \/ Denials!Begin \/ \E artifact \in {"present", "missing"} : Denials!WriteFiles(artifact)
           \/ Denials!Interrupt \/ Denials!Return \/ Denials!CheckCode \/ Denials!WriteManifest
           \/ Denials!AppendReceipt \/ Denials!ExposeReceipt
    PROVE  Affordable(run')
<1>1. run \in ProbeRuns
    BY DEF DenialsInv
<1>2. CASE Denials!Begin
    BY <1>1, <1>2 DEF Denials!Begin, ProbeRuns, Affordable, Probing
<1>3. run'.at \in Finished /\ run'.asked = run.asked /\ run'.reserved = run.reserved => Affordable(run')
    BY DEF Affordable, Finished, Probing
<1>4. CASE \E artifact \in {"present", "missing"} : Denials!WriteFiles(artifact)
    BY <1>1, <1>3, <1>4 DEF Denials!WriteFiles, ProbeRuns, Finished
<1>5. CASE Denials!Interrupt
    BY <1>1, <1>3, <1>5 DEF Denials!Interrupt, ProbeRuns, Finished
<1>6. CASE Denials!Return
    BY <1>1, <1>3, <1>6 DEF Denials!Return, ProbeRuns, Finished
<1>7. CASE Denials!CheckCode
    BY <1>1, <1>3, <1>7 DEF Denials!CheckCode, ProbeRuns, Finished
<1>8. CASE Denials!WriteManifest
    BY <1>1, <1>3, <1>8 DEF Denials!WriteManifest, ProbeRuns, Finished
<1>9. CASE Denials!AppendReceipt
    BY <1>1, <1>3, <1>9 DEF Denials!AppendReceipt, ProbeRuns, Finished
<1>10. CASE Denials!ExposeReceipt
    BY <1>1, <1>3, <1>10 DEF Denials!ExposeReceipt, ProbeRuns, Finished
<1> QED BY <1>2, <1>4, <1>5, <1>6, <1>7, <1>8, <1>9, <1>10

LEMMA PinIsAffordable ==
    ASSUME Denials!NamedOnce, DenialsInv, DenialsInv', NEW bound \in SUBSET RoleSet, NEW copy \in BOOLEAN,
           NEW ceiling, Denials!Pin(bound, copy, ceiling)
    PROVE  Affordable(run')
<1>1. PICK n \in Int : n = Denials!Reserved(bound, copy)
    BY PayableIsReserved
<1>2. PICK d \in 0 .. 1 : d = table.description
    BY DEF DenialsInv, Tables
<1>3. run' = [run EXCEPT !.at = "probing", !.bound = bound, !.copy = copy,
                         !.reserved = n, !.asked = 1, !.description = d]
    BY <1>1, <1>2 DEF Denials!Pin
<1>4. run'.at = "probing" /\ run'.bound = bound /\ run'.copy = copy /\ run'.reserved = n /\ run'.asked = 1
    BY <1>3 DEF DenialsInv, ProbeRuns
<1>5. /\ Cardinality(Paid(run')) \in Nat
      /\ 1 + Cardinality(Paid(run')) <= Denials!Reserved(run'.bound, run'.copy)
    BY PaidIsReserved DEF DenialsInv
<1>6. Denials!Reserved(run'.bound, run'.copy) = n
    BY <1>1, <1>4
<1>7. run'.asked <= 1 + Cardinality(Paid(run')) /\ run'.asked <= n
    BY <1>4, <1>5, <1>6
<1> QED BY <1>4, <1>6, <1>7 DEF Affordable, Probing

LEMMA DenialsStep ==
    ASSUME Denials!NamedOnce, DenialsInv, Affordable(run), Denials!Next \/ UNCHANGED Denials!vars
    PROVE  DenialsInv' /\ Affordable(run')
<1>1. CASE UNCHANGED Denials!vars
    <2>1. UNCHANGED <<table, revision, run, effects, allowed, files, ledger>>
        BY <1>1 DEF Denials!vars
    <2>2. Affordable(run')
        BY <2>1
    <2> QED BY <2>1, <2>2 DEF DenialsInv
<1>2. CASE Denials!Others
    <2>1. run' = run
        BY <1>2 DEF Denials!Others, Denials!OthersChange, Denials!Edit, Denials!Tamper
    <2> QED BY <1>2, <2>1, OthersStep
<1>3. CASE Denials!Service
    <2>1. DenialsInv'
        BY <1>3, ServiceStep
    <2>2. \E answer : run.at = "attempting" /\ Denials!Answered(answer)
        BY <1>3 DEF Denials!Service, Denials!Refuse, Denials!RejectDeletes, Denials!LetThrough, Denials!TurnAway
    <2> QED BY <2>1, <2>2, ProbingIsAffordable
<1>4. ASSUME NEW bound \in SUBSET RoleSet, NEW copy \in BOOLEAN, NEW ceiling \in Ceilings,
             Denials!Pin(bound, copy, ceiling)
      PROVE  DenialsInv' /\ Affordable(run')
    <2>1. Denials!Reserved(bound, copy) \in Int
        BY PayableIsReserved
    <2>2. DenialsInv'
        BY <1>4, <2>1, PinStep
    <2> QED BY <1>4, <2>2, PinIsAffordable
<1>5. CASE Denials!Skip \/ Denials!LookBefore \/ Denials!MissBefore \/ Denials!LookAfter \/ Denials!MissAfter
    <2>1. ASSUME Denials!LookAfter PROVE DenialsInv'
        BY <2>1, ObservedStep DEF Denials!LookAfter
    <2>2. ASSUME Denials!MissAfter PROVE DenialsInv'
        BY <2>2, ObservedStep DEF Denials!MissAfter
    <2>3. DenialsInv'
        BY <1>5, <2>1, <2>2, SkipStep, LookBeforeStep, MissBeforeStep
    <2> QED BY <1>5, <2>3, ProbingIsAffordable
<1>6. CASE \/ Denials!Begin \/ \E artifact \in {"present", "missing"} : Denials!WriteFiles(artifact)
           \/ Denials!Interrupt \/ Denials!Return \/ Denials!CheckCode \/ Denials!WriteManifest
           \/ Denials!AppendReceipt \/ Denials!ExposeReceipt
    <2>1. DenialsInv'
        BY <1>6, BeginStep, WriteFilesStep, InterruptProbesStep, ReturnStep, CheckCodeStep, WriteManifestStep,
           AppendReceiptStep, ExposeReceiptStep
    <2>2. Affordable(run')
        BY <1>6, <2>1, RestIsAffordable, Zenon
    <2> QED BY <2>1, <2>2
<1>7. Denials!Process =>
          \/ \E bound \in SUBSET RoleSet, copy \in BOOLEAN, ceiling \in Ceilings : Denials!Pin(bound, copy, ceiling)
          \/ Denials!Skip \/ Denials!LookBefore \/ Denials!MissBefore \/ Denials!LookAfter \/ Denials!MissAfter
          \/ Denials!Begin \/ \E artifact \in {"present", "missing"} : Denials!WriteFiles(artifact)
          \/ Denials!Interrupt \/ Denials!Return \/ Denials!CheckCode \/ Denials!WriteManifest
          \/ Denials!AppendReceipt \/ Denials!ExposeReceipt
    BY DEF Denials!Process, RoleSet
<1>8. CASE Denials!Process
    BY <1>4, <1>5, <1>6, <1>7, <1>8, Zenon
<1> QED BY <1>1, <1>2, <1>3, <1>8 DEF Denials!Next

LEMMA DenialsInvSuffices ==
    ASSUME DenialsInv, Affordable(run)
    PROVE  SealedIsTrue /\ ProbesAreBounded
<1>1. Denials!RefusalsAreTrue
    <2> SUFFICES ASSUME NEW receipt \in ledger, receipt.report.status = "refusals_observed"
                 PROVE  /\ ~ allowed /\ run.bound = RoleSet /\ run.copy
                        /\ WholeMatrix(receipt.report.cases)
        BY DEF Denials!RefusalsAreTrue, RoleSet, WholeMatrix
    <2>1. run.at \in Finished /\ receipt.report = run.result
        BY DEF DenialsInv, SealedAsSeen, Finished
    <2> QED BY <2>1 DEF DenialsInv, Truthful
<1>2. Denials!VerifiedIsWhatWasSeen
    <2> SUFFICES ASSUME NEW key \in ledger, Denials!Verifies(key)
                 PROVE  /\ files["result"] = run.result /\ files["execution"] = run.frozen
                        /\ files["after"] # None => files["result"].status = "failed"
        BY DEF Denials!VerifiedIsWhatWasSeen
    <2>1. files["result"] = key.report /\ files["execution"] = key.execution
        BY DEF Denials!Verifies, Denials!Retained
    <2> QED BY <2>1 DEF DenialsInv, SealedAsSeen
<1>3. Denials!OneEffect
    BY DEF DenialsInv, Unharmed, Denials!OneEffect, Denials!Pinned
<1>4. Denials!ReservedIsEnough
    BY DEF Affordable, Denials!ReservedIsEnough
<1> QED BY <1>1, <1>2, <1>3, <1>4
        DEF SealedIsTrue, ProbesAreBounded, Denials!SealedIsTrue, Denials!ProbesAreBounded

LEMMA DenialsInvHolds == Denials!Spec => [](DenialsInv /\ Affordable(run))
<1>1. Denials!Init => DenialsInv /\ Affordable(run)
    <2> SUFFICES ASSUME Denials!Init PROVE DenialsInv /\ Affordable(run)
        OBVIOUS
    <2>1. run.at = "new" /\ run.asked = 0 /\ run.reserved = 0
        BY DEF Denials!Init
    <2> QED BY <2>1, DenialsAssumption, DenialsInit DEF Affordable, Probing
<1>2. DenialsInv /\ Affordable(run) /\ [Denials!Next]_Denials!vars => (DenialsInv /\ Affordable(run))'
    BY DenialsAssumption, DenialsStep
<1> QED BY <1>1, <1>2, PTL DEF Denials!Spec

(* A receipt of refusals_observed stands for the whole matrix, in which     *)
(* nobody was permitted anything and nothing took effect; and what verifies *)
(* is what the run saw, whatever became of the directory, the code and the  *)
(* source meanwhile (denials.py, boundary_evidence.py).                     *)
THEOREM SealedIsAlwaysTrue == Denials!Spec => []SealedIsTrue
<1>1. DenialsInv /\ Affordable(run) => SealedIsTrue
    BY DenialsInvSuffices
<1> QED BY <1>1, DenialsInvHolds, PTL

(* After an attempt that took effect, told or not, no other is made, and    *)
(* the queries of a run are never more than it reserved (denials.py).       *)
THEOREM ProbesAreAlwaysBounded == Denials!Spec => []ProbesAreBounded
<1>1. DenialsInv /\ Affordable(run) => ProbesAreBounded
    BY DenialsInvSuffices
<1> QED BY <1>1, DenialsInvHolds, PTL
=============================================================================
