------------------------- MODULE LearningTrialProofs -------------------------
(* Proofs about LearningTrial, for any callers and packets, and about the   *)
(* diagnostic trial (EvolutionTrial, as Diagnosis), for any runners, bounds *)
(* and events of other producers whose roles are not the runners'.          *)
EXTENDS MCLearningTrial, FiniteSetTheorems, TLAPS

Measuring == {"compute", "recheck", "append_trial", "write_completion"}

(* One caller at a time is in a critical section. *)
LockExcludes ==
    \A c, d \in Callers : caller[c].pc \notin Outside /\ caller[d].pc \notin Outside => c = d

(* What a call is to write is there by the time it writes it. *)
CallsCarry ==
    \A c \in Callers :
        /\ caller[c].pc = "run" => caller[c].input # None
        /\ caller[c].pc = "write_authorization" => caller[c].authorization # None
        /\ caller[c].pc = "append_authorization" => authorization # None

(* Nothing has been measured before the claim. *)
UnclaimedIsUnmeasured == request = None => trials = {} /\ completion = None

(* The caller that measures holds the claim, and is the only one ever to.   *)
ClaimIsHeld ==
    \A c \in Callers : caller[c].pc \in Measuring =>
        /\ request # None /\ completion = None
        /\ caller[c].pc # "write_completion" => trials = {}
        /\ caller[c].pc # "compute" => caller[c].trial # None /\ caller[c].trial.packet = request.packet
        /\ caller[c].pc = "write_completion" => trials = {caller[c].trial}

(* One trial at most, without counting. *)
SealedOnce ==
    /\ \A s, t \in trials : s = t
    /\ \A trial \in trials : request # None /\ trial.packet = request.packet
    /\ completion # None => trials = {completion}

(* The recheck cannot become stale: a revocation needs the lock too. *)
RecheckHolds == \A c \in Callers : caller[c].pc = "append_trial" => ~ revoked

Claims == LockExcludes /\ CallsCarry /\ UnclaimedIsUnmeasured /\ ClaimIsHeld /\ SealedOnce /\ RecheckHolds

IInv == TypeOK /\ Claims

-----------------------------------------------------------------------------
LEMMA InitHolds == Init => IInv
<1> SUFFICES ASSUME Init PROVE IInv
  OBVIOUS
<1> USE DEF Init, Resting, Outside
<1>1. TypeOK
  <2>1. stream \in Seq(Packets) /\ collected \in [Packets -> Nat]
    OBVIOUS
  <2>2. caller \in [Callers -> Calls]
    BY DEF Calls
  <2> QED
    BY <2>1, <2>2 DEF TypeOK
<1>2. Claims
  BY DEF Claims, LockExcludes, CallsCarry, UnclaimedIsUnmeasured, ClaimIsHeld, SealedOnce, RecheckHolds, Measuring
<1> QED
  BY <1>1, <1>2 DEF IInv

(* What packets, code and time do concerns none of the trial's files. *)
LEMMA WorldStep ==
    ASSUME IInv, \/ \E p \in Packets : Collect(p) \/ Import(p)
                 \/ Edit \/ Expire
    PROVE  IInv'
<1>1. UNCHANGED <<authorization, pointer, request, failure, completion, revoked, authorities, trials, caller>>
  BY DEF Collect, Import, Edit, Expire, directory, ledger
<1>2. TypeOK'
  <2> USE DEF IInv, TypeOK
  <2>1. ASSUME NEW p \in Packets, Collect(p) PROVE TypeOK'
    BY <1>1, <2>1 DEF Collect
  <2>2. ASSUME NEW p \in Packets, Import(p) PROVE TypeOK'
    <3>1. Append(stream, p) \in Seq(Packets)
      BY <2>2
    <3> QED
      BY <1>1, <2>2, <3>1 DEF Import
  <2>3. CASE Edit
    BY <1>1, <2>3 DEF Edit
  <2>4. CASE Expire
    BY <1>1, <2>4 DEF Expire
  <2> QED
    BY <2>1, <2>2, <2>3, <2>4
<1>3. Claims'
  BY <1>1 DEF IInv, Claims, LockExcludes, CallsCarry, UnclaimedIsUnmeasured, ClaimIsHeld, SealedOnce, RecheckHolds
<1> QED
  BY <1>2, <1>3 DEF IInv

(* A call that stays, or ends up, outside the critical sections. *)
LEMMA OutwardStep ==
    ASSUME IInv, NEW c \in Callers, NEW record \in Calls, Set(c, record),
           record.pc \in Outside, record.pc = "run" => record.input # None,
           UNCHANGED <<world, directory, ledger>>
    PROVE  IInv'
<1>1. TypeOK'
  BY DEF IInv, TypeOK, Set, world, directory, ledger
<1>2. Claims'
  <2> USE DEF IInv, Claims, TypeOK, Set, world, directory, ledger, Outside
  <2>1. LockExcludes' /\ CallsCarry'
    BY DEF LockExcludes, CallsCarry
  <2>2. UnclaimedIsUnmeasured' /\ SealedOnce' /\ RecheckHolds'
    BY DEF UnclaimedIsUnmeasured, SealedOnce, RecheckHolds
  <2>3. ClaimIsHeld'
    BY DEF ClaimIsHeld, Measuring
  <2> QED
    BY <2>1, <2>2, <2>3
<1> QED
  BY <1>1, <1>2 DEF IInv

LEMMA RestingIsACall == Resting \in Calls
  BY DEF Resting, Calls

LEMMA OutsideSteps ==
    ASSUME IInv, NEW c \in Callers,
           \/ AuthorizeChecks(c) \/ AuthorizeEnds(c) \/ RunChecks(c) \/ RunEnds(c) \/ Die(c)
    PROVE  IInv'
<1>1. caller[c] \in Calls
  BY DEF IInv, TypeOK
<1>2. CASE AuthorizeChecks(c)
  <2> DEFINE record == [caller[c] EXCEPT !.pc = "authorize"]
  <2>1. record \in Calls /\ record.pc = "authorize"
    BY <1>1 DEF Calls
  <2> HIDE DEF record
  <2>2. Set(c, record)
    BY <1>2 DEF AuthorizeChecks, Goto, record
  <2> QED
    BY <1>2, <2>1, <2>2, OutwardStep DEF AuthorizeChecks, Outside
<1>3. CASE AuthorizeEnds(c) \/ RunEnds(c) \/ Die(c)
  BY <1>3, RestingIsACall, OutwardStep DEF AuthorizeEnds, RunEnds, Die, End, Resting, Outside
<1>4. CASE RunChecks(c)
  <2>1. PICK p \in Packets, w \in 0 .. Len(stream) :
            Set(c, [Resting EXCEPT !.pc = "run", !.input = [packet |-> p, report |-> w]])
    BY <1>4 DEF RunChecks
  <2> DEFINE record == [Resting EXCEPT !.pc = "run", !.input = [packet |-> p, report |-> w]]
  <2>2. [packet |-> p, report |-> w] \in Inputs
    BY DEF IInv, TypeOK, Inputs
  <2>3. record \in Calls /\ record.pc = "run" /\ record.input # None
    BY <2>2, NoneAssumption DEF Resting, Calls
  <2> HIDE DEF record
  <2>4. Set(c, record)
    BY <2>1 DEF record
  <2> QED
    BY <1>4, <2>3, <2>4, OutwardStep DEF RunChecks, Outside
<1> QED
  BY <1>2, <1>3, <1>4

(* Inside the critical section of authorize nothing is measured. *)
LEMMA AuthorizingStep ==
    ASSUME IInv, NEW c \in Callers,
           \/ Authorize(c) \/ WriteAuthorization(c) \/ AppendAuthorization(c) \/ WritePointer(c)
    PROVE  IInv'
<1>1. caller[c] \in Calls /\ Len(stream) \in Nat /\ clock \in Nat
  BY DEF IInv, TypeOK
<1>2. UNCHANGED <<world, request, failure, completion, revoked, trials>>
  BY DEF Authorize, WriteAuthorization, AppendAuthorization, WritePointer, directory, ledger
<1>3. PICK record \in Calls :
          /\ caller' = [caller EXCEPT ![c] = record]
          /\ record.pc \in {"write_authorization", "append_authorization", "write_pointer", "idle"}
          /\ record.pc = "write_authorization" => record.authorization # None
          /\ record.pc = "append_authorization" => WriteAuthorization(c)
  <2> USE <1>1 DEF Set, Goto, End
  <2>1. CASE Authorize(c)
    <3> DEFINE observed == [at |-> clock, watermark |-> Len(stream)]
               record == [caller[c] EXCEPT !.pc = "write_authorization", !.authorization = observed]
    <3>1. observed \in Authorizations
      BY DEF Authorizations
    <3>2. record \in Calls /\ record.pc = "write_authorization" /\ record.authorization = observed
      BY <3>1 DEF Calls
    <3> QED
      BY <2>1, <3>1, <3>2, NoneAssumption DEF Authorize
  <2>2. CASE WriteAuthorization(c)
    <3> DEFINE record == [caller[c] EXCEPT !.pc = "append_authorization"]
    <3>1. record \in Calls /\ record.pc = "append_authorization"
      BY DEF Calls
    <3> QED
      BY <2>2, <3>1 DEF WriteAuthorization
  <2>3. CASE AppendAuthorization(c)
    <3> DEFINE record == [caller[c] EXCEPT !.pc = "write_pointer"]
    <3>1. record \in Calls /\ record.pc = "write_pointer"
      BY DEF Calls
    <3> QED
      BY <2>3, <3>1 DEF AppendAuthorization
  <2>4. CASE WritePointer(c)
    BY <2>4, RestingIsACall DEF WritePointer, Resting
  <2> QED
    BY <2>1, <2>2, <2>3, <2>4
<1>4. (caller[c].pc = "authorize" /\ LockIsFree) \/ caller[c].pc \notin Outside
  BY DEF Authorize, WriteAuthorization, AppendAuthorization, WritePointer, Outside
<1>5. caller'[c] = record /\ caller'[c].pc \notin Measuring \cup {"append_trial", "run"}
  BY <1>3 DEF IInv, TypeOK, Measuring
<1>6. /\ authorization' \in Authorizations \cup {None} /\ pointer' \in BOOLEAN
      /\ authorities' \subseteq Authorizations
  BY <1>1 DEF IInv, TypeOK, Claims, CallsCarry, Calls, Authorize, WriteAuthorization, AppendAuthorization, WritePointer,
         directory, ledger
<1>7. TypeOK'
  BY <1>2, <1>3, <1>6 DEF IInv, TypeOK, world
<1>8. LockExcludes'
  BY <1>3, <1>4 DEF IInv, TypeOK, Claims, LockExcludes, LockIsFree, Outside
<1>9. CallsCarry'
  <2>1. ASSUME NEW d \in Callers, d # c, caller[d].pc = "append_authorization" PROVE authorization' # None
    <3>1. caller[c].pc \in Outside
      BY <2>1 DEF IInv, Claims, LockExcludes, Outside
    <3> QED
      BY <2>1, <3>1, <1>4 DEF LockIsFree, Outside
  <2>2. caller'[c].pc = "append_authorization" => authorization' # None
    BY <1>3, <1>5 DEF IInv, Claims, CallsCarry, WriteAuthorization
  <2> QED
    BY <1>3, <1>5, <2>1, <2>2 DEF IInv, TypeOK, Claims, CallsCarry
<1>10. UnclaimedIsUnmeasured' /\ SealedOnce'
  BY <1>2 DEF IInv, Claims, UnclaimedIsUnmeasured, SealedOnce
<1>11. ClaimIsHeld' /\ RecheckHolds'
  BY <1>2, <1>3, <1>5 DEF IInv, TypeOK, Claims, ClaimIsHeld, RecheckHolds
<1> QED
  BY <1>7, <1>8, <1>9, <1>10, <1>11 DEF IInv, Claims

(* The claim, and the measurement that it stands for. *)
LEMMA MeasuringStep ==
    ASSUME IInv, NEW c \in Callers,
           \/ Claim(c) \/ Compute(c) \/ GateFails(c) \/ Recheck(c) \/ AppendTrial(c) \/ WriteCompletion(c)
    PROVE  IInv'
<1> USE DEF IInv, Claims
<1>1. caller[c] \in Calls
  BY DEF TypeOK
<1>2. UNCHANGED <<world, authorization, pointer, revoked, authorities>>
  BY DEF Claim, Compute, GateFails, Recheck, AppendTrial, WriteCompletion, directory, ledger
<1>3. (caller[c].pc = "run" /\ LockIsFree) \/ caller[c].pc \notin Outside
  BY DEF Claim, Compute, GateFails, Recheck, AppendTrial, WriteCompletion, Outside
<1>4. \A d \in Callers : d # c => caller[d].pc \in Outside
  BY <1>3 DEF LockIsFree, LockExcludes, Outside
<1>5. /\ caller' = [caller EXCEPT ![c] = caller'[c]] /\ caller'[c] \in Calls
      /\ caller'[c].pc \in Measuring \cup {"idle"}
      /\ request' \in Inputs \cup {None} /\ failure' \in BOOLEAN
      /\ completion' \in TrialReceipts \cup {None} /\ trials' \subseteq TrialReceipts
      /\ UnclaimedIsUnmeasured' /\ SealedOnce'
      /\ caller'[c].pc \in Measuring =>
            /\ request' # None /\ completion' = None
            /\ caller'[c].pc # "write_completion" => trials' = {}
            /\ caller'[c].pc # "compute" => caller'[c].trial # None /\ caller'[c].trial.packet = request'.packet
            /\ caller'[c].pc = "write_completion" => trials' = {caller'[c].trial}
      /\ caller'[c].pc = "append_trial" => ~ revoked'
  <2> USE <1>1 DEF Measuring, ClaimIsHeld, UnclaimedIsUnmeasured, SealedOnce, Calls, Goto, Set, End
  <2>1. CASE Claim(c)
    BY <2>1 DEF TypeOK, Claim, CallsCarry, ledger
  <2>2. CASE Compute(c)
    <3>1. request \in Inputs /\ trials = {} /\ completion = None
      BY <2>2 DEF TypeOK, Compute
    <3>2. Cardinality(trials) = 0
      BY <3>1, FS_EmptySet
    <3>3. PICK status \in Statuses :
              Set(c, [caller[c] EXCEPT !.pc = "recheck",
                                       !.trial = [packet |-> request.packet, status |-> status, run |-> Cardinality(trials)]])
      BY <2>2 DEF Compute, Statuses
    <3>4. [packet |-> request.packet, status |-> status, run |-> Cardinality(trials)] \in TrialReceipts
      BY <3>1, <3>2 DEF TrialReceipts, Inputs
    <3> DEFINE receipt == [packet |-> request.packet, status |-> status, run |-> Cardinality(trials)]
               now == [caller[c] EXCEPT !.pc = "recheck", !.trial = receipt]
    <3>5. receipt # None /\ receipt.packet = request.packet
      BY <3>4, NoneAssumption
    <3> HIDE DEF receipt
    <3>6. caller[c] \in Calls
      BY DEF TypeOK
    <3>7. now \in Calls /\ now.pc = "recheck" /\ now.trial = receipt
      BY <3>4, <3>6 DEF receipt
    <3>8. caller' = [caller EXCEPT ![c] = now] /\ UNCHANGED <<request, failure, completion, revoked, trials>>
      BY <2>2, <3>3 DEF Compute, directory, ledger, receipt
    <3> HIDE DEF now
    <3>9. caller'[c] = now
      BY <3>8 DEF TypeOK
    <3>10. /\ request # None /\ request \in Inputs /\ failure \in BOOLEAN
           /\ now.pc \in Measuring /\ now.pc \notin {"compute", "append_trial", "write_completion"}
      <4>1. request # None
        BY <2>2 DEF Compute
      <4>2. request \in Inputs /\ failure \in BOOLEAN
        BY <4>1 DEF TypeOK
      <4> QED
        BY <3>7, <4>1, <4>2
    <3> HIDE DEF Calls, Measuring
    <3> QED
      BY <3>1, <3>5, <3>7, <3>8, <3>9, <3>10, FS_EmptySet DEF TypeOK
  <2>3. CASE GateFails(c)
    BY <2>3, RestingIsACall DEF TypeOK, GateFails, Resting, ledger
  <2>4. CASE Recheck(c)
    <3>1. CASE PlanIsLive
      <4>1. /\ caller' = [caller EXCEPT ![c] = [caller[c] EXCEPT !.pc = "append_trial"]]
            /\ UNCHANGED <<request, failure, completion, revoked, trials>>
            /\ caller[c].pc = "recheck" /\ ~ revoked
        BY <2>4, <3>1 DEF Recheck, PlanIsLive, ledger
      <4> DEFINE now == [caller[c] EXCEPT !.pc = "append_trial"]
      <4>2. now \in Calls /\ now.pc = "append_trial" /\ now.trial = caller[c].trial
        OBVIOUS
      <4> HIDE DEF now
      <4>3. caller' = [caller EXCEPT ![c] = now] /\ caller'[c] = now
        BY <4>1 DEF TypeOK, now
      <4>4. /\ request # None /\ completion = None /\ trials = {}
            /\ caller[c].trial # None /\ caller[c].trial.packet = request.packet
        BY <4>1
      <4>5. request \in Inputs /\ failure \in BOOLEAN /\ now.pc \in Measuring
        BY <4>2, <4>4 DEF TypeOK
      <4>6. UnclaimedIsUnmeasured' /\ SealedOnce'
        BY <4>1, <4>4
      <4>7. caller' = [caller EXCEPT ![c] = caller'[c]]
        BY <4>3
      <4>8. /\ request' = request /\ failure' = failure /\ completion' = None /\ trials' = {} /\ ~ revoked'
            /\ caller'[c] \in Calls /\ caller'[c].pc = "append_trial" /\ caller'[c].pc \in Measuring
            /\ caller'[c].trial # None /\ caller'[c].trial.packet = request'.packet
        BY <4>1, <4>2, <4>3, <4>4, <4>5
      <4> HIDE DEF Calls, Measuring, UnclaimedIsUnmeasured, SealedOnce, ClaimIsHeld, IInv, Claims
      <4>9. /\ request' # None /\ completion' = None
            /\ caller'[c].pc # "write_completion" => trials' = {}
            /\ caller'[c].pc # "compute" => caller'[c].trial # None /\ caller'[c].trial.packet = request'.packet
            /\ caller'[c].pc = "write_completion" => trials' = {caller'[c].trial}
        BY <4>4, <4>8
      <4>10. /\ caller'[c].pc \in Measuring \cup {"idle"}
             /\ request' \in Inputs \cup {None} /\ failure' \in BOOLEAN
             /\ completion' \in TrialReceipts \cup {None} /\ trials' \subseteq TrialReceipts
        BY <4>5, <4>8
      <4> QED
        BY <4>6, <4>7, <4>8, <4>9, <4>10
    <3>2. CASE ~ PlanIsLive
      BY <2>4, <3>2, RestingIsACall DEF TypeOK, Recheck, Resting, ledger
    <3> QED
      BY <3>1, <3>2
  <2>5. CASE AppendTrial(c)
    BY <2>5 DEF TypeOK, AppendTrial, directory
  <2>6. CASE WriteCompletion(c)
    BY <2>6, RestingIsACall DEF TypeOK, WriteCompletion, Resting, ledger
  <2> QED
    BY <2>1, <2>2, <2>3, <2>4, <2>5, <2>6
<1>6. TypeOK'
  BY <1>2, <1>5 DEF TypeOK, world
<1>7. LockExcludes'
  BY <1>4, <1>5 DEF TypeOK, LockExcludes
<1>8. CallsCarry'
  BY <1>2, <1>5 DEF TypeOK, CallsCarry, Measuring
<1>9. ClaimIsHeld' /\ RecheckHolds'
  BY <1>4, <1>5 DEF TypeOK, ClaimIsHeld, RecheckHolds, Outside, Measuring
<1> QED
  BY <1>5, <1>6, <1>7, <1>8, <1>9

LEMMA RevokeStep ==
    ASSUME IInv, NEW c \in Callers, Revoke(c)
    PROVE  IInv'
<1>1. TypeOK'
  BY DEF IInv, TypeOK, Revoke, world, ledger
<1>2. RecheckHolds'
  BY DEF Revoke, LockIsFree, RecheckHolds, Outside
<1>3. LockExcludes' /\ CallsCarry' /\ UnclaimedIsUnmeasured' /\ ClaimIsHeld' /\ SealedOnce'
  BY DEF IInv, Claims, Revoke, LockExcludes, CallsCarry, UnclaimedIsUnmeasured, ClaimIsHeld, SealedOnce, ledger
<1> QED
  BY <1>1, <1>2, <1>3 DEF IInv, Claims

LEMMA StepHolds == IInv /\ [Next]_vars => IInv'
<1> SUFFICES ASSUME IInv, [Next]_vars PROVE IInv'
  OBVIOUS
<1>1. CASE UNCHANGED vars
  <2>1. UNCHANGED <<clock, collected, imported, stream, reviewed, expired, authorization, pointer, request, failure,
                    completion, revoked, authorities, trials, caller>>
    BY <1>1 DEF vars, world, directory, ledger
  <2> QED
    BY <2>1 DEF IInv, TypeOK, Claims, LockExcludes, CallsCarry, UnclaimedIsUnmeasured, ClaimIsHeld, SealedOnce, RecheckHolds
<1>2. CASE (\E p \in Packets : Collect(p) \/ Import(p)) \/ Edit \/ Expire
  BY <1>2, WorldStep
<1>3. ASSUME NEW c \in Callers,
             \/ AuthorizeChecks(c) \/ AuthorizeEnds(c) \/ RunChecks(c) \/ RunEnds(c) \/ Die(c)
      PROVE IInv'
  BY <1>3, OutsideSteps
<1>4. ASSUME NEW c \in Callers,
             \/ Authorize(c) \/ WriteAuthorization(c) \/ AppendAuthorization(c) \/ WritePointer(c)
      PROVE IInv'
  BY <1>4, AuthorizingStep
<1>5. ASSUME NEW c \in Callers,
             \/ Claim(c) \/ Compute(c) \/ GateFails(c) \/ Recheck(c) \/ AppendTrial(c) \/ WriteCompletion(c)
      PROVE IInv'
  BY <1>5, MeasuringStep
<1>6. ASSUME NEW c \in Callers, Revoke(c) PROVE IInv'
  BY <1>6, RevokeStep
<1> QED
  BY <1>1, <1>2, <1>3, <1>4, <1>5, <1>6 DEF Next

LEMMA Inductive == Spec => []IInv
  BY InitHolds, StepHolds, PTL DEF Spec

-----------------------------------------------------------------------------
(* Every step keeps the types of the directory, the ledger and the calls. *)
THEOREM TypeCorrect == Spec => []TypeOK
<1>1. IInv => TypeOK
  BY DEF IInv
<1> QED
  BY <1>1, Inductive, PTL

(* One signed plan gives one measurement, whoever runs, dies and retries. *)
THEOREM PlanIsMeasuredOnce == Spec => []OneTrial
<1>1. IInv => OneTrial
  <2> SUFFICES ASSUME IInv PROVE OneTrial
    OBVIOUS
  <2>1. Cardinality(trials) <= 1
    <3>1. CASE trials = {}
      BY <3>1, FS_EmptySet
    <3>2. ASSUME NEW t \in trials PROVE Cardinality(trials) <= 1
      <4>1. trials = {t}
        BY DEF IInv, Claims, SealedOnce
      <4>2. Cardinality({t}) = 1
        BY FS_Singleton
      <4> QED
        BY <4>1, <4>2
    <3> QED
      BY <3>1, <3>2
  <2> QED
    BY <2>1 DEF IInv, Claims, SealedOnce, OneTrial
<1> QED
  BY <1>1, Inductive, PTL

(* No result is sealed under a revoked plan, though the plan was checked    *)
(* before the lock was taken.                                               *)
THEOREM RevokedPlanSealsNothing == Spec => NothingAfterRevocation
<1>1. IInv /\ [Next]_vars => [revoked => trials' = trials]_vars
  <2> SUFFICES ASSUME IInv, Next, revoked, trials' # trials PROVE FALSE
    BY DEF vars
  <2>1. PICK c \in Callers : AppendTrial(c)
    BY DEF Next, Collect, Import, Edit, Expire, AuthorizeChecks, AuthorizeEnds, Authorize, WriteAuthorization,
           AppendAuthorization, WritePointer, RunChecks, RunEnds, Claim, Compute, GateFails, Recheck, WriteCompletion,
           Revoke, Die, ledger
  <2> QED
    BY <2>1 DEF IInv, Claims, RecheckHolds, AppendTrial
<1> QED
  BY <1>1, Inductive, PTL DEF Spec, NothingAfterRevocation

-----------------------------------------------------------------------------
(* What has rows was imported, and what was imported was collected.         *)
Collected(p) == collected[p] # 0 /\ collected[p] <= clock
RowsAreCollected ==
    /\ \A p \in Packets : collected[p] <= clock
    /\ \A p \in imported : Collected(p)
    /\ \A i \in 1 .. Len(stream) : Collected(stream[i])

(* An authorization has seen all that was in the stream by its watermark.   *)
Observes(a) ==
    /\ a.watermark <= Len(stream) /\ a.at <= clock
    /\ \A i \in 1 .. a.watermark : collected[stream[i]] <= a.at
AuthorizationObserves ==
    /\ authorization # None => Observes(authorization)
    /\ \A c \in Callers : caller[c].pc = "write_authorization" =>
          authorization = None /\ Observes(caller[c].authorization)

(* A run goes by an authorization that is on the ledger, and a report of    *)
(* rows that are there.                                                     *)
Grounded(input) == authorization \in authorities /\ input.report <= Len(stream)
InputsAreGrounded ==
    /\ \A c \in Callers : caller[c].pc = "run" => Grounded(caller[c].input)
    /\ request # None => Grounded(request)

(* What is measured was first, from its measurement on.                     *)
IsFirst(t) ==
    t.status = "retained" =>
        /\ authorization \in authorities
        /\ Len(stream) > authorization.watermark
        /\ stream[authorization.watermark + 1] = t.packet
        /\ collected[t.packet] > authorization.at
MeasuredIsFirst ==
    /\ \A t \in trials : IsFirst(t)
    /\ \A c \in Callers : caller[c].pc \in {"recheck", "append_trial"} => IsFirst(caller[c].trial)

(* The inductive invariant of which packet is measured.                     *)
FInv == RowsAreCollected /\ AuthorizationObserves /\ InputsAreGrounded /\ MeasuredIsFirst

LEMMA FirstInitially == Init => FInv
BY DEF Init, FInv, RowsAreCollected, AuthorizationObserves, InputsAreGrounded, MeasuredIsFirst, Resting

(* What leaves rows, times, files and the ledger alone, and a caller where  *)
(* nothing is asked of it.                                                  *)
LEMMA FirstStays ==
    ASSUME IInv, FInv, NEW c \in Callers,
           UNCHANGED <<clock, collected, imported, stream, authorization, authorities, request, trials>>,
           \A d \in Callers : d # c => caller'[d] = caller[d],
           caller'[c].pc \notin {"write_authorization", "run", "recheck", "append_trial"}
    PROVE  FInv'
<1>1. RowsAreCollected'
    BY DEF FInv, RowsAreCollected, Collected
<1>2. AuthorizationObserves'
    BY DEF FInv, AuthorizationObserves, Observes
<1>3. InputsAreGrounded'
    BY DEF FInv, InputsAreGrounded, Grounded
<1>4. MeasuredIsFirst'
    BY DEF FInv, MeasuredIsFirst, IsFirst
<1> QED BY <1>1, <1>2, <1>3, <1>4 DEF FInv

(* Packets come after what has been observed.                               *)
LEMMA FirstCollects ==
    ASSUME IInv, FInv, NEW p \in Packets, Collect(p)
    PROVE  FInv'
<1>1. /\ collected[p] = 0 /\ clock' = clock + 1 /\ collected' = [collected EXCEPT ![p] = clock + 1]
      /\ UNCHANGED <<imported, stream, authorization, authorities, request, trials, caller>>
      /\ clock \in Nat /\ collected \in [Packets -> Nat] /\ imported \subseteq Packets /\ stream \in Seq(Packets)
      /\ authorization \in Authorizations \cup {None} /\ trials \subseteq TrialReceipts
      /\ caller \in [Callers -> Calls]
    BY DEF Collect, IInv, TypeOK, directory, ledger
<1>2. /\ collected'[p] = clock + 1
      /\ \A q \in Packets : q # p => collected'[q] = collected[q]
      /\ \A q \in Packets : Collected(q) => q # p
    BY <1>1 DEF Collected
<1>3. \A i \in 1 .. Len(stream) : stream[i] \in Packets /\ stream[i] # p
    BY <1>1, <1>2 DEF FInv, RowsAreCollected
<1>4. RowsAreCollected'
    <2>1. \A q \in Packets : Collected(q) => Collected(q)'
        BY <1>1, <1>2 DEF Collected
    <2>2. \A q \in Packets : collected'[q] <= clock'
        BY <1>1, <1>2 DEF FInv, RowsAreCollected
    <2> QED BY <1>1, <1>3, <2>1, <2>2 DEF FInv, RowsAreCollected
<1>5. \A a \in Authorizations : Observes(a) => Observes(a)'
    <2> SUFFICES ASSUME NEW a \in Authorizations, Observes(a) PROVE Observes(a)'
        OBVIOUS
    <2>1. a.watermark \in Nat /\ a.at \in Nat /\ Len(stream) \in Nat
        BY <1>1 DEF Authorizations
    <2>2. \A i \in 1 .. a.watermark : i \in 1 .. Len(stream)
        BY <2>1 DEF Observes
    <2> QED BY <1>1, <1>2, <1>3, <2>1, <2>2 DEF Observes
<1>6. AuthorizationObserves'
    <2>1. \A c \in Callers : caller[c].pc = "write_authorization" => caller[c].authorization \in Authorizations
        BY <1>1 DEF IInv, Claims, CallsCarry, Calls
    <2>2. authorization # None => Observes(authorization)'
        BY <1>1, <1>5 DEF FInv, AuthorizationObserves
    <2>3. \A c \in Callers : caller[c].pc = "write_authorization" => authorization = None /\ Observes(caller[c].authorization)'
        BY <1>1, <1>5, <2>1 DEF FInv, AuthorizationObserves, Observes
    <2> QED BY <1>1, <2>2, <2>3 DEF AuthorizationObserves, Observes
<1>7. InputsAreGrounded'
    BY <1>1 DEF FInv, InputsAreGrounded, Grounded
<1>8. \A t \in TrialReceipts : IsFirst(t) => IsFirst(t)'
    <2> SUFFICES ASSUME NEW t \in TrialReceipts, IsFirst(t), t.status = "retained" PROVE IsFirst(t)'
        BY DEF IsFirst
    <2>1. authorization \in Authorizations /\ authorization.watermark \in Nat
        BY <1>1 DEF IsFirst, IInv, TypeOK, Authorizations
    <2>2. authorization.watermark + 1 \in 1 .. Len(stream)
        BY <1>1, <2>1 DEF IsFirst
    <2>3. t.packet \in Packets /\ t.packet # p
        BY <1>3, <2>2 DEF IsFirst
    <2> QED BY <1>1, <1>2, <2>3 DEF IsFirst
<1>9. MeasuredIsFirst'
    <2>1. \A c \in Callers : caller[c].pc \in {"recheck", "append_trial"} => caller[c].trial \in TrialReceipts
        BY <1>1 DEF IInv, Claims, ClaimIsHeld, Measuring, Calls
    <2> QED BY <1>1, <1>8, <2>1 DEF FInv, MeasuredIsFirst, IsFirst
<1> QED BY <1>4, <1>6, <1>7, <1>9 DEF FInv

(* Rows are added behind those that have been observed, or measured.        *)
LEMMA FirstImports ==
    ASSUME IInv, FInv, NEW p \in Packets, Import(p)
    PROVE  FInv'
<1>1. /\ collected[p] # 0 /\ imported' = imported \cup {p} /\ stream' \in {stream, Append(stream, p)}
      /\ UNCHANGED <<clock, collected, authorization, authorities, request, trials, caller>>
      /\ clock \in Nat /\ collected \in [Packets -> Nat] /\ imported \subseteq Packets /\ stream \in Seq(Packets)
      /\ authorization \in Authorizations \cup {None} /\ trials \subseteq TrialReceipts
      /\ authorities \subseteq Authorizations
      /\ caller \in [Callers -> Calls] /\ request \in Inputs \cup {None}
    BY DEF Import, IInv, TypeOK, directory, ledger
<1>2. /\ Len(stream) \in Nat /\ Len(stream') \in Nat /\ Len(stream) <= Len(stream')
      /\ \A i \in 1 .. Len(stream) : stream'[i] = stream[i]
      /\ \A i \in 1 .. Len(stream') : i \in 1 .. Len(stream) \/ stream'[i] = p
    BY <1>1
<1>3. RowsAreCollected'
    <2>1. Collected(p)
        BY <1>1 DEF FInv, RowsAreCollected, Collected
    <2>2. \A q : Collected(q) => Collected(q)'
        BY <1>1 DEF Collected
    <2> QED BY <1>1, <1>2, <2>1, <2>2 DEF FInv, RowsAreCollected
<1>4. \A a \in Authorizations : Observes(a) => Observes(a)'
    <2> SUFFICES ASSUME NEW a \in Authorizations, Observes(a) PROVE Observes(a)'
        OBVIOUS
    <2>1. a.watermark \in Nat /\ a.watermark <= Len(stream)
        BY DEF Authorizations, Observes
    <2>2. \A i \in 1 .. a.watermark : stream'[i] = stream[i]
        BY <1>2, <2>1
    <2>3. a.watermark <= Len(stream')
        BY <1>2, <2>1
    <2> QED BY <1>1, <2>2, <2>3 DEF Observes
<1>5. AuthorizationObserves'
    <2>1. \A c \in Callers : caller[c].pc = "write_authorization" => caller[c].authorization \in Authorizations
        BY <1>1 DEF IInv, Claims, CallsCarry, Calls
    <2>2. authorization # None => Observes(authorization)'
        BY <1>1, <1>4 DEF FInv, AuthorizationObserves
    <2>3. \A c \in Callers : caller[c].pc = "write_authorization" => authorization = None /\ Observes(caller[c].authorization)'
        BY <1>1, <1>4, <2>1 DEF FInv, AuthorizationObserves, Observes
    <2> QED BY <1>1, <2>2, <2>3 DEF AuthorizationObserves, Observes
<1>6. InputsAreGrounded'
    <2>1. \A input \in Inputs : Grounded(input) => Grounded(input)'
        BY <1>1, <1>2 DEF Grounded, Inputs
    <2>2. \A c \in Callers : caller[c].pc = "run" => caller[c].input \in Inputs
        BY <1>1 DEF IInv, Claims, CallsCarry, Calls
    <2> QED BY <1>1, <2>1, <2>2 DEF FInv, InputsAreGrounded, Grounded
<1>7. \A t \in TrialReceipts : IsFirst(t) => IsFirst(t)'
    <2> SUFFICES ASSUME NEW t \in TrialReceipts, IsFirst(t), t.status = "retained" PROVE IsFirst(t)'
        BY DEF IsFirst
    <2>1. authorization.watermark \in Nat
        BY <1>1 DEF IsFirst, Authorizations
    <2>2. authorization.watermark + 1 \in 1 .. Len(stream) /\ Len(stream') > authorization.watermark
        BY <1>2, <2>1 DEF IsFirst
    <2>3. stream'[authorization.watermark + 1] = t.packet
        BY <1>2, <2>2 DEF IsFirst
    <2> QED BY <1>1, <2>2, <2>3 DEF IsFirst
<1>8. MeasuredIsFirst'
    <2>1. \A c \in Callers : caller[c].pc \in {"recheck", "append_trial"} => caller[c].trial \in TrialReceipts
        BY <1>1 DEF IInv, Claims, ClaimIsHeld, Measuring, Calls
    <2> QED BY <1>1, <1>7, <2>1 DEF FInv, MeasuredIsFirst, IsFirst
<1> QED BY <1>3, <1>5, <1>6, <1>8 DEF FInv

(* A call that comes to an end, or goes on where nothing is asked of it.    *)
LEMMA FirstOthers ==
    ASSUME IInv, FInv, NEW c \in Callers,
           \/ AuthorizeChecks(c) \/ AuthorizeEnds(c) \/ WritePointer(c) \/ RunEnds(c) \/ GateFails(c)
           \/ WriteCompletion(c) \/ Revoke(c) \/ Die(c)
    PROVE  FInv'
<1>1. /\ UNCHANGED <<clock, collected, imported, stream, authorization, authorities, request, trials>>
      /\ caller \in [Callers -> Calls]
    BY DEF AuthorizeChecks, AuthorizeEnds, WritePointer, RunEnds, GateFails, WriteCompletion, Revoke, Die,
           world, directory, ledger, IInv, TypeOK
<1>2. \A d \in Callers : d # c => caller'[d] = caller[d]
    BY <1>1 DEF AuthorizeChecks, AuthorizeEnds, WritePointer, RunEnds, GateFails, WriteCompletion, Revoke, Die,
                Goto, Set, End
<1>3. caller'[c].pc \notin {"write_authorization", "run", "recheck", "append_trial"}
    <2>1. caller[c] \in Calls
        BY <1>1
    <2>2. CASE AuthorizeChecks(c)
        BY <1>1, <2>1, <2>2 DEF AuthorizeChecks, Goto, Set, Calls
    <2>3. CASE Revoke(c)
        BY <2>3 DEF Revoke
    <2>4. CASE \/ AuthorizeEnds(c) \/ WritePointer(c) \/ RunEnds(c) \/ GateFails(c) \/ WriteCompletion(c) \/ Die(c)
        BY <1>1, <2>4 DEF AuthorizeEnds, WritePointer, RunEnds, GateFails, WriteCompletion, Die, End, Set, Resting
    <2> QED BY <2>2, <2>3, <2>4
<1> QED BY <1>1, <1>2, <1>3, FirstStays

(* The authorization observes what is there, and becomes that of the trial  *)
(* only when there is no other.                                             *)
LEMMA FirstAuthorizes ==
    ASSUME IInv, FInv, NEW c \in Callers, Authorize(c) \/ WriteAuthorization(c) \/ AppendAuthorization(c)
    PROVE  FInv'
<1>1. /\ UNCHANGED <<clock, collected, imported, stream, request, trials>>
      /\ caller \in [Callers -> Calls] /\ caller[c] \in Calls
      /\ clock \in Nat /\ collected \in [Packets -> Nat] /\ stream \in Seq(Packets)
      /\ authorization \in Authorizations \cup {None} /\ authorities \subseteq Authorizations
    BY DEF Authorize, WriteAuthorization, AppendAuthorization, world, directory, ledger, IInv, TypeOK
<1>2. RowsAreCollected'
    BY <1>1 DEF FInv, RowsAreCollected, Collected
<1>3. CASE Authorize(c)
    <2> DEFINE seen == [at |-> clock, watermark |-> Len(stream)]
               record == [caller[c] EXCEPT !.pc = "write_authorization", !.authorization = seen]
    <2>1. /\ caller' = [caller EXCEPT ![c] = record] /\ authorization = None
          /\ UNCHANGED <<authorization, authorities>>
        BY <1>3 DEF Authorize, Set, directory, ledger
    <2>2. record.pc = "write_authorization" /\ record.authorization = seen
        BY <1>1 DEF Calls
    <2> HIDE DEF record
    <2>3. Observes(seen)
        BY <1>1 DEF Observes, FInv, RowsAreCollected
    <2>4. /\ caller'[c] = record
          /\ \A d \in Callers : d # c => caller'[d] = caller[d]
        BY <1>1, <2>1
    <2>5. AuthorizationObserves'
        BY <1>1, <2>1, <2>2, <2>3, <2>4 DEF FInv, AuthorizationObserves, Observes
    <2>6. InputsAreGrounded'
        BY <1>1, <2>1, <2>2, <2>4 DEF FInv, InputsAreGrounded, Grounded
    <2>7. MeasuredIsFirst'
        BY <1>1, <2>1, <2>2, <2>4 DEF FInv, MeasuredIsFirst, IsFirst
    <2> QED BY <1>2, <2>5, <2>6, <2>7 DEF FInv
<1>4. CASE WriteAuthorization(c)
    <2>1. /\ caller[c].pc = "write_authorization" /\ authorization = None
          /\ authorization' = caller[c].authorization /\ Observes(caller[c].authorization)
          /\ UNCHANGED authorities
          /\ caller' = [caller EXCEPT ![c] = [caller[c] EXCEPT !.pc = "append_authorization"]]
        BY <1>4 DEF WriteAuthorization, Goto, Set, ledger, FInv, AuthorizationObserves
    <2>2. /\ caller'[c].pc = "append_authorization"
          /\ \A d \in Callers : d # c => caller'[d] = caller[d]
        BY <1>1, <2>1 DEF Calls
    <2>3. authorization \notin authorities
        BY <1>1, <2>1, NoneAssumption
    <2>4. \A d \in Callers : caller'[d].pc # "write_authorization"
        <3>1. \A d \in Callers : d # c => caller[d].pc \in Outside
            BY <2>1 DEF IInv, Claims, LockExcludes, Outside
        <3> QED BY <2>2, <3>1 DEF Outside
    <2>5. AuthorizationObserves'
        BY <1>1, <2>1, <2>4 DEF AuthorizationObserves, Observes
    <2>6. InputsAreGrounded'
        BY <1>1, <2>1, <2>2, <2>3 DEF FInv, InputsAreGrounded, Grounded
    <2>7. MeasuredIsFirst'
        BY <1>1, <2>1, <2>2, <2>3 DEF FInv, MeasuredIsFirst, IsFirst
    <2> QED BY <1>2, <2>5, <2>6, <2>7 DEF FInv
<1>5. CASE AppendAuthorization(c)
    <2>1. /\ caller[c].pc = "append_authorization" /\ UNCHANGED authorization
          /\ authorities' = authorities \cup {authorization}
          /\ caller' = [caller EXCEPT ![c] = [caller[c] EXCEPT !.pc = "write_pointer"]]
        BY <1>5 DEF AppendAuthorization, Goto, Set, directory
    <2>2. /\ caller'[c].pc = "write_pointer"
          /\ \A d \in Callers : d # c => caller'[d] = caller[d]
        BY <1>1, <2>1 DEF Calls
    <2>3. AuthorizationObserves'
        BY <1>1, <2>1, <2>2 DEF FInv, AuthorizationObserves, Observes
    <2>4. InputsAreGrounded'
        BY <1>1, <2>1, <2>2 DEF FInv, InputsAreGrounded, Grounded
    <2>5. MeasuredIsFirst'
        BY <1>1, <2>1, <2>2 DEF FInv, MeasuredIsFirst, IsFirst
    <2> QED BY <1>2, <2>3, <2>4, <2>5 DEF FInv
<1> QED BY <1>3, <1>4, <1>5

(* A run is let in on an authorization of the ledger, and claims with what  *)
(* it was let in with.                                                      *)
LEMMA FirstRuns ==
    ASSUME IInv, FInv, NEW c \in Callers, RunChecks(c) \/ Claim(c)
    PROVE  FInv'
<1>1. /\ UNCHANGED <<clock, collected, imported, stream, authorization, authorities, trials>>
      /\ caller \in [Callers -> Calls] /\ caller[c] \in Calls /\ stream \in Seq(Packets)
    BY DEF RunChecks, Claim, world, directory, ledger, IInv, TypeOK
<1>2. RowsAreCollected'
    BY <1>1 DEF FInv, RowsAreCollected, Collected
<1>3. CASE RunChecks(c)
    <2>1. PICK p \in Packets, w \in 0 .. Len(stream) :
              caller' = [caller EXCEPT ![c] = [Resting EXCEPT !.pc = "run", !.input = [packet |-> p, report |-> w]]]
        BY <1>3 DEF RunChecks, Set
    <2>2. authorization \in authorities /\ UNCHANGED request
        BY <1>3 DEF RunChecks, AuthorizationIsObserved, directory
    <2>3. /\ caller'[c].pc = "run" /\ caller'[c].input = [packet |-> p, report |-> w]
          /\ \A d \in Callers : d # c => caller'[d] = caller[d]
        BY <1>1, <2>1 DEF Resting
    <2>4. AuthorizationObserves'
        BY <1>1, <2>2, <2>3 DEF FInv, AuthorizationObserves, Observes
    <2>5. InputsAreGrounded'
        BY <1>1, <2>2, <2>3 DEF FInv, InputsAreGrounded, Grounded
    <2>6. MeasuredIsFirst'
        BY <1>1, <2>2, <2>3 DEF FInv, MeasuredIsFirst, IsFirst
    <2> QED BY <1>2, <2>4, <2>5, <2>6 DEF FInv
<1>4. CASE Claim(c)
    <2>1. /\ request' = caller[c].input /\ caller[c].pc = "run"
          /\ caller' = [caller EXCEPT ![c] = [caller[c] EXCEPT !.pc = "compute"]]
        BY <1>4 DEF Claim, Goto, Set
    <2>2. /\ caller'[c].pc = "compute"
          /\ \A d \in Callers : d # c => caller'[d] = caller[d]
        BY <1>1, <2>1 DEF Calls
    <2>3. AuthorizationObserves'
        BY <1>1, <2>1, <2>2 DEF FInv, AuthorizationObserves, Observes
    <2>4. InputsAreGrounded'
        BY <1>1, <2>1, <2>2 DEF FInv, InputsAreGrounded, Grounded
    <2>5. MeasuredIsFirst'
        BY <1>1, <2>1, <2>2 DEF FInv, MeasuredIsFirst, IsFirst
    <2> QED BY <1>2, <2>3, <2>4, <2>5 DEF FInv
<1> QED BY <1>3, <1>4

(* The measurement of an eligible packet with a row: the row is behind the  *)
(* watermark, for those before it were collected by then, so that the       *)
(* report reaches the first row of all, which has to be the packet's.       *)
LEMMA EligibleIsFirst ==
    ASSUME IInv, FInv, request # None, Eligible(request.packet, request.report),
           Positions(request.packet, request.report) # {}
    PROVE  /\ authorization \in authorities
           /\ Len(stream) > authorization.watermark
           /\ stream[authorization.watermark + 1] = request.packet
           /\ collected[request.packet] > authorization.at
<1>1. /\ authorization \in authorities /\ request.report <= Len(stream)
      /\ request.report \in Nat /\ Len(stream) \in Nat
      /\ authorization \in Authorizations /\ authorization # None
    BY NoneAssumption DEF FInv, InputsAreGrounded, Grounded, IInv, TypeOK, Inputs
<1>2. authorization.watermark \in Nat /\ authorization.at \in Nat
    BY <1>1 DEF Authorizations
<1>3. Observes(authorization)
    BY <1>1 DEF FInv, AuthorizationObserves
<1>4. PICK i \in 1 .. request.report : stream[i] = request.packet
    BY DEF Positions
<1>5. collected[request.packet] > authorization.at /\ collected[request.packet] \in Nat
    BY DEF Eligible, IInv, TypeOK, Inputs
<1>6. ~ (i \in 1 .. authorization.watermark)
    <2>1. SUFFICES ASSUME i \in 1 .. authorization.watermark PROVE FALSE
        OBVIOUS
    <2>2. collected[request.packet] <= authorization.at
        BY <1>3, <1>4, <2>1 DEF Observes
    <2> QED BY <1>2, <1>5, <2>2
<1>7. request.report > authorization.watermark
    BY <1>1, <1>2, <1>6
<1>8. stream[authorization.watermark + 1] = request.packet
    BY <1>7 DEF Eligible
<1>9. Len(stream) > authorization.watermark
    BY <1>1, <1>2, <1>7
<1> QED BY <1>1, <1>5, <1>8, <1>9

LEMMA FirstMeasures ==
    ASSUME IInv, FInv, NEW c \in Callers, Compute(c) \/ Recheck(c) \/ AppendTrial(c)
    PROVE  FInv'
<1>1. /\ UNCHANGED <<clock, collected, imported, stream, authorization, authorities, request>>
      /\ caller \in [Callers -> Calls] /\ caller[c] \in Calls
    BY DEF Compute, Recheck, AppendTrial, world, directory, ledger, IInv, TypeOK
<1>2. /\ caller'[c].pc \notin {"write_authorization", "run"}
      /\ \A d \in Callers : d # c => caller'[d] = caller[d]
      /\ caller'[c].pc \in {"recheck", "append_trial"} => IsFirst(caller'[c].trial)
      /\ \A t \in trials' : IsFirst(t)
    <2>1. CASE Compute(c)
        <3> DEFINE p == request.packet
                   w == request.report
        <3>1. PICK status \in {"rolled_back", "inconclusive"} \cup (IF Positions(p, w) # {} THEN {"retained"} ELSE {}) :
                  caller' = [caller EXCEPT ![c] =
                      [caller[c] EXCEPT !.pc = "recheck",
                                        !.trial = [packet |-> p, status |-> status, run |-> Cardinality(trials)]]]
            BY <2>1 DEF Compute, Set
        <3>2. /\ caller'[c].pc = "recheck"
              /\ caller'[c].trial.packet = p /\ caller'[c].trial.status = status
              /\ \A d \in Callers : d # c => caller'[d] = caller[d]
            BY <1>1, <3>1 DEF Calls
        <3>3. UNCHANGED trials /\ request # None /\ Eligible(p, w)
            BY <2>1 DEF Compute, ledger, IInv, Claims, ClaimIsHeld, Measuring
        <3>4. status = "retained" => Positions(p, w) # {}
            OBVIOUS
        <3>5. IsFirst(caller'[c].trial)
            BY <3>2, <3>3, <3>4, EligibleIsFirst DEF IsFirst
        <3> QED BY <3>2, <3>3, <3>5 DEF FInv, MeasuredIsFirst
    <2>2. CASE Recheck(c)
        <3>1. caller[c].pc = "recheck" /\ UNCHANGED trials
            BY <2>2 DEF Recheck, ledger
        <3>2. CASE caller' = [caller EXCEPT ![c] = [caller[c] EXCEPT !.pc = "append_trial"]]
            <4>1. caller'[c].pc = "append_trial" /\ caller'[c].trial = caller[c].trial
                BY <1>1, <3>2 DEF Calls
            <4> QED BY <1>1, <3>1, <3>2, <4>1 DEF FInv, MeasuredIsFirst
        <3>3. CASE caller' = [caller EXCEPT ![c] = Resting]
            BY <1>1, <3>1, <3>3 DEF FInv, MeasuredIsFirst, Resting
        <3> QED BY <2>2, <3>2, <3>3 DEF Recheck, Goto, End, Set
    <2>3. CASE AppendTrial(c)
        <3>1. /\ caller[c].pc = "append_trial" /\ trials' = trials \cup {caller[c].trial}
              /\ caller' = [caller EXCEPT ![c] = [caller[c] EXCEPT !.pc = "write_completion"]]
            BY <2>3 DEF AppendTrial, Goto, Set
        <3>2. caller'[c].pc = "write_completion"
            BY <1>1, <3>1 DEF Calls
        <3> QED BY <1>1, <3>1, <3>2 DEF FInv, MeasuredIsFirst
    <2> QED BY <2>1, <2>2, <2>3
<1>3. RowsAreCollected'
    BY <1>1 DEF FInv, RowsAreCollected, Collected
<1>4. AuthorizationObserves'
    BY <1>1, <1>2 DEF FInv, AuthorizationObserves, Observes
<1>5. InputsAreGrounded'
    BY <1>1, <1>2 DEF FInv, InputsAreGrounded, Grounded
<1>6. MeasuredIsFirst'
    BY <1>1, <1>2 DEF FInv, MeasuredIsFirst, IsFirst
<1> QED BY <1>3, <1>4, <1>5, <1>6 DEF FInv

LEMMA FirstStep == IInv /\ FInv /\ [Next]_vars => FInv'
<1> SUFFICES ASSUME IInv, FInv, [Next]_vars PROVE FInv'
    OBVIOUS
<1>1. CASE Edit \/ Expire \/ UNCHANGED vars
    <2>1. UNCHANGED <<clock, collected, imported, stream, authorization, authorities, request, trials, caller>>
        BY <1>1 DEF Edit, Expire, vars, world, directory, ledger
    <2> QED BY <2>1 DEF FInv, RowsAreCollected, Collected, AuthorizationObserves, Observes, InputsAreGrounded, Grounded,
                        MeasuredIsFirst, IsFirst
<1>2. ASSUME NEW p \in Packets, Collect(p) \/ Import(p) PROVE FInv'
    BY <1>2, FirstCollects, FirstImports
<1>3. ASSUME NEW c \in Callers,
             \/ AuthorizeChecks(c) \/ AuthorizeEnds(c) \/ WritePointer(c) \/ RunEnds(c) \/ GateFails(c)
             \/ WriteCompletion(c) \/ Revoke(c) \/ Die(c)
      PROVE FInv'
    BY <1>3, FirstOthers
<1>4. ASSUME NEW c \in Callers,
             \/ Authorize(c) \/ WriteAuthorization(c) \/ AppendAuthorization(c)
             \/ RunChecks(c) \/ Claim(c) \/ Compute(c) \/ Recheck(c) \/ AppendTrial(c)
      PROVE FInv'
    BY <1>4, FirstAuthorizes, FirstRuns, FirstMeasures
<1> QED BY <1>1, <1>2, <1>3, <1>4 DEF Next

(* A retained diagnostic measured the first packet that the stream got      *)
(* after an observed authorization, whatever else is collected, imported,   *)
(* reported, run or dies in between.                                        *)
THEOREM RetainedIsFirst == Spec => []RetainedIsTheFirstImport
<1>1. FInv => RetainedIsTheFirstImport
    BY DEF FInv, MeasuredIsFirst, IsFirst, RetainedIsTheFirstImport
<1> QED BY <1>1, Inductive, FirstInitially, FirstStep, PTL DEF Spec
-----------------------------------------------------------------------------
(* The diagnostic trial: what an admissible log says of a trial.            *)

(* Rows of an admissible log have IDs of their own.                         *)
Places == 1 .. Len(log)
Stands(id, i) == i \in Places /\ log[i].id = id

LEMMA IdsDiffer ==
    ASSUME Diagnosis!Admissible(log), NEW i \in Places, NEW j \in Places, log[i].id = log[j].id, Len(log) \in Nat
    PROVE  i = j
<1>1. \A k, n \in Places : k < n => log[k].id # log[n].id
    <2> TAKE k, n \in Places
    <2> HAVE k < n
    <2>1. Diagnosis!RowAdmitted(log, n)
        BY DEF Diagnosis!Admissible, Places
    <2>2. log[k] \in Diagnosis!Before(log, n)
        <3>1. k \in 1 .. n - 1
            BY DEF Places
        <3> QED BY <3>1 DEF Diagnosis!Before
    <2> QED BY <2>1, <2>2 DEF Diagnosis!RowAdmitted
<1>2. i < j \/ j < i \/ i = j
    BY DEF Places
<1> QED BY <1>1, <1>2

LEMMA PlaceOf ==
    ASSUME Diagnosis!Admissible(log), Len(log) \in Nat, NEW id, NEW i, Stands(id, i)
    PROVE  /\ id \in Diagnosis!Ids
           /\ Diagnosis!Row(id) = log[i]
           /\ Diagnosis!Position(id) = i
<1>1. \A j \in Places : log[j].id = id => j = i
    BY IdsDiffer DEF Stands
<1>2. id \in Diagnosis!Ids
    BY DEF Diagnosis!Ids, Stands, Places
<1>3. Diagnosis!Row(id) = log[i]
    <2>1. log[i] \in {log[k] : k \in 1 .. Len(log)} /\ log[i].id = id
        BY DEF Stands, Places
    <2>2. \A row \in {log[k] : k \in 1 .. Len(log)} : row.id = id => row = log[i]
        BY <1>1 DEF Places
    <2> QED BY <2>1, <2>2 DEF Diagnosis!Row
<1>4. Diagnosis!Position(id) = i
    <2>1. i \in 1 .. Len(log) /\ log[i].id = id
        BY DEF Stands, Places
    <2>2. \A k \in 1 .. Len(log) : log[k].id = id => k = i
        BY <1>1 DEF Places
    <2> QED BY <2>1, <2>2 DEF Diagnosis!Position
<1> QED BY <1>2, <1>3, <1>4

LEMMA IdHasAPlace ==
    ASSUME NEW id \in Diagnosis!Ids PROVE \E i \in Places : Stands(id, i)
BY DEF Diagnosis!Ids, Stands, Places

(* What a row refers to stands before it, in its case.                      *)
LEMMA RefIsEarlier ==
    ASSUME Diagnosis!Admissible(log), Len(log) \in Nat,
           NEW i \in Places, NEW id, NEW kind, NEW r \in Diagnosis!Ref(log, i, id, kind)
    PROVE  \E k \in Places : /\ k < i /\ Stands(id, k) /\ log[k] = r
                             /\ r.kind = kind /\ r.case = log[i].case
<1>1. PICK k \in 1 .. i - 1 : log[k] = r /\ r.case = log[i].case /\ r.id = id /\ r.kind = kind
    BY DEF Diagnosis!Ref, Diagnosis!Own, Diagnosis!Before
<1>2. k \in Places /\ k < i
    BY DEF Places
<1> QED BY <1>1, <1>2 DEF Stands

LEMMA EarlierIsOwn ==
    ASSUME Len(log) \in Nat, NEW i \in Places, NEW k \in Places, k < i, log[k].case = log[i].case
    PROVE  log[k] \in Diagnosis!Own(log, i)
<1>1. k \in 1 .. i - 1
    BY DEF Places
<1> QED BY <1>1 DEF Diagnosis!Own, Diagnosis!Before

(* The authority of a started trial.                                        *)
Phases == <<"finding_submitted", "finding_verified", "candidate_proposed", "candidate_evaluated",
            "trial_authorized", "inspection_requested", "trial_started">>

LEMMA SevenInOrder ==
    ASSUME Diagnosis!Admissible(log), Len(log) \in Nat,
           NEW a \in Places, NEW b \in Places, NEW c \in Places, NEW d \in Places,
           NEW e \in Places, NEW f \in Places, NEW g \in Places,
           a < b, b < c, c < d, d < e, e < f, f < g,
           log[a].kind = "finding_submitted", log[b].kind = "finding_verified", log[c].kind = "candidate_proposed",
           log[d].kind = "candidate_evaluated", log[e].kind = "trial_authorized",
           log[f].kind = "inspection_requested", log[g].kind = "trial_started",
           log[b].case = log[a].case, log[c].case = log[a].case, log[d].case = log[a].case,
           log[e].case = log[a].case, log[f].case = log[a].case, log[g].case = log[a].case
    PROVE  Diagnosis!Chain(<<log[a].id, log[b].id, log[c].id, log[d].id, log[e].id, log[f].id, log[g].id>>, Phases)
<1> DEFINE ids == <<log[a].id, log[b].id, log[c].id, log[d].id, log[e].id, log[f].id, log[g].id>>
           Right(n, k) == /\ ids[n] \in Diagnosis!Ids
                          /\ Diagnosis!Row(ids[n]) = log[k] /\ Diagnosis!Position(ids[n]) = k
<1>1. Right(1, a) /\ Right(2, b) /\ Right(3, c) /\ Right(4, d) /\ Right(5, e) /\ Right(6, f) /\ Right(7, g)
    <2>1. \A k \in Places : /\ log[k].id \in Diagnosis!Ids
                            /\ Diagnosis!Row(log[k].id) = log[k] /\ Diagnosis!Position(log[k].id) = k
        BY PlaceOf DEF Stands
    <2> QED BY <2>1
<1>2. Len(ids) = 7
    OBVIOUS
<1> HIDE DEF ids
<1>3. ASSUME NEW n \in 1 .. 7
      PROVE  /\ ids[n] \in Diagnosis!Ids
             /\ Diagnosis!Row(ids[n]).kind = Phases[n]
             /\ Diagnosis!Row(ids[n]).case = Diagnosis!Row(ids[1]).case
    <2>1. n = 1 \/ n = 2 \/ n = 3 \/ n = 4 \/ n = 5 \/ n = 6 \/ n = 7
        OBVIOUS
    <2> DEFINE Phased(i) == /\ ids[i] \in Diagnosis!Ids
                            /\ Diagnosis!Row(ids[i]).kind = Phases[i]
                            /\ Diagnosis!Row(ids[i]).case = log[a].case
    <2>2. Phased(1) /\ Phased(2) /\ Phased(3)
        BY <1>1 DEF Phases
    <2>3. Phased(4) /\ Phased(5)
        BY <1>1 DEF Phases
    <2>4. Phased(6) /\ Phased(7)
        BY <1>1 DEF Phases
    <2>5. Diagnosis!Row(ids[1]).case = log[a].case
        BY <1>1
    <2>6. Phased(n)
        <3> HIDE DEF Phased
        <3> QED BY <2>1, <2>2, <2>3, <2>4
    <2> QED BY <2>5, <2>6
<1>4. ASSUME NEW n \in 2 .. 7 PROVE Diagnosis!Position(ids[n - 1]) < Diagnosis!Position(ids[n])
    <2>1. n = 2 \/ n = 3 \/ n = 4 \/ n = 5 \/ n = 6 \/ n = 7
        OBVIOUS
    <2>2. a < b /\ b < c /\ c < d /\ d < e /\ e < f /\ f < g
        OBVIOUS
    <2> DEFINE at(i) == Diagnosis!Position(ids[i])
    <2>3. at(1) = a /\ at(2) = b /\ at(3) = c /\ at(4) = d /\ at(5) = e /\ at(6) = f /\ at(7) = g
        BY <1>1
    <2>4. at(n - 1) < at(n)
        <3> HIDE DEF at
        <3> QED BY <2>1, <2>2, <2>3
    <2> QED BY <2>4
<1>5. Diagnosis!Chain(ids, Phases)
    BY <1>2, <1>3, <1>4 DEF Diagnosis!Chain
<1> QED BY <1>5 DEF ids

(* What ExecutedIsAuthorized asks of a trial, by the rows it rests on.      *)
InForce(trial, approval, evaluation, proposal, verification, finding) ==
    /\ Diagnosis!Chain(<<verification.finding, proposal.verification, evaluation.proposal, approval.evaluation,
                         trial.authorization, trial.inspection, trial.id>>, Phases)
    /\ verification.verdict = "confirmed" /\ verification.actor # finding.actor
    /\ evaluation.verdict = "passed"
    /\ {evaluation.pin, approval.pin, trial.pin} = {proposal.pin}
    /\ trial.at <= approval.expires
    /\ \A n \in 1 .. Len(log) : log[n].case = trial.case =>
          /\ log[n].kind = "inspection_requested" =>
                \/ n <= Diagnosis!Position(approval.id)
                \/ n >= Diagnosis!Position(trial.inspection)
          /\ log[n].kind = "trial_revoked" => n > Diagnosis!Position(trial.id)

Authority(id) ==
    LET trial == Diagnosis!Row(id)
        approval == Diagnosis!Row(trial.authorization)
        evaluation == Diagnosis!Row(approval.evaluation)
        proposal == Diagnosis!Row(evaluation.proposal)
        verification == Diagnosis!Row(proposal.verification)
        finding == Diagnosis!Row(verification.finding)
    IN  trial.id = id /\ InForce(trial, approval, evaluation, proposal, verification, finding)

(* Each phase refers to the one before it.                                  *)
LEMMA VerificationRefers ==
    ASSUME Diagnosis!Admissible(log), Len(log) \in Nat, NEW b \in Places, log[b].kind = "finding_verified"
    PROVE  \E a \in Places : /\ a < b /\ Stands(log[b].finding, a)
                             /\ log[a].kind = "finding_submitted" /\ log[a].case = log[b].case
                             /\ log[a].actor # log[b].actor
<1>1. PICK r \in Diagnosis!Ref(log, b, log[b].finding, "finding_submitted") : r.actor # log[b].actor
    BY DEF Diagnosis!Admissible, Diagnosis!RowAdmitted, Diagnosis!Verified, Places
<1> QED BY <1>1, RefIsEarlier

LEMMA ProposalRefers ==
    ASSUME Diagnosis!Admissible(log), Len(log) \in Nat, NEW c \in Places, log[c].kind = "candidate_proposed"
    PROVE  \E b \in Places : /\ b < c /\ Stands(log[c].verification, b)
                             /\ log[b].kind = "finding_verified" /\ log[b].case = log[c].case
                             /\ log[b].verdict = "confirmed"
<1>1. PICK r \in Diagnosis!Ref(log, c, log[c].verification, "finding_verified") : r.verdict = "confirmed"
    BY DEF Diagnosis!Admissible, Diagnosis!RowAdmitted, Diagnosis!Proposed, Places
<1> QED BY <1>1, RefIsEarlier

LEMMA EvaluationRefers ==
    ASSUME Diagnosis!Admissible(log), Len(log) \in Nat, NEW d \in Places, log[d].kind = "candidate_evaluated"
    PROVE  \E c \in Places : /\ c < d /\ Stands(log[d].proposal, c)
                             /\ log[c].kind = "candidate_proposed" /\ log[c].case = log[d].case
                             /\ log[c].pin = log[d].pin
<1>1. PICK r \in Diagnosis!Ref(log, d, log[d].proposal, "candidate_proposed") : r.pin = log[d].pin
    BY DEF Diagnosis!Admissible, Diagnosis!RowAdmitted, Diagnosis!Evaluated, Places
<1> QED BY <1>1, RefIsEarlier

LEMMA AuthorizationRefers ==
    ASSUME Diagnosis!Admissible(log), Len(log) \in Nat, NEW e \in Places, log[e].kind = "trial_authorized"
    PROVE  \E d \in Places : /\ d < e /\ Stands(log[e].evaluation, d)
                             /\ log[d].kind = "candidate_evaluated" /\ log[d].case = log[e].case
                             /\ log[d].verdict = "passed" /\ log[d].proposal = log[e].proposal
                             /\ \E c \in Places : Stands(log[d].proposal, c) /\ log[c].pin = log[e].pin
<1>1. Diagnosis!Authorized(log, e)
    BY DEF Diagnosis!Admissible, Diagnosis!RowAdmitted, Places
<1>2. PICK r \in Diagnosis!Ref(log, e, log[e].evaluation, "candidate_evaluated") :
          r.proposal = log[e].proposal /\ r.verdict = "passed"
    BY <1>1 DEF Diagnosis!Authorized
<1>3. PICK d \in Places : /\ d < e /\ Stands(log[e].evaluation, d) /\ log[d] = r
                          /\ r.kind = "candidate_evaluated" /\ r.case = log[e].case
    BY RefIsEarlier
<1>4. PICK q \in Diagnosis!Ref(log, e, log[e].proposal, "candidate_proposed") : q.pin = log[e].pin
    BY <1>1 DEF Diagnosis!Authorized
<1>5. PICK c \in Places : Stands(log[e].proposal, c) /\ log[c] = q
    BY RefIsEarlier
<1> QED BY <1>2, <1>3, <1>4, <1>5

LEMMA TrialRefers ==
    ASSUME Diagnosis!Admissible(log), Len(log) \in Nat, NEW g \in Places, log[g].kind = "trial_started"
    PROVE  \E e, f \in Places :
              /\ e < f /\ f < g /\ Stands(log[g].authorization, e) /\ Stands(log[g].inspection, f)
              /\ log[e].kind = "trial_authorized" /\ log[e].case = log[g].case
              /\ log[f].kind = "inspection_requested" /\ log[f].case = log[g].case
              /\ \A n \in e + 1 .. f - 1 : ~ (log[n].kind = "inspection_requested" /\ log[n].case = log[g].case)
              /\ log[g].at <= log[e].expires /\ log[g].pin = log[e].pin
              /\ \A n \in Places : log[n].kind = "trial_revoked" /\ log[n].case = log[g].case => g < n
<1>1. Diagnosis!Started(log, g)
    BY DEF Diagnosis!Admissible, Diagnosis!RowAdmitted, Places
<1>2. PICK r \in Diagnosis!Ref(log, g, log[g].authorization, "trial_authorized") :
          /\ Diagnosis!Ref(log, g, log[g].inspection, "inspection_requested") # {}
          /\ Diagnosis!FirstInspection(log, g, log[g].inspection, log[g].authorization)
          /\ Diagnosis!Absent(log, g, "trial_revoked")
          /\ log[g].at <= r.expires /\ log[g].pin = r.pin
    BY <1>1 DEF Diagnosis!Started
<1>3. PICK e \in Places : /\ e < g /\ Stands(log[g].authorization, e) /\ log[e] = r
                          /\ r.kind = "trial_authorized" /\ r.case = log[g].case
    BY RefIsEarlier
<1>4. PICK q \in Diagnosis!Ref(log, g, log[g].inspection, "inspection_requested") : TRUE
    BY <1>2
<1>5. PICK f \in Places : /\ f < g /\ Stands(log[g].inspection, f) /\ log[f] = q
                          /\ q.kind = "inspection_requested" /\ q.case = log[g].case
    BY RefIsEarlier
<1>6. PICK k \in 1 .. g - 1 :
          /\ log[k].id = log[g].inspection
          /\ \E m \in 1 .. k - 1 : log[m].id = log[g].authorization
                /\ \A n \in m + 1 .. k - 1 :
                      ~ (log[n].kind = "inspection_requested" /\ log[n].case = log[g].case)
    BY <1>2 DEF Diagnosis!FirstInspection
<1>7. PICK m \in 1 .. k - 1 : log[m].id = log[g].authorization
          /\ \A n \in m + 1 .. k - 1 : ~ (log[n].kind = "inspection_requested" /\ log[n].case = log[g].case)
    BY <1>6
<1>8. k \in Places /\ m \in Places /\ m < k
    BY DEF Places
<1>9. k = f /\ m = e
    BY <1>3, <1>5, <1>6, <1>7, <1>8, IdsDiffer DEF Stands
<1>10. \A n \in Places : log[n].kind = "trial_revoked" /\ log[n].case = log[g].case => g < n
    <2> TAKE n \in Places
    <2> HAVE log[n].kind = "trial_revoked" /\ log[n].case = log[g].case
    <2>1. ~ n < g
        BY <1>2, EarlierIsOwn DEF Diagnosis!Absent
    <2>2. n # g
        OBVIOUS
    <2> QED BY <2>1, <2>2 DEF Places
<1> QED BY <1>2, <1>3, <1>5, <1>7, <1>8, <1>9, <1>10

LEMMA StartedIsAuthorized ==
    ASSUME Diagnosis!Admissible(log), Len(log) \in Nat, NEW g \in Places, log[g].kind = "trial_started"
    PROVE  Authority(log[g].id)
<1>1. PICK e \in Places, f \in Places :
          /\ e < f /\ f < g /\ Stands(log[g].authorization, e) /\ Stands(log[g].inspection, f)
          /\ log[e].kind = "trial_authorized" /\ log[e].case = log[g].case
          /\ log[f].kind = "inspection_requested" /\ log[f].case = log[g].case
          /\ \A n \in e + 1 .. f - 1 : ~ (log[n].kind = "inspection_requested" /\ log[n].case = log[g].case)
          /\ log[g].at <= log[e].expires /\ log[g].pin = log[e].pin
          /\ \A n \in Places : log[n].kind = "trial_revoked" /\ log[n].case = log[g].case => g < n
    BY TrialRefers
<1>2. PICK d \in Places : /\ d < e /\ Stands(log[e].evaluation, d)
                          /\ log[d].kind = "candidate_evaluated" /\ log[d].case = log[e].case
                          /\ log[d].verdict = "passed" /\ log[d].proposal = log[e].proposal
                          /\ \E n \in Places : Stands(log[d].proposal, n) /\ log[n].pin = log[e].pin
    BY <1>1, AuthorizationRefers
<1>3. PICK c \in Places : /\ c < d /\ Stands(log[d].proposal, c)
                          /\ log[c].kind = "candidate_proposed" /\ log[c].case = log[d].case
                          /\ log[c].pin = log[d].pin
    BY <1>2, EvaluationRefers
<1>4. PICK b \in Places : /\ b < c /\ Stands(log[c].verification, b)
                          /\ log[b].kind = "finding_verified" /\ log[b].case = log[c].case
                          /\ log[b].verdict = "confirmed"
    BY <1>3, ProposalRefers
<1>5. PICK a \in Places : /\ a < b /\ Stands(log[b].finding, a)
                          /\ log[a].kind = "finding_submitted" /\ log[a].case = log[b].case
                          /\ log[a].actor # log[b].actor
    BY <1>4, VerificationRefers
<1>6. log[c].pin = log[e].pin
    <2>1. PICK n \in Places : Stands(log[d].proposal, n) /\ log[n].pin = log[e].pin
        BY <1>2
    <2>2. n = c
        BY <1>3, <2>1, IdsDiffer DEF Stands
    <2> QED BY <2>1, <2>2
<1>7. /\ log[g].authorization = log[e].id /\ log[g].inspection = log[f].id
      /\ log[e].evaluation = log[d].id /\ log[d].proposal = log[c].id
      /\ log[c].verification = log[b].id /\ log[b].finding = log[a].id
    BY <1>1, <1>2, <1>3, <1>4, <1>5 DEF Stands
<1>8. \A k \in Places : Diagnosis!Row(log[k].id) = log[k] /\ Diagnosis!Position(log[k].id) = k
    BY PlaceOf DEF Stands
<1>9. Diagnosis!Chain(<<log[a].id, log[b].id, log[c].id, log[d].id, log[e].id, log[f].id, log[g].id>>, Phases)
    <2>1. /\ log[b].case = log[a].case /\ log[c].case = log[a].case /\ log[d].case = log[a].case
          /\ log[e].case = log[a].case /\ log[f].case = log[a].case /\ log[g].case = log[a].case
        BY <1>1, <1>2, <1>3, <1>4, <1>5
    <2> QED BY <1>1, <1>2, <1>3, <1>4, <1>5, <2>1, SevenInOrder
<1>10. \A n \in 1 .. Len(log) : log[n].case = log[g].case =>
          /\ log[n].kind = "inspection_requested" => n <= e \/ n >= f
          /\ log[n].kind = "trial_revoked" => n > g
    BY <1>1 DEF Places
<1>11. {log[d].pin, log[e].pin, log[g].pin} = {log[c].pin}
    BY <1>1, <1>3, <1>6
<1>12. /\ Diagnosis!Row(log[g].id) = log[g] /\ Diagnosis!Position(log[g].id) = g
       /\ Diagnosis!Row(log[g].authorization) = log[e] /\ Diagnosis!Position(log[e].id) = e
       /\ Diagnosis!Row(log[e].evaluation) = log[d] /\ Diagnosis!Row(log[d].proposal) = log[c]
       /\ Diagnosis!Row(log[c].verification) = log[b] /\ Diagnosis!Row(log[b].finding) = log[a]
       /\ Diagnosis!Position(log[g].inspection) = f
    BY <1>7, <1>8
<1>13. Diagnosis!Chain(<<log[b].finding, log[c].verification, log[d].proposal, log[e].evaluation,
                         log[g].authorization, log[g].inspection, log[g].id>>, Phases)
    BY <1>7, <1>9
<1>14. /\ Diagnosis!Row(Diagnosis!Row(log[g].id).authorization) = log[e]
       /\ Diagnosis!Row(Diagnosis!Row(Diagnosis!Row(log[g].id).authorization).evaluation) = log[d]
    BY <1>12
<1>15. /\ Diagnosis!Row(Diagnosis!Row(Diagnosis!Row(Diagnosis!Row(log[g].id).authorization).evaluation).proposal) = log[c]
       /\ Diagnosis!Row(Diagnosis!Row(Diagnosis!Row(Diagnosis!Row(Diagnosis!Row(
              log[g].id).authorization).evaluation).proposal).verification) = log[b]
    BY <1>12, <1>14
<1>16. Diagnosis!Row(Diagnosis!Row(Diagnosis!Row(Diagnosis!Row(Diagnosis!Row(Diagnosis!Row(
              log[g].id).authorization).evaluation).proposal).verification).finding) = log[a]
    BY <1>12, <1>15
<1>17. InForce(log[g], log[e], log[d], log[c], log[b], log[a])
    BY <1>1, <1>2, <1>4, <1>5, <1>10, <1>11, <1>12, <1>13, <1>7 DEF InForce
<1> QED BY <1>12, <1>14, <1>15, <1>16, <1>17 DEF Authority

(* Of one case, one trial is started; what is completed is not revoked.     *)
LEMMA OneTrialOfACase ==
    ASSUME Diagnosis!Admissible(log), Len(log) \in Nat, NEW i \in Places, NEW j \in Places,
           log[i].kind = "trial_started", log[j].kind = "trial_started", log[i].authorization = log[j].authorization
    PROVE  i = j
<1>1. PICK k \in Places : Stands(log[i].authorization, k) /\ log[k].case = log[i].case
    BY TrialRefers
<1>2. PICK n \in Places : Stands(log[j].authorization, n) /\ log[n].case = log[j].case
    BY TrialRefers
<1>3. log[i].case = log[j].case
    BY <1>1, <1>2, IdsDiffer DEF Stands
<1>4. Diagnosis!Once(log, i) /\ Diagnosis!Once(log, j)
    BY DEF Diagnosis!Admissible, Diagnosis!RowAdmitted, Places
<1>5. ~ (i < j) /\ ~ (j < i)
    BY <1>3, <1>4, EarlierIsOwn DEF Diagnosis!Once
<1> QED BY <1>5 DEF Places

LEMMA CompletedIsNotRevoked ==
    ASSUME Diagnosis!Admissible(log), Len(log) \in Nat, NEW i \in Places, NEW j \in Places,
           log[i].kind = "trial_completed", log[j].kind = "trial_revoked", log[i].case = log[j].case
    PROVE  FALSE
<1>1. Diagnosis!Completed(log, i) /\ Diagnosis!Revoked(log, j)
    BY DEF Diagnosis!Admissible, Diagnosis!RowAdmitted, Places
<1>2. ~ (i < j) /\ ~ (j < i)
    BY <1>1, EarlierIsOwn DEF Diagnosis!Completed, Diagnosis!Revoked, Diagnosis!Absent
<1> QED BY <1>2 DEF Places
-----------------------------------------------------------------------------
(* What the diagnostic trial keeps true, and why it is inductive.           *)
Nonces == {event.nonce : event \in {e \in Events : e.kind = "trial_authorized"}}
ClaimId(nonce, n) == <<"trial", nonce, n>>
ClaimsBelow(n) == {ClaimId(nonce, k) : nonce \in Nonces, k \in 0 .. n - 1}
Mine == {ClaimId(nonce, k) : nonce \in Nonces, k \in 0 .. MaxClaims}

(* Rows of the log, rows in flight and completion files, given what was     *)
(* executed and what is sealed.                                             *)
Sound(row, done, sealed) ==
    /\ row.id \in Mine => row.kind = "trial_started"
    /\ row.kind = "trial_authorized" => row.nonce \in Nonces
    /\ row.kind = "trial_completed" =>
          (\E x \in done : x[2] = row.trial) /\ [trial |-> row.trial, verdict |-> row.verdict] \in sealed

Written(event) ==
    /\ {"id", "kind"} \subseteq DOMAIN event
    /\ event.kind = "trial_authorized" => "nonce" \in DOMAIN event
    /\ event.kind = "trial_completed" => {"trial", "verdict"} \subseteq DOMAIN event

IsSeq(s) == s \in Seq({s[i] : i \in 1 .. Len(s)})
LogIsSound == /\ IsSeq(log)
              /\ Diagnosis!Admissible(log)
              /\ \A i \in 1 .. Len(log) : Sound(log[i], executions, receipts)
FlightIsSound == \A row \in flight : Sound(row, executions, receipts)
FilesAreSound == \A event \in files : Written(event) /\ Sound(event, executions, receipts)

Phase == {"idle", "claim", "claiming", "execute", "seal", "complete"}
Runs(ids) == [pc : Phase, authorization : ids \cup {None}, inspection : ids \cup {None},
              claim : Mine \cup {None}, status : Outcomes \cup {None}]

(* Each run has a claim of its own.                                         *)
RunsClaim ==
    /\ claims \in 0 .. MaxClaims
    /\ runner \in [Runners -> Runs(Diagnosis!Ids)]
    /\ \A r \in Runners : runner[r].pc # "idle" => runner[r].claim \in ClaimsBelow(claims)
    /\ \A r, s \in Runners :
          runner[r].pc # "idle" /\ runner[s].pc # "idle" /\ runner[r].claim = runner[s].claim => r = s

(* A run executes under an admitted claim that nothing was executed under.  *)
Proceeds(r, call, ids, done, sealed) ==
    /\ call.pc = "execute" => call.claim \in ids
    /\ call.pc \in {"claim", "claiming", "execute"} => \A x \in done : x[2] # call.claim
    /\ call.pc \in {"seal", "complete"} => <<r, call.claim>> \in done
    /\ call.pc = "complete" => [trial |-> call.claim, verdict |-> call.status] \in sealed
RunsProceed == \A r \in Runners : Proceeds(r, runner[r], Diagnosis!Ids, executions, receipts)

ExecutionsClaim ==
    /\ \A x \in executions : x[2] \in ClaimsBelow(claims) /\ x[2] \in Diagnosis!Ids
    /\ \A x, y \in executions : x[2] = y[2] => x = y

EInv == LogIsSound /\ FlightIsSound /\ FilesAreSound /\ RunsClaim /\ RunsProceed /\ ExecutionsClaim

LEMMA SoundStays ==
    ASSUME NEW row, NEW done, NEW sealed, NEW done2, NEW sealed2,
           Sound(row, done, sealed), done \subseteq done2, sealed \subseteq sealed2
    PROVE  Sound(row, done2, sealed2)
BY DEF Sound

LEMMA ArrivalKeeps ==
    ASSUME NEW event, NEW at, NEW f \in DOMAIN event, f # "at"
    PROVE  Diagnosis!Arrived(event, at)[f] = event[f]
BY DEF Diagnosis!Arrived

LEMMA ArrivedIsSound ==
    ASSUME NEW event, NEW at, NEW done, NEW sealed, Written(event), Sound(event, done, sealed)
    PROVE  Sound(Diagnosis!Arrived(event, at), done, sealed)
<1> DEFINE row == Diagnosis!Arrived(event, at)
<1>1. row.id = event.id /\ row.kind = event.kind
    BY ArrivalKeeps DEF Written
<1>2. event.kind = "trial_authorized" => row.nonce = event.nonce
    BY ArrivalKeeps DEF Written
<1>3. event.kind = "trial_completed" => row.trial = event.trial /\ row.verdict = event.verdict
    BY ArrivalKeeps DEF Written
<1> HIDE DEF row
<1>4. Sound(row, done, sealed)
    BY <1>1, <1>2, <1>3 DEF Sound
<1> QED BY <1>4 DEF row

(* Longer sequences.                                                        *)
LEMMA AppendKeeps ==
    ASSUME NEW s, IsSeq(s), NEW row
    PROVE  /\ IsSeq(Append(s, row))
           /\ Len(s) \in Nat
           /\ Len(Append(s, row)) = Len(s) + 1
           /\ Append(s, row)[Len(s) + 1] = row
           /\ \A i \in 1 .. Len(s) : Append(s, row)[i] = s[i]
<1> DEFINE S == {s[i] : i \in 1 .. Len(s)} \cup {row}
           t == Append(s, row)
<1>1. s \in Seq(S) /\ row \in S /\ Len(s) \in Nat
    BY DEF IsSeq
<1> HIDE DEF S
<1>2. t \in Seq(S) /\ Len(t) = Len(s) + 1 /\ t[Len(s) + 1] = row /\ \A i \in 1 .. Len(s) : t[i] = s[i]
    BY <1>1
<1>3. t \in [1 .. Len(t) -> {t[i] : i \in 1 .. Len(t)}] /\ Len(t) \in Nat
    <2> HIDE DEF t
    <2>1. t \in [1 .. Len(t) -> S] /\ Len(t) \in Nat
        BY <1>2
    <2>2. \A i \in 1 .. Len(t) : t[i] \in {t[k] : k \in 1 .. Len(t)}
        OBVIOUS
    <2> QED BY <2>1, <2>2
<1>4. IsSeq(t)
    BY <1>3, <1>2 DEF IsSeq
<1> QED BY <1>1, <1>2, <1>4

LEMMA LogStays ==
    ASSUME LogIsSound, UNCHANGED log, executions \subseteq executions', receipts \subseteq receipts'
    PROVE  LogIsSound' /\ Diagnosis!Ids' = Diagnosis!Ids
<1>1. \A i \in 1 .. Len(log) : Sound(log[i], executions', receipts')
    BY SoundStays DEF LogIsSound
<1> QED BY <1>1 DEF LogIsSound, Diagnosis!Ids

LEMMA LogGrows ==
    ASSUME LogIsSound, NEW row, Sound(row, executions, receipts),
           log' = Append(log, row), Diagnosis!Admissible(Append(log, row)), UNCHANGED <<executions, receipts>>
    PROVE  LogIsSound' /\ Diagnosis!Ids \subseteq Diagnosis!Ids'
<1>1. /\ IsSeq(log') /\ Len(log) \in Nat /\ Len(log') = Len(log) + 1 /\ log'[Len(log) + 1] = row
      /\ \A i \in 1 .. Len(log) : log'[i] = log[i]
    BY AppendKeeps DEF LogIsSound
<1>2. ASSUME NEW i \in 1 .. Len(log') PROVE Sound(log'[i], executions, receipts)
    <2>1. i \in 1 .. Len(log) \/ i = Len(log) + 1
        BY <1>1
    <2> QED BY <1>1, <2>1 DEF LogIsSound
<1>3. Diagnosis!Ids \subseteq Diagnosis!Ids'
    <2>1. \A i \in 1 .. Len(log) : i \in 1 .. Len(log') /\ log'[i].id = log[i].id
        BY <1>1
    <2> QED BY <2>1 DEF Diagnosis!Ids
<1> QED BY <1>1, <1>2, <1>3 DEF LogIsSound

LEMMA OutsideStays ==
    ASSUME FlightIsSound, FilesAreSound, flight' \subseteq flight, UNCHANGED files,
           executions \subseteq executions', receipts \subseteq receipts'
    PROVE  FlightIsSound' /\ FilesAreSound'
<1>1. \A row : Sound(row, executions, receipts) => Sound(row, executions', receipts')
    BY SoundStays
<1> QED BY <1>1 DEF FlightIsSound, FilesAreSound

(* The runners' steps.                                                      *)
Others(r) == \A q \in Runners : q # r => runner'[q] = runner[q]

LEMMA RunMoves ==
    ASSUME NEW ids, runner \in [Runners -> Runs(ids)], NEW r \in Runners, NEW pc \in Phase,
           runner' = [runner EXCEPT ![r].pc = pc]
    PROVE  /\ runner' \in [Runners -> Runs(ids)] /\ Others(r)
           /\ runner'[r].pc = pc /\ runner'[r].claim = runner[r].claim /\ runner'[r].status = runner[r].status
BY DEF Runs, Others

LEMMA RunIsDone ==
    ASSUME NEW ids, runner \in [Runners -> Runs(ids)], NEW r \in Runners, NEW status \in Outcomes,
           runner' = [runner EXCEPT ![r].pc = "seal", ![r].status = status]
    PROVE  /\ runner' \in [Runners -> Runs(ids)] /\ Others(r)
           /\ runner'[r].pc = "seal" /\ runner'[r].claim = runner[r].claim /\ runner'[r].status = status
BY DEF Runs, Others, Phase

LEMMA RunIsSet ==
    ASSUME NEW ids, runner \in [Runners -> Runs(ids)], NEW r \in Runners, NEW pc \in Phase,
           NEW a \in ids \cup {None}, NEW i \in ids \cup {None}, NEW c \in Mine \cup {None},
           runner' = [runner EXCEPT
              ![r] = [pc |-> pc, authorization |-> a, inspection |-> i, claim |-> c, status |-> None]]
    PROVE  /\ runner' \in [Runners -> Runs(ids)] /\ Others(r)
           /\ runner'[r].pc = pc /\ runner'[r].claim = c /\ runner'[r].status = None
BY DEF Runs, Others

LEMMA RunsGrow ==
    ASSUME NEW ids, NEW more, ids \subseteq more, runner \in [Runners -> Runs(ids)]
    PROVE  runner \in [Runners -> Runs(more)]
BY DEF Runs

LEMMA RunsStay ==
    ASSUME RunsClaim, RunsProceed, ExecutionsClaim, UNCHANGED <<runner, claims, executions, receipts>>,
           Diagnosis!Ids \subseteq Diagnosis!Ids'
    PROVE  RunsClaim' /\ RunsProceed' /\ ExecutionsClaim'
<1>1. runner \in [Runners -> Runs(Diagnosis!Ids')]
    BY RunsGrow DEF RunsClaim
<1>2. RunsClaim'
    BY <1>1 DEF RunsClaim
<1>3. RunsProceed'
    BY DEF RunsProceed, Proceeds
<1>4. ExecutionsClaim'
    BY DEF ExecutionsClaim
<1> QED BY <1>2, <1>3, <1>4

(* One run goes on with its claim, or ends.                                 *)
LEMMA RunStep ==
    ASSUME RunsClaim, RunsProceed, ExecutionsClaim, NEW r \in Runners, Others(r),
           runner' \in [Runners -> Runs(Diagnosis!Ids)], UNCHANGED <<log, claims, executions>>, receipts \subseteq receipts',
           \/ runner'[r].pc = "idle"
           \/ runner[r].pc # "idle" /\ runner'[r].claim = runner[r].claim,
           Proceeds(r, runner'[r], Diagnosis!Ids, executions, receipts')
    PROVE  RunsClaim' /\ RunsProceed' /\ ExecutionsClaim'
<1>1. Diagnosis!Ids' = Diagnosis!Ids
    BY DEF Diagnosis!Ids
<1>2. \A q \in Runners : q = r \/ runner'[q] = runner[q]
    BY DEF Others
<1>3. RunsClaim'
    BY <1>1, <1>2 DEF RunsClaim
<1>4. ASSUME NEW q \in Runners PROVE Proceeds(q, runner'[q], Diagnosis!Ids, executions, receipts')
    <2>1. CASE q = r
        BY <2>1
    <2>2. CASE runner'[q] = runner[q]
        BY <2>2 DEF RunsProceed, Proceeds
    <2> QED BY <1>2, <2>1, <2>2
<1>5. RunsProceed'
    BY <1>1, <1>4 DEF RunsProceed, Proceeds
<1>6. ExecutionsClaim'
    BY <1>1 DEF ExecutionsClaim
<1> QED BY <1>3, <1>5, <1>6

LEMMA BelowIsMine == ASSUME MaxClaims \in Nat, claims \in 0 .. MaxClaims PROVE ClaimsBelow(claims) \subseteq Mine
BY DEF ClaimsBelow, Mine

LEMMA EndStep ==
    ASSUME RunsClaim, RunsProceed, ExecutionsClaim, NEW r \in Runners, Diagnosis!End(r),
           UNCHANGED <<log, claims, executions, receipts>>
    PROVE  RunsClaim' /\ RunsProceed' /\ ExecutionsClaim'
<1>1. /\ runner' \in [Runners -> Runs(Diagnosis!Ids)] /\ Others(r)
      /\ runner'[r].pc = "idle" /\ runner'[r].claim = None
    <2>1. runner' = [runner EXCEPT ![r] = [pc |-> "idle", authorization |-> None, inspection |-> None,
                                           claim |-> None, status |-> None]]
        BY DEF Diagnosis!End, Diagnosis!Resting
    <2>2. "idle" \in Phase
        BY DEF Phase
    <2>3. runner \in [Runners -> Runs(Diagnosis!Ids)]
        BY DEF RunsClaim
    <2> QED BY <2>1, <2>2, <2>3, RunIsSet
<1>2. Proceeds(r, runner'[r], Diagnosis!Ids, executions, receipts')
    BY <1>1 DEF Proceeds
<1> QED BY <1>1, <1>2, RunStep

(* The steps, one by one.                                                   *)
LEMMA EInitHolds == ASSUME Diagnosis!EventsAreOfOthers, Diagnosis!Init PROVE EInv
<1> USE DEF Diagnosis!Init
<1>1. LogIsSound
    <2>1. log \in Seq({log[i] : i \in 1 .. Len(log)}) /\ 1 .. Len(log) = {}
        OBVIOUS
    <2> QED BY <2>1 DEF LogIsSound, IsSeq, Diagnosis!Admissible
<1>2. runner \in [Runners -> Runs(Diagnosis!Ids)]
    BY DEF Runs, Phase, Diagnosis!Resting
<1>3. RunsClaim
    BY <1>2 DEF RunsClaim, Diagnosis!EventsAreOfOthers, Diagnosis!Resting
<1>4. RunsProceed
    BY DEF RunsProceed, Proceeds, Diagnosis!Resting
<1> QED BY <1>1, <1>3, <1>4 DEF EInv, FlightIsSound, FilesAreSound, ExecutionsClaim

LEMMA AdmitStep ==
    ASSUME EInv, Diagnosis!EventsAreOfOthers, NEW event \in Events, Diagnosis!Admit(event)
    PROVE  EInv'
<1> USE DEF EInv, Diagnosis!Admit
<1>1. Written(event) /\ Sound(event, executions, receipts)
    <2>1. event.id \notin Mine
        <3>1. \A nonce \in Nonces, k \in 0 .. MaxClaims : event.id # <<"trial", nonce, k>>
            BY DEF Nonces, Diagnosis!EventsAreOfOthers
        <3> QED BY <3>1 DEF Mine, ClaimId
    <2>2. event.kind = "trial_authorized" => event.nonce \in Nonces
        BY DEF Nonces
    <2> QED BY <2>1, <2>2 DEF Written, Sound, Diagnosis!EventsAreOfOthers
<1>2. Sound(Diagnosis!Arrived(event, minute), executions, receipts)
    BY <1>1, ArrivedIsSound
<1>3. LogIsSound' /\ Diagnosis!Ids \subseteq Diagnosis!Ids'
    BY <1>2, LogGrows
<1>4. RunsClaim' /\ RunsProceed' /\ ExecutionsClaim'
    BY <1>3, RunsStay
<1>5. FlightIsSound' /\ FilesAreSound'
    BY OutsideStays
<1> QED BY <1>3, <1>4, <1>5

LEMMA LandStep ==
    ASSUME EInv, NEW row \in flight, Diagnosis!Land(row)
    PROVE  EInv'
<1> USE DEF EInv, Diagnosis!Land
<1>1. Sound(row, executions, receipts)
    BY DEF FlightIsSound
<1>2. LogIsSound' /\ Diagnosis!Ids \subseteq Diagnosis!Ids'
    BY <1>1, LogGrows
<1>3. RunsClaim' /\ RunsProceed' /\ ExecutionsClaim'
    BY <1>2, RunsStay
<1>4. FlightIsSound' /\ FilesAreSound'
    BY OutsideStays
<1> QED BY <1>2, <1>3, <1>4

(* The log, what was executed and what is sealed stay; rows in flight and   *)
(* files may be more.                                                       *)
LEMMA SubmitStep ==
    ASSUME LogIsSound, FlightIsSound, FilesAreSound, UNCHANGED <<log, executions, receipts>>,
           NEW row, Sound(row, executions, receipts), flight' \subseteq flight \cup {row}, UNCHANGED files
    PROVE  LogIsSound' /\ FlightIsSound' /\ FilesAreSound'
BY LogStays DEF FlightIsSound, FilesAreSound

LEMMA QuietStep ==
    ASSUME EInv, flight' \subseteq flight, UNCHANGED <<log, runner, claims, receipts, files, executions>>
    PROVE  EInv'
<1> USE DEF EInv
<1>1. LogIsSound' /\ Diagnosis!Ids' = Diagnosis!Ids
    BY LogStays
<1>2. FlightIsSound' /\ FilesAreSound'
    BY OutsideStays
<1>3. RunsClaim' /\ RunsProceed' /\ ExecutionsClaim'
    BY <1>1, RunsStay
<1> QED BY <1>1, <1>2, <1>3

LEMMA LookStep ==
    ASSUME EInv, Diagnosis!EventsAreOfOthers, NEW r \in Runners, Diagnosis!Look(r)
    PROVE  EInv'
<1>0. PICK i \in 1 .. Len(log), k \in 1 .. Len(log) :
          /\ log[i].kind = "trial_authorized"
          /\ \E c \in Diagnosis!ClaimIds(log[i].id) :
                runner' = [runner EXCEPT ![r] = [pc |-> "claim", authorization |-> log[i].id,
                              inspection |-> log[k].id, claim |-> c, status |-> None]]
    BY DEF Diagnosis!Look
<1>1. PICK claim \in Diagnosis!ClaimIds(log[i].id) :
          runner' = [runner EXCEPT ![r] = [pc |-> "claim", authorization |-> log[i].id,
                        inspection |-> log[k].id, claim |-> claim, status |-> None]]
    BY <1>0
<1>2. /\ MaxClaims \in Nat /\ claims \in 0 .. MaxClaims /\ claims < MaxClaims /\ claims' = claims + 1
      /\ UNCHANGED <<log, flight, receipts, files, executions>> /\ runner[r].pc = "idle"
    BY DEF Diagnosis!Look, Diagnosis!EventsAreOfOthers, EInv, RunsClaim
<1>3. Diagnosis!Ids' = Diagnosis!Ids
    BY <1>2 DEF Diagnosis!Ids
<1>4. LogIsSound' /\ FlightIsSound' /\ FilesAreSound'
    BY <1>2, LogStays, OutsideStays DEF EInv
<1>5. PICK nonce \in Nonces : claim = ClaimId(nonce, claims)
    <2>1. Len(log) \in Nat
        BY AppendKeeps DEF EInv, LogIsSound
    <2>2. Diagnosis!Row(log[i].id) = log[i]
        BY <2>1, PlaceOf DEF EInv, LogIsSound, Stands, Places
    <2>3. log[i].nonce \in Nonces
        BY <1>0 DEF EInv, LogIsSound, Sound
    <2> QED BY <1>1, <2>2, <2>3 DEF Diagnosis!ClaimIds, ClaimId
<1>6. /\ ClaimsBelow(claims) \subseteq ClaimsBelow(claims')
      /\ claim \in ClaimsBelow(claims') /\ claim \in Mine /\ claim \notin ClaimsBelow(claims)
    <2>1. \A n \in 0 .. claims - 1 : n \in 0 .. claims' - 1 /\ n # claims
        BY <1>2
    <2>2. claims \in 0 .. claims' - 1 /\ claims \in 0 .. MaxClaims
        BY <1>2
    <2>3. claim \notin ClaimsBelow(claims)
        BY <1>5, <2>1 DEF ClaimsBelow, ClaimId
    <2> QED BY <1>5, <2>1, <2>2, <2>3 DEF ClaimsBelow, Mine
<1>7. /\ runner' \in [Runners -> Runs(Diagnosis!Ids)] /\ Others(r)
      /\ runner'[r].pc = "claim" /\ runner'[r].claim = claim
    <2>1. log[i].id \in Diagnosis!Ids /\ log[k].id \in Diagnosis!Ids
        BY DEF Diagnosis!Ids
    <2>2. "claim" \in Phase /\ runner \in [Runners -> Runs(Diagnosis!Ids)]
        BY DEF Phase, EInv, RunsClaim
    <2>3. log[i].id \in Diagnosis!Ids \cup {None} /\ log[k].id \in Diagnosis!Ids \cup {None} /\ claim \in Mine \cup {None}
        BY <1>6, <2>1
    <2>4. ASSUME NEW a, NEW b, a = log[i].id, b = log[k].id
          PROVE  /\ runner' \in [Runners -> Runs(Diagnosis!Ids)] /\ Others(r)
                 /\ runner'[r].pc = "claim" /\ runner'[r].claim = claim
        <3>1. a \in Diagnosis!Ids \cup {None} /\ b \in Diagnosis!Ids \cup {None}
            BY <2>3, <2>4
        <3>2. runner' = [runner EXCEPT ![r] = [pc |-> "claim", authorization |-> a, inspection |-> b,
                                               claim |-> claim, status |-> None]]
            BY <1>1, <2>4
        <3> QED BY <2>2, <2>3, <3>1, <3>2, RunIsSet
    <2> QED BY <2>4
<1>8. RunsClaim'
    <2>1. \A q \in Runners : runner'[q].pc # "idle" => runner'[q].claim \in ClaimsBelow(claims')
        BY <1>6, <1>7 DEF EInv, RunsClaim, Others
    <2>2. \A q \in Runners : q # r /\ runner'[q].pc # "idle" => runner'[q].claim # claim
        BY <1>6, <1>7 DEF EInv, RunsClaim, Others
    <2>3. \A q, s \in Runners :
            runner'[q].pc # "idle" /\ runner'[s].pc # "idle" /\ runner'[q].claim = runner'[s].claim => q = s
        BY <2>2, <1>7 DEF EInv, RunsClaim, Others
    <2>4. claims' \in 0 .. MaxClaims
        BY <1>2
    <2> QED BY <1>3, <1>7, <2>1, <2>3, <2>4 DEF RunsClaim
<1>9. RunsProceed'
    <2>1. ASSUME NEW q \in Runners PROVE Proceeds(q, runner'[q], Diagnosis!Ids, executions, receipts)
        <3>1. CASE q = r
            BY <3>1, <1>6, <1>7 DEF Proceeds, EInv, ExecutionsClaim
        <3>2. CASE q # r
            BY <3>2, <1>7 DEF EInv, RunsProceed, Others
        <3> QED BY <3>1, <3>2
    <2> QED BY <1>2, <1>3, <2>1 DEF RunsProceed
<1>10. ExecutionsClaim'
    BY <1>2, <1>3, <1>6 DEF EInv, ExecutionsClaim
<1> QED BY <1>4, <1>8, <1>9, <1>10 DEF EInv

(* A run that moves on, with the log and what was executed as they are.     *)
LEMMA MoveStep ==
    ASSUME EInv, NEW r \in Runners, NEW pc \in Phase, Diagnosis!Goto(r, pc), runner[r].pc # "idle",
           UNCHANGED <<log, claims, executions>>, receipts \subseteq receipts',
           pc = "execute" => runner[r].claim \in Diagnosis!Ids,
           pc \in {"claim", "claiming", "execute"} => runner[r].pc \in {"claim", "claiming", "execute"},
           pc \in {"seal", "complete"} => runner[r].pc \in {"seal", "complete"},
           pc = "complete" => [trial |-> runner[r].claim, verdict |-> runner[r].status] \in receipts'
    PROVE  RunsClaim' /\ RunsProceed' /\ ExecutionsClaim'
<1>1. /\ runner' \in [Runners -> Runs(Diagnosis!Ids)] /\ Others(r)
      /\ runner'[r].pc = pc /\ runner'[r].claim = runner[r].claim /\ runner'[r].status = runner[r].status
    BY RunMoves DEF Diagnosis!Goto, EInv, RunsClaim
<1>2. Proceeds(r, runner[r], Diagnosis!Ids, executions, receipts)
    BY DEF EInv, RunsProceed
<1>3. Proceeds(r, runner'[r], Diagnosis!Ids, executions, receipts')
    BY <1>1, <1>2 DEF Proceeds
<1> QED BY <1>1, <1>3, RunStep DEF EInv

LEMMA SubmitClaimStep ==
    ASSUME EInv, NEW r \in Runners, Diagnosis!SubmitClaim(r)
    PROVE  EInv'
<1> USE DEF Diagnosis!SubmitClaim
<1>1. ASSUME NEW row, row = Diagnosis!Arrived(Diagnosis!ClaimEvent(r), minute) PROVE Sound(row, executions, receipts)
    <2>1. ASSUME NEW event, event = Diagnosis!ClaimEvent(r) PROVE Written(event) /\ Sound(event, executions, receipts)
        <3>1. {"id", "kind"} \subseteq DOMAIN event /\ event.kind = "trial_started"
            BY <2>1 DEF Diagnosis!ClaimEvent
        <3> QED BY <3>1 DEF Written, Sound
    <2> QED BY <1>1, <2>1, ArrivedIsSound
<1>2. LogIsSound' /\ FlightIsSound' /\ FilesAreSound'
    <2>1. PICK row : row = Diagnosis!Arrived(Diagnosis!ClaimEvent(r), minute)
        OBVIOUS
    <2> QED BY <1>1, <2>1, SubmitStep DEF EInv
<1>3. "claiming" \in Phase
    BY DEF Phase
<1> QED BY <1>2, <1>3, MoveStep DEF EInv

LEMMA AcceptedStep ==
    ASSUME EInv, NEW r \in Runners, Diagnosis!ClaimAccepted(r)
    PROVE  EInv'
<1> USE DEF Diagnosis!ClaimAccepted
<1>1. LogIsSound' /\ FlightIsSound' /\ FilesAreSound'
    BY LogStays, OutsideStays DEF EInv
<1>2. "execute" \in Phase
    BY DEF Phase
<1> QED BY <1>1, <1>2, MoveStep DEF EInv

LEMMA UnverifiedStep ==
    ASSUME EInv, NEW r \in Runners, Diagnosis!ClaimUnverified(r)
    PROVE  EInv'
<1> USE DEF Diagnosis!ClaimUnverified
<1>1. LogIsSound' /\ FlightIsSound' /\ FilesAreSound'
    BY LogStays, OutsideStays DEF EInv
<1> QED BY <1>1, EndStep DEF EInv

LEMMA ExecuteStep ==
    ASSUME EInv, NEW r \in Runners, Diagnosis!Execute(r)
    PROVE  EInv'
<1> USE DEF Diagnosis!Execute
<1>1. PICK status \in Outcomes : runner' = [runner EXCEPT ![r].pc = "seal", ![r].status = status]
    OBVIOUS
<1>2. /\ runner' \in [Runners -> Runs(Diagnosis!Ids)] /\ Others(r)
      /\ runner'[r].pc = "seal" /\ runner'[r].claim = runner[r].claim /\ runner'[r].status = status
    BY <1>1, RunIsDone DEF EInv, RunsClaim
<1>3. LogIsSound' /\ Diagnosis!Ids' = Diagnosis!Ids
    BY LogStays DEF EInv
<1>4. FlightIsSound' /\ FilesAreSound'
    BY OutsideStays DEF EInv
<1>5. \A q \in Runners : q = r \/ runner'[q] = runner[q]
    BY <1>2 DEF Others
<1>6. RunsClaim'
    BY <1>2, <1>3, <1>5 DEF EInv, RunsClaim
<1>7. ASSUME NEW q \in Runners PROVE Proceeds(q, runner'[q], Diagnosis!Ids, executions', receipts)
    <2>1. CASE q = r
        BY <2>1, <1>2 DEF Proceeds
    <2>2. CASE q # r
        <3>1. runner'[q] = runner[q] /\ Proceeds(q, runner[q], Diagnosis!Ids, executions, receipts)
            BY <1>5, <2>2 DEF EInv, RunsProceed
        <3>2. runner[q].pc # "idle" => runner[q].claim # runner[r].claim
            BY <2>2 DEF EInv, RunsClaim
        <3>3. runner[q].pc # "idle" => <<r, runner[r].claim>>[2] # runner[q].claim
            BY <3>2
        <3>4. executions' = executions \cup {<<r, runner[r].claim>>}
            OBVIOUS
        <3> HIDE DEF Diagnosis!Execute
        <3> QED BY <3>1, <3>3, <3>4 DEF Proceeds
    <2> QED BY <2>1, <2>2
<1>8. RunsProceed'
    BY <1>3, <1>7 DEF RunsProceed
<1>9. ExecutionsClaim'
    <2>1. /\ runner[r].claim \in ClaimsBelow(claims) /\ runner[r].claim \in Diagnosis!Ids
          /\ \A x \in executions : x[2] # runner[r].claim
        BY DEF EInv, RunsClaim, RunsProceed, Proceeds
    <2>2. \A x \in executions' : x \in executions \/ x = <<r, runner[r].claim>>
        OBVIOUS
    <2>3. \A x \in executions' : x[2] \in ClaimsBelow(claims) /\ x[2] \in Diagnosis!Ids
        BY <2>1, <2>2 DEF EInv, ExecutionsClaim
    <2>4. \A x, y \in executions' : x[2] = y[2] => x = y
        BY <2>1, <2>2 DEF EInv, ExecutionsClaim
    <2> QED BY <1>3, <2>3, <2>4 DEF ExecutionsClaim
<1> QED BY <1>3, <1>4, <1>6, <1>8, <1>9 DEF EInv

LEMMA SealStep ==
    ASSUME EInv, NEW r \in Runners, Diagnosis!Seal(r)
    PROVE  EInv'
<1> USE DEF Diagnosis!Seal
<1>1. LogIsSound' /\ FlightIsSound' /\ FilesAreSound'
    BY LogStays, OutsideStays DEF EInv
<1>2. "complete" \in Phase
    BY DEF Phase
<1> QED BY <1>1, <1>2, MoveStep DEF EInv

LEMMA OutcomeIsSound ==
    ASSUME EInv, NEW r \in Runners, runner[r].pc = "complete",
           NEW event, event = Diagnosis!CompletionEvent(r)
    PROVE  Written(event) /\ Sound(event, executions, receipts)
<1>1. /\ {"id", "kind", "trial", "verdict"} \subseteq DOMAIN event /\ event.kind = "trial_completed"
      /\ event.trial = runner[r].claim /\ event.verdict = runner[r].status
    BY DEF Diagnosis!CompletionEvent
<1>2. event.id \notin Mine
    <2>1. event.id = <<"outcome", Diagnosis!Row(runner[r].authorization).nonce>>
        BY DEF Diagnosis!CompletionEvent
    <2>2. event.id[1] = "outcome"
        BY <2>1
    <2>3. \A id \in Mine : id[1] = "trial"
        BY DEF Mine, ClaimId
    <2> QED BY <2>2, <2>3
<1>3. <<r, runner[r].claim>> \in executions /\ <<r, runner[r].claim>>[2] = runner[r].claim
    BY DEF EInv, RunsProceed, Proceeds
<1>4. [trial |-> runner[r].claim, verdict |-> runner[r].status] \in receipts
    BY DEF EInv, RunsProceed, Proceeds
<1> QED BY <1>1, <1>2, <1>3, <1>4 DEF Written, Sound

LEMMA SubmitCompletionStep ==
    ASSUME EInv, NEW r \in Runners, Diagnosis!SubmitCompletion(r)
    PROVE  EInv'
<1> USE DEF Diagnosis!SubmitCompletion
<1>1. PICK event : event = Diagnosis!CompletionEvent(r)
    OBVIOUS
<1>2. PICK row : row = Diagnosis!Arrived(event, minute)
    OBVIOUS
<1>3. Written(event) /\ Sound(event, executions, receipts)
    BY <1>1, OutcomeIsSound
<1>4. Sound(row, executions, receipts)
    BY <1>2, <1>3, ArrivedIsSound
<1>5. FlightIsSound'
    BY <1>1, <1>2, <1>4 DEF EInv, FlightIsSound
<1>6. FilesAreSound'
    BY <1>1, <1>3 DEF EInv, FilesAreSound
<1>7. LogIsSound'
    BY LogStays DEF EInv
<1> QED BY <1>5, <1>6, <1>7, EndStep DEF EInv

LEMMA CrashStep ==
    ASSUME EInv, NEW r \in Runners, Diagnosis!Crash(r)
    PROVE  EInv'
<1> USE DEF Diagnosis!Crash
<1>1. FilesAreSound'
    <2>1. CASE UNCHANGED files
        BY <2>1 DEF EInv, FilesAreSound
    <2>2. CASE runner[r].pc = "complete" /\ files' = files \cup {Diagnosis!CompletionEvent(r)}
        <3>1. PICK event : event = Diagnosis!CompletionEvent(r)
            OBVIOUS
        <3>2. Written(event) /\ Sound(event, executions, receipts)
            BY <2>2, <3>1, OutcomeIsSound
        <3> QED BY <2>2, <3>1, <3>2 DEF EInv, FilesAreSound
    <2> QED BY <2>1, <2>2
<1>2. FlightIsSound'
    BY DEF EInv, FlightIsSound
<1>3. LogIsSound'
    BY LogStays DEF EInv
<1> QED BY <1>1, <1>2, <1>3, EndStep DEF EInv

LEMMA ResubmitStep ==
    ASSUME EInv, NEW event \in files, Diagnosis!Resubmit(event)
    PROVE  EInv'
<1> USE DEF Diagnosis!Resubmit
<1>1. PICK row : row = Diagnosis!Arrived(event, minute)
    OBVIOUS
<1>2. Sound(row, executions, receipts)
    BY <1>1, ArrivedIsSound DEF EInv, FilesAreSound
<1>3. LogIsSound' /\ FlightIsSound' /\ FilesAreSound'
    BY <1>1, <1>2, SubmitStep DEF EInv
<1>4. RunsClaim' /\ RunsProceed' /\ ExecutionsClaim'
    BY RunsStay DEF EInv, Diagnosis!Ids
<1> QED BY <1>3, <1>4 DEF EInv

LEMMA EStep ==
    ASSUME EInv, Diagnosis!EventsAreOfOthers, Diagnosis!Next \/ UNCHANGED Diagnosis!vars
    PROVE  EInv'
<1>1. CASE Diagnosis!Tick
    BY <1>1, QuietStep DEF Diagnosis!Tick
<1>2. CASE \E event \in Events : Diagnosis!Admit(event)
    BY <1>2, AdmitStep
<1>3. CASE \E row \in flight : Diagnosis!Land(row) \/ Diagnosis!Drop(row)
    <2>1. ASSUME NEW row \in flight, Diagnosis!Land(row) PROVE EInv'
        BY <2>1, LandStep
    <2>2. ASSUME NEW row \in flight, Diagnosis!Drop(row) PROVE EInv'
        BY <2>2, QuietStep DEF Diagnosis!Drop
    <2> QED BY <1>3, <2>1, <2>2
<1>4. ASSUME NEW r \in Runners,
             \/ Diagnosis!Look(r) \/ Diagnosis!SubmitClaim(r) \/ Diagnosis!ClaimAccepted(r)
             \/ Diagnosis!ClaimUnverified(r) \/ Diagnosis!Execute(r) \/ Diagnosis!Seal(r)
             \/ Diagnosis!SubmitCompletion(r) \/ Diagnosis!Crash(r)
      PROVE  EInv'
    BY <1>4, LookStep, SubmitClaimStep, AcceptedStep, UnverifiedStep, ExecuteStep, SealStep,
       SubmitCompletionStep, CrashStep
<1>5. CASE \E event \in files : Diagnosis!Resubmit(event)
    BY <1>5, ResubmitStep
<1>6. CASE UNCHANGED Diagnosis!vars
    BY <1>6, QuietStep DEF Diagnosis!vars
<1> QED BY <1>1, <1>2, <1>3, <1>4, <1>5, <1>6 DEF Diagnosis!Next

(* A started row in the log is of an execution's claim.                     *)
LEMMA ExecutedIsStarted ==
    ASSUME EInv, MaxClaims \in Nat, NEW x \in executions
    PROVE  \E i \in Places : Stands(x[2], i) /\ log[i].kind = "trial_started"
<1>1. PICK i \in Places : Stands(x[2], i)
    BY IdHasAPlace DEF EInv, ExecutionsClaim
<1>2. x[2] \in Mine
    BY BelowIsMine DEF EInv, ExecutionsClaim, RunsClaim
<1> QED BY <1>1, <1>2 DEF EInv, LogIsSound, Sound, Stands, Places

LEMMA EInvSuffices == ASSUME EInv, Diagnosis!EventsAreOfOthers PROVE TrialsAreAuthorized
<1>1. Len(log) \in Nat /\ Diagnosis!Admissible(log) /\ MaxClaims \in Nat
    BY AppendKeeps DEF EInv, LogIsSound, Diagnosis!EventsAreOfOthers
<1>2. Diagnosis!OneExecution
    <2> SUFFICES ASSUME NEW x \in executions, NEW y \in executions,
                        Diagnosis!Row(x[2]).authorization = Diagnosis!Row(y[2]).authorization
                 PROVE  x = y
        BY DEF Diagnosis!OneExecution
    <2>1. PICK i \in Places : Stands(x[2], i) /\ log[i].kind = "trial_started"
        BY <1>1, ExecutedIsStarted
    <2>2. PICK j \in Places : Stands(y[2], j) /\ log[j].kind = "trial_started"
        BY <1>1, ExecutedIsStarted
    <2>3. log[i].authorization = log[j].authorization
        BY <1>1, <2>1, <2>2, PlaceOf
    <2>4. x[2] = y[2]
        BY <1>1, <2>1, <2>2, <2>3, OneTrialOfACase DEF Stands
    <2> QED BY <2>4 DEF EInv, ExecutionsClaim
<1>3. Diagnosis!ExecutedIsAuthorized
    <2>1. ASSUME NEW x \in executions PROVE Authority(x[2])
        <3>1. PICK i \in Places : Stands(x[2], i) /\ log[i].kind = "trial_started"
            BY <1>1, ExecutedIsStarted
        <3> QED BY <1>1, <3>1, StartedIsAuthorized DEF Stands
    <2> QED BY <2>1 DEF Authority, InForce, Phases, Diagnosis!ExecutedIsAuthorized
<1>4. Diagnosis!CompletedIsMeasured
    <2>1. ASSUME NEW i \in 1 .. Len(log), log[i].kind = "trial_completed"
          PROVE  /\ \E x \in executions : x[2] = log[i].trial
                 /\ [trial |-> log[i].trial, verdict |-> log[i].verdict] \in receipts
        BY <2>1 DEF EInv, LogIsSound, Sound
    <2>2. \A i, n \in 1 .. Len(log) : log[i].kind = "trial_completed" =>
              ~ (log[n].kind = "trial_revoked" /\ log[n].case = log[i].case)
        BY <1>1, CompletedIsNotRevoked DEF Places
    <2> QED BY <2>1, <2>2 DEF Diagnosis!CompletedIsMeasured
<1> QED BY <1>2, <1>3, <1>4 DEF TrialsAreAuthorized, Diagnosis!TrialsAreAuthorized

(* Whatever other producers submit, however many runners race for an        *)
(* authorization and wherever they crash, it is executed once, and with all *)
(* of its authority; what is completed was measured and not revoked         *)
(* (evolution/trial.py, run; gateway.py, the admission of an event).        *)
THEOREM TrialsAlwaysAuthorized == Diagnosis!Spec => []TrialsAreAuthorized
<1>1. Diagnosis!Init => EInv
    BY EventsAssumption, EInitHolds
<1>2. EInv /\ [Diagnosis!Next]_Diagnosis!vars => EInv'
    BY EventsAssumption, EStep
<1>3. EInv => TrialsAreAuthorized
    BY EventsAssumption, EInvSuffices
<1> QED BY <1>1, <1>2, <1>3, PTL DEF Diagnosis!Spec
-----------------------------------------------------------------------------
(* The walkthrough.  A receipt is written in its own step of the script, so *)
(* that the step tells which receipts there are.                            *)
Steps == 27
Does ==
    [i \in 1 .. Steps |->
        IF i = 9 THEN "evaluate" ELSE IF i = 20 THEN "measure" ELSE IF i = 21 THEN "conclude"
        ELSE IF i = 26 THEN "seal" ELSE IF i = 27 THEN "summarize"
        ELSE IF i \in {2, 3, 7, 10, 12, 13, 14, 18, 23, 24, 25} THEN "refuse" ELSE "admit"]

LEMMA DoesAt ==
    ASSUME NEW i \in 1 .. Steps
    PROVE  /\ Does[i] = "evaluate" => i = 9
           /\ Does[i] = "measure" => i = 20
           /\ Does[i] = "conclude" => i = 21
           /\ Does[i] = "seal" => i = 26
           /\ Does[i] = "summarize" => i = 27
  BY DEF Does, Steps
LEMMA AdmitDoes == ASSUME NEW e PROVE Walked!Admit(e).does = "admit"
  BY DEF Walked!Admit
LEMMA RefuseDoes == ASSUME NEW e, NEW r, NEW why PROVE Walked!Refuse(e, r, why).does = "refuse"
  BY DEF Walked!Refuse
LEMMA DoDoes == ASSUME NEW what PROVE Walked!Do(what).does = what
  BY DEF Walked!Do

LEMMA ScriptDoes ==
    /\ Len(Walked!Script) = Steps
    /\ \A i \in 1 .. Steps : Walked!Script[i].does = Does[i]
<1>1. Len(Walked!Script) = Steps
  BY DEF Walked!Script, Steps
<1>2. ASSUME NEW i \in 1 .. Steps PROVE Walked!Script[i].does = Does[i]
  <2>1. \/ i = 1 \/ i = 2 \/ i = 3 \/ i = 4 \/ i = 5 \/ i = 6 \/ i = 7 \/ i = 8 \/ i = 9
        \/ i = 10 \/ i = 11 \/ i = 12 \/ i = 13 \/ i = 14 \/ i = 15 \/ i = 16 \/ i = 17 \/ i = 18
        \/ i = 19 \/ i = 20 \/ i = 21 \/ i = 22 \/ i = 23 \/ i = 24 \/ i = 25 \/ i = 26 \/ i = 27
    BY DEF Steps
  <2>2. /\ Walked!Script[1].does = "admit" /\ Walked!Script[2].does = "refuse"
        /\ Walked!Script[3].does = "refuse" /\ Walked!Script[4].does = "admit"
        /\ Walked!Script[5].does = "admit" /\ Walked!Script[6].does = "admit"
        /\ Walked!Script[7].does = "refuse" /\ Walked!Script[8].does = "admit"
        /\ Walked!Script[9].does = "evaluate"
    BY AdmitDoes, RefuseDoes, DoDoes DEF Walked!Script
  <2>3. /\ Walked!Script[10].does = "refuse" /\ Walked!Script[11].does = "admit"
        /\ Walked!Script[12].does = "refuse" /\ Walked!Script[13].does = "refuse"
        /\ Walked!Script[14].does = "refuse" /\ Walked!Script[15].does = "admit"
        /\ Walked!Script[16].does = "admit" /\ Walked!Script[17].does = "admit"
        /\ Walked!Script[18].does = "refuse"
    BY AdmitDoes, RefuseDoes, DoDoes DEF Walked!Script
  <2>4. /\ Walked!Script[19].does = "admit" /\ Walked!Script[20].does = "measure"
        /\ Walked!Script[21].does = "conclude" /\ Walked!Script[22].does = "admit"
        /\ Walked!Script[23].does = "refuse" /\ Walked!Script[24].does = "refuse"
        /\ Walked!Script[25].does = "refuse" /\ Walked!Script[26].does = "seal"
        /\ Walked!Script[27].does = "summarize"
    BY AdmitDoes, RefuseDoes, DoDoes DEF Walked!Script
  <2> QED
    BY <2>1, <2>2, <2>3, <2>4 DEF Does, Steps
<1> QED
  BY <1>1, <1>2

ReceiptKinds == {"evaluation", "measurement", "outcome", "seal", "summary"}
WalkForm ==
    /\ walk = [at |-> walk.at, step |-> walk.step, date |-> walk.date, code |-> walk.code]
    /\ walk.step \in 1 .. Steps
    /\ retained = [kind \in ReceiptKinds |-> retained[kind]]
    /\ altered \subseteq Walked!Parts

(* What is retained at a step of the script.                                *)
WalkKeeps ==
    /\ walk.at = "new" => walk.step = 1
    /\ walk.at = "rehearsed" => walk.step = Steps
    /\ retained.summary # None => walk.at = "rehearsed"
    /\ walk.step > 21 => retained.outcome = Walked!OutcomeOf(retained.measurement)
    /\ walk.step > 26 => retained.seal = retained.outcome
WInv == WalkForm /\ WalkKeeps

LEMMA WalkInit == Walked!Init => WInv
<1> SUFFICES ASSUME Walked!Init PROVE WInv
  OBVIOUS
<1>1. WalkForm
  BY DEF Walked!Init, WalkForm, ReceiptKinds, Steps
<1>2. WalkKeeps
  BY DEF Walked!Init, WalkKeeps, Steps
<1> QED
  BY <1>1, <1>2 DEF WInv

(* A step of the script: the outcome is what was measured, under the date   *)
(* that run was given.                                                      *)
LEMMA OnwardMoves ==
    ASSUME WInv, walk.at = "running", Walked!Onward
    PROVE  /\ walk' = [at |-> walk'.at, step |-> walk'.step, date |-> walk'.date, code |-> walk'.code]
           /\ walk'.date = walk.date
           /\ \/ walk.step = Steps /\ walk'.step = Steps /\ walk'.at = "rehearsed"
              \/ walk.step < Steps /\ walk'.step = walk.step + 1 /\ walk'.at = "running"
<1>1. Len(Walked!Script) = Steps
  BY ScriptDoes
<1> QED
  BY <1>1 DEF WInv, WalkForm, Walked!Onward, Steps

LEMMA BreakMoves ==
    ASSUME WInv, walk.at = "running", Walked!Break \/ walk' = [walk EXCEPT !.at = "stopped"]
    PROVE  /\ walk' = [at |-> walk'.at, step |-> walk'.step, date |-> walk'.date, code |-> walk'.code]
           /\ walk'.date = walk.date /\ walk'.step = walk.step /\ walk'.at \in {"failed", "stopped"}
  BY DEF WInv, WalkForm, Walked!Break

LEMMA DoingStep ==
    ASSUME WInv, NEW what, Walked!Doing(what)
    PROVE  /\ walk.at = "running" /\ walk.step \in 1 .. Steps /\ Does[walk.step] = what
           /\ retained.summary = None
  BY ScriptDoes DEF WInv, WalkForm, WalkKeeps, Walked!Doing, Walked!Current

LEMMA OutcomeDepends ==
    ASSUME walk'.date = walk.date, retained'.measurement = retained.measurement
    PROVE  Walked!OutcomeOf(retained.measurement)' = Walked!OutcomeOf(retained.measurement)
  BY DEF Walked!OutcomeOf

(* A step that retains nothing.                                             *)
LEMMA WalkOnly ==
    ASSUME WInv, walk.at = "running", Walked!Onward \/ Walked!Break \/ walk' = [walk EXCEPT !.at = "stopped"],
           Does[walk.step] \in {"admit", "refuse"} \/ ~Walked!Onward, 
           UNCHANGED <<retained, altered>>
    PROVE  WInv'
<1>1. retained.summary = None
  BY DEF WInv, WalkKeeps
<1>2. /\ walk' = [at |-> walk'.at, step |-> walk'.step, date |-> walk'.date, code |-> walk'.code]
      /\ walk'.date = walk.date /\ walk'.at # "new"
      /\ \/ walk.step = Steps /\ walk'.step = Steps
         \/ walk.step < Steps /\ walk'.step = walk.step + 1 /\ walk'.at = "running"
         \/ walk'.step = walk.step /\ walk'.at \in {"failed", "stopped"}
  BY OnwardMoves, BreakMoves
<1>3. walk.step \in 1 .. Steps
  BY DEF WInv, WalkForm
<1>4. walk.step \notin {21, 26} \/ walk'.step = walk.step
  <2>1. CASE ~Walked!Onward
    BY <2>1, BreakMoves
  <2>2. CASE Does[walk.step] \in {"admit", "refuse"}
    BY <2>2, <1>3 DEF Does, Steps
  <2> QED
    BY <2>1, <2>2
<1>5. Walked!OutcomeOf(retained.measurement)' = Walked!OutcomeOf(retained.measurement)
  BY <1>2, OutcomeDepends
<1>6. WalkForm'
  BY <1>2, <1>3 DEF WInv, WalkForm, Steps
<1>7. WalkKeeps'
  <2>1. walk'.at = "rehearsed" => walk'.step = Steps
    BY <1>2
  <2>2. retained'.summary = None
    BY <1>1
  <2>3. ASSUME walk'.step > 21 PROVE retained'.outcome = Walked!OutcomeOf(retained.measurement)'
    BY <1>2, <1>3, <1>4, <1>5, <2>3 DEF WInv, WalkKeeps, Steps
  <2>4. ASSUME walk'.step > 26 PROVE retained'.seal = retained'.outcome
    BY <1>2, <1>3, <1>4, <2>4 DEF WInv, WalkKeeps, Steps
  <2> QED
    BY <1>2, <2>1, <2>2, <2>3, <2>4 DEF WalkKeeps
<1> QED
  BY <1>6, <1>7 DEF WInv

(* A receipt of one kind is set, the others stay.                           *)
LEMMA RetainSets ==
    ASSUME WInv, NEW kind \in ReceiptKinds, NEW content, Walked!Retain(kind, content)
    PROVE  /\ retained' = [k \in ReceiptKinds |-> retained'[k]]
           /\ retained'[kind] = content
           /\ \A k \in ReceiptKinds \ {kind} : retained'[k] = retained[k]
  BY DEF WInv, WalkForm, Walked!Retain

LEMMA WalkStep == ASSUME WInv, [Walked!Next]_Walked!vars PROVE WInv'
<1> USE DEF ReceiptKinds
<1>1. ASSUME NEW date \in {"month_start", "report_date"}, Walked!Start(date) PROVE WInv'
  <2>1. walk.at = "new" /\ walk.step = 1 /\ retained.summary = None /\ retained' = retained /\ altered' = altered
    BY <1>1 DEF Walked!Start, WInv, WalkKeeps
  <2>2. walk' = [walk EXCEPT !.at = "running", !.date = date, !.code = version]
    BY <1>1 DEF Walked!Start
  <2>3. /\ walk' = [at |-> walk'.at, step |-> walk'.step, date |-> walk'.date, code |-> walk'.code]
        /\ walk'.step = 1 /\ walk'.at = "running"
    BY <2>1, <2>2 DEF WInv, WalkForm
  <2>4. WalkForm'
    BY <2>1, <2>3 DEF WInv, WalkForm, Steps
  <2> QED
    BY <2>1, <2>3, <2>4 DEF WInv, WalkKeeps, Steps
<1>2. ASSUME Walked!AdmitNext PROVE WInv'
  <2>1. Walked!Doing("admit") /\ (Walked!Onward \/ Walked!Break) /\ UNCHANGED <<retained, altered>>
    BY <1>2 DEF Walked!AdmitNext
  <2> QED
    BY <2>1, DoingStep, WalkOnly
<1>3. ASSUME Walked!RefuseNext PROVE WInv'
  <2>1. Walked!Doing("refuse") /\ (Walked!Onward \/ Walked!Break) /\ UNCHANGED <<retained, altered>>
    BY <1>3 DEF Walked!RefuseNext
  <2> QED
    BY <2>1, DoingStep, WalkOnly
<1>4. ASSUME NEW agree \in BOOLEAN, Walked!EvaluateCases(agree) PROVE WInv'
  <2>1. /\ walk.at = "running" /\ walk.step = 9 /\ retained.summary = None
    <3>1. Walked!Doing("evaluate")
      BY <1>4 DEF Walked!EvaluateCases
    <3>2. /\ walk.at = "running" /\ walk.step \in 1 .. Steps /\ Does[walk.step] = "evaluate"
          /\ retained.summary = None
      BY <3>1, DoingStep
    <3> QED
      BY <3>2, DoesAt
  <2>2. /\ retained' = [k \in ReceiptKinds |-> retained'[k]]
        /\ retained'.summary = retained.summary
    BY <1>4, RetainSets DEF Walked!EvaluateCases
  <2>3. (Walked!Onward \/ Walked!Break) /\ altered' = altered
    BY <1>4 DEF Walked!EvaluateCases
  <2>4. /\ walk' = [at |-> walk'.at, step |-> walk'.step, date |-> walk'.date, code |-> walk'.code]
        /\ walk'.step \in {9, 10} /\ walk'.at \in {"running", "failed", "stopped"}
    BY <2>1, <2>3, OnwardMoves, BreakMoves DEF Steps
  <2>5. WalkForm'
    BY <2>2, <2>3, <2>4 DEF WInv, WalkForm, Steps
  <2> QED
    BY <2>1, <2>2, <2>4, <2>5 DEF WInv, WalkKeeps, Steps
<1>5. ASSUME NEW agree \in BOOLEAN, Walked!Measure(agree) PROVE WInv'
  <2>1. /\ walk.at = "running" /\ walk.step = 20 /\ retained.summary = None
    <3>1. Walked!Doing("measure")
      BY <1>5 DEF Walked!Measure
    <3>2. /\ walk.at = "running" /\ walk.step \in 1 .. Steps /\ Does[walk.step] = "measure"
          /\ retained.summary = None
      BY <3>1, DoingStep
    <3> QED
      BY <3>2, DoesAt
  <2>2. /\ retained' = [k \in ReceiptKinds |-> retained'[k]]
        /\ retained'.summary = retained.summary
    BY <1>5, RetainSets DEF Walked!Measure
  <2>3. Walked!Onward /\ altered' = altered
    BY <1>5 DEF Walked!Measure
  <2>4. /\ walk' = [at |-> walk'.at, step |-> walk'.step, date |-> walk'.date, code |-> walk'.code]
        /\ walk'.step = 21 /\ walk'.at = "running"
    BY <2>1, <2>3, OnwardMoves DEF Steps
  <2>5. WalkForm'
    BY <2>2, <2>3, <2>4 DEF WInv, WalkForm, Steps
  <2> QED
    BY <2>1, <2>2, <2>4, <2>5 DEF WInv, WalkKeeps, Steps
<1>6. ASSUME Walked!Conclude PROVE WInv'
  <2>1. /\ walk.at = "running" /\ walk.step = 21 /\ retained.summary = None
    <3>1. Walked!Doing("conclude")
      BY <1>6 DEF Walked!Conclude
    <3>2. /\ walk.at = "running" /\ walk.step \in 1 .. Steps /\ Does[walk.step] = "conclude"
          /\ retained.summary = None
      BY <3>1, DoingStep
    <3> QED
      BY <3>2, DoesAt
  <2>2. /\ retained' = [k \in ReceiptKinds |-> retained'[k]]
        /\ retained'.summary = retained.summary /\ retained'.measurement = retained.measurement
        /\ retained'.outcome = Walked!OutcomeOf(retained.measurement)
    BY <1>6, RetainSets DEF Walked!Conclude
  <2>3. Walked!Onward /\ altered' = altered
    BY <1>6 DEF Walked!Conclude
  <2>4. /\ walk' = [at |-> walk'.at, step |-> walk'.step, date |-> walk'.date, code |-> walk'.code]
        /\ walk'.step = 22 /\ walk'.at = "running" /\ walk'.date = walk.date
    BY <2>1, <2>3, OnwardMoves DEF Steps
  <2>5. WalkForm'
    BY <2>2, <2>3, <2>4 DEF WInv, WalkForm, Steps
  <2>6. retained'.outcome = Walked!OutcomeOf(retained.measurement)'
    BY <2>2, <2>4, OutcomeDepends
  <2> QED
    BY <2>1, <2>2, <2>4, <2>5, <2>6 DEF WInv, WalkKeeps, Steps
<1>7. ASSUME Walked!Seal PROVE WInv'
  <2>1. /\ walk.at = "running" /\ walk.step = 26 /\ retained.summary = None
    <3>1. Walked!Doing("seal")
      BY <1>7 DEF Walked!Seal
    <3>2. /\ walk.at = "running" /\ walk.step \in 1 .. Steps /\ Does[walk.step] = "seal"
          /\ retained.summary = None
      BY <3>1, DoingStep
    <3> QED
      BY <3>2, DoesAt
  <2>2. CASE Walked!Break /\ UNCHANGED retained
    <3>1. walk' = [at |-> walk'.at, step |-> walk'.step, date |-> walk'.date, code |-> walk'.code]
          /\ walk'.date = walk.date /\ walk'.step = 26 /\ walk'.at \in {"failed", "stopped"}
      BY <2>1, <2>2, BreakMoves
    <3>2. Walked!OutcomeOf(retained.measurement)' = Walked!OutcomeOf(retained.measurement)
      BY <2>2, <3>1, OutcomeDepends
    <3>3. altered' = altered
      BY <1>7 DEF Walked!Seal
    <3>4. WalkForm'
      BY <2>2, <3>1, <3>3 DEF WInv, WalkForm, Steps
    <3> QED
      BY <2>1, <2>2, <3>1, <3>2, <3>4 DEF WInv, WalkKeeps, Steps
  <2>3. CASE Walked!Onward /\ Walked!Retain("seal", retained.outcome)
    <3>1. /\ retained' = [k \in ReceiptKinds |-> retained'[k]]
          /\ retained'.summary = retained.summary /\ retained'.measurement = retained.measurement
          /\ retained'.outcome = retained.outcome /\ retained'.seal = retained.outcome
      BY <2>3, RetainSets
    <3>2. /\ walk' = [at |-> walk'.at, step |-> walk'.step, date |-> walk'.date, code |-> walk'.code]
          /\ walk'.step = 27 /\ walk'.at = "running" /\ walk'.date = walk.date
      BY <2>1, <2>3, OnwardMoves DEF Steps
    <3>3. Walked!OutcomeOf(retained.measurement)' = Walked!OutcomeOf(retained.measurement)
      BY <3>1, <3>2, OutcomeDepends
    <3>4. altered' = altered
      BY <1>7 DEF Walked!Seal
    <3>5. WalkForm'
      BY <3>1, <3>2, <3>4 DEF WInv, WalkForm, Steps
    <3> QED
      BY <2>1, <3>1, <3>2, <3>3, <3>5 DEF WInv, WalkKeeps, Steps
  <2> QED
    BY <1>7, <2>2, <2>3 DEF Walked!Seal
<1>8. ASSUME Walked!Summarize PROVE WInv'
  <2>1. /\ walk.at = "running" /\ walk.step = 27
    <3>1. Walked!Doing("summarize")
      BY <1>8 DEF Walked!Summarize
    <3>2. /\ walk.at = "running" /\ walk.step \in 1 .. Steps /\ Does[walk.step] = "summarize"
          /\ retained.summary = None
      BY <3>1, DoingStep
    <3> QED
      BY <3>2, DoesAt
  <2>2. /\ retained' = [k \in ReceiptKinds |-> retained'[k]]
        /\ retained'.measurement = retained.measurement
        /\ retained'.outcome = retained.outcome /\ retained'.seal = retained.seal
    BY <1>8, RetainSets DEF Walked!Summarize
  <2>3. Walked!Onward /\ altered' = altered
    BY <1>8 DEF Walked!Summarize
  <2>4. /\ walk' = [at |-> walk'.at, step |-> walk'.step, date |-> walk'.date, code |-> walk'.code]
        /\ walk'.step = 27 /\ walk'.at = "rehearsed" /\ walk'.date = walk.date
    BY <2>1, <2>3, OnwardMoves DEF Steps
  <2>5. Walked!OutcomeOf(retained.measurement)' = Walked!OutcomeOf(retained.measurement)
    BY <2>2, <2>4, OutcomeDepends
  <2>6. WalkForm'
    BY <2>2, <2>3, <2>4 DEF WInv, WalkForm, Steps
  <2> QED
    BY <2>1, <2>2, <2>4, <2>5, <2>6 DEF WInv, WalkKeeps, Steps
<1>9. ASSUME Walked!Stop PROVE WInv'
  <2>1. walk.at = "running" /\ walk' = [walk EXCEPT !.at = "stopped"] /\ UNCHANGED <<retained, altered>>
    BY <1>9 DEF Walked!Stop
  <2>2. ~Walked!Onward
    BY <2>1, BreakMoves, OnwardMoves
  <2> QED
    BY <2>1, <2>2, WalkOnly
<1>10. ASSUME UNCHANGED <<walk, retained>>, altered' \subseteq Walked!Parts PROVE WInv'
  <2>1. Walked!OutcomeOf(retained.measurement)' = Walked!OutcomeOf(retained.measurement)
    BY <1>10, OutcomeDepends
  <2>2. WalkForm'
    BY <1>10 DEF WInv, WalkForm
  <2>3. WalkKeeps'
    BY <1>10, <2>1 DEF WInv, WalkKeeps
  <2> QED
    BY <2>2, <2>3 DEF WInv
<1>11. altered \subseteq Walked!Parts
  BY DEF WInv, WalkForm
<1>12. ASSUME Walked!Edit PROVE WInv'
  BY <1>10, <1>11, <1>12 DEF Walked!Edit
<1>13. ASSUME NEW part \in Walked!Parts, Walked!Alter(part) PROVE WInv'
  BY <1>10, <1>11, <1>13 DEF Walked!Alter
<1>14. ASSUME UNCHANGED Walked!vars PROVE WInv'
  BY <1>10, <1>11, <1>14 DEF Walked!vars
<1> QED
  BY <1>1, <1>2, <1>3, <1>4, <1>5, <1>6, <1>7, <1>8, <1>9, <1>12, <1>13, <1>14 DEF Walked!Next

LEMMA OutcomesAreNamed == ASSUME NEW m PROVE Walked!OutcomeOf(m) \in Walked!Conclusions
<1>1. CASE ~m.agree
  BY <1>1 DEF Walked!OutcomeOf, Walked!Conclusions
<1>2. CASE m.agree /\ walk.date = "month_start"
  BY <1>2 DEF Walked!OutcomeOf, Walked!Conclusions
<1>3. CASE m.agree /\ walk.date # "month_start"
  BY <1>3 DEF Walked!OutcomeOf, Walked!Conclusions
<1> QED
  BY <1>1, <1>2, <1>3

LEMMA WalkSuffices == ASSUME WInv PROVE ReplayTellsTheTruth
<1> SUFFICES ASSUME Walked!Replays
             PROVE  /\ retained.seal # None /\ retained.outcome = Walked!OutcomeOf(retained.measurement)
                    /\ retained.evaluation.code = retained.measurement.code /\ retained.measurement.code = version
                    /\ altered \cap Walked!Evidence = {}
                    /\ "another_row" \in altered => "watermark" \in altered
  BY DEF ReplayTellsTheTruth, Walked!ReplayTellsTheTruth
<1>1. /\ retained.summary # None /\ retained.outcome = retained.seal
      /\ retained.evaluation.code = version /\ retained.measurement.code = version
  BY DEF Walked!Replays, Walked!Sealed, Walked!RebuildsState, Walked!Reproduces
<1>2. walk.step = 27
  BY <1>1 DEF WInv, WalkKeeps, Steps
<1>3. retained.outcome = Walked!OutcomeOf(retained.measurement)
  BY <1>2 DEF WInv, WalkKeeps
<1>4. retained.outcome # None
  BY <1>3, OutcomesAreNamed, NoConclusionAssumption DEF Walked!NoneIsNoConclusion
<1>5. /\ "evaluation" \notin altered /\ "measurement" \notin altered /\ "outcome" \notin altered
      /\ "report" \notin altered /\ "a_reported_row" \notin altered /\ "a_learning_row" \notin altered
      /\ "another_row" \in altered => "watermark" \in altered
      /\ altered \cap (Walked!Copies \cup {"seal", "receipts_used", "receipt_named"}) = {}
  BY DEF Walked!Replays, Walked!Sealed, Walked!Reproduces, Walked!Separate
<1>6. altered \cap Walked!Evidence = {}
  BY <1>5 DEF Walked!Evidence, Walked!Copies, Walked!Runs
<1> QED
  BY <1>1, <1>3, <1>4, <1>5, <1>6

(* Whenever a walkthrough stops, however its code is edited and whatever is *)
(* changed in its directory afterwards, a replay that verifies is of a run  *)
(* that reached its seal: the outcome is the one measured, by the code of   *)
(* the day, and nothing that a seal lists, replay looks up or the report    *)
(* shows has been changed; what else can be changed unseen is in Parts      *)
(* (src/tl/evolution/walkthrough.py, run and replay).                       *)
THEOREM VerifiedReplayIsTrue == Walked!Spec => []ReplayTellsTheTruth
<1>1. Walked!Init => WInv
  BY WalkInit
<1>2. WInv /\ [Walked!Next]_Walked!vars => WInv'
  BY WalkStep
<1>3. WInv => ReplayTellsTheTruth
  BY WalkSuffices
<1> QED
  BY <1>1, <1>2, <1>3, PTL DEF Walked!Spec
=============================================================================
