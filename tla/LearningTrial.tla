---------------------------- MODULE LearningTrial ----------------------------
(***************************************************************************)
(* One signed trial of the usage diagnostic, src/tl/learning/runner.py:     *)
(* authorize observes the signed plan, run measures one packet under it,    *)
(* revoke stops it.  What they agree on is the trial's directory, whose     *)
(* files are created once (mode "x"), its lock, and the receipt ledger of   *)
(* the application; meanwhile packets are collected and imported, the       *)
(* reviewed code is changed and put back, and the plan expires.             *)
(*                                                                          *)
(* A packet is a row of the stream if it brought observations that were     *)
(* new; stream positions count packets.  The lock is not waited for: a call *)
(* that finds it held raises.                                               *)
(***************************************************************************)
EXTENDS Integers, Sequences, FiniteSets

CONSTANTS
    Callers,                \* processes that call authorize, run or revoke
    Packets,                \* usage packets
    None

Statuses == {"retained", "rolled_back", "inconclusive"}

Inputs == [packet : Packets, report : Nat]
Authorizations == [at : Nat, watermark : Nat]
TrialReceipts == [packet : Packets, status : Statuses, run : Nat]

ASSUME NoneAssumption == None \notin Inputs /\ None \notin Authorizations /\ None \notin TrialReceipts

VARIABLES
    clock,                  \* counts collections, to compare times
    collected,              \* [Packets -> Nat]: when a packet was collected; 0 if it was not
    imported,               \* packets retained by import
    stream,                 \* the packets whose rows the stream has
    reviewed,               \* the code and the runtime are those of the plan
    expired,                \* the plan's expires_at is over
    authorization,          \* authorization.json: [at, watermark], or None
    pointer,                \* authorization-receipt.json exists
    request,                \* request.json: [packet, report], or None
    failure,                \* failure.json exists
    completion,             \* completion.json: the trial receipt, or None
    revoked,                \* revoked.json exists
    authorities,            \* authorization receipts in the ledger
    trials,                 \* trial receipts in the ledger
    caller                  \* the calls

directory == <<authorization, pointer, request, failure, completion, revoked>>
ledger == <<authorities, trials>>
world == <<clock, collected, imported, stream, reviewed, expired>>
vars == <<world, directory, ledger, caller>>

Resting == [pc |-> "idle", input |-> None, authorization |-> None, trial |-> None]

Init ==
    /\ clock = 0
    /\ collected = [p \in Packets |-> 0]
    /\ imported = {}
    /\ stream = <<>>
    /\ reviewed = TRUE
    /\ expired = FALSE
    /\ authorization = None
    /\ pointer = FALSE
    /\ request = None
    /\ failure = FALSE
    /\ completion = None
    /\ revoked = FALSE
    /\ authorities = {}
    /\ trials = {}
    /\ caller = [c \in Callers |-> Resting]

-----------------------------------------------------------------------------
(* Around the trial. *)
Collect(p) ==
    /\ collected[p] = 0
    /\ clock' = clock + 1
    /\ collected' = [collected EXCEPT ![p] = clock + 1]
    /\ UNCHANGED <<imported, stream, reviewed, expired, directory, ledger, caller>>

(* A packet with no observation that is new adds no row. *)
Import(p) ==
    /\ collected[p] # 0 /\ p \notin imported
    /\ imported' = imported \cup {p}
    /\ stream' \in {stream, Append(stream, p)}
    /\ UNCHANGED <<clock, collected, reviewed, expired, directory, ledger, caller>>

Edit ==
    /\ reviewed' = ~ reviewed
    /\ UNCHANGED <<clock, collected, imported, stream, expired, directory, ledger, caller>>

Expire ==
    /\ expired' = TRUE
    /\ UNCHANGED <<clock, collected, imported, stream, reviewed, directory, ledger, caller>>

-----------------------------------------------------------------------------
(* ledger_lock(root / 'execution') is held from authorize's and run's       *)
(* critical sections up to their end.                                       *)
Outside == {"idle", "authorize", "run"}
LockIsFree == \A c \in Callers : caller[c].pc \in Outside

(* _plan, live. *)
PlanIsLive == reviewed /\ ~ revoked /\ ~ expired

(* _authorization *)
AuthorizationIsObserved == pointer /\ authorization \in authorities

Set(c, record) == caller' = [caller EXCEPT ![c] = record]
Goto(c, pc) == Set(c, [caller[c] EXCEPT !.pc = pc])
End(c) == Set(c, Resting)

AuthorizeChecks(c) ==
    /\ caller[c].pc = "idle"
    /\ PlanIsLive
    /\ Goto(c, "authorize")
    /\ UNCHANGED <<world, directory, ledger>>

(* The call is refused, or finds what it would do already done. *)
AuthorizeEnds(c) ==
    /\ caller[c].pc = "authorize"
    /\ ~ LockIsFree \/ pointer \/ authorization # None \/ ~ reviewed
    /\ End(c)
    /\ UNCHANGED <<world, directory, ledger>>

(* now and the baseline, which is what the stream has recorded by now. *)
Authorize(c) ==
    /\ caller[c].pc = "authorize"
    /\ LockIsFree /\ ~ pointer /\ authorization = None /\ reviewed
    /\ Set(c, [caller[c] EXCEPT !.pc = "write_authorization",
                                !.authorization = [at |-> clock, watermark |-> Len(stream)]])
    /\ UNCHANGED <<world, directory, ledger>>

WriteAuthorization(c) ==
    /\ caller[c].pc = "write_authorization"
    /\ authorization' = caller[c].authorization
    /\ Goto(c, "append_authorization")
    /\ UNCHANGED <<world, pointer, request, failure, completion, revoked, ledger>>

AppendAuthorization(c) ==
    /\ caller[c].pc = "append_authorization"
    /\ authorities' = authorities \cup {authorization}
    /\ Goto(c, "write_pointer")
    /\ UNCHANGED <<world, directory, trials>>

WritePointer(c) ==
    /\ caller[c].pc = "write_pointer"
    /\ pointer' = TRUE
    /\ End(c)
    /\ UNCHANGED <<world, authorization, request, failure, completion, revoked, ledger>>

-----------------------------------------------------------------------------
(* A report can be run at any time: there may be one of every watermark.    *)
RunChecks(c) ==
    /\ caller[c].pc = "idle"
    /\ PlanIsLive /\ AuthorizationIsObserved
    /\ \E p \in Packets, w \in 0 .. Len(stream) :
          Set(c, [Resting EXCEPT !.pc = "run", !.input = [packet |-> p, report |-> w]])
    /\ UNCHANGED <<world, directory, ledger>>

(* The lock is held, or the one run was claimed before: with another input, *)
(* by a run that did not end well, or by one whose result is returned.      *)
RunEnds(c) ==
    /\ caller[c].pc = "run"
    /\ ~ LockIsFree \/ request # None
    /\ End(c)
    /\ UNCHANGED <<world, directory, ledger>>

(* Mutation: an interrupted run with the same input is taken up again. *)
ClaimAgain(c) ==
    /\ caller[c].pc = "run"
    /\ LockIsFree /\ (request = None \/ (request = caller[c].input /\ completion = None /\ ~ failure))
    /\ request' = caller[c].input
    /\ Goto(c, "compute")
    /\ UNCHANGED <<world, authorization, pointer, failure, completion, revoked, ledger>>

(* request.json: the authorization is consumed, whatever comes of it. *)
Claim(c) ==
    /\ caller[c].pc = "run"
    /\ LockIsFree /\ request = None
    /\ request' = caller[c].input
    /\ Goto(c, "compute")
    /\ UNCHANGED <<world, authorization, pointer, failure, completion, revoked, ledger>>

Positions(p, w) == {i \in 1 .. w : stream[i] = p}

(* Mutation: any packet collected after the authorization may be used. *)
EligibleIfLater(p, w) == p \in imported /\ collected[p] > authorization.at

(* A packet that was collected after the authorization, and the first that  *)
(* was admitted after the baseline, as far as the report reaches; without   *)
(* such a packet, one that brought nothing new.                             *)
Eligible(p, w) ==
    /\ p \in imported
    /\ collected[p] > authorization.at
    /\ w > authorization.watermark => stream[authorization.watermark + 1] = p
    /\ \A i \in 1 .. Len(stream) : stream[i] = p => i <= w

(* _compute.  Whether the diagnostic finds what it should is open; only new *)
(* observations can retain it.                                              *)
Compute(c) ==
    /\ caller[c].pc = "compute"
    /\ LET p == request.packet
           w == request.report IN
       /\ Eligible(p, w)
       /\ \E status \in {"rolled_back", "inconclusive"} \cup (IF Positions(p, w) # {} THEN {"retained"} ELSE {}) :
             Set(c, [caller[c] EXCEPT !.pc = "recheck",
                                           !.trial = [packet |-> p, status |-> status, run |-> Cardinality(trials)]])
    /\ UNCHANGED <<world, directory, ledger>>

(* A gate of _compute fails. *)
GateFails(c) ==
    /\ caller[c].pc = "compute"
    /\ failure' = TRUE
    /\ End(c)
    /\ UNCHANGED <<world, authorization, pointer, request, completion, revoked, ledger>>

(* Mutation: what held before the lock was taken is taken to hold still. *)
RecheckNothing(c) ==
    /\ caller[c].pc = "recheck"
    /\ Goto(c, "append_trial")
    /\ UNCHANGED <<world, directory, ledger>>

(* _plan once more, after the measurement. *)
Recheck(c) ==
    /\ caller[c].pc = "recheck"
    /\ \/ PlanIsLive /\ Goto(c, "append_trial") /\ UNCHANGED failure
       \/ ~ PlanIsLive /\ End(c) /\ failure' = TRUE
    /\ UNCHANGED <<world, authorization, pointer, request, completion, revoked, ledger>>

AppendTrial(c) ==
    /\ caller[c].pc = "append_trial"
    /\ trials' = trials \cup {caller[c].trial}
    /\ Goto(c, "write_completion")
    /\ UNCHANGED <<world, directory, authorities>>

WriteCompletion(c) ==
    /\ caller[c].pc = "write_completion"
    /\ completion' = caller[c].trial
    /\ End(c)
    /\ UNCHANGED <<world, authorization, pointer, request, failure, revoked, ledger>>

-----------------------------------------------------------------------------
Revoke(c) ==
    /\ caller[c].pc = "idle"
    /\ LockIsFree
    /\ revoked' = TRUE
    /\ UNCHANGED <<world, authorization, pointer, request, failure, completion, ledger, caller>>

(* A process dies, or a write or an append raises: the lock is free again,  *)
(* the files stay.                                                          *)
Die(c) ==
    /\ caller[c].pc # "idle"
    /\ End(c)
    /\ UNCHANGED <<world, directory, ledger>>

Next ==
    \/ \E p \in Packets : Collect(p) \/ Import(p)
    \/ Edit \/ Expire
    \/ \E c \in Callers :
          \/ AuthorizeChecks(c) \/ AuthorizeEnds(c) \/ Authorize(c)
          \/ WriteAuthorization(c) \/ AppendAuthorization(c) \/ WritePointer(c)
          \/ RunChecks(c) \/ RunEnds(c) \/ Claim(c) \/ Compute(c) \/ GateFails(c)
          \/ Recheck(c) \/ AppendTrial(c) \/ WriteCompletion(c)
          \/ Revoke(c) \/ Die(c)

Spec == Init /\ [][Next]_vars

-----------------------------------------------------------------------------
Calls == [
    pc : {"idle", "authorize", "run", "write_authorization", "append_authorization", "write_pointer",
          "compute", "recheck", "append_trial", "write_completion"},
    input : Inputs \cup {None},
    authorization : Authorizations \cup {None},
    trial : TrialReceipts \cup {None}]

(* Types of the files, the ledger and the calls. *)
TypeOK ==
    /\ clock \in Nat
    /\ collected \in [Packets -> Nat]
    /\ imported \subseteq Packets
    /\ stream \in Seq(Packets)
    /\ reviewed \in BOOLEAN
    /\ expired \in BOOLEAN
    /\ authorization \in Authorizations \cup {None}
    /\ pointer \in BOOLEAN
    /\ request \in Inputs \cup {None}
    /\ failure \in BOOLEAN
    /\ completion \in TrialReceipts \cup {None}
    /\ revoked \in BOOLEAN
    /\ authorities \subseteq Authorizations
    /\ trials \subseteq TrialReceipts
    /\ caller \in [Callers -> Calls]

(* A signed plan gives one measurement, of the input that claimed it: runs  *)
(* that race, retry after a crash or come back with another input add no    *)
(* second result, and the saved completion is the one in the ledger.        *)
OneTrial ==
    /\ Cardinality(trials) <= 1
    /\ \A trial \in trials : request # None /\ trial.packet = request.packet
    /\ completion # None => trials = {completion}

(* Once a plan is revoked no result is sealed under it, by a run either     *)
(* that had checked the plan before the revocation.                         *)
NothingAfterRevocation == [][revoked => trials' = trials]_vars

(* The diagnostic is retained only on the first packet that the stream got  *)
(* after an observed authorization: nobody can wait for a better one, or    *)
(* measure a packet that had been seen before.                              *)
RetainedIsTheFirstImport ==
    \A trial \in trials : trial.status = "retained" =>
        /\ authorization \in authorities
        /\ Len(stream) > authorization.watermark
        /\ stream[authorization.watermark + 1] = trial.packet
        /\ collected[trial.packet] > authorization.at
=============================================================================
