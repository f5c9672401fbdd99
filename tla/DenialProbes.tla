---------------------------- MODULE DenialProbes ----------------------------
(***************************************************************************)
(* Denial probes against a pinned, disposable source, and the evidence that *)
(* is sealed about them.  Every role tries every forbidden action under its *)
(* own credential; the whole source is read before and after each attempt,  *)
(* and the run stops for good at the first source that differs or that      *)
(* cannot be read, and at the first action that is let through.  What was   *)
(* seen, a failure and an interruption included, goes into a new directory  *)
(* with a manifest, then as a receipt to an append-only ledger, and only    *)
(* then as a receipt into the directory.  Beside the run a role may hold    *)
(* more than it should, answers are lost after they took effect, others     *)
(* change the source, the code is edited and files of the directory are     *)
(* altered.  The process may die: it then takes no further step, and what   *)
(* is stated holds of what it leaves behind; no other call takes it up.     *)
(***************************************************************************)
EXTENDS Integers, FiniteSets, SequencesExt

CONSTANTS
    None, Altered,
    Roles,          \* the roles, in the order they are probed
    Actions,        \* the forbidden actions, in the order they are tried
    Ceilings        \* how many queries the run may be allowed to pay for

(* Roles and actions are named once, copy_overwrite among them.             *)
NamedOnce ==
    /\ Roles \in Seq(ToSet(Roles)) /\ IsInjective(Roles)
    /\ Actions \in Seq(ToSet(Actions)) /\ IsInjective(Actions)
    /\ "copy_overwrite" \in ToSet(Actions)

VARIABLES
    source,         \* the bound table: its incarnation, its rows, its description
    code,           \* the version of the code in the working tree
    run,            \* the process that probes and seals
    effects,        \* how many attempts took effect (history)
    allowed,        \* an attempt was permitted (history)
    files,          \* the evidence directory
    ledger,         \* the receipts of the append ledger
    tampered        \* a file of the directory was altered

vars == <<source, code, run, effects, allowed, files, ledger, tampered>>

SqlActions == ToSet(Actions) \cap {"update", "delete", "merge", "truncate", "query_overwrite"}
EffectOn(action) == CASE action = "metadata_update" -> "description"
                      [] action = "table_delete" -> "incarnation"
                      [] OTHER -> "rows"

Pinned == 0
Evidence == {"progress", "after", "proof", "result", "execution", "stray"}
Names == Evidence \cup {"manifest", "receipt"}

Matrix == [i \in 1 .. Len(Roles) * Len(Actions) |->
             [role |-> Roles[((i - 1) \div Len(Actions)) + 1],
              action |-> Actions[((i - 1) % Len(Actions)) + 1]]]

TypeOK ==
    /\ source \in [{"incarnation", "rows", "description"} -> 0 .. 1]
    /\ code \in 1 .. 2
    /\ run.at \in {"new", "pinning", "probing", "attempting", "attempted", "returned",
                   "writing", "sealing", "manifested", "ledgered", "over"}
    /\ Len(run.cases) <= Len(Matrix)
    /\ effects \in 0 .. Len(Matrix) /\ allowed \in BOOLEAN
    /\ DOMAIN files = Names
    /\ Cardinality(ledger) <= 1 /\ tampered \in BOOLEAN

Init ==
    /\ source = [f \in {"incarnation", "rows", "description"} |-> Pinned]
    /\ code = 1
    /\ run = [at |-> "new", frozen |-> None, bound |-> {}, copy |-> FALSE,
              reserved |-> 0, asked |-> 0, description |-> Pinned, stopped |-> FALSE,
              answer |-> None, cases |-> <<>>, events |-> <<>>, result |-> None,
              evidence |-> None]
    /\ effects = 0 /\ allowed = FALSE
    /\ files = [n \in Names |-> None]
    /\ ledger = {} /\ tampered = FALSE

(***************************************************************************)
(* Beginning: a new directory, the code it runs, and the first snapshot.    *)
(***************************************************************************)
Begin ==
    /\ run.at = "new"
    /\ run' = [run EXCEPT !.at = "pinning", !.frozen = code]
    /\ files' = [files EXCEPT !["progress"] = <<>>]
    /\ UNCHANGED <<source, code, effects, allowed, ledger, tampered>>

SameTable == source.incarnation = Pinned /\ source.description = run.description

(* Mutation: the rows are not hashed. *)
SameButForRows == SameTable
IsPinned == SameTable /\ source.rows = Pinned
AskedBySnapshot == IF SameTable THEN 1 ELSE 0

Reserved(bound, copy) ==
    LET tried == Len(Actions) - (IF copy THEN 0 ELSE 1)
    IN  1 + Cardinality(bound) * (2 * tried + Cardinality(SqlActions))

Partial(r) == [status |-> "failed", cases |-> r.events, partial |-> TRUE]

Pin(bound, copy, ceiling) ==
    /\ run.at = "pinning"
    /\ bound # {}
    /\ Reserved(bound, copy) <= ceiling
    /\ source.incarnation = Pinned /\ source.rows = Pinned
    /\ run' = [run EXCEPT !.at = "probing", !.bound = bound, !.copy = copy,
                          !.reserved = Reserved(bound, copy), !.asked = 1, !.description = source.description]
    /\ UNCHANGED <<source, code, effects, allowed, files, ledger, tampered>>

(* Whatever is raised, a refused precondition or a signal, ends in evidence. *)
Interrupt ==
    /\ run.at \in {"pinning", "attempting", "attempted"}
    /\ run' = [run EXCEPT !.at = "returned", !.result = Partial(run)]
    /\ UNCHANGED <<source, code, effects, allowed, files, ledger, tampered>>

(***************************************************************************)
(* One case of the matrix.                                                  *)
(***************************************************************************)
Current == Matrix[Len(run.cases) + 1]
Cased(status, unchanged) ==
    [role |-> Current.role, action |-> Current.action, status |-> status, unchanged |-> unchanged]

HasCase == run.at = "probing" /\ Len(run.cases) < Len(Matrix)
CannotRun ==
    \/ run.stopped
    \/ Current.role \notin run.bound
    \/ Current.action = "copy_overwrite" /\ ~run.copy

Skip ==
    /\ HasCase /\ CannotRun
    /\ run' = [run EXCEPT !.cases = Append(@, Cased("not_run", FALSE))]
    /\ UNCHANGED <<source, code, effects, allowed, files, ledger, tampered>>

LookBefore ==
    /\ HasCase /\ ~CannotRun
    /\ IsPinned
    /\ run' = [run EXCEPT !.at = "attempting", !.asked = @ + 1]
    /\ UNCHANGED <<source, code, effects, allowed, files, ledger, tampered>>

(* The source differs, or it cannot be read. *)
MissBefore ==
    /\ HasCase /\ ~CannotRun
    /\ run' = [run EXCEPT !.cases = Append(@, Cased("source_changed_or_unreadable", FALSE)),
                          !.stopped = TRUE, !.asked = @ + AskedBySnapshot]
    /\ UNCHANGED <<source, code, effects, allowed, files, ledger, tampered>>

Said(number, words) == [code |-> number, says |-> words]
Lost == Said(503, {})
Unscoped == Said(403, {"scope", "permission"})
OverQuota == Said(403, {"quota", "permission"})
Keyless == Said(400, {"primary key"})

(* Mutation: any 403 is taken for a denial. *)
AnyForbidden(action, answer) ==
    IF answer = None THEN "unexpected_success"
    ELSE IF action = "cdc_delete" /\ answer.code = 400 THEN "structural_rejection"
    ELSE IF answer.code = 403 THEN "iam_denied" ELSE "error"

(* A forbidden transport or quota error is not a denial. *)
StatusOf(action, answer) ==
    IF answer = None THEN "unexpected_success"
    ELSE CASE action = "cdc_delete" /\ answer.code = 400 /\ "primary key" \in answer.says
                -> "structural_rejection"
           [] answer.code = 403 /\ "scope" \in answer.says -> "oauth_scope_denied"
           [] answer.code = 403 /\ answer.says \cap {"permission", "scope", "quota"} = {"permission"}
                -> "iam_denied"
           [] OTHER -> "error"

Answered(answer) ==
    run' = [run EXCEPT !.at = "attempted",
                       !.asked = @ + (IF Current.action \in SqlActions THEN 1 ELSE 0),
                       !.answer = StatusOf(Current.action, answer)]

Refuse ==
    /\ run.at = "attempting"
    /\ Answered(Said(403, {"permission"}))
    /\ UNCHANGED <<source, code, effects, allowed, files, ledger, tampered>>

(* The role holds the permission; the answer may be lost. *)
LetThrough(answer) ==
    /\ run.at = "attempting"
    /\ answer \in {None, Lost}
    /\ source' = [source EXCEPT ![EffectOn(Current.action)] = 1]
    /\ effects' = effects + 1 /\ allowed' = TRUE
    /\ Answered(answer)
    /\ UNCHANGED <<code, files, ledger, tampered>>

(* It holds the permission, and something else stood in the way. *)
TurnAway(answer) ==
    /\ run.at = "attempting"
    /\ answer \in {Unscoped, OverQuota, Lost}
    /\ allowed' = TRUE
    /\ Answered(answer)
    /\ UNCHANGED <<source, code, effects, files, ledger, tampered>>

(* The table has no primary key, so nobody's change records are taken. *)
RejectDeletes ==
    /\ run.at = "attempting" /\ Current.action = "cdc_delete"
    /\ Answered(Keyless)
    /\ UNCHANGED <<source, code, effects, allowed, files, ledger, tampered>>

Observed(unchanged) ==
    LET case == Cased(run.answer, unchanged)
    IN  /\ run' = [run EXCEPT !.at = "probing", !.cases = Append(@, case),
                              !.events = Append(@, case), !.answer = None,
                              !.stopped = @ \/ ~unchanged \/ run.answer = "unexpected_success",
                              !.asked = @ + (IF unchanged THEN 1 ELSE AskedBySnapshot)]
        /\ files' = [files EXCEPT !["progress"] = run'.events]
        /\ UNCHANGED <<source, code, effects, allowed, ledger, tampered>>

LookAfter == run.at = "attempted" /\ IsPinned /\ Observed(TRUE)
MissAfter == run.at = "attempted" /\ Observed(FALSE)

AllRefused(cases) ==
    /\ Len(cases) = Len(Matrix)
    /\ \A i \in DOMAIN cases :
          cases[i].status \in {"iam_denied", "structural_rejection"} /\ cases[i].unchanged

Status == CASE run.stopped -> "failed"
            [] ~run.stopped /\ AllRefused(run.cases) -> "refusals_observed"
            [] OTHER -> "incomplete"

Return ==
    /\ run.at = "probing" /\ Len(run.cases) = Len(Matrix)
    /\ run' = [run EXCEPT !.at = "returned",
                          !.result = [status |-> Status, cases |-> run.cases, partial |-> FALSE]]
    /\ UNCHANGED <<source, code, effects, allowed, files, ledger, tampered>>

(***************************************************************************)
(* Sealing.  Code that was edited during the run fails it; a file that      *)
(* cannot be written ends the call, and nothing is redone.                  *)
(***************************************************************************)
CheckCode ==
    /\ run.at = "returned"
    /\ LET edited == code # run.frozen
           result == IF edited THEN [run.result EXCEPT !.status = "failed"] ELSE run.result
       IN  /\ run' = [run EXCEPT !.at = "writing", !.result = result]
           /\ files' = [files EXCEPT !["after"] = IF edited THEN code ELSE None]
    /\ UNCHANGED <<source, code, effects, allowed, ledger, tampered>>

(* A file that was to be retained is copied, or is missing and noted so. *)
WriteFiles(artifact) ==
    /\ run.at = "writing"
    /\ files' = [files EXCEPT !["proof"] = artifact, !["result"] = run.result,
                              !["execution"] = run.frozen]
    /\ run' = [run EXCEPT !.at = "sealing"]
    /\ UNCHANGED <<source, code, effects, allowed, ledger, tampered>>

Inventory == [n \in {m \in Evidence : files[m] # None} |-> files[n]]
EvidenceStatus == IF files["proof"] = "missing" THEN "incomplete" ELSE "sealed"

WriteManifest ==
    /\ run.at = "sealing"
    /\ files' = [files EXCEPT !["manifest"] = [status |-> EvidenceStatus, files |-> Inventory]]
    /\ run' = [run EXCEPT !.at = "manifested", !.evidence = EvidenceStatus]
    /\ UNCHANGED <<source, code, effects, allowed, ledger, tampered>>

(* The manifest counts with its bytes as they are read back: one that was   *)
(* altered since has another digest than the one the process wrote.         *)
Receipt == [manifest |-> files["manifest"], report |-> run.result,
            execution |-> run.frozen, evidence |-> run.evidence]

AppendReceipt ==
    /\ run.at = "manifested"
    /\ ledger' = ledger \cup {Receipt}
    /\ run' = [run EXCEPT !.at = "ledgered"]
    /\ UNCHANGED <<source, code, effects, allowed, files, tampered>>

ExposeReceipt ==
    /\ run.at = "ledgered"
    /\ \E receipt \in ledger : files' = [files EXCEPT !["receipt"] = receipt]
    /\ run' = [run EXCEPT !.at = "over"]
    /\ UNCHANGED <<source, code, effects, allowed, ledger, tampered>>

(***************************************************************************)
(* Verification, which reads the directory and the ledger alone.            *)
(***************************************************************************)
Registered(key) == Inventory = key.manifest.files

Retained(key) == files["result"] = key.report /\ files["execution"] = key.execution

Verifies(key) ==
    /\ files["receipt"] = key /\ key \in ledger
    /\ files["manifest"] = key.manifest
    /\ key.manifest # Altered /\ key.manifest.status = key.evidence
    /\ Registered(key)
    /\ Retained(key)

(***************************************************************************)
(* Everybody else.  What they change is looked at only in some steps, so    *)
(* they change it before one of those.                                      *)
(***************************************************************************)
OthersChange(field) ==
    /\ run.at \in {"pinning", "probing", "attempted"}
    /\ \A f \in DOMAIN source : source[f] = Pinned
    /\ source' = [source EXCEPT ![field] = 1]
    /\ UNCHANGED <<code, run, effects, allowed, files, ledger, tampered>>

Edit ==
    /\ code = 1 /\ run.at = "returned"
    /\ code' = 2
    /\ UNCHANGED <<source, run, effects, allowed, files, ledger, tampered>>

(* One file is altered, removed or added, before the inventory or at the end. *)
Tamper(name, content) ==
    /\ run.at \in {"sealing", "over"}
    /\ ~tampered /\ tampered' = TRUE
    /\ content \in {None, Altered} /\ files[name] # content
    /\ (files[name] = None) => name = "stray"
    /\ files' = [files EXCEPT ![name] = content]
    /\ UNCHANGED <<source, code, run, effects, allowed, ledger>>

Process ==
    \/ Begin \/ \E artifact \in {"present", "missing"} : WriteFiles(artifact)
    \/ \E bound \in SUBSET ToSet(Roles), copy \in BOOLEAN, ceiling \in Ceilings :
          Pin(bound, copy, ceiling)
    \/ Interrupt \/ Skip \/ LookBefore \/ MissBefore \/ LookAfter \/ MissAfter
    \/ Return \/ CheckCode \/ WriteManifest \/ AppendReceipt \/ ExposeReceipt

Service ==
    \/ Refuse \/ RejectDeletes
    \/ \E answer \in {None, Lost} : LetThrough(answer)
    \/ \E answer \in {Unscoped, OverQuota, Lost} : TurnAway(answer)

Others ==
    \/ \E field \in DOMAIN source : OthersChange(field)
    \/ Edit
    \/ \E name \in Names, content \in {None, Altered} : Tamper(name, content)

Next == Process \/ Service \/ Others

Spec == Init /\ [][Next]_vars

(***************************************************************************)
(* Properties.                                                              *)
(***************************************************************************)

(* A receipt that says refusals_observed stands for the whole matrix: every *)
(* role tried every action, none of them was permitted to anybody who only  *)
(* lacked a scope or quota, none took effect, and nothing was left out.     *)
RefusalsAreTrue ==
    \A receipt \in ledger : receipt.report.status = "refusals_observed" =>
        /\ ~allowed
        /\ run.bound = ToSet(Roles) /\ run.copy
        /\ [i \in DOMAIN receipt.report.cases |->
              [role |-> receipt.report.cases[i].role,
               action |-> receipt.report.cases[i].action]] = Matrix

(* The probes do at most one thing they should not be able to do: after the *)
(* first attempt that took effect, told or not, none is sent.  A table that *)
(* carries the description the probes write (an earlier run left it) cannot *)
(* show that it was written again.                                          *)
OneEffect == run.description = Pinned => effects <= 1

(* What verifies is what the run saw and the code it ran: whatever became   *)
(* of the directory, before its manifest or after, and wherever it stopped. *)
VerifiedIsWhatWasSeen ==
    \A key \in ledger : Verifies(key) =>
        /\ files["result"] = run.result /\ files["execution"] = run.frozen
        /\ files["after"] # None => files["result"].status = "failed"

(* What is sealed is true: of the matrix it reports, and of what was seen.  *)
SealedIsTrue == RefusalsAreTrue /\ VerifiedIsWhatWasSeen

(* The queries a run pays for never exceed what it reserved before the      *)
(* first of them.                                                           *)
ReservedIsEnough == run.asked <= run.reserved

(* A run cannot do more than it was admitted to: one effect at most, and no *)
(* more bytes than it reserved.                                             *)
ProbesAreBounded == OneEffect /\ ReservedIsEnough
=============================================================================
