-------------------------- MODULE GatewayAcceptance --------------------------
(***************************************************************************)
(* The two experiments that accept a deployed append gateway on a fixture:  *)
(* the probe, which sends eleven registered cases and reads the source      *)
(* after each of them, and the lifecycle run, which closes the stream for   *)
(* good and then sends one request that must be refused.  Neither repeats a *)
(* request, and neither believes an answer that the source does not bear    *)
(* out.  Beside them other producers append, requests are lost and still    *)
(* take effect, the readers fail, the processes die and the code they run   *)
(* is edited; and the deployed service may not be the one that was built.   *)
(***************************************************************************)
EXTENDS Integers, FiniteSets, SequencesExt

CONSTANTS
    None,
    Faults,         \* how the deployed service may differ: "none" and others
    Fixture,        \* the rows the source may hold before anything happens
    MaxOthers,      \* rows that other producers append
    MaxRows         \* rows the fixture may hold

(* What a run asks for carries the identity of the run, so nothing in the   *)
(* fixture is named like it.                                                *)
Names == {"first", "forged", "unknown", "equal", "distinct-1", "distinct-2", "rival", "closed-stream"}
FixtureNames == UNION {{rows[i].id : i \in DOMAIN rows} : rows \in Fixture}
RowsNamed(names) == [id : names, body : {"US", "CA"}, actor : {"producer", "other"}]
FixtureIsOlder ==
    /\ Faults \subseteq {"none", "open", "any_audience", "trusting", "lax", "blind", "repeating", "forgetful"}
    /\ Fixture \subseteq Seq(RowsNamed(FixtureNames))
    /\ FixtureNames \cap Names = {}
    /\ MaxRows \in Nat

Verdicts == {"denied", "rejected", "accepted", "unverified", "lost"}
Statuses == {"failed", "partial", "gateway_cases_observed", "uncertain", "closed_stream_refusal_observed"}
Calls == [as : {"nobody", "forger", "stranger", "producer"}, event : [id : Names, body : {"US", "CA"}],
          served : BOOLEAN, answer : Verdicts \cup {None}]
NoneIsApart == None \notin Verdicts \cup Statuses \cup Calls

VARIABLES
    fault,          \* how the deployed service differs
    source,         \* the rows of the table, in their positions
    open,           \* the pinned write stream takes rows
    calls,          \* requests, by slot: two of the probe and the lifecycle's one
    closing,        \* what became of FinalizeWriteStream
    code,           \* the version of the code in the working tree
    probe, life     \* the two runs

vars == <<fault, source, open, calls, closing, code, probe, life>>

Event(id, body) == [id |-> id, body |-> body]
Row(e) == [id |-> e.id, body |-> e.body, actor |-> "producer"]

Case(asks, alternatives, answers) ==
    [asks |-> asks, alternatives |-> alternatives, answers |-> answers]
Sole(as, e, added, answer) ==
    Case(<<[as |-> as, event |-> e]>>, {added}, {<<answer>>})
Both(d, e, alternatives, answers) ==
    Case([i \in 1 .. 2 |-> [as |-> "producer", event |-> IF i = 1 THEN d ELSE e]],
         alternatives, answers)

(* The registered cases: who asks for what, the rows that may be added and  *)
(* the answers that may come back.                                          *)
Cases ==
    LET first == Event("first", "US")
        rivals == [i \in 1 .. 2 |-> Event("rival", IF i = 1 THEN "US" ELSE "CA")]
        equal == Event("equal", "US")
        distinct == [i \in 1 .. 2 |-> Event(IF i = 1 THEN "distinct-1" ELSE "distinct-2", "US")]
        accepted == <<"accepted", "accepted">>
    IN  << Sole("nobody", first, {}, "denied"),
           Sole("forger", first, {}, "denied"),
           Sole("stranger", first, {}, "denied"),
           Sole("producer", first, {first}, "accepted"),
           Sole("producer", first, {}, "accepted"),
           Sole("producer", Event("first", "CA"), {}, "rejected"),
           Sole("producer", Event("forged", "US"), {}, "rejected"),
           Sole("producer", Event("unknown", "US"), {}, "rejected"),
           Both(equal, equal, {{equal}}, {accepted}),
           Both(distinct[1], distinct[2], {ToSet(distinct)}, {accepted}),
           Both(rivals[1], rivals[2], {{rivals[1]}, {rivals[2]}},
                {<<"accepted", "rejected">>, <<"rejected", "accepted">>}) >>
WrongAudience == 3
NewEvents == 5

NewCall(ask) == [as |-> ask.as, event |-> ask.event, served |-> FALSE, answer |-> None]
ProbeCalls == {i \in 1 .. 2 : calls[i] # None}
Stale == 3

TypeOK ==
    /\ fault \in Faults
    /\ source \in Seq(RowsNamed(Names \cup FixtureNames \cup {"other"}))
    /\ open \in BOOLEAN
    /\ code \in 1 .. 2
    /\ closing \in {"no", "sent", "done", "denied"}
    /\ calls \in [1 .. Stale -> Calls \cup {None}]
    /\ probe.at \in {"new", "looking", "minting", "asking", "waiting", "collected", "over"}
    /\ life.at \in {"new", "pinned", "looking", "ready", "closing", "uncertain",
                    "closed", "asking", "waiting", "collected", "over"}

Init ==
    /\ fault \in Faults
    /\ source \in Fixture
    /\ open = TRUE
    /\ calls = [i \in 1 .. Stale |-> None]
    /\ closing = "no"
    /\ code = 1
    /\ probe = [at |-> "new", case |-> 0, original |-> None, current |-> None,
                missing |-> {}, frozen |-> None, status |-> None]
    /\ life = [at |-> "new", expected |-> None, count |-> None, finalization |-> "not_run",
               frozen |-> None, status |-> None]

-----------------------------------------------------------------------------
(* The deployed service.                                                    *)
Identified(as) ==
    \/ as = "producer"
    \/ fault = "open"
    \/ fault = "any_audience" /\ as = "stranger"
Valid(e) ==
    \/ e.id \notin {"forged", "unknown"}
    \/ fault = "trusting" /\ e.id = "forged"
    \/ fault = "lax" /\ e.id = "unknown"
Held(e) == {i \in DOMAIN source : source[i].id = e.id}
Contradicted(e) == \E i \in Held(e) : source[i].body # e.body

Served(i, answer) ==
    calls' = [calls EXCEPT ![i].served = TRUE, ![i].answer = IF @ = None THEN answer ELSE @]

Deny(i) ==
    /\ ~Identified(calls[i].as)
    /\ Served(i, "denied")
    /\ UNCHANGED source
Reject(i) ==
    /\ Identified(calls[i].as)
    /\ ~Valid(calls[i].event) \/ (Contradicted(calls[i].event) /\ fault # "blind")
    /\ Served(i, "rejected")
    /\ UNCHANGED source
Store(i) ==
    /\ Identified(calls[i].as) /\ Valid(calls[i].event)
    /\ Held(calls[i].event) = {} \/ (fault = "repeating" /\ ~Contradicted(calls[i].event))
    /\ IF open /\ fault # "forgetful"
       THEN source' = Append(source, Row(calls[i].event))
       ELSE UNCHANGED source
    /\ Served(i, IF open THEN "accepted" ELSE "unverified")
Confirm(i) ==
    /\ Identified(calls[i].as) /\ Valid(calls[i].event)
    /\ Held(calls[i].event) # {}
    /\ Contradicted(calls[i].event) => fault = "blind"
    /\ fault = "repeating" => Contradicted(calls[i].event)
    /\ Served(i, "accepted")
    /\ UNCHANGED source
Serve ==
    /\ \E i \in DOMAIN calls :
          /\ calls[i] # None /\ ~calls[i].served
          /\ Deny(i) \/ Reject(i) \/ Store(i) \/ Confirm(i)
    /\ UNCHANGED <<fault, open, closing, code, probe, life>>

(* No answer, or one that admits to know nothing; the request may have been *)
(* served, and may still be.                                                *)
GiveUp ==
    /\ \E i \in DOMAIN calls, answer \in {"lost", "unverified"} :
          /\ calls[i] # None /\ calls[i].answer = None
          /\ answer = "unverified" => Identified(calls[i].as)
          /\ calls' = [calls EXCEPT ![i].answer = answer]
    /\ UNCHANGED <<fault, source, open, closing, code, probe, life>>

OthersAppend ==
    /\ open
    /\ LET others == {i \in DOMAIN source : source[i].actor = "other"}
       IN  /\ Cardinality(others) < MaxOthers
           /\ source' = Append(source, [id |-> "other", body |-> "US", actor |-> "other"])
    /\ UNCHANGED <<fault, open, calls, closing, code, probe, life>>

Edit ==
    /\ code = 1
    /\ code' = 2
    /\ UNCHANGED <<fault, source, open, calls, closing, probe, life>>

-----------------------------------------------------------------------------
(* The probe.                                                               *)
SetProbe(next) ==
    /\ probe' = next
    /\ UNCHANGED <<fault, source, open, closing, code, life>>
FailProbe == SetProbe([probe EXCEPT !.at = "collected", !.status = "failed"]) /\ UNCHANGED calls

IsFixture(rows) ==
    /\ Len(rows) <= MaxRows
    /\ \A i, j \in DOMAIN rows : rows[i].id = rows[j].id => i = j

BeginProbe ==
    /\ probe.at = "new"
    /\ SetProbe([probe EXCEPT !.at = "looking", !.frozen = code])
    /\ UNCHANGED calls

HasRoom == IsFixture(source) /\ Len(source) + NewEvents <= MaxRows
LookFirst ==
    /\ probe.at = "looking" /\ HasRoom
    /\ SetProbe([probe EXCEPT !.at = "asking", !.case = 1, !.original = source, !.current = source])
    /\ UNCHANGED calls

(* Both requests of a concurrent case leave together.                       *)
Ask ==
    /\ probe.at = "asking"
    /\ calls' = [i \in 1 .. Stale |->
                    IF i = Stale THEN calls[i]
                    ELSE IF i \in DOMAIN Cases[probe.case].asks
                         THEN NewCall(Cases[probe.case].asks[i]) ELSE None]
    /\ SetProbe([probe EXCEPT !.at = "waiting"])

Added(rows) == SubSeq(rows, Len(probe.current) + 1, Len(rows))
AddsAlternative(rows, alternatives) ==
    /\ IsPrefix(probe.current, rows)
    /\ \E added \in alternatives :
          /\ Len(Added(rows)) = Cardinality(added)
          /\ ToSet(Added(rows)) = {Row(e) : e \in added}
Answered == ProbeCalls # {} /\ \A i \in ProbeCalls : calls[i].answer # None
Answers == [i \in ProbeCalls |-> calls[i].answer]

Expected ==
    /\ IsFixture(source)
    /\ AddsAlternative(source, Cases[probe.case].alternatives)
    /\ Answers \in Cases[probe.case].answers
Following ==
    IF probe.case = Len(Cases) THEN "collected"
    ELSE IF probe.case + 1 = WrongAudience THEN "minting" ELSE "asking"
JudgeCase ==
    /\ probe.at = "waiting" /\ Answered /\ Expected
    /\ SetProbe([probe EXCEPT !.at = Following, !.case = probe.case + 1, !.current = source])
    /\ calls' = [calls EXCEPT ![1] = None, ![2] = None]

(* The token for the case is minted, or is not and the case is left out.    *)
Mint ==
    /\ probe.at = "minting"
    /\ \/ SetProbe([probe EXCEPT !.at = "asking"])
       \/ SetProbe([probe EXCEPT !.at = "asking", !.case = WrongAudience + 1, !.missing = {WrongAudience}])
    /\ UNCHANGED calls

Unexpected ==
    \/ probe.at = "looking" /\ ~HasRoom
    \/ probe.at = "waiting" /\ Answered /\ ~Expected
Broken == probe.at \in {"looking", "minting"} \/ (probe.at = "waiting" /\ Answered)
StopProbe == (Unexpected \/ Broken) /\ FailProbe

(* Mutation: cases that could not be tried do not count. *)
OutcomeOfTheRest ==
    IF probe.status = "failed" \/ code # probe.frozen THEN "failed"
    ELSE "gateway_cases_observed"

(* The version is compared after the last case; then the result is sealed.  *)
Outcome ==
    IF probe.status = "failed" \/ code # probe.frozen THEN "failed"
    ELSE IF probe.missing # {} THEN "partial" ELSE "gateway_cases_observed"
FinishProbe ==
    /\ probe.at = "collected"
    /\ SetProbe([probe EXCEPT !.at = "over", !.status = Outcome])
    /\ UNCHANGED calls

-----------------------------------------------------------------------------
(* The lifecycle run.                                                       *)
SetLife(next) ==
    /\ life' = next
    /\ UNCHANGED <<fault, source, open, code, probe>>
Unchanged == source = life.expected

(* The operator notes the hash of the source and asks for the run later.    *)
PinSource ==
    /\ life.at = "new"
    /\ SetLife([life EXCEPT !.at = "pinned", !.expected = source])
    /\ UNCHANGED <<calls, closing>>
BeginLife ==
    /\ life.at = "pinned"
    /\ SetLife([life EXCEPT !.at = "looking", !.frozen = code])
    /\ UNCHANGED <<calls, closing>>

(* The source is as pinned, the token is minted, the stream is the one.     *)
Prepare ==
    /\ life.at = "looking" /\ Unchanged
    /\ SetLife([life EXCEPT !.at = "ready"])
    /\ UNCHANGED <<calls, closing>>
(* The intent is on disk before the one call that cannot be taken back.     *)
Finalize ==
    /\ life.at = "ready"
    /\ closing' = "sent"
    /\ SetLife([life EXCEPT !.at = "closing", !.finalization = "submitted_unknown"])
    /\ UNCHANGED calls

CloseStream ==
    /\ closing = "sent"
    /\ open' = FALSE
    /\ closing' = "done"
    /\ UNCHANGED <<fault, source, calls, code, probe, life>>
DenyClosing ==
    /\ closing = "sent"
    /\ closing' = "denied"
    /\ UNCHANGED <<fault, source, open, calls, code, probe, life>>

Acknowledged ==
    /\ life.at = "closing" /\ closing = "done"
    /\ SetLife([life EXCEPT !.at = "closed", !.finalization = "acknowledged", !.count = Len(source)])
    /\ UNCHANGED <<calls, closing>>

Unacknowledged ==
    /\ life.at = "closing"
    /\ \/ closing = "denied" /\ SetLife([life EXCEPT !.at = "uncertain", !.finalization = "denied"])
       \/ SetLife([life EXCEPT !.at = "uncertain", !.finalization = "failed_or_unknown"])
    /\ UNCHANGED <<calls, closing>>
Uncertain ==
    /\ life.at = "uncertain" /\ Unchanged
    /\ SetLife([life EXCEPT !.at = "collected",
                !.status = IF life.finalization = "denied" THEN "failed" ELSE "uncertain"])
    /\ UNCHANGED <<calls, closing>>

LookClosed ==
    /\ life.at = "closed" /\ Unchanged /\ life.count = Len(life.expected)
    /\ SetLife([life EXCEPT !.at = "asking"])
    /\ UNCHANGED <<calls, closing>>
AskStale ==
    /\ life.at = "asking"
    /\ calls' = [calls EXCEPT ![Stale] =
                    NewCall([as |-> "producer", event |-> Event("closed-stream", "US")])]
    /\ SetLife([life EXCEPT !.at = "waiting"])
    /\ UNCHANGED closing
Refused == calls[Stale].answer = "unverified"
JudgeStale ==
    /\ life.at = "waiting" /\ calls[Stale].answer # None /\ Unchanged
    /\ SetLife([life EXCEPT !.at = "collected",
                !.status = IF Refused THEN "closed_stream_refusal_observed" ELSE "failed"])
    /\ UNCHANGED <<calls, closing>>

(* A reading that fails or differs from the pinned hash, a token or the     *)
(* stream's metadata that cannot be had.                                    *)
StopLife ==
    /\ \/ life.at \in {"looking", "uncertain", "closed"}
       \/ life.at = "waiting" /\ calls[Stale].answer # None
    /\ SetLife([life EXCEPT !.at = "collected", !.status = "failed"])
    /\ UNCHANGED <<calls, closing>>
FinishLife ==
    /\ life.at = "collected"
    /\ SetLife([life EXCEPT !.at = "over", !.status = IF code = life.frozen THEN life.status ELSE "failed"])
    /\ UNCHANGED <<calls, closing>>

(* A process that dies leaves its .pending directory, which bars another    *)
(* run of the same name, and no result.                                     *)
Die ==
    \/ /\ probe.at \notin {"new", "over"}
       /\ SetProbe([probe EXCEPT !.at = "over", !.status = None])
       /\ UNCHANGED calls
    \/ /\ life.at \notin {"new", "pinned", "over"}
       /\ SetLife([life EXCEPT !.at = "over", !.status = None])
       /\ UNCHANGED <<calls, closing>>

Next ==
    \/ Serve \/ GiveUp \/ OthersAppend \/ Edit
    \/ BeginProbe \/ LookFirst \/ Ask \/ JudgeCase \/ Mint \/ StopProbe \/ FinishProbe
    \/ PinSource \/ BeginLife \/ Prepare \/ Finalize \/ CloseStream \/ DenyClosing
    \/ Acknowledged \/ Unacknowledged \/ Uncertain \/ LookClosed \/ AskStale
    \/ JudgeStale \/ StopLife \/ FinishLife
    \/ Die

Spec == Init /\ [][Next]_vars

-----------------------------------------------------------------------------
(* A probe that reports no failure has added its five events to the source  *)
(* and nothing else entered beside them: what it read before and after the  *)
(* cases is the start of the table, now and for good.                       *)
Succeeded == probe.status \in {"gateway_cases_observed", "partial"}
PassedRunIsExact ==
    (probe.at = "over" /\ Succeeded) =>
        LET added == SubSeq(probe.current, Len(probe.original) + 1, Len(probe.current))
            once == {"first", "equal", "distinct-1", "distinct-2", "rival"}
        IN  /\ IsPrefix(probe.original, probe.current)
            /\ IsPrefix(probe.current, source)
            /\ Len(added) = NewEvents
            /\ {added[i].id : i \in DOMAIN added} = once
            /\ \A i \in DOMAIN added : added[i].actor = "producer"

(* A service that lets anybody in, that takes a token made for another      *)
(* audience, what it must refuse or a contradiction, that stores a retry    *)
(* twice, or says it stored what it did not, passes no complete probe.      *)
PassedRunIsSound == probe.status = "gateway_cases_observed" => fault = "none"

(* A passed probe is evidence of the right service and of its exact rows.   *)
PassedRunIsTrue == PassedRunIsExact /\ PassedRunIsSound

(* Once the refusal is reported, the stream is closed and the source is the *)
(* one the operator had pinned: it cannot be a passing outage of a stream   *)
(* that still takes rows.                                                   *)
RefusalIsConclusive ==
    (life.at = "over" /\ life.status = "closed_stream_refusal_observed") =>
        ~open /\ Unchanged

(* Neither acceptance says of the service what does not hold.               *)
AcceptanceIsTrue == PassedRunIsTrue /\ RefusalIsConclusive
=============================================================================
