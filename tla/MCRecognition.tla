---------------------------- MODULE MCRecognition ----------------------------
(* What is computed from the stream, for TLC and the proofs: revenue         *)
(* recognition, and the metric runs.  They share no state: a behaviour is    *)
(* of one of them.                                                           *)
EXTENDS Recognition

CONSTANTS
    Systems,        \* the parts a behaviour may be of
    Events, Versions, Keys, Row(_, _, _), Consistent(_), GroupBound,
    Callers, FirstEvents, Cutoffs, MaxReports, MaxRuns

VARIABLES
    system,
    stream, tree, head, runs, ledger, call

metrics == <<stream, tree, head, runs, ledger, call>>

Metrics == INSTANCE MetricRuns

ASSUME MetricsAssumption ==
    /\ Metrics!DocumentsAreNumbered
    /\ Metrics!StreamIsOfEvents
    /\ Metrics!CutoffsAreTimes

MCInit == Init /\ Metrics!Init /\ system \in Systems /\ (system # "metrics" => tree = CHOOSE v \in Versions : TRUE)
MCNext ==
    /\ UNCHANGED system
    /\ \/ system = "books" /\ Next /\ UNCHANGED metrics
       \/ system = "metrics" /\ Metrics!Next /\ UNCHANGED vars
MCSpec == MCInit /\ [][MCNext]_<<system, vars, metrics>>

(* Every receipt of artifacts that were committed can be performed again for *)
(* good, and its archive by itself (metrics/engine.py, receipts/archive.py). *)
ReceiptsReplay == Metrics!ReceiptsReplay
(* What a restatement names as the cause of a changed row is sufficient, and *)
(* no smaller group of late documents is (metrics/changes.py).               *)
AttributionIsMinimal == Metrics!AttributionIsMinimal

-----------------------------------------------------------------------------
(* Metric runs: one invoice on record; late come another invoice, a credit   *)
(* that needs it, and an unrelated document.  Version 1 adds up amounts,     *)
(* version 2 counts.                                                         *)
Arrived(id, doc, at, key, amount, needs) ==
    [id |-> id, doc |-> doc, at |-> at, key |-> key, amount |-> amount, needs |-> needs]
firstUsage == Arrived(1, 1, 0, "usage", 2, 0)
lateUsage == Arrived(2, 3, 1, "usage", 3, 0)
lateCredit == Arrived(3, 2, 1, "credits", 1, 2)
otherUsage == Arrived(4, 4, 0, "usage", 3, 0)

MCEvents == {firstUsage, lateUsage, lateCredit, otherUsage}
MCFirst == <<firstUsage>>
MCKeys == {"usage", "credits"}
MCRow(v, k, S) ==
    LET rowsOf == {e \in S : e.key = k}
    IN  IF rowsOf = {} THEN None
        ELSE IF v = 1 THEN MapThenSumSet(LAMBDA e : e.amount, rowsOf)
        ELSE Cardinality(rowsOf)
MCConsistent(S) == S # {} /\ \A e \in S : e.needs = 0 \/ \E f \in S : f.id = e.needs

-----------------------------------------------------------------------------
(* The books: three short months, one commitment of four cents under two     *)
(* rival terms, invoices that exhaust it out of order, two of them of one    *)
(* batch, tokens of all of them or all but one month, and two subscriptions.  *)
Signed(id, ts, commit, start, end) ==
    [kind |-> "contract", id |-> id, ts |-> ts, contract |-> "c", commit |-> commit, start |-> start, end |-> end]
Invoiced(id, ts, invoice, batch, contract, start, end, net, fee) ==
    [kind |-> "invoice", id |-> id, ts |-> ts, invoice |-> invoice, batch |-> batch, contract |-> contract,
     start |-> start, end |-> end, net |-> net, fee |-> fee]
Processed(id, ts, batch) == [kind |-> "tokens", id |-> id, ts |-> ts, batch |-> batch]
Expired(id, ts) == [kind |-> "expiry", id |-> id, ts |-> ts, contract |-> "c"]
Credited(id, ts, invoice, month) ==
    [kind |-> "credit", id |-> id, ts |-> ts, credit |-> "k", invoice |-> invoice, month |-> month, amount |-> 2]
Subscribed(id, ts, subscription, activity, price, end, seats, monthly) ==
    [kind |-> "subscription", id |-> id, ts |-> ts, subscription |-> subscription, customer |-> "a",
     activity |-> activity, price |-> price, end |-> end, seats |-> seats, monthly |-> monthly]

CONSTANT NoField
Months3 == <<0, 2, 5, 7>>
\* Of the batch of the first invoice, in its second month.
lateTokens == Processed(33, 3, "x")
Usage == { Processed(31, 0, "x"), lateTokens, Processed(34, 1, "y"),
           Processed(36, 0, "w"), Processed(37, 4, "w"), Processed(38, 6, "w") }
AllDocuments == Usage \union
    { Signed(1, 0, 4, 0, 7), Signed(2, 0, 3, 0, 4),
      Invoiced(3, 3, "p", "x", "c", 0, 4, 3, 0), Invoiced(4, 4, "q", "y", "c", 1, 2, 2, 0),
      Invoiced(5, 4, "r", "w", "c", 1, 4, 3, 1), Invoiced(6, 2, "q", "w", NoField, 0, 7, 3, 2),
      Invoiced(7, 3, "z", "z", NoField, 2, 2, 1, 0),
      Expired(8, 4), Expired(9, 2),
      Credited(10, 4, "p", 3),
      Subscribed(12, 0, 100, "started", 3, 3, 1, TRUE), Subscribed(13, 4, 100, "seats", NoField, NoField, 2, TRUE),
      Subscribed(14, 4, 100, "plan", 4, 7, 1, TRUE), Subscribed(15, 5, 101, "started", 2, 7, 1, TRUE),
      Subscribed(16, 6, 100, "cancelled", NoField, NoField, 0, TRUE),
      Subscribed(17, 5, 100, "renewed", 2, 7, 1, FALSE) }
MCBeginnings == {Usage \ {lateTokens}}

\* A stream that begins in the second month, with evidence of the first one's service.
CutoverUsage == { Processed(32, 3, "x"), Processed(37, 4, "w"), Processed(38, 6, "w") }
CutoverDocuments == CutoverUsage \union
    { Signed(1, 2, 4, 0, 7), Invoiced(3, 3, "p", "x", "c", 0, 3, 3, 0),
      Invoiced(6, 4, "q", "w", NoField, 0, 7, 3, 0), Expired(8, 4), Credited(10, 4, "p", 2) }
CutoverBeginnings == {CutoverUsage}
=============================================================================
