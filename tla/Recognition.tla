----------------------------- MODULE Recognition -----------------------------
(***************************************************************************)
(* Revenue recognition as the spine performs it (tl/compare/accounting.py  *)
(* "recognize", run by ComparisonSession): a report freezes the documents  *)
(* dated before its horizon and goes through them one after the other,     *)
(* drawing down commitments as it goes, until the journal is complete and  *)
(* the session's checks have passed, or one document is refused and with   *)
(* it the whole report.  Documents arrive between reports.                 *)
(***************************************************************************)
EXTENDS Books

CONSTANT MaxDocuments \* bound: documents on record

VARIABLES
    docs,        \* the documents on record
    status,      \* of the report: "idle", "posting", "accepted" or "refused"
    horizon,     \* its first month out of scope (period_end), 0 when idle
    left,        \* its documents not yet processed
    remaining,   \* by contract, what is left of the commitment
    lastService, \* by contract, the latest day an invoice has served
    cursor,      \* price, paid-through day and cents by month of the subscription under way
    journal,     \* by document (or subscription) and month, the movement of every account
    earnings     \* by document (or subscription) and month, the revenue of every source

report == <<horizon, left, remaining, lastService, cursor, journal, earnings>>
vars == <<docs, status, report>>

ContractKeys == {d.contract : d \in Contracts(Documents)}
BlankJournal == [line \in Lines |-> NoMovement]
BlankEarnings == [line \in Lines |-> NoRevenue]
NoCursor == [price |-> 0, end |-> 0, cents |-> [m \in Months |-> 0]]
NoContracts == [c \in ContractKeys |-> 0]

Init ==
    /\ docs \in Beginnings /\ status = "idle" /\ horizon = 0 /\ left = {} /\ cursor = NoCursor
    /\ remaining = NoContracts /\ lastService = NoContracts
    /\ journal = BlankJournal /\ earnings = BlankEarnings

\* A report begins, or ends, with empty books.
Blank ==
    /\ left' = {} /\ cursor' = NoCursor
    /\ remaining' = NoContracts /\ lastService' = NoContracts
    /\ journal' = BlankJournal /\ earnings' = BlankEarnings

seen == Visible(docs, horizon)
Contract(key) == CHOOSE c \in Contracts(seen) : c.contract = key
Known(key) == \E c \in Contracts(seen) : c.contract = key

\* Any ValidationError ends the report without a result.
Refuse == status' = "refused" /\ Blank /\ UNCHANGED <<docs, horizon>>

\* The lines of one document, in every month; the earn filter drops what lies
\* past the horizon, the journal does not.
Post(d, movement, revenue) ==
    /\ journal' = [line \in Lines |->
            IF line[1] = Poster(d) THEN movement[line[2]] ELSE journal[line]]
    /\ earnings' = [line \in Lines |->
            IF line[1] = Poster(d) /\ line[2] < horizon THEN revenue[line[2]] ELSE earnings[line]]

Monthly(m, cell, blank) == [n \in Months |-> IF n = m THEN cell ELSE blank]

\* Mutation: the cents are cut off.
Truncated(n, d) == IF n < 0 THEN -((-n) \div d) ELSE n \div d

HalfUp(n, d) ==
    IF n < 0 THEN -((d - 2 * n) \div (2 * d)) ELSE (2 * n + d) \div (2 * d)
Periods(start, end) == {m \in Months : MonthStart[m + 1] > start /\ MonthStart[m] < end}

\* spread: the difference of cumulative entitlements.
Spread(amount, start, end) ==
    [m \in Months |->
        IF m \in Periods(start, end)
        THEN HalfUp(amount * (Least(end, MonthStart[m + 1]) - start), end - start)
             - HalfUp(amount * (Greatest(start, MonthStart[m]) - start), end - start)
        ELSE 0]

Record(d) ==
    /\ status = "idle" /\ d \notin docs /\ Cardinality(docs) < MaxDocuments
    /\ docs' = docs \union {d}
    /\ UNCHANGED <<status, report>>

Repeated(S, field) == Cardinality({d[field] : d \in S}) < Cardinality(S)

\* The groups are read, their identities checked, commitments billed in full.
Open(h) ==
    LET visible == Visible(docs, h)
        signed == [line \in Lines |-> {c \in Contracts(visible) : c.id = line[1] /\ MonthOf(c.ts) = line[2]}]
    IN  /\ status = "idle"
        /\ horizon' = h /\ UNCHANGED docs
        /\ IF \/ Repeated(Invoices(visible), "invoice") \/ Repeated(Contracts(visible), "contract")
              \/ Repeated(Credits(visible), "credit") \/ Repeated(Expiries(visible), "contract")
           THEN status' = "refused" /\ Blank
           ELSE /\ status' = "posting"
                /\ left' = visible \ (Contracts(visible) \union Tokens(visible))
                /\ remaining' = [key \in ContractKeys |->
                        LET terms == {c \in Contracts(visible) : c.contract = key}
                        IN  IF terms = {} THEN 0 ELSE (CHOOSE c \in terms : TRUE).commit]
                /\ journal' = [line \in Lines |->
                        IF signed[line] = {} THEN NoMovement
                        ELSE LET commit == (CHOOSE c \in signed[line] : TRUE).commit
                             IN  [NoMovement EXCEPT !["1100"] = commit, !["2100"] = -commit]]
                /\ earnings' = BlankEarnings
                /\ lastService' = NoContracts /\ cursor' = NoCursor

\* The invoice is refused before anything is drawn (or, for the fee, after).
Unserviceable(i) ==
    \/ i.end <= i.start \/ i.fee > i.net
    \/ i.contract # None /\ ~Known(i.contract)
    \/ i.contract # None /\ (i.start < Contract(i.contract).start \/ i.end > Contract(i.contract).end)

Available(i) == IF i.contract = None THEN 0 ELSE remaining[i.contract]
Drawn(i) == Least(Available(i), i.net)

\* Mutation: the fee is not settled against the receivable.
UnsettledMovement(net, fee, draw) ==
    [NoMovement EXCEPT !["2100"] = draw, !["1100"] = net - draw, !["4000"] = -net, !["4095"] = fee]

InvoiceMovement(net, fee, draw) ==
    [NoMovement EXCEPT !["2100"] = draw, !["1100"] = net - draw - fee, !["4000"] = -net, !["4095"] = fee]

TakeInvoice(i) ==
    LET net == Spread(i.net, i.start, i.end)
        fee == Spread(i.fee, i.start, i.end)
        draw == Spread(Drawn(i), i.start, i.end)
    IN  /\ status = "posting"
        /\ i \in Invoices(left) /\ \A j \in Invoices(left) : j = i \/ InvoiceBefore(i, j)
        /\ IF Unserviceable(i) \/ (Drawn(i) # 0 /\ i.fee # 0)
           THEN Refuse
           ELSE /\ left' = left \ {i}
                /\ remaining' = [c \in ContractKeys |->
                        IF c = i.contract THEN remaining[c] - Drawn(i) ELSE remaining[c]]
                /\ lastService' = [c \in ContractKeys |->
                        IF c = i.contract THEN Greatest(i.end, lastService[c]) ELSE lastService[c]]
                /\ Post(i,
                     [m \in Months |-> IF m < horizon THEN InvoiceMovement(net[m], fee[m], draw[m]) ELSE NoMovement],
                     [m \in Months |-> [NoRevenue EXCEPT !["commit_drawdown"] = draw[m],
                                                         !["usage"] = net[m] - fee[m] - draw[m]]])
                /\ UNCHANGED <<docs, status, horizon, cursor>>

TakeExpiry(x) ==
    LET amount == remaining[x.contract]
        month == MonthOf(x.ts)
    IN  /\ status = "posting" /\ Invoices(left) = {}
        /\ x \in Expiries(left) /\ \A y \in Expiries(left) : x.id <= y.id
        /\ IF ~Known(x.contract) \/ lastService[x.contract] > x.ts
           THEN Refuse
           ELSE /\ left' = left \ {x}
                /\ remaining' = [remaining EXCEPT ![x.contract] = 0]
                /\ Post(x, Monthly(month, [NoMovement EXCEPT !["2100"] = amount, !["4020"] = -amount], NoMovement),
                           Monthly(month, [NoRevenue EXCEPT !["commit_drawdown"] = amount], NoRevenue))
                /\ UNCHANGED <<docs, status, horizon, lastService, cursor>>

TakeCredit(c) ==
    /\ status = "posting" /\ Invoices(left) = {} /\ Expiries(left) = {}
    /\ c \in Credits(left) /\ \A d \in Credits(left) : c.id <= d.id
    /\ IF ~\E i \in Invoices(seen) : i.invoice = c.invoice
       THEN Refuse
       ELSE /\ left' = left \ {c}
            /\ Post(c, Monthly(c.month, [NoMovement EXCEPT !["4090"] = c.amount, !["1100"] = -c.amount], NoMovement),
                       Monthly(c.month, [NoRevenue EXCEPT !["usage"] = -c.amount], NoRevenue))
            /\ UNCHANGED <<docs, status, horizon, remaining, lastService, cursor>>

\* The next event of the subscription, if any, and its own place in it.
Siblings(e) == {f \in Subscriptions(seen) : f.subscription = e.subscription}
IsFirst(e) == \A f \in Siblings(e) : f = e \/ EventBefore(e, f)
IsNext(e, f) == EventBefore(e, f) /\ \A g \in Siblings(e) : EventBefore(e, g) => g = f \/ EventBefore(f, g)
IsLast(e) == ~\E f \in Siblings(e) : IsNext(e, f)
Following(e) == CHOOSE f \in Siblings(e) : IsNext(e, f)

\* One turn of the loop over the events of a subscription; the last one posts.
TakeEvent(e) ==
    LET before == IF IsFirst(e) THEN [NoCursor EXCEPT !.end = MonthStart[horizon]] ELSE cursor
        price == IF e.price = None THEN before.price ELSE e.price
        paid == IF e.end = None THEN before.end ELSE e.end
        next == IF IsLast(e) THEN MonthStart[horizon] ELSE Following(e).ts
        stop == Least(Least(paid, MonthStart[horizon]), next)
        cents == [m \in Months |-> before.cents[m] +
                    (IF m \in Periods(e.ts, stop)
                     THEN price * e.seats * (Least(stop, MonthStart[m + 1]) - Greatest(e.ts, MonthStart[m]))
                     ELSE 0)]
        amount == [m \in Months |-> HalfUp(cents[m], Days(m))]
    IN  /\ status = "posting" /\ left = Subscriptions(left) /\ e \in left
        /\ \A f \in left : \/ e.subscription < f.subscription
                           \/ e.subscription = f.subscription /\ (f = e \/ EventBefore(e, f))
        /\ IF ~e.monthly
           THEN Refuse
           ELSE /\ left' = left \ {e}
                /\ cursor' = [price |-> price, end |-> paid, cents |-> cents]
                /\ IF IsLast(e)
                   THEN Post(e, [m \in Months |-> [NoMovement EXCEPT !["1100"] = amount[m], !["4010"] = -amount[m]]],
                                [m \in Months |-> [NoRevenue EXCEPT !["subscription"] = amount[m]]])
                   ELSE UNCHANGED <<journal, earnings>>
                /\ UNCHANGED <<docs, status, horizon, remaining, lastService>>

\* The session's own checks: every document balances in every month, and the
\* revenue of every month is what the revenue accounts hold.
TiesOut ==
    /\ \A line \in Lines : Balance(journal[line]) = 0
    /\ \A m \in Months :
          SumFunction([l \in {k \in Lines : k[2] = m} |-> Earned(earnings[l]) + Revenue(journal[l])]) = 0

\* Its checks of the token ledger: no token is there twice, and in every month
\* the tokens share all that the invoices have earned.  Tokens share what the
\* invoice of their batch earned in their own month.
Unallocated(line) ==
    IF \E i \in Invoices(seen) : i.id = line[1] /\ ~Metered(seen, i, line[2]) THEN Earned(earnings[line]) ELSE 0
TokensTieOut ==
    /\ \A i, j \in Invoices(seen) : i # j /\ i.batch = j.batch => \A t \in Tokens(seen) : t.batch # i.batch
    /\ \A m \in Months : SumFunction([l \in {k \in Lines : k[2] = m} |-> Unallocated(l)]) = 0

Check ==
    /\ status = "posting" /\ left = {}
    /\ IF TiesOut /\ TokensTieOut THEN status' = "accepted" /\ UNCHANGED <<docs, report>> ELSE Refuse

\* Derived rows are disposable.
Close ==
    /\ status \in {"accepted", "refused"}
    /\ status' = "idle" /\ horizon' = 0 /\ Blank /\ UNCHANGED docs

Next ==
    \/ \E d \in Documents : Record(d)
    \/ \E h \in 2 .. Len(MonthStart) : Open(h)
    \/ \E d \in left : TakeInvoice(d) \/ TakeExpiry(d) \/ TakeCredit(d) \/ TakeEvent(d)
    \/ Check
    \/ Close

Spec == Init /\ [][Next]_vars

-----------------------------------------------------------------------------
(* What the two implementations of accounting/v1 owe each other, and what a *)
(* report owes to the documents it was made from.                           *)

\* The sequential loop (tl/compare/accounting.py) and the views
\* (tl/views/accounting.py) keep the same books: what the loop accepts is no
\* error of the views' accounting, and both post the same cents to the same
\* accounts, months and sources; what it refuses, the views refuse.  (They also
\* refuse of themselves: tl/views/validation.py:13-19 has no counterpart.)
ImplementationsAgree ==
    /\ status = "accepted" =>
          /\ ~BookErrors(seen, horizon)
          /\ journal = ColumnarJournal(seen, horizon)
          /\ earnings = ColumnarEarnings(seen, horizon)
    /\ status = "refused" => ColumnarErrors(seen, horizon)

\* Whatever has been posted so far, each document balances in each month, and
\* earns there what it credits to the revenue accounts (within the horizon).
DocumentsBalance ==
    \A line \in Lines :
        /\ Balance(journal[line]) = 0
        /\ line[2] < horizon => Earned(earnings[line]) + Revenue(journal[line]) = 0

OnContract(key) ==
    {c \in seen : c.kind \in {"contract", "invoice", "expiry"} /\ c.contract = key}
Deferred(key) ==
    SumFunction([l \in {k \in Lines : \E d \in OnContract(key) : k[1] = d.id} |-> journal[l]["2100"]])

\* A commitment is spent once: with what is left of it, the liability of its
\* contract never falls below zero, and it is exactly what is left when no
\* invoice serves past the horizon -- so nothing after the expiry.
CommitIsSpentOnce ==
    status = "posting" => \A c \in Contracts(seen) :
        LET key == c.contract
        IN  /\ remaining[key] >= 0
            /\ Deferred(key) + remaining[key] <= 0
            /\ (\A i \in Invoices(seen) : i.contract = key => i.end <= MonthStart[horizon])
                 => Deferred(key) + remaining[key] = 0

\* Evidence that arrives late moves little: an invoice changes the revenue of
\* other documents only at the expiry of its contract and in the funding (never
\* the total) of the invoices of that contract whose service ends no earlier.
LateInvoiceIsLocal ==
    status = "accepted" => \A i \in Invoices(seen) :
        LET before == seen \ {i}
            was == ColumnarEarnings(before, horizon)
        IN  ~BookErrors(before, horizon) =>
              \A d \in before \ Tokens(before), m \in Months :
                LET line == <<Poster(d), m>>
                IN  was[line] # earnings[line] =>
                      /\ d.kind \in {"invoice", "expiry"} /\ d.contract = i.contract
                      /\ d.kind = "invoice" => d.end >= i.end /\ Earned(was[line]) = Earned(earnings[line])

\* A commitment goes to the invoices in the order of their service, once.
CommitmentsAreSpentInOrder == CommitIsSpentOnce /\ LateInvoiceIsLocal
=============================================================================
