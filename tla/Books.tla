-------------------------------- MODULE Books --------------------------------
(***************************************************************************)
(* The economic documents, the calendar and the chart of accounts that the *)
(* two implementations of the accounting/v1 policy share, and the columnar *)
(* one of the two; the sequential one is module Recognition.  Amounts are  *)
(* integer cents, days are counted from the first month on.  Streams are   *)
(* those whose customers are created once and whose tokens are of released *)
(* models: the checks of both sides that ask for this are not modelled.    *)
(***************************************************************************)
EXTENDS Integers, Sequences, FiniteSets, FiniteSetsExt

CONSTANTS
    Documents,  \* every document the stream may come to hold, as records
    MonthStart, \* MonthStart[m] is the first day of month m; the last entry ends the last month
    Opening,    \* the month of the first event of the stream
    Beginnings, \* what the stream may hold to begin with
    None        \* an absent field

\* Months are not empty; documents carry what the activity catalog requires of
\* their kind (definitions/activities), amounts in cents and never negative.
ASSUME MonthsAssumption ==
    /\ Len(MonthStart) \in Nat /\ Len(MonthStart) > 1
    /\ \A m \in 1 .. Len(MonthStart) : MonthStart[m] \in Nat
    /\ \A m \in 1 .. Len(MonthStart) - 1 : MonthStart[m] < MonthStart[m + 1]
ASSUME DocumentsAssumption == \A d \in Documents :
    /\ d.kind = "contract" => d.commit \in Nat
    /\ d.kind = "invoice" => d.net \in Nat /\ d.fee \in Nat /\ d.start \in Nat /\ d.end \in Nat
    /\ d.kind = "credit" => d.amount \in Nat
    /\ d.kind = "subscription" => /\ d.price \in Nat \union {None} /\ d.end \in Nat \union {None}
                                  /\ d.seats \in Nat /\ d.ts \in Nat
\* An activity ID is that of one event, and the lines of a subscription are filed
\* under an ID of their own.
ASSUME IdentitiesAssumption ==
    /\ IsFiniteSet(Documents)
    /\ \A d \in Documents :
          /\ d.id \in Int
          /\ d.kind \in {"contract", "expiry"} => d.contract # None
          /\ d.kind = "subscription" => d.subscription \in Int
    /\ \A d, e \in Documents :
          /\ d.id = e.id => d = e
          /\ d.kind = "subscription" /\ e.kind # "subscription" => d.subscription # e.id
\* The months reach back to all that is dated: in the code any day has its month.
ASSUME CalendarAssumption == \A d \in Documents :
    /\ d.kind \in {"contract", "expiry"} => d.ts \in Nat /\ MonthStart[1] <= d.ts
    /\ d.kind = "invoice" => MonthStart[1] <= d.start
\* Nothing is dated before the opening month, and something is dated in it.
ASSUME OpeningAssumption ==
    /\ \A B \in Beginnings : B \subseteq Documents /\ \E d \in B : d.ts < MonthStart[Opening + 1]
    /\ \A d \in Documents : MonthStart[Opening] <= d.ts

Months == 1 .. Len(MonthStart) - 1
Days(m) == MonthStart[m + 1] - MonthStart[m]
MonthOf(day) == CHOOSE m \in Months : MonthStart[m] <= day /\ day < MonthStart[m + 1]

Least(a, b) == IF a <= b THEN a ELSE b
Greatest(a, b) == IF a >= b THEN a ELSE b

Accounts == {"1100", "2100", "4000", "4010", "4020", "4090", "4095"}
Sources == {"commit_drawdown", "usage", "subscription"}
NoMovement == [a \in Accounts |-> 0]
NoRevenue == [s \in Sources |-> 0]

\* What the lines of one document in one month add up to, over all accounts
\* and over the revenue accounts alone.
Revenue(movement) == movement["4000"] + movement["4010"] + movement["4020"]
                     + movement["4090"] + movement["4095"]
Balance(movement) == movement["1100"] + movement["2100"] + Revenue(movement)
Earned(revenue) == revenue["commit_drawdown"] + revenue["usage"] + revenue["subscription"]

OfKind(seen, kind) == {d \in seen : d.kind = kind}
Contracts(seen) == OfKind(seen, "contract")
Invoices(seen) == OfKind(seen, "invoice")
Expiries(seen) == OfKind(seen, "expiry")
Credits(seen) == OfKind(seen, "credit")
Subscriptions(seen) == OfKind(seen, "subscription")
Tokens(seen) == OfKind(seen, "tokens")

\* Tokens of an invoice's usage batch were processed in month m.
Metered(seen, i, m) == \E t \in Tokens(seen) : t.batch = i.batch /\ MonthOf(t.ts) = m

\* A report of the first months up to (and without) month h reads the documents
\* dated before it.
Visible(docs, h) == {d \in docs : d.ts < MonthStart[h]}

\* The line a document posts to: its own, or that of its subscription; tokens post
\* nothing.
Poster(d) == IF d.kind = "subscription" THEN d.subscription ELSE d.id
Lines == {Poster(d) : d \in Documents \ Tokens(Documents)} \X Months

\* Subscription events of the same instant: a start or renewal, then a change
\* of plan, then of seats, then a cancellation.
Priority(e) == CASE e.activity = "cancelled" -> 30
                 [] e.activity = "seats" -> 20
                 [] e.activity = "plan" -> 10
                 [] OTHER -> 0

EventBefore(e, f) ==
    \/ e.ts < f.ts
    \/ e.ts = f.ts /\ Priority(e) < Priority(f)
    \/ e.ts = f.ts /\ Priority(e) = Priority(f) /\ e.id < f.id

\* Mutation: by identity alone.
BeforeById(i, j) == i.id < j.id

\* Invoices draw on a commitment in the order their service ends.
InvoiceBefore(i, j) == i.end < j.end \/ (i.end = j.end /\ i.id < j.id)

-----------------------------------------------------------------------------
(***************************************************************************)
(* The accounting/v1 policy as the columnar views compute it               *)
(* (tl/views/accounting.py, tl/views/validation.py): every amount is a     *)
(* function of the documents visible to a report, with no running state.   *)
(* Commitments are shared out by a window over the earlier invoices of the *)
(* contract, subscriptions by windows over their events, and the months    *)
(* are those of a calendar that begins with the first visible event.       *)
(***************************************************************************)
Calendar(h) == Opening .. h - 1

\* Window sums and joins.
ContractOf(seen, d) == {c \in Contracts(seen) : c.contract = d.contract}
Earlier(seen, i) == {j \in Invoices(seen) : j.contract = i.contract /\ InvoiceBefore(j, i)}
Committed(seen, i) ==
    IF ContractOf(seen, i) = {} THEN 0 ELSE (CHOOSE c \in ContractOf(seen, i) : TRUE).commit
Prior(seen, i) == SumFunction([j \in Earlier(seen, i) |-> j.net])

\* What invoice i draws: what the earlier ones of its contract have left over.
Draw(seen, i) ==
    IF i.contract = None
    THEN 0
    ELSE Least(i.net, Greatest(Committed(seen, i) - Prior(seen, i), 0))

Spent(seen, x) ==
    SumFunction([i \in {j \in Invoices(seen) : j.contract = x.contract} |-> Draw(seen, i)])
ExpiryAmount(seen, x) == Committed(seen, x) - Spent(seen, x)

\* The part of an amount that falls in month m: cumulative half-up, exact in total.
Rounded(n, d) == (2 * n + d) \div (2 * d)
Serves(d, m) == d.start < MonthStart[m + 1] /\ d.end > MonthStart[m]
Share(amount, i, m) ==
    LET days == i.end - i.start
        lo == Greatest(i.start, MonthStart[m]) - i.start
        hi == Least(i.end, MonthStart[m + 1]) - i.start
    IN  Rounded(amount * hi, days) - Rounded(amount * lo, days)

\* A subscription event pays for the days until its successor, the end of the
\* period last paid for, or the end of the report, at the price last given.
EventsOf(seen, s) == {e \in Subscriptions(seen) : e.subscription = s}
UpTo(seen, e) == {f \in EventsOf(seen, e.subscription) : f = e \/ EventBefore(f, e)}
After(seen, e) == {f \in EventsOf(seen, e.subscription) : EventBefore(e, f)}
Latest(S) == CHOOSE f \in S : \A g \in S : g = f \/ EventBefore(g, f)
Soonest(S) == CHOOSE f \in S : \A g \in S : g = f \/ EventBefore(f, g)
LastValue(S, field, default) ==
    LET given == {f \in S : f[field] # None}
    IN  IF given = {} THEN default ELSE Latest(given)[field]

StopDay(seen, h, e) ==
    LET lead == IF After(seen, e) = {} THEN MonthStart[h] ELSE Soonest(After(seen, e)).ts
    IN  Least(Least(lead, LastValue(UpTo(seen, e), "end", MonthStart[h])), MonthStart[h])

SeatDayCents(seen, h, e, m) ==
    LET stop == StopDay(seen, h, e)
    IN  IF e.ts < MonthStart[m + 1] /\ stop > MonthStart[m]
        THEN LastValue(UpTo(seen, e), "price", 0) * e.seats
             * (Least(stop, MonthStart[m + 1]) - Greatest(e.ts, MonthStart[m]))
        ELSE 0

SubscriptionAmount(seen, h, s, m) ==
    LET n == SumFunction([e \in EventsOf(seen, s) |-> SeatDayCents(seen, h, e, m)])
    IN  IF n < 0 THEN -Rounded(-n, Days(m)) ELSE Rounded(n, Days(m))

\* The view "journals": the movements of document d in month m.
ColumnarMovement(seen, h, d, m) ==
    CASE d.kind = "contract" /\ m = MonthOf(d.ts) ->
            [NoMovement EXCEPT !["1100"] = d.commit, !["2100"] = -d.commit]
      [] d.kind = "invoice" /\ m \in Calendar(h) /\ Serves(d, m) ->
            LET net == Share(d.net, d, m)
                fee == Share(d.fee, d, m)
                draw == Share(Draw(seen, d), d, m)
            IN  [NoMovement EXCEPT !["2100"] = draw, !["1100"] = net - draw - fee,
                                   !["4000"] = -net, !["4095"] = fee]
      [] d.kind = "expiry" /\ m = MonthOf(d.ts) ->
            [NoMovement EXCEPT !["2100"] = ExpiryAmount(seen, d),
                               !["4020"] = -ExpiryAmount(seen, d)]
      [] d.kind = "credit" /\ m = d.month ->
            [NoMovement EXCEPT !["4090"] = d.amount, !["1100"] = -d.amount]
      [] d.kind = "subscription" /\ m \in Calendar(h) ->
            LET amount == SubscriptionAmount(seen, h, d.subscription, m)
            IN  [NoMovement EXCEPT !["1100"] = amount, !["4010"] = -amount]
      [] OTHER -> NoMovement

\* The view "recognized": the revenue of document d in month m, by source.
ColumnarRevenue(seen, h, d, m) ==
    CASE d.kind = "invoice" /\ m \in Calendar(h) /\ Serves(d, m) ->
            LET draw == Share(Draw(seen, d), d, m)
            IN  [NoRevenue EXCEPT !["commit_drawdown"] = draw,
                    !["usage"] = Share(d.net, d, m) - Share(d.fee, d, m) - draw]
      [] d.kind = "expiry" /\ m = MonthOf(d.ts) /\ m < h ->
            [NoRevenue EXCEPT !["commit_drawdown"] = ExpiryAmount(seen, d)]
      [] d.kind = "credit" /\ m = d.month /\ m < h -> [NoRevenue EXCEPT !["usage"] = -d.amount]
      [] d.kind = "subscription" /\ m \in Calendar(h) ->
            [NoRevenue EXCEPT !["subscription"] = SubscriptionAmount(seen, h, d.subscription, m)]
      [] OTHER -> NoRevenue

\* One poster per subscription, however many events it has.
Posters(seen) == {d \in seen : d.kind # "subscription" \/ After(seen, d) = {}}
ColumnarJournal(seen, h) ==
    [line \in Lines |->
        LET d == {p \in Posters(seen) : Poster(p) = line[1]}
        IN  IF d = {} THEN NoMovement
            ELSE ColumnarMovement(seen, h, CHOOSE p \in d : TRUE, line[2])]
ColumnarEarnings(seen, h) ==
    [line \in Lines |->
        LET d == {p \in Posters(seen) : Poster(p) = line[1]}
        IN  IF d = {} THEN NoRevenue
            ELSE ColumnarRevenue(seen, h, CHOOSE p \in d : TRUE, line[2])]

\* accounting_errors.
Duplicated(S, field) == \E d, e \in S : d # e /\ d[field] = e[field]
InvalidInvoice(seen, i) ==
    \/ i.end <= i.start \/ i.fee > i.net
    \/ i.contract # None /\ ContractOf(seen, i) = {}
    \/ \E c \in ContractOf(seen, i) : i.start < c.start \/ i.end > c.end
    \/ Draw(seen, i) > 0 /\ i.fee # 0
InvalidExpiry(seen, x) ==
    \/ ContractOf(seen, x) = {}
    \/ \E i \in Invoices(seen) : i.contract = x.contract /\ i.end > x.ts
AccountingErrors(seen) ==
    \/ Duplicated(Invoices(seen), "invoice") \/ Duplicated(Contracts(seen), "contract")
    \/ Duplicated(Credits(seen), "credit") \/ Duplicated(Expiries(seen), "contract")
    \/ \E i \in Invoices(seen) : InvalidInvoice(seen, i)
    \/ \E c \in Credits(seen) : ~\E i \in Invoices(seen) : i.invoice = c.invoice
    \/ \E x \in Expiries(seen) : InvalidExpiry(seen, x)
    \/ \E e \in Subscriptions(seen) : ~e.monthly

\* journal_errors: month by month over all documents.
JournalErrors(seen, h) ==
    LET journal == ColumnarJournal(seen, h)
        earnings == ColumnarEarnings(seen, h)
        Month(m) == {line \in Lines : line[2] = m}
    IN  \E m \in Months :
            \/ SumFunction([l \in Month(m) |-> Balance(journal[l])]) # 0
            \/ SumFunction([l \in Month(m) |-> Earned(earnings[l]) + Revenue(journal[l])]) # 0

BookErrors(seen, h) == AccountingErrors(seen) \/ JournalErrors(seen, h)

\* core_errors: a batch is billed once, a subscription has been started before
\* anything else happens to it, and no customer pays for two at a time.
Unstarted(seen, e) ==
    /\ e.activity # "started"
    /\ ~\E s \in EventsOf(seen, e.subscription) : s.activity = "started" /\ s.ts <= e.ts
PaidTogether(seen, h, e, f) ==
    /\ e.customer = f.customer /\ e.subscription # f.subscription /\ e.seats > 0 /\ f.seats > 0
    /\ Greatest(e.ts, f.ts) < Least(StopDay(seen, h, e), StopDay(seen, h, f))
CoreErrors(seen, h) ==
    \/ AccountingErrors(seen) \/ Duplicated(Invoices(seen), "batch")
    \/ \E e \in Subscriptions(seen) : Unstarted(seen, e)
    \/ \E e, f \in Subscriptions(seen) : PaidTogether(seen, h, e, f)

\* token_errors: the tokens of a batch share what its invoice earned, month by
\* month, and where there are none nothing may have been earned or paid in fees
\* (a batch that two invoices bill is refused as it is).
TokenErrors(seen, h) ==
    \E i \in Invoices(seen), m \in Calendar(h) :
        /\ Serves(i, m) /\ ~Metered(seen, i, m)
        /\ Share(i.fee, i, m) # 0 \/ Share(i.net, i, m) # Share(i.fee, i, m)

\* A pack of every output runs the checks of every domain.
ColumnarErrors(seen, h) == CoreErrors(seen, h) \/ JournalErrors(seen, h) \/ TokenErrors(seen, h)
=============================================================================
