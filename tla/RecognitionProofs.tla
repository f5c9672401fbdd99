-------------------------- MODULE RecognitionProofs --------------------------
(***************************************************************************)
(* Proof, for every set of documents and every calendar, that the books    *)
(* the sequential recognition builds balance line by line at every step.   *)
(* The invariant carries the types of the running amounts: they are what   *)
(* makes the amounts of one line cancel.                                   *)
(*                                                                         *)
(* Then, that the sequential loop and the columnar views agree.  Between   *)
(* two steps, what the loop has posted is a beginning of its order of      *)
(* posting, every row posted is the one the views give, what is left of a  *)
(* commitment is what their window sums leave, the rounding cursor is where*)
(* their window ends, and nothing posted is an error of theirs.  From it   *)
(* follows that commitments are spent once, and in the order of service.   *)
(*                                                                         *)
(* And, of the metric runs: for any events, definitions of rows, invariants*)
(* of a report, callers and bounds, every receipt that the code claims to  *)
(* be able to perform again can be, and what a restatement names as a cause*)
(* is the smallest.  The invariant says that a recorded run is what its    *)
(* artifacts make of a prefix of the stream; that what a command knows is  *)
(* as good as long as nobody edits the artifacts; and, of an evaluation    *)
(* under way, that the sets of documents tried come before all others.     *)
(***************************************************************************)
EXTENDS MCRecognition, FiniteSetTheorems, SequenceTheorems, WellFoundedInduction, TLAPS

Movements == [Accounts -> Int]
Revenues == [Sources -> Int]

RunningState ==
    /\ docs \subseteq Documents /\ left \subseteq Documents
    /\ status \in {"idle", "posting", "accepted", "refused"}
    /\ horizon \in Nat
    /\ status = "posting" => horizon \in 2 .. Len(MonthStart)
    /\ remaining \in [ContractKeys -> Nat]
    /\ cursor \in [price : Nat, end : Nat, cents : [Months -> Int]]
BookTypes == journal \in [Lines -> Movements] /\ earnings \in [Lines -> Revenues]
BooksInv == RunningState /\ BookTypes /\ DocumentsBalance

\* A line as one document leaves it in one month.
Settled(movement, revenue) ==
    /\ movement \in Movements /\ revenue \in Revenues
    /\ Balance(movement) = 0 /\ Earned(revenue) + Revenue(movement) = 0

(***************************************************************************)
(* The calendar and the arithmetic.                                        *)
(***************************************************************************)
LEMMA MonthFacts ==
    ASSUME NEW m \in Months
    PROVE  /\ m \in Int /\ MonthStart[m] \in Nat /\ MonthStart[m + 1] \in Nat
           /\ Days(m) \in Nat /\ Days(m) > 0
  BY MonthsAssumption DEF Months, Days

LEMMA HalfUpType ==
    ASSUME NEW n \in Int, NEW d \in Nat, d > 0
    PROVE  HalfUp(n, d) \in Int
  <1>1. 2 * d \in Nat /\ 2 * d > 0
    OBVIOUS
  <1>2. \A x \in Int : x \div (2 * d) \in Int
    BY <1>1
  <1>3. d - 2 * n \in Int /\ 2 * n + d \in Int
    OBVIOUS
  <1> QED
    BY <1>2, <1>3 DEF HalfUp

LEMMA SpreadType ==
    ASSUME NEW amount \in Int, NEW start \in Nat, NEW end \in Nat, start < end
    PROVE  Spread(amount, start, end) \in [Months -> Int]
  <1> SUFFICES ASSUME NEW m \in Months
               PROVE  Spread(amount, start, end)[m] \in Int
    BY DEF Spread
  <1>1. /\ Least(end, MonthStart[m + 1]) \in Int
        /\ Greatest(start, MonthStart[m]) \in Int
    BY MonthFacts DEF Least, Greatest
  <1>2. /\ amount * (Least(end, MonthStart[m + 1]) - start) \in Int
        /\ amount * (Greatest(start, MonthStart[m]) - start) \in Int
    BY <1>1
  <1>3. end - start \in Nat /\ end - start > 0
    OBVIOUS
  <1> QED
    BY <1>2, <1>3, HalfUpType DEF Spread

(***************************************************************************)
(* The lines of the five kinds of document.                                *)
(***************************************************************************)
LEMMA NothingSettled == Settled(NoMovement, NoRevenue)
  <1>1. NoMovement \in Movements /\ NoRevenue \in Revenues
    BY DEF Movements, Revenues, NoMovement, NoRevenue
  <1>2. \A a \in Accounts : NoMovement[a] = 0
    BY DEF NoMovement
  <1>3. \A s \in Sources : NoRevenue[s] = 0
    BY DEF NoRevenue
  <1>4. Revenue(NoMovement) = 0 /\ Balance(NoMovement) = 0
    BY <1>2 DEF Accounts, Revenue, Balance
  <1>5. Earned(NoRevenue) = 0
    BY <1>3 DEF Sources, Earned
  <1>6. Earned(NoRevenue) + Revenue(NoMovement) = 0
    BY <1>4, <1>5
  <1> QED
    BY <1>1, <1>4, <1>6 DEF Settled

LEMMA CommitmentBalances ==
    ASSUME NEW c \in Int
    PROVE  LET movement == [NoMovement EXCEPT !["1100"] = c, !["2100"] = -c]
           IN  movement \in Movements /\ Balance(movement) = 0 /\ Revenue(movement) = 0
  BY DEF Movements, NoMovement, Balance, Revenue, Accounts

LEMMA InvoiceSettled ==
    ASSUME NEW net \in Int, NEW fee \in Int, NEW draw \in Int
    PROVE  Settled(InvoiceMovement(net, fee, draw),
                   [NoRevenue EXCEPT !["commit_drawdown"] = draw, !["usage"] = net - fee - draw])
  BY DEF Settled, InvoiceMovement, Movements, Revenues, NoMovement, NoRevenue,
         Balance, Revenue, Earned, Accounts, Sources

LEMMA ExpirySettled ==
    ASSUME NEW amount \in Int
    PROVE  Settled([NoMovement EXCEPT !["2100"] = amount, !["4020"] = -amount],
                   [NoRevenue EXCEPT !["commit_drawdown"] = amount])
  BY DEF Settled, Movements, Revenues, NoMovement, NoRevenue, Balance, Revenue, Earned, Accounts, Sources

LEMMA CreditSettled ==
    ASSUME NEW amount \in Int
    PROVE  Settled([NoMovement EXCEPT !["4090"] = amount, !["1100"] = -amount],
                   [NoRevenue EXCEPT !["usage"] = -amount])
  BY DEF Settled, Movements, Revenues, NoMovement, NoRevenue, Balance, Revenue, Earned, Accounts, Sources

LEMMA SubscriptionSettled ==
    ASSUME NEW amount \in Int
    PROVE  Settled([NoMovement EXCEPT !["1100"] = amount, !["4010"] = -amount],
                   [NoRevenue EXCEPT !["subscription"] = amount])
  BY DEF Settled, Movements, Revenues, NoMovement, NoRevenue, Balance, Revenue, Earned, Accounts, Sources

\* Posting lines that are settled within the horizon, and balanced past it,
\* keeps the books balanced.
LEMMA PostKeepsBooks ==
    ASSUME NEW d, NEW movement, NEW revenue, BookTypes, DocumentsBalance, horizon \in Nat, horizon' = horizon,
           Post(d, movement, revenue),
           \A m \in Months : /\ movement[m] \in Movements /\ Balance(movement[m]) = 0
                             /\ m < horizon => Settled(movement[m], revenue[m])
    PROVE  BookTypes' /\ DocumentsBalance'
  <1>1. ASSUME NEW line \in Lines
        PROVE  /\ journal'[line] \in Movements /\ earnings'[line] \in Revenues
               /\ Balance(journal'[line]) = 0
               /\ line[2] < horizon => Earned(earnings'[line]) + Revenue(journal'[line]) = 0
    <2>1. line[2] \in Months
      BY DEF Lines
    <2>2. CASE line[1] = Poster(d) /\ line[2] < horizon
      <3>1. journal'[line] = movement[line[2]] /\ earnings'[line] = revenue[line[2]]
        BY <2>2 DEF Post
      <3> QED
        BY <2>1, <2>2, <3>1 DEF Settled
    <2>3. CASE line[1] = Poster(d) /\ ~(line[2] < horizon)
      <3>1. journal'[line] = movement[line[2]] /\ earnings'[line] = earnings[line]
        BY <2>3 DEF Post
      <3> QED
        BY <2>1, <2>3, <3>1 DEF BookTypes
    <2>4. CASE line[1] # Poster(d)
      <3>1. journal'[line] = journal[line] /\ earnings'[line] = earnings[line]
        BY <2>4 DEF Post
      <3> QED
        BY <3>1 DEF BookTypes, DocumentsBalance
    <2> QED
      BY <2>2, <2>3, <2>4
  <1>2. journal' \in [Lines -> Movements] /\ earnings' \in [Lines -> Revenues]
    BY <1>1 DEF Post
  <1> QED
    BY <1>1, <1>2 DEF BookTypes, DocumentsBalance

(***************************************************************************)
(* The steps.                                                              *)
(***************************************************************************)
LEMMA BlankBooks ==
    ASSUME Blank, docs' \subseteq Documents, status' \in {"idle", "accepted", "refused"}, horizon' \in Nat
    PROVE  BooksInv'
  <1>1. NoCursor \in [price : Nat, end : Nat, cents : [Months -> Int]]
    BY DEF NoCursor
  <1>2. RunningState'
    BY <1>1 DEF Blank, RunningState, NoContracts
  <1>3. BookTypes'
    BY NothingSettled DEF Blank, BookTypes, BlankJournal, BlankEarnings, Settled
  <1>4. DocumentsBalance'
    BY NothingSettled DEF Blank, DocumentsBalance, BlankJournal, BlankEarnings, Settled
  <1> QED
    BY <1>2, <1>3, <1>4 DEF BooksInv

LEMMA InitBooks == Init => BooksInv
  <1> SUFFICES ASSUME Init PROVE BooksInv
    OBVIOUS
  <1>1. NoCursor \in [price : Nat, end : Nat, cents : [Months -> Int]]
    BY DEF NoCursor
  <1>2. RunningState
    BY <1>1, OpeningAssumption DEF Init, RunningState, NoContracts
  <1>3. BookTypes
    BY NothingSettled DEF Init, BookTypes, BlankJournal, BlankEarnings, Settled
  <1>4. DocumentsBalance
    BY NothingSettled DEF Init, DocumentsBalance, BlankJournal, BlankEarnings, Settled
  <1> QED
    BY <1>2, <1>3, <1>4 DEF BooksInv

LEMMA RefuseStep ==
    ASSUME BooksInv, Refuse
    PROVE  BooksInv'
  <1>1. /\ docs' \subseteq Documents /\ status' \in {"idle", "accepted", "refused"} /\ horizon' \in Nat
        /\ Blank
    BY DEF BooksInv, RunningState, Refuse
  <1> QED
    BY <1>1, BlankBooks

LEMMA OpenStep ==
    ASSUME BooksInv, NEW h \in 2 .. Len(MonthStart), Open(h)
    PROVE  BooksInv'
  <1> DEFINE visible == Visible(docs, h)
             signed(line) == {c \in Contracts(visible) : c.id = line[1] /\ MonthOf(c.ts) = line[2]}
  <1>0. h \in Nat /\ visible \subseteq Documents /\ docs' = docs /\ horizon' = h /\ docs \subseteq Documents
    BY MonthsAssumption DEF Open, Visible, BooksInv, RunningState
  <1>1. CASE status' = "refused" /\ Blank
    BY <1>0, <1>1, BlankBooks
  <1>2. CASE status' # "refused"
    <2>1. /\ status' = "posting"
          /\ left' = visible \ (Contracts(visible) \union Tokens(visible))
          /\ remaining' = [key \in ContractKeys |->
                LET terms == {c \in Contracts(visible) : c.contract = key}
                IN  IF terms = {} THEN 0 ELSE (CHOOSE c \in terms : TRUE).commit]
          /\ journal' = [line \in Lines |->
                IF signed(line) = {} THEN NoMovement
                ELSE LET commit == (CHOOSE c \in signed(line) : TRUE).commit
                     IN  [NoMovement EXCEPT !["1100"] = commit, !["2100"] = -commit]]
          /\ earnings' = BlankEarnings
          /\ cursor' = NoCursor
      BY <1>2 DEF Open
    <2>2. \A c \in Contracts(visible) : c.commit \in Nat
      BY <1>0, DocumentsAssumption DEF Contracts, OfKind
    <2>3. remaining' \in [ContractKeys -> Nat]
      BY <2>1, <2>2
    <2>4. NoCursor \in [price : Nat, end : Nat, cents : [Months -> Int]]
      BY DEF NoCursor
    <2>5. RunningState'
      BY <1>0, <2>1, <2>3, <2>4 DEF RunningState
    <2>6. ASSUME NEW line \in Lines
          PROVE  journal'[line] \in Movements /\ Balance(journal'[line]) = 0 /\ Revenue(journal'[line]) = 0
      <3>1. CASE signed(line) = {}
        <4>1. journal'[line] = NoMovement
          BY <2>1, <3>1
        <4>2. NoMovement \in Movements /\ \A a \in Accounts : NoMovement[a] = 0
          BY DEF NoMovement, Movements
        <4>3. Revenue(NoMovement) = 0 /\ Balance(NoMovement) = 0
          BY <4>2 DEF Accounts, Revenue, Balance
        <4> QED
          BY <4>1, <4>2, <4>3
      <3>2. CASE signed(line) # {}
        <4>1. PICK c \in signed(line) : c = CHOOSE d \in signed(line) : TRUE
          BY <3>2
        <4>2. journal'[line] = [NoMovement EXCEPT !["1100"] = c.commit, !["2100"] = -c.commit]
          BY <2>1, <3>2, <4>1
        <4>3. c.commit \in Int
          BY <2>2, <4>1
        <4> QED
          BY <4>2, <4>3, CommitmentBalances
      <3> QED
        BY <3>1, <3>2
    <2>7. /\ NoRevenue \in Revenues /\ Earned(NoRevenue) = 0
          /\ \A line \in Lines : earnings'[line] = NoRevenue
          /\ earnings' = [line \in Lines |-> NoRevenue]
      <3>1. NoRevenue \in Revenues /\ \A s \in Sources : NoRevenue[s] = 0
        BY DEF NoRevenue, Revenues
      <3>2. Earned(NoRevenue) = 0
        BY <3>1 DEF Earned, Sources
      <3> QED
        BY <2>1, <3>1, <3>2 DEF BlankEarnings
    <2>8. BookTypes'
      BY <2>1, <2>6, <2>7 DEF BookTypes
    <2>9. DocumentsBalance'
      BY <2>6, <2>7 DEF DocumentsBalance
    <2> QED
      BY <2>5, <2>8, <2>9 DEF BooksInv
  <1> QED
    BY <1>1, <1>2 DEF Open

LEMMA SeenIsDocumented ==
    ASSUME BooksInv, NEW key, Known(key)
    PROVE  key \in ContractKeys
  BY DEF BooksInv, RunningState, Known, seen, Visible, Contracts, OfKind, ContractKeys

LEMMA InvoiceStep ==
    ASSUME BooksInv, NEW i \in left, TakeInvoice(i)
    PROVE  BooksInv'
  <1> DEFINE net == Spread(i.net, i.start, i.end)
             fee == Spread(i.fee, i.start, i.end)
             draw == Spread(Drawn(i), i.start, i.end)
             movement == [m \in Months |-> IF m < horizon THEN InvoiceMovement(net[m], fee[m], draw[m]) ELSE NoMovement]
             revenue == [m \in Months |-> [NoRevenue EXCEPT !["commit_drawdown"] = draw[m],
                                                          !["usage"] = net[m] - fee[m] - draw[m]]]
  <1>1. CASE Refuse
    BY <1>1, RefuseStep
  <1>2. CASE ~Unserviceable(i) /\ ~Refuse
    <2>1. /\ left' = left \ {i}
          /\ remaining' = [c \in ContractKeys |-> IF c = i.contract THEN remaining[c] - Drawn(i) ELSE remaining[c]]
          /\ Post(i, movement, revenue)
          /\ docs' = docs /\ status' = status /\ horizon' = horizon /\ cursor' = cursor
      BY <1>2 DEF TakeInvoice
    <2>2. /\ i \in Documents /\ i.kind = "invoice"
          /\ i.net \in Nat /\ i.fee \in Nat /\ i.start \in Nat /\ i.end \in Nat
      BY DocumentsAssumption DEF TakeInvoice, Invoices, OfKind, BooksInv, RunningState
    <2>3. i.start < i.end
      BY <1>2, <2>2 DEF Unserviceable
    <2>4. i.contract # None => i.contract \in ContractKeys
      BY <1>2, SeenIsDocumented DEF Unserviceable
    <2>5. Available(i) \in Nat
      BY <2>4 DEF Available, BooksInv, RunningState
    <2>6. Drawn(i) \in Nat /\ Drawn(i) <= Available(i)
      BY <2>2, <2>5 DEF Drawn, Least
    <2>7. remaining' \in [ContractKeys -> Nat]
      <3> SUFFICES ASSUME NEW c \in ContractKeys
                   PROVE  (IF c = i.contract THEN remaining[c] - Drawn(i) ELSE remaining[c]) \in Nat
        BY <2>1
      <3>1. remaining[c] \in Nat
        BY DEF BooksInv, RunningState
      <3>2. CASE c = i.contract /\ i.contract = None
        <4>1. Drawn(i) = 0
          BY <2>6, <3>2 DEF Available
        <4> QED
          BY <3>1, <4>1
      <3>3. CASE c = i.contract /\ i.contract # None
        <4>1. Drawn(i) <= remaining[c]
          BY <2>6, <3>3 DEF Available
        <4> QED
          BY <2>6, <3>1, <4>1
      <3> QED
        BY <3>1, <3>2, <3>3
    <2>8. net \in [Months -> Int] /\ fee \in [Months -> Int] /\ draw \in [Months -> Int]
      BY <2>2, <2>3, <2>6, SpreadType
    <2>9. ASSUME NEW m \in Months
          PROVE  /\ movement[m] \in Movements /\ Balance(movement[m]) = 0
                 /\ m < horizon => Settled(movement[m], revenue[m])
      <3> HIDE DEF net, fee, draw
      <3>1. CASE m < horizon
        <4>1. Settled(InvoiceMovement(net[m], fee[m], draw[m]),
                      [NoRevenue EXCEPT !["commit_drawdown"] = draw[m], !["usage"] = net[m] - fee[m] - draw[m]])
          BY <2>8, InvoiceSettled
        <4> QED
          BY <3>1, <4>1 DEF Settled
      <3>2. CASE ~(m < horizon)
        BY <3>2, NothingSettled DEF Settled
      <3> QED
        BY <3>1, <3>2
    <2>10. BookTypes' /\ DocumentsBalance'
      <3> HIDE DEF movement, revenue
      <3> QED
        BY <2>1, <2>9, PostKeepsBooks DEF BooksInv, RunningState
    <2>11. RunningState'
      BY <2>1, <2>7 DEF BooksInv, RunningState
    <2> QED
      BY <2>10, <2>11 DEF BooksInv
  <1> QED
    BY <1>1, <1>2 DEF TakeInvoice

\* A document posted in one month alone.
LEMMA MonthlySettled ==
    ASSUME NEW month, NEW movement, NEW revenue, Settled(movement, revenue), NEW m \in Months
    PROVE  Settled(Monthly(month, movement, NoMovement)[m], Monthly(month, revenue, NoRevenue)[m])
  BY NothingSettled DEF Monthly

LEMMA ExpiryStep ==
    ASSUME BooksInv, NEW x \in left, TakeExpiry(x)
    PROVE  BooksInv'
  <1> DEFINE amount == remaining[x.contract]
             movement == Monthly(MonthOf(x.ts), [NoMovement EXCEPT !["2100"] = amount, !["4020"] = -amount], NoMovement)
             revenue == Monthly(MonthOf(x.ts), [NoRevenue EXCEPT !["commit_drawdown"] = amount], NoRevenue)
  <1>1. CASE Refuse
    BY <1>1, RefuseStep
  <1>2. CASE Known(x.contract) /\ ~Refuse
    <2>1. /\ left' = left \ {x} /\ remaining' = [remaining EXCEPT ![x.contract] = 0]
          /\ Post(x, movement, revenue)
          /\ docs' = docs /\ status' = status /\ horizon' = horizon /\ cursor' = cursor
      BY <1>2 DEF TakeExpiry
    <2>2. amount \in Int /\ remaining' \in [ContractKeys -> Nat]
      BY <1>2, <2>1, SeenIsDocumented DEF BooksInv, RunningState
    <2>3. \A m \in Months : Settled(movement[m], revenue[m])
      <3> HIDE DEF amount
      <3> QED
        BY <2>2, ExpirySettled, MonthlySettled
    <2>4. BookTypes' /\ DocumentsBalance'
      <3> HIDE DEF movement, revenue
      <3> QED
        BY <2>1, <2>3, PostKeepsBooks DEF BooksInv, RunningState, Settled
    <2>5. RunningState'
      BY <2>1, <2>2 DEF BooksInv, RunningState
    <2> QED
      BY <2>4, <2>5 DEF BooksInv
  <1> QED
    BY <1>1, <1>2 DEF TakeExpiry

LEMMA CreditStep ==
    ASSUME BooksInv, NEW c \in left, TakeCredit(c)
    PROVE  BooksInv'
  <1> DEFINE movement == Monthly(c.month, [NoMovement EXCEPT !["4090"] = c.amount, !["1100"] = -c.amount], NoMovement)
             revenue == Monthly(c.month, [NoRevenue EXCEPT !["usage"] = -c.amount], NoRevenue)
  <1>1. CASE Refuse
    BY <1>1, RefuseStep
  <1>2. CASE ~Refuse
    <2>1. /\ left' = left \ {c} /\ remaining' = remaining
          /\ Post(c, movement, revenue)
          /\ docs' = docs /\ status' = status /\ horizon' = horizon /\ cursor' = cursor
      BY <1>2 DEF TakeCredit
    <2>2. c.amount \in Int
      BY DocumentsAssumption DEF TakeCredit, Credits, OfKind, BooksInv, RunningState
    <2>3. \A m \in Months : Settled(movement[m], revenue[m])
      BY <2>2, CreditSettled, MonthlySettled
    <2>4. BookTypes' /\ DocumentsBalance'
      <3> HIDE DEF movement, revenue
      <3> QED
        BY <2>1, <2>3, PostKeepsBooks DEF BooksInv, RunningState, Settled
    <2>5. RunningState'
      BY <2>1 DEF BooksInv, RunningState
    <2> QED
      BY <2>4, <2>5 DEF BooksInv
  <1> QED
    BY <1>1, <1>2 DEF TakeCredit

LEMMA EventStep ==
    ASSUME BooksInv, NEW e \in left, TakeEvent(e)
    PROVE  BooksInv'
  <1> DEFINE before == IF IsFirst(e) THEN [NoCursor EXCEPT !.end = MonthStart[horizon]] ELSE cursor
             price == IF e.price = None THEN before.price ELSE e.price
             paid == IF e.end = None THEN before.end ELSE e.end
             next == IF IsLast(e) THEN MonthStart[horizon] ELSE Following(e).ts
             stop == Least(Least(paid, MonthStart[horizon]), next)
             cents == [m \in Months |-> before.cents[m] +
                        (IF m \in Periods(e.ts, stop)
                         THEN price * e.seats * (Least(stop, MonthStart[m + 1]) - Greatest(e.ts, MonthStart[m]))
                         ELSE 0)]
             amount == [m \in Months |-> HalfUp(cents[m], Days(m))]
             movement == [m \in Months |-> [NoMovement EXCEPT !["1100"] = amount[m], !["4010"] = -amount[m]]]
             revenue == [m \in Months |-> [NoRevenue EXCEPT !["subscription"] = amount[m]]]
  <1>1. CASE Refuse
    BY <1>1, RefuseStep
  <1>2. CASE ~Refuse
    <2>1. /\ left' = left \ {e} /\ cursor' = [price |-> price, end |-> paid, cents |-> cents]
          /\ IF IsLast(e) THEN Post(e, movement, revenue) ELSE UNCHANGED <<journal, earnings>>
          /\ docs' = docs /\ status' = status /\ horizon' = horizon /\ remaining' = remaining
      BY <1>2 DEF TakeEvent
    <2>2. /\ e \in Documents /\ e.kind = "subscription"
          /\ e.price \in Nat \union {None} /\ e.end \in Nat \union {None} /\ e.seats \in Nat /\ e.ts \in Nat
      <3>1. e \in Documents /\ e.kind = "subscription"
        BY DEF TakeEvent, Subscriptions, OfKind, BooksInv, RunningState
      <3> QED
        BY <3>1, DocumentsAssumption
    <2>3. MonthStart[horizon] \in Nat
      BY MonthsAssumption DEF TakeEvent, BooksInv, RunningState
    <2>4. before \in [price : Nat, end : Nat, cents : [Months -> Int]]
      BY <2>3 DEF NoCursor, BooksInv, RunningState
    <2>5. price \in Nat /\ paid \in Nat
      BY <2>2, <2>4
    <2>6. next \in Nat
      <3>1. CASE IsLast(e)
        BY <2>3, <3>1
      <3>2. CASE ~IsLast(e)
        <4>1. Following(e) \in Siblings(e)
          BY <3>2 DEF IsLast, Following
        <4>2. Following(e) \in Documents /\ Following(e).kind = "subscription"
          BY <4>1 DEF Siblings, Subscriptions, OfKind, seen, Visible, BooksInv, RunningState
        <4> QED
          BY <3>2, <4>2, DocumentsAssumption
      <3> QED
        BY <3>1, <3>2
    <2>7. stop \in Nat
      BY <2>3, <2>5, <2>6 DEF Least
    <2>8. cents \in [Months -> Int]
      <3> HIDE DEF before, price, stop
      <3> SUFFICES ASSUME NEW m \in Months
                   PROVE  cents[m] \in Int
        OBVIOUS
      <3>1. /\ Least(stop, MonthStart[m + 1]) \in Int
            /\ Greatest(e.ts, MonthStart[m]) \in Int
        BY <2>2, <2>7, MonthFacts DEF Least, Greatest
      <3>2. price * e.seats \in Int
        BY <2>2, <2>5
      <3>3. price * e.seats * (Least(stop, MonthStart[m + 1]) - Greatest(e.ts, MonthStart[m])) \in Int
        BY <3>1, <3>2
      <3>4. before.cents[m] \in Int
        BY <2>4
      <3> QED
        BY <3>3, <3>4
    <2>9. amount \in [Months -> Int]
      <3> HIDE DEF cents
      <3> QED
        BY <2>8, MonthFacts, HalfUpType
    <2>10. BookTypes' /\ DocumentsBalance'
      <3>1. CASE IsLast(e)
        <4>1. \A m \in Months : Settled(movement[m], revenue[m])
          <5> HIDE DEF amount
          <5> QED
            BY <2>9, SubscriptionSettled
        <4> HIDE DEF movement, revenue
        <4> QED
          BY <2>1, <3>1, <4>1, PostKeepsBooks DEF BooksInv, RunningState, Settled
      <3>2. CASE ~IsLast(e)
        BY <2>1, <3>2 DEF BooksInv, BookTypes, DocumentsBalance
      <3> QED
        BY <3>1, <3>2
    <2>11. RunningState'
      <3> HIDE DEF price, paid, cents
      <3> QED
        BY <2>1, <2>5, <2>8 DEF BooksInv, RunningState
    <2> QED
      BY <2>10, <2>11 DEF BooksInv
  <1> QED
    BY <1>1, <1>2 DEF TakeEvent

\* One step per action of Next.
LEMMA NextKeepsBooks == BooksInv /\ [Next]_vars => BooksInv'
  <1> SUFFICES ASSUME BooksInv, [Next]_vars PROVE BooksInv'
    OBVIOUS
  <1>1. ASSUME NEW d \in Documents, Record(d) PROVE BooksInv'
    <2>1. RunningState'
      BY <1>1 DEF Record, report, BooksInv, RunningState
    <2>2. BookTypes' /\ DocumentsBalance'
      BY <1>1 DEF Record, report, BooksInv, BookTypes, DocumentsBalance
    <2> QED
      BY <2>1, <2>2 DEF BooksInv
  <1>2. ASSUME NEW h \in 2 .. Len(MonthStart), Open(h) PROVE BooksInv'
    BY <1>2, OpenStep
  <1>3. ASSUME NEW d \in left, TakeInvoice(d) \/ TakeExpiry(d) \/ TakeCredit(d) \/ TakeEvent(d)
        PROVE  BooksInv'
    BY <1>3, InvoiceStep, ExpiryStep, CreditStep, EventStep
  <1>4. CASE Check
    <2>1. CASE Refuse
      BY <2>1, RefuseStep
    <2>2. CASE status' = "accepted" /\ UNCHANGED <<docs, report>>
      <3>1. RunningState'
        BY <2>2 DEF report, BooksInv, RunningState
      <3>2. BookTypes' /\ DocumentsBalance'
        BY <2>2 DEF report, BooksInv, BookTypes, DocumentsBalance
      <3> QED
        BY <3>1, <3>2 DEF BooksInv
    <2> QED
      BY <1>4, <2>1, <2>2 DEF Check
  <1>5. CASE Close
    <2>1. /\ Blank /\ docs' \subseteq Documents /\ horizon' \in Nat
          /\ status' \in {"idle", "accepted", "refused"}
      BY <1>5 DEF Close, BooksInv, RunningState
    <2> QED
      BY <2>1, BlankBooks
  <1>6. CASE UNCHANGED vars
    <2>1. RunningState'
      BY <1>6 DEF vars, report, BooksInv, RunningState
    <2>2. BookTypes' /\ DocumentsBalance'
      BY <1>6 DEF vars, report, BooksInv, BookTypes, DocumentsBalance
    <2> QED
      BY <2>1, <2>2 DEF BooksInv
  <1> QED
    BY <1>1, <1>2, <1>3, <1>4, <1>5, <1>6 DEF Next

\* Every document balances in every month at every step of a report, whatever
\* the documents and however long the months (journal lines of "recognize").
THEOREM BooksBalance == Spec => []DocumentsBalance
  <1>1. BooksInv => DocumentsBalance
    BY DEF BooksInv
  <1> QED
    BY <1>1, InitBooks, NextKeepsBooks, PTL DEF Spec

\* No invoice or expiry takes more from a contract than is left of it.
NeverOverdrawn == \A key \in ContractKeys : remaining[key] >= 0
THEOREM CommitmentsHold == Spec => []NeverOverdrawn
  <1>1. BooksInv => NeverOverdrawn
    BY DEF BooksInv, RunningState, NeverOverdrawn
  <1> QED
    BY <1>1, InitBooks, NextKeepsBooks, PTL DEF Spec

-----------------------------------------------------------------------------
(* Metric runs (MetricRuns, as Metrics), for any events, definitions of     *)
(* rows, invariants, callers and bounds.                                    *)

\* A strict total order of F.
Orders(R, F) ==
    /\ \A x \in F : <<x, x>> \notin R
    /\ \A x, y, z \in F : <<x, y>> \in R /\ <<y, z>> \in R => <<x, z>> \in R
    /\ \A x, y \in F : x = y \/ <<x, y>> \in R \/ <<y, x>> \in R

(* A finite set has a least element of a strict total order.                *)
LEMMA LeastExists ==
    ASSUME NEW F, IsFiniteSet(F), F # {}, NEW R, Orders(R, F)
    PROVE  \E x \in F : \A y \in F : y = x \/ <<x, y>> \in R
<1> DEFINE Below(x) == {y \in F : <<y, x>> \in R}
           Belows == {Below(x) : x \in F}
<1>1. /\ \A x \in F : <<x, x>> \notin R
      /\ \A x, y, z \in F : <<x, y>> \in R /\ <<y, z>> \in R => <<x, z>> \in R
      /\ \A x, y \in F : x = y \/ <<x, y>> \in R \/ <<y, x>> \in R
    BY DEF Orders
<1>2. IsWellFoundedOn(StrictSubsetOrdering(F), FiniteSubsetsOf(F))
    BY FS_StrictSubsetOrderingWellFounded
<1>3. Belows \subseteq FiniteSubsetsOf(F) /\ Belows # {}
    <2>1. \A x \in F : Below(x) \in SUBSET F
        OBVIOUS
    <2>2. \A x \in F : IsFiniteSet(Below(x))
        BY <2>1, FS_Subset
    <2>3. \A x \in F : Below(x) \in FiniteSubsetsOf(F)
        BY <2>1, <2>2 DEF FiniteSubsetsOf
    <2> HIDE DEF Below
    <2> QED BY <2>3
<1>4. PICK least \in Belows : \A b \in Belows : ~ (<<b, least>> \in StrictSubsetOrdering(F))
    BY <1>2, <1>3, WFMin
<1>5. PICK x \in F : least = Below(x)
    OBVIOUS
<1>6. Below(x) = {}
    <2> SUFFICES ASSUME NEW y \in F, <<y, x>> \in R PROVE FALSE
        OBVIOUS
    <2>1. Below(y) \subseteq Below(x) /\ y \in Below(x) /\ y \notin Below(y)
        BY <1>1
    <2>2. Below(y) \in SUBSET F /\ Below(x) \in SUBSET F /\ Below(y) \in Belows
        OBVIOUS
    <2>3. <<Below(y), Below(x)>> \in StrictSubsetOrdering(F)
        <3> HIDE DEF Below, Belows
        <3> QED BY <2>1, <2>2 DEF StrictSubsetOrdering
    <2> QED BY <1>4, <1>5, <2>2, <2>3
<1> QED BY <1>6, <1>1

LEMMA CardinalityIsOne == \A S : Metrics!Cardinality(S) = Cardinality(S)
BY DEF Cardinality, Metrics!Cardinality

LEMMA LeastNumber ==
    ASSUME NEW S, S \subseteq Nat, IsFiniteSet(S), S # {}
    PROVE  \E n \in S : \A m \in S : n <= m
<1> DEFINE R == {p \in S \X S : p[1] < p[2]}
<1>1. \A x, y \in S : <<x, y>> \in R <=> x < y
    OBVIOUS
<1> HIDE DEF R
<1>2. \A x \in S : <<x, x>> \notin R
    BY <1>1
<1>3. \A x, y \in S : x = y \/ <<x, y>> \in R \/ <<y, x>> \in R
    <2>1. \A x, y \in S : x = y \/ x < y \/ y < x
        OBVIOUS
    <2> QED BY <1>1, <2>1
<1>4. \A x, y, z \in S : <<x, y>> \in R /\ <<y, z>> \in R => <<x, z>> \in R
    <2>1. \A x, y, z \in S : x < y /\ y < z => x < z
        OBVIOUS
    <2> QED BY <1>1, <2>1
<1>5. \E n \in S : \A m \in S : m = n \/ <<n, m>> \in R
    <2>1. Orders(R, S)
        BY <1>2, <1>3, <1>4 DEF Orders
    <2> QED BY <2>1, LeastExists
<1>6. \E n \in S : \A m \in S : m = n \/ n < m
    BY <1>1, <1>5
<1> QED BY <1>6

(***************************************************************************)
(* The order in which sets of documents are tried.                         *)
(***************************************************************************)
Documented(D) == D \subseteq Nat /\ IsFiniteSet(D)

\* Same size, and the least number they do not share is in the first.
Sooner(D, E) == \E d \in D \ E : \A x \in (D \ E) \union (E \ D) : d <= x

LEMMA PrecedesIs ==
    ASSUME NEW D, NEW E
    PROVE  Metrics!Precedes(D, E) <=> \/ Cardinality(D) < Cardinality(E)
                                      \/ Cardinality(D) = Cardinality(E) /\ Sooner(D, E)
<1>1. Metrics!Cardinality(D) = Cardinality(D) /\ Metrics!Cardinality(E) = Cardinality(E)
    BY CardinalityIsOne
<1> QED BY <1>1 DEF Metrics!Precedes, Sooner

LEMMA SoonerIsOrder ==
    ASSUME NEW D, NEW E, Documented(D), Documented(E)
    PROVE  /\ ~ (Sooner(D, E) /\ Sooner(E, D))
           /\ D = E \/ Sooner(D, E) \/ Sooner(E, D)
           /\ ~ Sooner(D, D)
<1>1. \A x \in (D \ E) \union (E \ D) : x \in Nat
    BY DEF Documented
<1>2. ~ (Sooner(D, E) /\ Sooner(E, D))
    <2> SUFFICES ASSUME Sooner(D, E), Sooner(E, D) PROVE FALSE
        OBVIOUS
    <2>1. PICK d \in D \ E : \A x \in (D \ E) \union (E \ D) : d <= x
        BY DEF Sooner
    <2>2. PICK e \in E \ D : \A x \in (E \ D) \union (D \ E) : e <= x
        BY DEF Sooner
    <2>3. d <= e /\ e <= d /\ d \in Nat /\ e \in Nat
        BY <1>1, <2>1, <2>2
    <2>4. d = e
        BY <2>3
    <2> QED BY <2>4
<1>3. D = E \/ Sooner(D, E) \/ Sooner(E, D)
    <2> SUFFICES ASSUME D # E PROVE Sooner(D, E) \/ Sooner(E, D)
        OBVIOUS
    <2> DEFINE apart == (D \ E) \union (E \ D)
    <2>1. apart \subseteq Nat /\ apart # {} /\ apart \subseteq D \union E
        BY <1>1
    <2>2. IsFiniteSet(D \union E)
        BY FS_Union DEF Documented
    <2>3. IsFiniteSet(apart)
        <3>1. apart \in SUBSET (D \union E)
            BY <2>1
        <3> HIDE DEF apart
        <3> QED BY <2>2, <3>1, FS_Subset
    <2>4. PICK n \in apart : \A m \in apart : n <= m
        <3> HIDE DEF apart
        <3> QED BY <2>1, <2>3, LeastNumber
    <2>5. apart = (E \ D) \union (D \ E)
        OBVIOUS
    <2> QED BY <2>4, <2>5 DEF Sooner
<1>4. ~ Sooner(D, D)
    BY DEF Sooner
<1> QED BY <1>2, <1>3, <1>4

LEMMA SoonerIsTransitive ==
    ASSUME NEW D, NEW E, NEW F, Documented(D), Documented(E), Documented(F), Sooner(D, E), Sooner(E, F)
    PROVE  Sooner(D, F)
<1>1. PICK d \in D \ E : \A x \in (D \ E) \union (E \ D) : d <= x
    BY DEF Sooner
<1>2. PICK e \in E \ F : \A x \in (E \ F) \union (F \ E) : e <= x
    BY DEF Sooner
<1>3. /\ d \in Nat /\ e \in Nat /\ d # e
      /\ \A x \in (D \ F) \union (F \ D) : x \in Nat
    BY <1>1, <1>2 DEF Documented
<1>4. \A x \in (D \ F) \union (F \ D) : d <= x \/ e <= x
    BY <1>1, <1>2
<1>5. CASE d < e
    <2>1. ~ e <= d
        BY <1>3, <1>5
    <2>2. d \notin F
        BY <1>1, <1>2, <2>1
    <2>3. \A x \in (D \ F) \union (F \ D) : d <= x
        BY <1>3, <1>4, <1>5
    <2> QED BY <1>1, <2>2, <2>3 DEF Sooner
<1>6. CASE e < d
    <2>1. ~ d <= e
        BY <1>3, <1>6
    <2>2. e \in D
        BY <1>1, <1>2, <2>1
    <2>3. \A x \in (D \ F) \union (F \ D) : e <= x
        BY <1>3, <1>4, <1>6
    <2> QED BY <1>2, <2>2, <2>3 DEF Sooner
<1>7. d < e \/ e < d
    BY <1>3
<1> QED BY <1>5, <1>6, <1>7

LEMMA PrecedesIsOrder ==
    ASSUME NEW D, NEW E, Documented(D), Documented(E)
    PROVE  /\ ~ (Metrics!Precedes(D, E) /\ Metrics!Precedes(E, D))
           /\ D = E \/ Metrics!Precedes(D, E) \/ Metrics!Precedes(E, D)
           /\ ~ Metrics!Precedes(D, D)
           /\ Metrics!Precedes(D, E) => Cardinality(D) <= Cardinality(E)
<1>1. Cardinality(D) \in Nat /\ Cardinality(E) \in Nat
    BY FS_CardinalityType DEF Documented
<1>2. /\ ~ (Sooner(D, E) /\ Sooner(E, D))
      /\ D = E \/ Sooner(D, E) \/ Sooner(E, D)
      /\ ~ Sooner(D, D)
    BY SoonerIsOrder
<1>3. \A A, B : Metrics!Precedes(A, B) <=> \/ Cardinality(A) < Cardinality(B)
                                           \/ Cardinality(A) = Cardinality(B) /\ Sooner(A, B)
    BY PrecedesIs
<1> QED BY <1>1, <1>2, <1>3

LEMMA PrecedesIsTransitive ==
    ASSUME NEW D, NEW E, NEW F, Documented(D), Documented(E), Documented(F),
           Metrics!Precedes(D, E), Metrics!Precedes(E, F)
    PROVE  Metrics!Precedes(D, F)
<1>1. Cardinality(D) \in Nat /\ Cardinality(E) \in Nat /\ Cardinality(F) \in Nat
    BY FS_CardinalityType DEF Documented
<1>2. Sooner(D, E) /\ Sooner(E, F) => Sooner(D, F)
    BY SoonerIsTransitive
<1>3. \A A, B : Metrics!Precedes(A, B) <=> \/ Cardinality(A) < Cardinality(B)
                                           \/ Cardinality(A) = Cardinality(B) /\ Sooner(A, B)
    BY PrecedesIs
<1> QED BY <1>1, <1>2, <1>3

LEMMA FirstIsFirst ==
    ASSUME NEW sets, IsFiniteSet(sets), sets # {}, \A D \in sets : Documented(D)
    PROVE  /\ Metrics!FirstOf(sets) \in sets
           /\ \A E \in sets : E = Metrics!FirstOf(sets) \/ Metrics!Precedes(Metrics!FirstOf(sets), E)
<1> DEFINE R == {p \in sets \X sets : Metrics!Precedes(p[1], p[2])}
<1>1. \A D, E \in sets : <<D, E>> \in R <=> Metrics!Precedes(D, E)
    OBVIOUS
<1> HIDE DEF R
<1>2. /\ \A D \in sets : <<D, D>> \notin R
      /\ \A D, E \in sets : D = E \/ <<D, E>> \in R \/ <<E, D>> \in R
    BY <1>1, PrecedesIsOrder
<1>3. \A D, E, F \in sets : <<D, E>> \in R /\ <<E, F>> \in R => <<D, F>> \in R
    BY <1>1, PrecedesIsTransitive
<1>4. \E D \in sets : \A E \in sets : E = D \/ <<D, E>> \in R
    <2>1. Orders(R, sets)
        BY <1>2, <1>3 DEF Orders
    <2> QED BY <2>1, LeastExists
<1>5. \E D \in sets : \A E \in sets : E = D \/ Metrics!Precedes(D, E)
    BY <1>1, <1>4
<1> QED BY <1>5 DEF Metrics!FirstOf

LEMMA FirstIsUnique ==
    ASSUME NEW sets, IsFiniteSet(sets), \A D \in sets : Documented(D),
           NEW F \in sets, \A E \in sets : E = F \/ Metrics!Precedes(F, E)
    PROVE  Metrics!FirstOf(sets) = F
<1> DEFINE G == Metrics!FirstOf(sets)
<1>1. G \in sets /\ \A E \in sets : E = G \/ Metrics!Precedes(G, E)
    BY FirstIsFirst
<1> HIDE DEF G
<1>2. G = F \/ (Metrics!Precedes(F, G) /\ Metrics!Precedes(G, F))
    BY <1>1
<1>3. Documented(F) /\ Documented(G)
    BY <1>1
<1>4. G = F
    BY <1>2, <1>3, PrecedesIsOrder
<1> QED BY <1>4 DEF G

(***************************************************************************)
(* The evaluation of a restatement: what it has tried so far.              *)
(***************************************************************************)
Sets(old, new) == SUBSET Metrics!Groups(Metrics!Newly(old, new))
Works(v, old, new, D, k) == Metrics!Explains(v, old, new, D, k)
Fits(old, new, D) == Consistent(Metrics!Without(old, new, D))
Proven(D) == Metrics!Cause("proven_minimum_group_set", D)
Unresolved == Metrics!Cause("unresolved_candidates", {})

\* The sets tried come before all others; a row has the first of them that explains
\* it, or waits; and none was tried after the last row was resolved.
Progress(e, old, new) ==
    LET tried == Sets(old, new) \ e.left
    IN  /\ \A D \in tried, E \in e.left : Metrics!Precedes(D, E)
        /\ \A k \in e.waiting : e.causes[k] = Unresolved /\ \A D \in tried : ~ Works(e.artifacts, old, new, D, k)
        /\ \A k \in Metrics!Changed(old, new) \ e.waiting :
              \E F \in tried : /\ e.causes[k] = Proven(F) /\ Works(e.artifacts, old, new, F, k)
                               /\ \A D \in tried : Works(e.artifacts, old, new, D, k) => D = F \/ Metrics!Precedes(F, D)
        /\ e.invalid = {D \in tried : ~ Fits(old, new, D)}
        /\ e.waiting = {} => \A D \in tried : \E k \in Metrics!Changed(old, new) :
              D = e.causes[k].docs \/ Metrics!Precedes(D, e.causes[k].docs)
Evaluated(e, old, new) ==
    LET method == Metrics!Method(old, new, e.artifacts)
    IN  /\ e.causes = [k \in Metrics!Changed(old, new) |-> e.causes[k]]
        /\ e.waiting \subseteq Metrics!Changed(old, new)
        /\ e.left \subseteq Sets(old, new)
        /\ method = "proven_minimum_group_set" => Progress(e, old, new)
        /\ method # "proven_minimum_group_set" =>
              /\ e.waiting = {} /\ e.invalid = {}
              /\ \A k \in Metrics!Changed(old, new) : e.causes[k] = Metrics!Cause(method, {})

\* The late documents are finitely many.
Finite(old, new) == IsFiniteSet(Sets(old, new)) /\ \A D \in Sets(old, new) : Documented(D)

LEMMA LateIsFinite ==
    ASSUME Metrics!DocumentsAreNumbered, NEW old, NEW new, new.inputs \subseteq Events, IsFiniteSet(new.inputs)
    PROVE  Finite(old, new)
<1> DEFINE late == Metrics!Newly(old, new)
           G == Metrics!Groups(late)
           f == [e \in late |-> e.doc]
<1>1. late \in SUBSET new.inputs
    BY DEF Metrics!Newly
<1>2. IsFiniteSet(late) /\ \A e \in late : e.doc \in Nat
    <2> HIDE DEF late
    <2> QED BY <1>1, FS_Subset DEF Metrics!DocumentsAreNumbered
<1> HIDE DEF late
<1>3. f \in Surjection(late, G)
    BY DEF Surjection, Metrics!Groups
<1>4. IsFiniteSet(G)
    <2> HIDE DEF f, G
    <2> QED BY <1>2, <1>3, FS_Surjection
<1>5. G \subseteq Nat
    BY <1>2 DEF Metrics!Groups
<1> HIDE DEF f, G
<1>6. IsFiniteSet(SUBSET G)
    BY <1>4, FS_SUBSET
<1>7. \A D \in SUBSET G : Documented(D)
    BY <1>4, <1>5, FS_Subset DEF Documented
<1> QED BY <1>6, <1>7 DEF Finite, Sets, G, late

LEMMA PrecedesInSets ==
    ASSUME NEW old, NEW new, Finite(old, new)
    PROVE  /\ \A D, E \in Sets(old, new) : /\ ~ (Metrics!Precedes(D, E) /\ Metrics!Precedes(E, D))
                                           /\ D = E \/ Metrics!Precedes(D, E) \/ Metrics!Precedes(E, D)
                                           /\ ~ Metrics!Precedes(D, D)
                                           /\ Metrics!Precedes(D, E) => Cardinality(D) <= Cardinality(E)
           /\ \A D, E, F \in Sets(old, new) :
                Metrics!Precedes(D, E) /\ Metrics!Precedes(E, F) => Metrics!Precedes(D, F)
<1>1. \A D \in Sets(old, new) : Documented(D)
    BY DEF Finite
<1>2. \A D, E \in Sets(old, new) : /\ ~ (Metrics!Precedes(D, E) /\ Metrics!Precedes(E, D))
                                   /\ D = E \/ Metrics!Precedes(D, E) \/ Metrics!Precedes(E, D)
                                   /\ ~ Metrics!Precedes(D, D)
                                   /\ Metrics!Precedes(D, E) => Cardinality(D) <= Cardinality(E)
    BY <1>1, PrecedesIsOrder
<1>3. \A D, E, F \in Sets(old, new) :
         Metrics!Precedes(D, E) /\ Metrics!Precedes(E, F) => Metrics!Precedes(D, F)
    BY <1>1, PrecedesIsTransitive
<1> QED BY <1>2, <1>3

LEMMA FirstOfSome ==
    ASSUME NEW old, NEW new, Finite(old, new), NEW some, some \subseteq Sets(old, new)
    PROVE  /\ some # {} => /\ Metrics!FirstOf(some) \in some
                           /\ \A E \in some : E = Metrics!FirstOf(some) \/ Metrics!Precedes(Metrics!FirstOf(some), E)
           /\ \A F \in some : (\A E \in some : E = F \/ Metrics!Precedes(F, E)) => Metrics!FirstOf(some) = F
<1>1. some \in SUBSET Sets(old, new)
    OBVIOUS
<1>2. IsFiniteSet(some) /\ \A D \in some : Documented(D)
    BY <1>1, FS_Subset DEF Finite
<1>3. ASSUME some # {}
      PROVE  /\ Metrics!FirstOf(some) \in some
             /\ \A E \in some : E = Metrics!FirstOf(some) \/ Metrics!Precedes(Metrics!FirstOf(some), E)
    BY <1>2, <1>3, FirstIsFirst
<1>4. ASSUME NEW F \in some, \A E \in some : E = F \/ Metrics!Precedes(F, E)
      PROVE  Metrics!FirstOf(some) = F
    BY <1>2, <1>4, FirstIsUnique
<1> QED BY <1>3, <1>4

(* The evaluation as it starts (Compare).                                   *)
LEMMA EvaluationStarts ==
    ASSUME NEW e, NEW old, NEW new,
           e.waiting = IF Metrics!Method(old, new, e.artifacts) = "proven_minimum_group_set"
                       THEN Metrics!Changed(old, new) ELSE {},
           e.causes = [k \in Metrics!Changed(old, new) |->
                Metrics!Cause(IF Metrics!Method(old, new, e.artifacts) = "definition_change"
                              THEN Metrics!Method(old, new, e.artifacts) ELSE "unresolved_candidates", {})],
           e.left = Sets(old, new), e.invalid = {}
    PROVE  Evaluated(e, old, new)
<1> DEFINE method == Metrics!Method(old, new, e.artifacts)
           changed == Metrics!Changed(old, new)
<1>1. method \in {"definition_change", "unresolved_candidates", "proven_minimum_group_set"}
    BY DEF Metrics!Method
<1> HIDE DEF method, changed
<1>2. e.waiting = IF method = "proven_minimum_group_set" THEN changed ELSE {}
    BY DEF method, changed
<1>3. e.causes = [k \in changed |->
                Metrics!Cause(IF method = "definition_change" THEN method ELSE "unresolved_candidates", {})]
    BY DEF method, changed
<1>4. e.causes = [k \in changed |-> e.causes[k]]
    BY <1>3
<1>5. method # "proven_minimum_group_set" => \A k \in changed : e.causes[k] = Metrics!Cause(method, {})
    BY <1>1, <1>3
<1>6. ASSUME method = "proven_minimum_group_set"
      PROVE  Progress(e, old, new)
    <2>1. \A k \in changed : e.causes[k] = Unresolved
        BY <1>3, <1>6 DEF Unresolved
    <2>2. e.waiting = changed
        BY <1>2, <1>6
    <2>3. Sets(old, new) \ e.left = {}
        OBVIOUS
    <2> QED BY <2>1, <2>2, <2>3 DEF Progress, changed
<1> QED BY <1>2, <1>4, <1>5, <1>6 DEF Evaluated, method, changed

(* One more set of documents is tried (Evaluate).                           *)
LEMMA EvaluationSteps ==
    ASSUME NEW e, NEW f, NEW old, NEW new, Finite(old, new), Evaluated(e, old, new),
           e.waiting # {}, e.left # {}, NEW D, D = Metrics!FirstOf(e.left),
           NEW found, found = {k \in e.waiting : Works(e.artifacts, old, new, D, k)},
           f.artifacts = e.artifacts, f.left = e.left \ {D}, f.waiting = e.waiting \ found,
           f.invalid = IF Fits(old, new, D) THEN e.invalid ELSE e.invalid \union {D},
           f.causes = [k \in DOMAIN e.causes |-> IF k \in found THEN Proven(D) ELSE e.causes[k]]
    PROVE  Evaluated(f, old, new)
<1> DEFINE changed == Metrics!Changed(old, new)
           tried == Sets(old, new) \ e.left
           now == Sets(old, new) \ f.left
<1>1. /\ e.causes = [k \in changed |-> e.causes[k]]
      /\ e.waiting \subseteq changed /\ e.left \subseteq Sets(old, new)
      /\ Metrics!Method(old, new, e.artifacts) = "proven_minimum_group_set"
      /\ Progress(e, old, new)
    BY DEF Evaluated
<1>2. D \in e.left /\ \A E \in e.left : E = D \/ Metrics!Precedes(D, E)
    BY <1>1, FirstOfSome
<1>3. now = tried \union {D} /\ D \notin tried
    BY <1>1, <1>2
<1>4. /\ f.causes = [k \in changed |-> f.causes[k]]
      /\ \A k \in changed : f.causes[k] = IF k \in found THEN Proven(D) ELSE e.causes[k]
      /\ f.waiting \subseteq changed /\ f.left \subseteq Sets(old, new)
    BY <1>1
<1>5. Proven(D).docs = D
    BY DEF Proven, Metrics!Cause
<1>6. /\ \A T \in tried, E \in e.left : Metrics!Precedes(T, E)
      /\ \A k \in e.waiting : e.causes[k] = Unresolved /\ \A T \in tried : ~ Works(e.artifacts, old, new, T, k)
      /\ \A k \in changed \ e.waiting :
            \E F \in tried : /\ e.causes[k] = Proven(F) /\ Works(e.artifacts, old, new, F, k)
                             /\ \A T \in tried : Works(e.artifacts, old, new, T, k) => T = F \/ Metrics!Precedes(F, T)
      /\ e.invalid = {T \in tried : ~ Fits(old, new, T)}
    BY <1>1 DEF Progress
<1> HIDE DEF changed, tried, now
<1>7. \A T \in now, E \in f.left : Metrics!Precedes(T, E)
    BY <1>2, <1>3, <1>6
<1>8. \A k \in f.waiting : f.causes[k] = Unresolved /\ \A T \in now : ~ Works(f.artifacts, old, new, T, k)
    BY <1>1, <1>3, <1>4, <1>6
<1>9. ASSUME NEW k \in changed \ f.waiting
      PROVE  \E F \in now : /\ f.causes[k] = Proven(F) /\ Works(f.artifacts, old, new, F, k)
                            /\ \A T \in now : Works(f.artifacts, old, new, T, k) => T = F \/ Metrics!Precedes(F, T)
    <2>1. CASE k \in found
        BY <1>3, <1>4, <1>6, <2>1
    <2>2. CASE k \notin found
        <3>1. k \in changed \ e.waiting /\ f.causes[k] = e.causes[k]
            BY <1>4, <2>2
        <3>2. PICK F \in tried : /\ e.causes[k] = Proven(F) /\ Works(e.artifacts, old, new, F, k)
                                 /\ \A T \in tried : Works(e.artifacts, old, new, T, k) => T = F \/ Metrics!Precedes(F, T)
            BY <1>6, <3>1
        <3>3. Metrics!Precedes(F, D)
            BY <1>2, <1>6
        <3> QED BY <1>3, <3>1, <3>2, <3>3
    <2> QED BY <2>1, <2>2
<1>10. f.invalid = {T \in now : ~ Fits(old, new, T)}
    BY <1>3, <1>6
<1>11. ASSUME f.waiting = {}
       PROVE  \A T \in now : \E k \in changed : T = f.causes[k].docs \/ Metrics!Precedes(T, f.causes[k].docs)
    <2>1. PICK k \in e.waiting : k \in found
        BY <1>11
    <2>2. k \in changed /\ f.causes[k].docs = D
        BY <1>1, <1>4, <1>5, <2>1
    <2>3. \A T \in now : T = D \/ Metrics!Precedes(T, D)
        BY <1>2, <1>3, <1>6
    <2> QED BY <2>2, <2>3
<1>12. Progress(f, old, new)
    BY <1>7, <1>8, <1>9, <1>10, <1>11 DEF Progress, now, changed
<1> QED BY <1>1, <1>4, <1>12 DEF Evaluated, changed

(* What the evaluation ends with is the attribution as it is defined        *)
(* (SealBridge).                                                            *)
LEMMA EvaluationEnds ==
    ASSUME NEW e, NEW old, NEW new, Finite(old, new), Evaluated(e, old, new), e.waiting = {} \/ e.left = {}
    PROVE  Metrics!Result(old, new, e.causes, e.invalid) = Metrics!Bridge(old, new, e.artifacts)
<1> DEFINE v == e.artifacts
           changed == Metrics!Changed(old, new)
           tried == Sets(old, new) \ e.left
           explaining(k) == {D \in Sets(old, new) : Works(v, old, new, D, k)}
           causes == Metrics!CausesOf(old, new, v)
           method == Metrics!Method(old, new, v)
           last(D) == \E k \in changed : causes[k].status = "unresolved_candidates" \/ Metrics!Precedes(D, causes[k].docs)
<1>1. causes = [k \in changed |->
            IF method # "proven_minimum_group_set" THEN Metrics!Cause(method, {})
            ELSE IF explaining(k) = {} THEN Unresolved
            ELSE Proven(Metrics!FirstOf(explaining(k)))]
    BY DEF Metrics!CausesOf, Works, Sets, Unresolved, Proven
<1>2. Metrics!InvalidOf(old, new, v) =
            IF method # "proven_minimum_group_set" THEN {} ELSE {D \in Sets(old, new) : last(D) /\ ~ Fits(old, new, D)}
    BY DEF Metrics!InvalidOf, Sets, Fits
<1>3. /\ e.causes = [k \in changed |-> e.causes[k]] /\ e.waiting \subseteq changed /\ e.left \subseteq Sets(old, new)
      /\ method = "proven_minimum_group_set" => Progress(e, old, new)
      /\ method # "proven_minimum_group_set" =>
            e.invalid = {} /\ \A k \in changed : e.causes[k] = Metrics!Cause(method, {})
    BY DEF Evaluated
<1>4. CASE method # "proven_minimum_group_set"
    <2>1. e.causes = causes /\ e.invalid = Metrics!InvalidOf(old, new, v)
        <3> HIDE DEF causes, method, changed, explaining, last
        <3> QED BY <1>1, <1>2, <1>3, <1>4
    <2> QED BY <2>1 DEF Metrics!Bridge
<1>5. CASE method = "proven_minimum_group_set"
    <2>1. /\ \A D \in tried, E \in e.left : Metrics!Precedes(D, E)
          /\ \A k \in e.waiting : e.causes[k] = Unresolved /\ \A D \in tried : ~ Works(v, old, new, D, k)
          /\ \A k \in changed \ e.waiting :
                \E F \in tried : /\ e.causes[k] = Proven(F) /\ Works(v, old, new, F, k)
                                 /\ \A D \in tried : Works(v, old, new, D, k) => D = F \/ Metrics!Precedes(F, D)
          /\ e.invalid = {D \in tried : ~ Fits(old, new, D)}
          /\ e.waiting = {} => \A D \in tried : \E k \in changed :
                D = e.causes[k].docs \/ Metrics!Precedes(D, e.causes[k].docs)
        BY <1>3, <1>5 DEF Progress
    <2>2. tried \subseteq Sets(old, new) /\ Sets(old, new) = tried \union e.left
        BY <1>3
    <2>3. /\ Unresolved.status = "unresolved_candidates"
          /\ \A F : Proven(F).status = "proven_minimum_group_set" /\ Proven(F).docs = F
        BY DEF Unresolved, Proven, Metrics!Cause
    <2> HIDE DEF v, changed, tried, causes, method, last
    <2>4. ASSUME NEW k \in e.waiting PROVE causes[k] = e.causes[k]
        <3>1. tried = Sets(old, new)
            BY <2>2
        <3>2. explaining(k) = {}
            BY <2>1, <3>1
        <3>3. k \in changed
            BY <1>3
        <3> QED BY <1>1, <1>5, <2>1, <3>2, <3>3
    <2>5. ASSUME NEW k \in changed \ e.waiting
          PROVE  /\ causes[k] = e.causes[k]
                 /\ \E F \in tried : e.causes[k] = Proven(F) /\ Works(v, old, new, F, k)
        <3>1. PICK F \in tried : /\ e.causes[k] = Proven(F) /\ Works(v, old, new, F, k)
                                 /\ \A D \in tried : Works(v, old, new, D, k) => D = F \/ Metrics!Precedes(F, D)
            BY <2>1
        <3>2. F \in explaining(k) /\ explaining(k) \subseteq Sets(old, new)
            BY <2>2, <3>1
        <3>3. \A D \in explaining(k) : D = F \/ Metrics!Precedes(F, D)
            BY <2>1, <2>2, <3>1
        <3> HIDE DEF explaining
        <3>4. Metrics!FirstOf(explaining(k)) = F
            BY <3>2, <3>3, FirstOfSome
        <3> QED BY <1>1, <1>5, <3>1, <3>2, <3>4
    <2>6. e.causes = causes
        <3>1. \A k \in changed : causes[k] = e.causes[k]
            BY <2>4, <2>5
        <3>2. causes = [k \in changed |-> causes[k]]
            BY <1>1
        <3> QED BY <1>3, <3>1, <3>2
    <2>7. ASSUME NEW D \in Sets(old, new), last(D) PROVE D \in tried
        <3> SUFFICES ASSUME D \in e.left PROVE FALSE
            BY <2>2
        <3>1. e.waiting = {}
            OBVIOUS
        <3>2. PICK k \in changed : causes[k].status = "unresolved_candidates" \/ Metrics!Precedes(D, causes[k].docs)
            BY <2>7 DEF last
        <3>3. PICK F \in tried : causes[k] = Proven(F)
            BY <2>5, <3>1
        <3>4. causes[k].status = "proven_minimum_group_set" /\ causes[k].docs = F
            BY <2>3, <3>3
        <3>5. Metrics!Precedes(D, F) /\ Metrics!Precedes(F, D)
            BY <2>1, <3>2, <3>3, <3>4
        <3> QED BY <2>2, <3>5, PrecedesInSets
    <2>8. ASSUME NEW D \in tried, ~ Fits(old, new, D) PROVE last(D)
        <3>1. CASE e.waiting # {}
            <4>1. PICK k \in e.waiting : TRUE
                BY <3>1
            <4>2. k \in changed /\ causes[k].status = "unresolved_candidates"
                BY <1>3, <2>1, <2>3, <2>4
            <4> QED BY <4>2 DEF last
        <3>2. CASE e.waiting = {}
            <4>1. PICK k \in changed : D = e.causes[k].docs \/ Metrics!Precedes(D, e.causes[k].docs)
                BY <2>1, <3>2
            <4>2. PICK F \in tried : e.causes[k] = Proven(F) /\ Works(v, old, new, F, k)
                BY <2>5, <3>2
            <4>3. e.causes[k].docs = F
                BY <2>3, <4>2
            <4>4. Fits(old, new, F)
                BY <4>2 DEF Works, Fits, Metrics!Explains
            <4>5. Metrics!Precedes(D, causes[k].docs)
                BY <2>6, <2>8, <4>1, <4>3, <4>4
            <4> QED BY <4>5 DEF last
        <3> QED BY <3>1, <3>2
    <2>9. e.invalid = Metrics!InvalidOf(old, new, v)
        <3>1. {D \in Sets(old, new) : last(D) /\ ~ Fits(old, new, D)} = {D \in tried : ~ Fits(old, new, D)}
            BY <2>2, <2>7, <2>8
        <3> QED BY <1>2, <1>5, <2>1, <3>1
    <2> QED BY <2>6, <2>9 DEF Metrics!Bridge, causes, v
<1> QED BY <1>4, <1>5

(* The cause of a changed row, as it is defined, is sufficient and minimal: *)
(* all the late documents together explain the newer run.                   *)
LEMMA CausesAreMinimal ==
    ASSUME NEW v, NEW old, NEW new, Finite(old, new), Consistent(new.inputs),
           new.rows = Metrics!Population(new.artifacts, new.inputs), NEW k \in Metrics!Changed(old, new)
    PROVE  LET cause == Metrics!CausesOf(old, new, v)[k]
           IN  /\ cause.status = Metrics!Method(old, new, v)
               /\ cause.status = "proven_minimum_group_set" =>
                     /\ Works(new.artifacts, old, new, cause.docs, k)
                     /\ \A D \in Sets(old, new) : Works(new.artifacts, old, new, D, k) =>
                            Metrics!Cardinality(cause.docs) <= Metrics!Cardinality(D)
<1> DEFINE cause == Metrics!CausesOf(old, new, v)[k]
           method == Metrics!Method(old, new, v)
           explaining == {D \in Sets(old, new) : Works(v, old, new, D, k)}
<1>1. cause = IF method # "proven_minimum_group_set" THEN Metrics!Cause(method, {})
              ELSE IF explaining = {} THEN Unresolved
              ELSE Proven(Metrics!FirstOf(explaining))
    BY DEF Metrics!CausesOf, Works, Sets, Unresolved, Proven
<1>2. /\ \A s : Metrics!Cause(s, {}).status = s
      /\ \A F : Proven(F).status = "proven_minimum_group_set" /\ Proven(F).docs = F
    BY DEF Proven, Metrics!Cause
<1>3. CASE method # "proven_minimum_group_set"
    <2> HIDE DEF method, cause
    <2> QED BY <1>1, <1>2, <1>3 DEF cause, method
<1>4. CASE method = "proven_minimum_group_set"
    <2>1. new.artifacts = v
        BY <1>4 DEF Metrics!Method
    <2> DEFINE all == Metrics!Groups(Metrics!Newly(old, new))
    <2>2. all \in Sets(old, new) /\ Metrics!Without(old, new, all) = new.inputs
        BY DEF Sets, Metrics!Without, Metrics!Groups, Metrics!Newly
    <2>3. Row(v, k, new.inputs) = new.rows[k]
        BY <2>1 DEF Metrics!Population, Metrics!Changed
    <2> HIDE DEF all
    <2>4. Works(v, old, new, all, k)
        BY <2>2, <2>3 DEF Works, Metrics!Explains
    <2>5. explaining # {} /\ explaining \subseteq Sets(old, new)
        BY <2>2, <2>4
    <2> DEFINE F == Metrics!FirstOf(explaining)
    <2>6. F \in explaining /\ \A E \in explaining : E = F \/ Metrics!Precedes(F, E)
        <3> HIDE DEF explaining
        <3> QED BY <2>5, FirstOfSome
    <2>7. cause = Proven(F)
        BY <1>1, <1>4, <2>5
    <2> HIDE DEF F, cause, method
    <2>8. cause.status = "proven_minimum_group_set" /\ cause.docs = F
        BY <1>2, <2>7
    <2>9. F \in Sets(old, new) /\ Works(v, old, new, F, k)
        BY <2>6
    <2>10. ASSUME NEW D \in Sets(old, new), Works(v, old, new, D, k)
           PROVE  Metrics!Cardinality(F) <= Metrics!Cardinality(D)
        <3>1. D = F \/ Metrics!Precedes(F, D)
            BY <2>6, <2>10
        <3>2. Cardinality(F) \in Nat
            BY <2>9, FS_CardinalityType DEF Finite, Documented
        <3>3. Metrics!Precedes(F, D) => Cardinality(F) <= Cardinality(D)
            BY <2>9, PrecedesInSets
        <3>4. Cardinality(F) <= Cardinality(D)
            BY <3>1, <3>2, <3>3
        <3> QED BY <3>4, CardinalityIsOne
    <2> HIDE DEF explaining
    <2> QED BY <1>4, <2>1, <2>8, <2>9, <2>10 DEF cause, method
<1> QED BY <1>3, <1>4

(***************************************************************************)
(* What the records and the commands under way agree on: s is the stream,  *)
(* t the working tree, R the run directories, L the ledger.                *)
(***************************************************************************)
\* A metric run is what its artifacts made of a prefix of the stream.
IsMetric(run, s) ==
    /\ run = [kind |-> "metric", stage |-> run.stage, artifacts |-> run.artifacts, revision |-> run.revision,
              known |-> run.known, watermark |-> run.watermark, inputs |-> run.inputs,
              query |-> <<run.artifacts, run.artifacts>>, rows |-> Metrics!Population(run.artifacts, run.inputs)]
    /\ run.watermark \in 0 .. Len(s)
    /\ run.inputs = Metrics!Snapshot(s, run.known, run.watermark) /\ Consistent(run.inputs)

\* Two recorded runs that version v can perform again.
Compared(old, new, v, R, L) ==
    \A r \in {old, new} : r \in L /\ R[r].kind = "metric" /\ (R[r].artifacts = v \/ R[r].revision = R[r].artifacts)

IsBridge(run, R, L) ==
    /\ run = [kind |-> "bridge", stage |-> run.stage, artifacts |-> run.artifacts, revision |-> run.revision,
              old |-> run.old, new |-> run.new, result |-> Metrics!Bridge(R[run.old], R[run.new], run.artifacts)]
    /\ Compared(run.old, run.new, run.artifacts, R, L)

IsRun(run, s, R, L) ==
    \/ run.kind = "metric" /\ IsMetric(run, s)
    \/ run.kind = "bridge" /\ IsBridge(run, R, L)

RunsHold(s, R, L) ==
    /\ R \in Seq(Metrics!Members(R))
    /\ \A r \in 1 .. Len(R) : IsRun(R[r], s, R, L)
    /\ L \subseteq 1 .. Len(R) /\ \A r \in L : R[r].stage = "rows"

\* A command knows nothing that does not hold as long as nobody edits the artifacts.
CallHolds(e, s, t, R, L) ==
    \/ e = Metrics!Idle
    \/ e.step = "open" /\ e = [step |-> "open", artifacts |-> e.artifacts, revision |-> e.revision]
    \/ /\ e.step = "seal" /\ e = [step |-> "seal", artifacts |-> e.artifacts, run |-> e.run]
       /\ t = e.artifacts => IsMetric(e.run, s)
    \/ /\ e.step \in {"rows", "append"} /\ e = [step |-> e.step, artifacts |-> e.artifacts, id |-> e.id]
       /\ e.id \in 1 .. Len(R) /\ (e.step = "append" => R[e.id].stage = "rows")
    \/ /\ e.step = "evaluate"
       /\ e = [step |-> "evaluate", artifacts |-> e.artifacts, old |-> e.old, new |-> e.new,
               waiting |-> e.waiting, causes |-> e.causes, left |-> e.left, invalid |-> e.invalid]
       /\ Compared(e.old, e.new, e.artifacts, R, L)
       /\ t = e.artifacts => Evaluated(e, R[e.old], R[e.new])

MetricsInv ==
    /\ stream \in Seq(Events)
    /\ RunsHold(stream, runs, ledger)
    /\ call = [c \in Callers |-> call[c]]
    /\ \A c \in Callers : CallHolds(call[c], stream, tree, runs, ledger)

\* What no step takes back.
Kept(s, R, L, s2, R2, L2) ==
    /\ s2 = s \/ \E e \in Events : s2 = Append(s, e)
    /\ \A r \in L : r \in L2 /\ R2[r] = R[r]
    /\ \A r \in 1 .. Len(R) : r \in 1 .. Len(R2) /\ (R[r].stage = "rows" => R2[r].stage = "rows")

(* A snapshot is a finite set of events, and stays what it is.              *)
LEMMA SnapshotIsFinite ==
    ASSUME NEW s \in Seq(Events), NEW known, NEW w \in 0 .. Len(s)
    PROVE  /\ Metrics!Snapshot(s, known, w) \subseteq Events
           /\ IsFiniteSet(Metrics!Snapshot(s, known, w))
           /\ Metrics!Snapshot(s, known, w) = {e \in {s[i] : i \in 1 .. w} : e.at < known}
<1> DEFINE p == SubSeq(s, 1, w)
           M == {s[i] : i \in 1 .. w}
           f == [i \in 1 .. w |-> s[i]]
<1>1. Len(s) \in Nat /\ w \in Nat /\ w <= Len(s) /\ \A i \in 1 .. w : s[i] \in Events
    <2>1. Len(s) \in Nat /\ w \in Nat /\ w <= Len(s)
        BY LenProperties
    <2>2. \A i \in 1 .. w : i \in 1 .. Len(s)
        BY <2>1
    <2> QED BY <2>1, <2>2, ElementOfSeq
<1>2. Len(p) = w /\ \A i \in 1 .. w : p[i] = s[i]
    <2>1. \A i \in 1 .. w : s[i] \in Events
        BY <1>1
    <2>2. p \in Seq(Events) /\ Len(p) = (IF 1 <= w THEN w - 1 + 1 ELSE 0) /\ \A i \in 1 .. w - 1 + 1 : p[i] = s[1 + i - 1]
        BY <1>1, SubSeqProperties
    <2> HIDE DEF p
    <2>3. w - 1 + 1 = w /\ (w = 0 \/ 1 <= w) /\ \A i \in 1 .. w : 1 + i - 1 = i
        BY <1>1
    <2> QED BY <2>2, <2>3
<1> HIDE DEF p
<1>3. Metrics!Members(p) = M
    BY <1>2 DEF Metrics!Members
<1>4. Metrics!Snapshot(s, known, w) = {e \in M : e.at < known}
    BY <1>3 DEF Metrics!Snapshot, p
<1>5. IsFiniteSet(M) /\ M \subseteq Events
    <2>1. f \in Surjection(1 .. w, M)
        BY DEF Surjection
    <2>2. IsFiniteSet(1 .. w)
        BY <1>1, FS_Interval
    <2>3. M \subseteq Events
        BY <1>1
    <2> HIDE DEF f, M
    <2> QED BY <2>1, <2>2, <2>3, FS_Surjection
<1> HIDE DEF M
<1>6. {e \in M : e.at < known} \in SUBSET M
    OBVIOUS
<1>7. IsFiniteSet({e \in M : e.at < known})
    BY <1>5, <1>6, FS_Subset
<1> QED BY <1>4, <1>5, <1>7 DEF M

LEMMA SnapshotStays ==
    ASSUME NEW s \in Seq(Events), NEW s2 \in Seq(Events), NEW known, NEW w \in 0 .. Len(s),
           Len(s) <= Len(s2), \A i \in 1 .. Len(s) : s2[i] = s[i]
    PROVE  Metrics!Snapshot(s2, known, w) = Metrics!Snapshot(s, known, w)
<1>1. Len(s) \in Nat /\ Len(s2) \in Nat
    BY LenProperties
<1>2. w \in 0 .. Len(s2) /\ \A i \in 1 .. w : i \in 1 .. Len(s)
    BY <1>1
<1>3. {s2[i] : i \in 1 .. w} = {s[i] : i \in 1 .. w}
    BY <1>2
<1>4. Metrics!Snapshot(s, known, w) = {e \in {s[i] : i \in 1 .. w} : e.at < known}
    BY SnapshotIsFinite
<1>5. Metrics!Snapshot(s2, known, w) = {e \in {s2[i] : i \in 1 .. w} : e.at < known}
    BY <1>2, SnapshotIsFinite
<1> QED BY <1>3, <1>4, <1>5

LEMMA PrefixSnapshot ==
    ASSUME NEW s \in Seq(Events), NEW known, NEW w \in 0 .. Len(s)
    PROVE  Metrics!Snapshot(SubSeq(s, 1, w), known, w) = Metrics!Snapshot(s, known, w)
<1> DEFINE p == SubSeq(s, 1, w)
<1>1. Len(s) \in Nat /\ w \in Nat /\ w <= Len(s) /\ \A i \in 1 .. w : i \in 1 .. Len(s)
    BY LenProperties
<1>2. \A i \in 1 .. w : s[i] \in Events
    BY <1>1, ElementOfSeq
<1>3. p \in Seq(Events) /\ Len(p) = (IF 1 <= w THEN w - 1 + 1 ELSE 0) /\ \A i \in 1 .. w - 1 + 1 : p[i] = s[1 + i - 1]
    BY <1>1, <1>2, SubSeqProperties
<1> HIDE DEF p
<1>4. w - 1 + 1 = w /\ (w = 0 \/ 1 <= w) /\ \A i \in 1 .. w : 1 + i - 1 = i
    BY <1>1
<1>5. Len(p) = w /\ \A i \in 1 .. w : s[i] = p[i]
    BY <1>3, <1>4
<1>6. w \in 0 .. Len(p)
    BY <1>1, <1>5
<1>7. {p[i] : i \in 1 .. w} = {s[i] : i \in 1 .. w}
    BY <1>5
<1>8. Metrics!Snapshot(s, known, w) = {e \in {s[i] : i \in 1 .. w} : e.at < known}
    BY SnapshotIsFinite
<1>9. Metrics!Snapshot(p, known, w) = {e \in {p[i] : i \in 1 .. w} : e.at < known}
    BY <1>3, <1>6, SnapshotIsFinite
<1> QED BY <1>7, <1>8, <1>9 DEF p

LEMMA MetricStays ==
    ASSUME NEW s \in Seq(Events), NEW s2 \in Seq(Events), s2 = s \/ \E e \in Events : s2 = Append(s, e),
           NEW run, IsMetric(run, s)
    PROVE  IsMetric(run, s2)
<1>1. Len(s) \in Nat /\ Len(s) <= Len(s2) /\ Len(s2) \in Nat /\ \A i \in 1 .. Len(s) : s2[i] = s[i]
    <2>1. CASE s2 = s
        BY <2>1, LenProperties
    <2>2. CASE \E e \in Events : s2 = Append(s, e)
        BY <2>2, LenProperties, AppendProperties
    <2> QED BY <2>1, <2>2
<1>2. run.watermark \in 0 .. Len(s) /\ run.watermark \in 0 .. Len(s2)
    BY <1>1 DEF IsMetric
<1>3. Metrics!Snapshot(s2, run.known, run.watermark) = Metrics!Snapshot(s, run.known, run.watermark)
    BY <1>1, <1>2, SnapshotStays
<1> QED BY <1>2, <1>3 DEF IsMetric

LEMMA ComparedStays ==
    ASSUME NEW R, NEW L, NEW R2, NEW L2, \A r \in L : r \in L2 /\ R2[r] = R[r],
           NEW old, NEW new, NEW v, Compared(old, new, v, R, L)
    PROVE  Compared(old, new, v, R2, L2) /\ R2[old] = R[old] /\ R2[new] = R[new]
BY DEF Compared

LEMMA RunStays ==
    ASSUME NEW s \in Seq(Events), NEW R, NEW L, NEW s2 \in Seq(Events), NEW R2, NEW L2, Kept(s, R, L, s2, R2, L2),
           NEW run, IsRun(run, s, R, L)
    PROVE  IsRun(run, s2, R2, L2)
<1>1. CASE run.kind = "metric" /\ IsMetric(run, s)
    BY <1>1, MetricStays DEF IsRun, Kept
<1>2. CASE run.kind = "bridge" /\ IsBridge(run, R, L)
    <2>1. /\ Compared(run.old, run.new, run.artifacts, R2, L2)
          /\ R2[run.old] = R[run.old] /\ R2[run.new] = R[run.new]
        BY <1>2, ComparedStays DEF Kept, IsBridge
    <2> QED BY <1>2, <2>1 DEF IsRun, IsBridge
<1> QED BY <1>1, <1>2 DEF IsRun

LEMMA CallStays ==
    ASSUME NEW s \in Seq(Events), NEW R, NEW L, NEW s2 \in Seq(Events), NEW R2, NEW L2, Kept(s, R, L, s2, R2, L2),
           NEW e, NEW t, NEW t2, CallHolds(e, s, t, R, L), e # Metrics!Idle => t2 = t \/ e.artifacts # t2
    PROVE  CallHolds(e, s2, t2, R2, L2)
<1>1. CASE e = Metrics!Idle
    BY <1>1 DEF CallHolds
<1>2. CASE e # Metrics!Idle
    <2>1. t2 = e.artifacts => t = e.artifacts
        BY <1>2
    <2>2. CASE e.step = "open"
        BY <1>2, <2>2 DEF CallHolds
    <2>3. CASE e.step = "seal"
        <3>1. e = [step |-> "seal", artifacts |-> e.artifacts, run |-> e.run] /\ (t = e.artifacts => IsMetric(e.run, s))
            BY <1>2, <2>3 DEF CallHolds
        <3>2. t2 = e.artifacts => IsMetric(e.run, s2)
            BY <2>1, <3>1, MetricStays DEF Kept
        <3> QED BY <2>3, <3>1, <3>2 DEF CallHolds
    <2>4. CASE e.step \in {"rows", "append"}
        <3>1. /\ e = [step |-> e.step, artifacts |-> e.artifacts, id |-> e.id]
              /\ e.id \in 1 .. Len(R) /\ (e.step = "append" => R[e.id].stage = "rows")
            BY <1>2, <2>4 DEF CallHolds
        <3>2. e.id \in 1 .. Len(R2) /\ (e.step = "append" => R2[e.id].stage = "rows")
            BY <3>1 DEF Kept
        <3> QED BY <2>4, <3>1, <3>2 DEF CallHolds
    <2>5. CASE e.step = "evaluate"
        <3>1. /\ e = [step |-> "evaluate", artifacts |-> e.artifacts, old |-> e.old, new |-> e.new,
                      waiting |-> e.waiting, causes |-> e.causes, left |-> e.left, invalid |-> e.invalid]
              /\ Compared(e.old, e.new, e.artifacts, R, L)
              /\ t = e.artifacts => Evaluated(e, R[e.old], R[e.new])
            BY <1>2, <2>5 DEF CallHolds
        <3>2. /\ Compared(e.old, e.new, e.artifacts, R2, L2)
              /\ R2[e.old] = R[e.old] /\ R2[e.new] = R[e.new]
            BY <3>1, ComparedStays DEF Kept
        <3>3. t2 = e.artifacts => Evaluated(e, R2[e.old], R2[e.new])
            BY <2>1, <3>1, <3>2
        <3> QED BY <2>5, <3>1, <3>2, <3>3 DEF CallHolds
    <2> QED BY <1>2, <2>2, <2>3, <2>4, <2>5 DEF CallHolds
<1> QED BY <1>1, <1>2

(* One command steps; the others know nothing less than before.             *)
LEMMA OneSteps ==
    ASSUME MetricsInv, NEW c \in Callers, stream' \in Seq(Events), RunsHold(stream', runs', ledger'),
           Kept(stream, runs, ledger, stream', runs', ledger'), tree' = tree,
           NEW now, call' = [call EXCEPT ![c] = now], CallHolds(now, stream', tree, runs', ledger')
    PROVE  MetricsInv'
<1>1. /\ call' = [b \in Callers |-> call'[b]] /\ call'[c] = now
      /\ \A b \in Callers : b # c => call'[b] = call[b]
    BY DEF MetricsInv
<1>2. ASSUME NEW b \in Callers PROVE CallHolds(call'[b], stream', tree', runs', ledger')
    <2>1. CASE b = c
        BY <1>1, <2>1
    <2>2. CASE b # c
        <3>1. CallHolds(call[b], stream, tree, runs, ledger) /\ stream \in Seq(Events)
            BY DEF MetricsInv
        <3>2. CallHolds(call[b], stream', tree, runs', ledger')
            BY <3>1, CallStays
        <3> QED BY <1>1, <2>2, <3>2
    <2> QED BY <2>1, <2>2
<1> QED BY <1>1, <1>2 DEF MetricsInv

LEMMA NothingIsLost ==
    ASSUME NEW s, NEW R, NEW L, NEW x
    PROVE  /\ Kept(s, R, L, s, R, L)
           /\ Kept(s, R, L, s, R, L \union {x})
BY DEF Kept

(* A command ends: it has died, was refused, or is done.                    *)
LEMMA Ends ==
    ASSUME MetricsInv, NEW c \in Callers, Metrics!End(c), UNCHANGED <<stream, tree, runs, ledger>>
    PROVE  MetricsInv'
<1>1. CallHolds(Metrics!Idle, stream', tree, runs', ledger')
    BY DEF CallHolds
<1>2. call' = [call EXCEPT ![c] = Metrics!Idle]
    BY DEF Metrics!End
<1>3. stream' \in Seq(Events) /\ RunsHold(stream', runs', ledger')
    BY DEF MetricsInv
<1>4. Kept(stream, runs, ledger, stream', runs', ledger')
    BY NothingIsLost
<1> QED BY <1>1, <1>2, <1>3, <1>4, OneSteps

(* A command goes on, and changes nothing but what it knows.                *)
LEMMA GoesOn ==
    ASSUME MetricsInv, NEW c \in Callers, UNCHANGED <<stream, tree, runs, ledger>>,
           NEW now, call' = [call EXCEPT ![c] = now], CallHolds(now, stream, tree, runs, ledger)
    PROVE  MetricsInv'
<1>1. stream' \in Seq(Events) /\ RunsHold(stream', runs', ledger')
    BY DEF MetricsInv
<1>2. Kept(stream, runs, ledger, stream', runs', ledger')
    BY NothingIsLost
<1>3. CallHolds(now, stream', tree, runs', ledger')
    OBVIOUS
<1> QED BY <1>1, <1>2, <1>3, OneSteps

LEMMA OfItsMembers ==
    ASSUME NEW S, NEW R \in Seq(S)
    PROVE  R \in Seq(Metrics!Members(R))
<1> DEFINE M == Metrics!Members(R)
<1>1. \A i \in 1 .. Len(R) : R[i] \in M
    BY DEF Metrics!Members
<1> HIDE DEF M
<1>2. R \in Seq(M)
    BY <1>1
<1> QED BY <1>2 DEF M

(* A run that fits gets its directory.                                      *)
LEMMA RunIsAdded ==
    ASSUME NEW s \in Seq(Events), NEW R, NEW L, RunsHold(s, R, L), NEW run, IsRun(run, s, R, L)
    PROVE  /\ RunsHold(s, Append(R, run), L)
           /\ Kept(s, R, L, s, Append(R, run), L)
           /\ Len(R) + 1 \in 1 .. Len(Append(R, run))
<1> DEFINE M == Metrics!Members(R)
           R2 == Append(R, run)
           M2 == Metrics!Members(R2)
<1>1. R \in Seq(M) /\ Len(R) \in Nat /\ L \subseteq 1 .. Len(R) /\ \A r \in L : R[r].stage = "rows"
    BY LenProperties DEF RunsHold
<1>2. R \in Seq(M \union {run}) /\ run \in M \union {run}
    <2> HIDE DEF M
    <2>1. \A i \in 1 .. Len(R) : R[i] \in M
        BY <1>1, ElementOfSeq
    <2> QED BY <1>1, <2>1
<1>3. /\ R2 \in Seq(M \union {run}) /\ Len(R2) = Len(R) + 1
      /\ \A i \in 1 .. Len(R) : R2[i] = R[i]
      /\ R2[Len(R) + 1] = run
    <2> HIDE DEF M
    <2> QED BY <1>2, AppendProperties
<1> HIDE DEF M, R2
<1>4. R2 \in Seq(M2)
    <2>1. \A i \in 1 .. Len(R2) : R2[i] \in M2
        BY DEF Metrics!Members
    <2> HIDE DEF M2
    <2> QED BY <1>3, <2>1
<1>5. Kept(s, R, L, s, R2, L)
    <2>1. \A r \in 1 .. Len(R) : r \in 1 .. Len(R2)
        BY <1>1, <1>3
    <2> QED BY <1>1, <1>3, <2>1 DEF Kept
<1>6. ASSUME NEW r \in 1 .. Len(R2) PROVE IsRun(R2[r], s, R2, L)
    <2>1. r \in 1 .. Len(R) \/ r = Len(R) + 1
        BY <1>1, <1>3
    <2>2. IsRun(R2[r], s, R, L)
        BY <1>3, <2>1 DEF RunsHold
    <2> QED BY <1>5, <2>2, RunStays
<1>7. L \subseteq 1 .. Len(R2) /\ \A r \in L : R2[r].stage = "rows"
    BY <1>1, <1>5 DEF Kept
<1>8. RunsHold(s, R2, L)
    BY <1>4, <1>6, <1>7 DEF RunsHold, M2
<1> QED
    <2>1. Len(R) + 1 \in 1 .. Len(R2)
        BY <1>1, <1>3
    <2> QED BY <1>5, <1>8, <2>1 DEF R2

(* One element of a sequence is replaced.                                   *)
LEMMA OneReplaced ==
    ASSUME NEW S, NEW R \in Seq(S), NEW i \in 1 .. Len(R), NEW x, NEW R2, R2 = [R EXCEPT ![i] = x]
    PROVE  /\ R2 \in Seq(S \union {x}) /\ Len(R2) = Len(R)
           /\ \A j \in 1 .. Len(R) : R2[j] = IF j = i THEN x ELSE R[j]
<1> DEFINE T == S \union {x}
<1>1. R \in Seq(T)
    <2>1. \A j \in 1 .. Len(R) : R[j] \in T
        BY ElementOfSeq
    <2> HIDE DEF T
    <2> QED BY <2>1
<1>2. x \in T
    OBVIOUS
<1> HIDE DEF T
<1>3. /\ [R EXCEPT ![i] = x] \in Seq(T) /\ Len([R EXCEPT ![i] = x]) = Len(R)
      /\ \A j \in 1 .. Len(R) : [R EXCEPT ![i] = x][j] = IF j = i THEN x ELSE R[j]
    BY <1>1, <1>2, ExceptSeq
<1> QED BY <1>3 DEF T

(* The rows of a run are written.                                           *)
LEMMA WrittenIsRun ==
    ASSUME NEW s, NEW R, NEW L, NEW run, IsRun(run, s, R, L),
           NEW now, now = [run EXCEPT !.stage = "rows"]
    PROVE  IsRun(now, s, R, L) /\ now.stage = "rows" /\ (run.stage = "rows" => now = run)
<1>1. CASE run.kind = "metric" /\ IsMetric(run, s)
    <2>1. now = [kind |-> "metric", stage |-> "rows", artifacts |-> run.artifacts, revision |-> run.revision,
                 known |-> run.known, watermark |-> run.watermark, inputs |-> run.inputs,
                 query |-> <<run.artifacts, run.artifacts>>, rows |-> Metrics!Population(run.artifacts, run.inputs)]
        BY <1>1 DEF IsMetric
    <2>2. IsMetric(now, s) /\ now.kind = "metric" /\ now.stage = "rows"
        BY <1>1, <2>1 DEF IsMetric
    <2>3. run.stage = "rows" => now = run
        BY <1>1, <2>1 DEF IsMetric
    <2> QED BY <2>2, <2>3 DEF IsRun
<1>2. CASE run.kind = "bridge" /\ IsBridge(run, R, L)
    <2>1. now = [kind |-> "bridge", stage |-> "rows", artifacts |-> run.artifacts, revision |-> run.revision,
                 old |-> run.old, new |-> run.new, result |-> Metrics!Bridge(R[run.old], R[run.new], run.artifacts)]
        BY <1>2 DEF IsBridge
    <2>2. IsBridge(now, R, L) /\ now.kind = "bridge" /\ now.stage = "rows"
        BY <1>2, <2>1 DEF IsBridge
    <2>3. run.stage = "rows" => now = run
        BY <1>2, <2>1 DEF IsBridge
    <2> QED BY <2>2, <2>3 DEF IsRun
<1> QED BY <1>1, <1>2 DEF IsRun

WithRows(R, id) == [R EXCEPT ![id].stage = "rows"]

LEMMA RowsAreWritten ==
    ASSUME NEW s \in Seq(Events), NEW R, NEW L, RunsHold(s, R, L), NEW id \in 1 .. Len(R),
           NEW R2, R2 = WithRows(R, id)
    PROVE  /\ RunsHold(s, R2, L)
           /\ Kept(s, R, L, s, R2, L)
           /\ Len(R2) = Len(R) /\ R2[id].stage = "rows"
<1> DEFINE run == [R[id] EXCEPT !.stage = "rows"]
           M == Metrics!Members(R)
           M2 == Metrics!Members(R2)
<1>1. R \in Seq(M) /\ Len(R) \in Nat /\ L \subseteq 1 .. Len(R) /\ \A r \in L : R[r].stage = "rows"
    BY LenProperties DEF RunsHold
<1>2. IsRun(R[id], s, R, L)
    BY DEF RunsHold
<1>3. IsRun(run, s, R, L) /\ run.stage = "rows" /\ (R[id].stage = "rows" => run = R[id])
    BY <1>2, WrittenIsRun
<1>4. R2 = [R EXCEPT ![id] = run]
    BY DEF WithRows
<1> HIDE DEF run, M
<1>6. /\ R2 \in Seq(M \union {run}) /\ Len(R2) = Len(R)
      /\ \A i \in 1 .. Len(R) : R2[i] = IF i = id THEN run ELSE R[i]
    BY <1>1, <1>4, OneReplaced
<1>7. R2 \in Seq(M2)
    BY <1>6, OfItsMembers
<1>8. Kept(s, R, L, s, R2, L)
    BY <1>1, <1>3, <1>6 DEF Kept
<1>9. ASSUME NEW r \in 1 .. Len(R2) PROVE IsRun(R2[r], s, R2, L)
    <2>1. IsRun(R2[r], s, R, L)
        BY <1>3, <1>6 DEF RunsHold
    <2> QED BY <1>8, <2>1, RunStays
<1>10. L \subseteq 1 .. Len(R2) /\ \A r \in L : R2[r].stage = "rows"
    BY <1>1, <1>8 DEF Kept
<1>11. RunsHold(s, R2, L)
    BY <1>7, <1>9, <1>10 DEF RunsHold, M2
<1> QED BY <1>3, <1>6, <1>8, <1>11

(* The runs that are compared are metric runs, with finitely many inputs.   *)
LEMMA ComparedAreMetric ==
    ASSUME NEW s \in Seq(Events), NEW R, NEW L, RunsHold(s, R, L),
           NEW old, NEW new, NEW v, Compared(old, new, v, R, L)
    PROVE  IsMetric(R[old], s) /\ IsMetric(R[new], s) /\ Finite(R[old], R[new])
<1>1. /\ old \in 1 .. Len(R) /\ R[old].kind = "metric"
      /\ new \in 1 .. Len(R) /\ R[new].kind = "metric"
    BY DEF Compared, RunsHold
<1>2. IsRun(R[old], s, R, L) /\ IsRun(R[new], s, R, L)
    BY <1>1 DEF RunsHold
<1>3. IsMetric(R[old], s) /\ IsMetric(R[new], s)
    BY <1>1, <1>2 DEF IsRun
<1>4. /\ R[new].watermark \in 0 .. Len(s)
      /\ R[new].inputs = Metrics!Snapshot(s, R[new].known, R[new].watermark)
    BY <1>3 DEF IsMetric
<1>5. R[new].inputs \subseteq Events /\ IsFiniteSet(R[new].inputs)
    BY <1>4, SnapshotIsFinite
<1>6. Metrics!DocumentsAreNumbered
    BY MetricsAssumption
<1> QED BY <1>3, <1>5, <1>6, LateIsFinite

(***************************************************************************)
(* The steps of MetricRuns keep it.                                        *)
(***************************************************************************)
LEMMA WorldKeepsMetrics ==
    ASSUME MetricsInv, stream' \in Seq(Events), UNCHANGED <<runs, ledger, call>>,
           stream' = stream \/ \E e \in Events : stream' = Append(stream, e),
           \A c \in Callers : call[c] # Metrics!Idle => tree' = tree \/ call[c].artifacts # tree'
    PROVE  MetricsInv'
<1>1. Kept(stream, runs, ledger, stream', runs, ledger)
    BY DEF Kept
<1>2. stream \in Seq(Events) /\ RunsHold(stream, runs, ledger)
    BY DEF MetricsInv
<1>3. ASSUME NEW r \in 1 .. Len(runs) PROVE IsRun(runs[r], stream', runs, ledger)
    <2>1. IsRun(runs[r], stream, runs, ledger)
        BY <1>2 DEF RunsHold
    <2> QED BY <1>1, <1>2, <2>1, RunStays
<1>4. RunsHold(stream', runs, ledger)
    BY <1>2, <1>3 DEF RunsHold
<1>5. ASSUME NEW c \in Callers PROVE CallHolds(call[c], stream', tree', runs, ledger)
    <2>1. CallHolds(call[c], stream, tree, runs, ledger)
        BY DEF MetricsInv
    <2> QED BY <1>1, <1>2, <2>1, CallStays
<1> QED BY <1>4, <1>5 DEF MetricsInv

LEMMA ArriveKeepsMetrics ==
    ASSUME MetricsInv, NEW e \in Events, Metrics!Arrive(e)
    PROVE  MetricsInv'
<1>1. stream' = Append(stream, e) /\ UNCHANGED <<runs, ledger, call>> /\ tree' = tree
    BY DEF Metrics!Arrive
<1>2. stream' \in Seq(Events)
    BY <1>1, AppendProperties DEF MetricsInv
<1> QED BY <1>1, <1>2, WorldKeepsMetrics

LEMMA EditKeepsMetrics ==
    ASSUME MetricsInv, NEW v \in Versions, Metrics!Edit(v)
    PROVE  MetricsInv'
<1>1. stream' = stream /\ UNCHANGED <<runs, ledger, call>> /\ tree' = v
    BY DEF Metrics!Edit
<1>2. stream' \in Seq(Events)
    BY <1>1 DEF MetricsInv
<1>3. \A c \in Callers : call[c] # Metrics!Idle => call[c].artifacts # tree'
    BY <1>1 DEF Metrics!Edit
<1> QED BY <1>1, <1>2, <1>3, WorldKeepsMetrics

LEMMA UnchangedKeepsMetrics ==
    ASSUME MetricsInv, UNCHANGED <<stream, tree, runs, ledger, call>>
    PROVE  MetricsInv'
BY DEF MetricsInv

LEMMA BeginKeepsMetrics ==
    ASSUME MetricsInv, NEW c \in Callers, Metrics!Begin(c)
    PROVE  MetricsInv'
<1> DEFINE now == [step |-> "open", artifacts |-> tree, revision |-> head]
<1>1. call' = [call EXCEPT ![c] = now] /\ UNCHANGED <<stream, tree, runs, ledger>>
    BY DEF Metrics!Begin
<1>2. CallHolds(now, stream, tree, runs, ledger)
    BY DEF CallHolds
<1> HIDE DEF now
<1> QED BY <1>1, <1>2, GoesOn

LEMMA ExecuteKeepsMetrics ==
    ASSUME MetricsInv, NEW c \in Callers, NEW known \in Cutoffs, Metrics!Execute(c, known, Len(stream))
    PROVE  MetricsInv'
<1> DEFINE events == Metrics!Snapshot(stream, known, Len(stream))
           run == [kind |-> "metric", stage |-> "manifest",
                   artifacts |-> call[c].artifacts, revision |-> call[c].revision,
                   known |-> known, watermark |-> Len(stream), inputs |-> events,
                   query |-> <<call[c].artifacts, tree>>, rows |-> Metrics!Population(tree, events)]
           now == [step |-> "seal", artifacts |-> call[c].artifacts, run |-> run]
<1>1. /\ UNCHANGED <<stream, tree, runs, ledger>>
      /\ IF Consistent(events) THEN call' = [call EXCEPT ![c] = now] ELSE Metrics!End(c)
    BY DEF Metrics!Execute
<1>2. CASE ~ Consistent(events)
    BY <1>1, <1>2, Ends
<1>3. CASE Consistent(events)
    <2>1. Len(stream) \in 0 .. Len(stream)
        BY LenProperties DEF MetricsInv
    <2>2. now.step = "seal" /\ now.artifacts = call[c].artifacts /\ now.run = run
          /\ now = [step |-> "seal", artifacts |-> now.artifacts, run |-> now.run]
        BY DEF now
    <2>3. ASSUME tree = call[c].artifacts PROVE IsMetric(run, stream)
        <3>1. /\ run.stage = "manifest" /\ run.artifacts = tree /\ run.revision = call[c].revision
              /\ run.known = known /\ run.watermark = Len(stream) /\ run.inputs = events
            BY <2>3
        <3>2. run = [kind |-> "metric", stage |-> "manifest", artifacts |-> tree, revision |-> call[c].revision,
                     known |-> known, watermark |-> Len(stream), inputs |-> events,
                     query |-> <<tree, tree>>, rows |-> Metrics!Population(tree, events)]
            BY <2>3
        <3> HIDE DEF run, events
        <3>3. /\ run.watermark \in 0 .. Len(stream) /\ Consistent(run.inputs)
              /\ run.inputs = Metrics!Snapshot(stream, run.known, run.watermark)
            BY <1>3, <2>1, <3>1 DEF events
        <3> QED BY <3>1, <3>2, <3>3 DEF IsMetric
    <2> HIDE DEF run, now
    <2>4. CallHolds(now, stream, tree, runs, ledger)
        BY <2>2, <2>3 DEF CallHolds
    <2>5. call' = [call EXCEPT ![c] = now]
        BY <1>1, <1>3
    <2> QED BY <1>1, <2>4, <2>5, GoesOn
<1> QED BY <1>2, <1>3

(* The command under way, by its step.                                      *)
LEMMA UnderWay ==
    ASSUME MetricsInv, NEW c \in Callers
    PROVE  /\ call[c].step = "seal" => (tree = call[c].artifacts => IsMetric(call[c].run, stream))
           /\ call[c].step \in {"rows", "append"} =>
                /\ call[c] = [step |-> call[c].step, artifacts |-> call[c].artifacts, id |-> call[c].id]
                /\ call[c].id \in 1 .. Len(runs)
                /\ call[c].step = "append" => runs[call[c].id].stage = "rows"
           /\ call[c].step = "evaluate" =>
                /\ call[c] = [step |-> "evaluate", artifacts |-> call[c].artifacts, old |-> call[c].old, new |-> call[c].new,
                              waiting |-> call[c].waiting, causes |-> call[c].causes,
                              left |-> call[c].left, invalid |-> call[c].invalid]
                /\ Compared(call[c].old, call[c].new, call[c].artifacts, runs, ledger)
                /\ tree = call[c].artifacts => Evaluated(call[c], runs[call[c].old], runs[call[c].new])
<1>1. CallHolds(call[c], stream, tree, runs, ledger)
    BY DEF MetricsInv
<1>2. Metrics!Idle.step = "idle"
    BY DEF Metrics!Idle
<1> QED BY <1>1, <1>2 DEF CallHolds

(* A run directory is made, and its rows come next.                         *)
LEMMA SealedKeepsMetrics ==
    ASSUME MetricsInv, NEW c \in Callers, NEW run, NEW a, IsRun(run, stream, runs, ledger),
           runs' = Append(runs, run), UNCHANGED <<stream, tree, ledger>>,
           call' = [call EXCEPT ![c] = [step |-> "rows", artifacts |-> a, id |-> Len(runs) + 1]]
    PROVE  MetricsInv'
<1> DEFINE now == [step |-> "rows", artifacts |-> a, id |-> Len(runs) + 1]
<1>1. stream \in Seq(Events) /\ RunsHold(stream, runs, ledger)
    BY DEF MetricsInv
<1>2. /\ RunsHold(stream', runs', ledger') /\ Kept(stream, runs, ledger, stream', runs', ledger')
      /\ Len(runs) + 1 \in 1 .. Len(runs')
    BY <1>1, RunIsAdded
<1>3. CallHolds(now, stream', tree, runs', ledger')
    <2>1. now.step = "rows" /\ now = [step |-> now.step, artifacts |-> now.artifacts, id |-> now.id] /\ now.id = Len(runs) + 1
        OBVIOUS
    <2> HIDE DEF now
    <2> QED BY <1>2, <2>1 DEF CallHolds
<1>4. call' = [call EXCEPT ![c] = now] /\ stream' \in Seq(Events) /\ tree' = tree
    BY <1>1
<1> HIDE DEF now
<1> QED BY <1>2, <1>3, <1>4, OneSteps

LEMMA SealKeepsMetrics ==
    ASSUME MetricsInv, NEW c \in Callers, Metrics!Seal(c)
    PROVE  MetricsInv'
<1>1. UNCHANGED <<stream, tree, ledger>> /\ call[c].step = "seal"
    BY DEF Metrics!Seal
<1>2. CASE tree = call[c].artifacts
    <2>1. /\ runs' = Append(runs, call[c].run)
          /\ call' = [call EXCEPT ![c] = [step |-> "rows", artifacts |-> call[c].artifacts, id |-> Len(runs) + 1]]
        BY <1>2 DEF Metrics!Seal
    <2>2. IsMetric(call[c].run, stream)
        BY <1>1, <1>2, UnderWay
    <2>3. IsRun(call[c].run, stream, runs, ledger)
        BY <2>2 DEF IsRun, IsMetric
    <2> QED BY <1>1, <2>1, <2>3, SealedKeepsMetrics
<1>3. CASE tree # call[c].artifacts
    <2>1. Metrics!End(c) /\ UNCHANGED runs
        BY <1>3 DEF Metrics!Seal
    <2> QED BY <1>1, <2>1, Ends
<1> QED BY <1>2, <1>3

LEMMA WriteRowsKeepsMetrics ==
    ASSUME MetricsInv, NEW c \in Callers, Metrics!WriteRows(c)
    PROVE  MetricsInv'
<1> DEFINE id == call[c].id
           now == [step |-> "append", artifacts |-> call[c].artifacts, id |-> id]
<1>1. /\ UNCHANGED <<stream, tree, ledger>> /\ call[c].step = "rows"
      /\ runs' = [runs EXCEPT ![id].stage = "rows"] /\ call' = [call EXCEPT ![c].step = "append"]
    BY DEF Metrics!WriteRows
<1>2. id \in 1 .. Len(runs) /\ call[c] = [step |-> "rows", artifacts |-> call[c].artifacts, id |-> id]
    BY <1>1, UnderWay
<1>3. call' = [call EXCEPT ![c] = now]
    <2>1. [call[c] EXCEPT !.step = "append"] = now
        BY <1>2
    <2> HIDE DEF now, id
    <2> QED BY <1>1, <2>1
<1>4. stream \in Seq(Events) /\ RunsHold(stream, runs, ledger)
    BY DEF MetricsInv
<1> HIDE DEF id
<1>5. /\ RunsHold(stream, runs', ledger) /\ Kept(stream, runs, ledger, stream, runs', ledger)
      /\ Len(runs') = Len(runs) /\ runs'[id].stage = "rows"
    <2>1. runs' = WithRows(runs, id)
        BY <1>1 DEF WithRows
    <2>2. id \in 1 .. Len(runs)
        BY <1>2
    <2> QED BY <1>4, <2>1, <2>2, RowsAreWritten
<1>6. CallHolds(now, stream', tree, runs', ledger')
    <2>1. now.step = "append" /\ now = [step |-> now.step, artifacts |-> now.artifacts, id |-> now.id] /\ now.id = id
        OBVIOUS
    <2> HIDE DEF now
    <2> QED BY <1>2, <1>5, <2>1 DEF CallHolds
<1>7. /\ stream' \in Seq(Events) /\ tree' = tree
      /\ RunsHold(stream', runs', ledger') /\ Kept(stream, runs, ledger, stream', runs', ledger')
    BY <1>1, <1>4, <1>5
<1> HIDE DEF now
<1> QED BY <1>3, <1>6, <1>7, OneSteps

(* The receipts of a run come to the ledger when its rows are written.      *)
LEMMA ReceiptsAreAppended ==
    ASSUME NEW s \in Seq(Events), NEW R, NEW L, RunsHold(s, R, L), NEW id \in 1 .. Len(R), R[id].stage = "rows"
    PROVE  RunsHold(s, R, L \union {id}) /\ Kept(s, R, L, s, R, L \union {id})
<1>1. Kept(s, R, L, s, R, L \union {id})
    BY NothingIsLost
<1>2. ASSUME NEW r \in 1 .. Len(R) PROVE IsRun(R[r], s, R, L \union {id})
    <2>1. IsRun(R[r], s, R, L)
        BY DEF RunsHold
    <2> QED BY <1>1, <2>1, RunStays
<1>3. R \in Seq(Metrics!Members(R)) /\ L \union {id} \subseteq 1 .. Len(R) /\ \A r \in L \union {id} : R[r].stage = "rows"
    BY DEF RunsHold
<1> QED BY <1>1, <1>2, <1>3 DEF RunsHold

LEMMA AppendReceiptsKeepsMetrics ==
    ASSUME MetricsInv, NEW c \in Callers, Metrics!AppendReceipts(c)
    PROVE  MetricsInv'
<1> DEFINE id == call[c].id
<1>1. /\ UNCHANGED <<stream, tree, runs>> /\ call[c].step = "append" /\ Metrics!End(c)
      /\ ledger' = ledger \/ ledger' = ledger \union {id}
    BY DEF Metrics!AppendReceipts
<1>2. id \in 1 .. Len(runs) /\ runs[id].stage = "rows"
    BY <1>1, UnderWay
<1>3. stream \in Seq(Events) /\ RunsHold(stream, runs, ledger)
    BY DEF MetricsInv
<1> HIDE DEF id
<1>4. CASE ledger' = ledger
    BY <1>1, <1>4, Ends
<1>5. CASE ledger' = ledger \union {id}
    <2>1. RunsHold(stream, runs, ledger \union {id}) /\ Kept(stream, runs, ledger, stream, runs, ledger \union {id})
        BY <1>2, <1>3, ReceiptsAreAppended
    <2>2. /\ stream' \in Seq(Events) /\ tree' = tree
          /\ RunsHold(stream', runs', ledger') /\ Kept(stream, runs, ledger, stream', runs', ledger')
        BY <1>1, <1>3, <1>5, <2>1
    <2>3. call' = [call EXCEPT ![c] = Metrics!Idle]
        BY <1>1 DEF Metrics!End
    <2>4. CallHolds(Metrics!Idle, stream', tree, runs', ledger')
        BY DEF CallHolds
    <2> QED BY <2>2, <2>3, <2>4, OneSteps
<1> QED BY <1>1, <1>4, <1>5

(* Two runs that replay are compared.                                       *)
LEMMA CompareKeepsMetrics ==
    ASSUME MetricsInv, NEW c \in Callers, NEW old \in Metrics!RunIds, NEW new \in Metrics!RunIds,
           Metrics!Compare(c, old, new)
    PROVE  MetricsInv'
<1> DEFINE method == Metrics!Method(runs[old], runs[new], tree)
           now == [step |-> "evaluate", artifacts |-> tree, old |-> old, new |-> new,
                   waiting |-> IF method = "proven_minimum_group_set" THEN Metrics!Changed(runs[old], runs[new]) ELSE {},
                   causes |-> [k \in Metrics!Changed(runs[old], runs[new]) |->
                        Metrics!Cause(IF method = "definition_change" THEN method ELSE "unresolved_candidates", {})],
                   left |-> SUBSET Metrics!Groups(Metrics!Newly(runs[old], runs[new])), invalid |-> {}]
<1>1. call' = [call EXCEPT ![c] = now] /\ UNCHANGED <<stream, tree, runs, ledger>> /\ Metrics!Comparable(old, new)
    BY DEF Metrics!Compare
<1>2. Compared(old, new, tree, runs, ledger)
    <2>1. \A r \in {old, new} : r \in ledger /\ runs[r].kind = "metric" /\ Metrics!Replays(r)
        BY <1>1 DEF Metrics!Comparable
    <2>2. \A r \in {old, new} : Metrics!Performable(runs[r], tree, {})
        BY <2>1 DEF Metrics!Replays, Metrics!MetricReplays
    <2> QED BY <2>1, <2>2 DEF Compared, Metrics!Performable
<1>3. /\ now.step = "evaluate" /\ now.artifacts = tree /\ now.old = old /\ now.new = new
      /\ now = [step |-> "evaluate", artifacts |-> now.artifacts, old |-> now.old, new |-> now.new,
                waiting |-> now.waiting, causes |-> now.causes, left |-> now.left, invalid |-> now.invalid]
    <2> HIDE DEF method
    <2> QED OBVIOUS
<1>4. /\ now.waiting = IF method = "proven_minimum_group_set" THEN Metrics!Changed(runs[old], runs[new]) ELSE {}
      /\ now.causes = [k \in Metrics!Changed(runs[old], runs[new]) |->
                        Metrics!Cause(IF method = "definition_change" THEN method ELSE "unresolved_candidates", {})]
      /\ now.left = Sets(runs[old], runs[new]) /\ now.invalid = {}
    <2> HIDE DEF method
    <2> QED BY DEF Sets
<1> HIDE DEF now
<1>5. Evaluated(now, runs[old], runs[new])
    BY <1>3, <1>4, EvaluationStarts
<1>6. CallHolds(now, stream, tree, runs, ledger)
    BY <1>2, <1>3, <1>5 DEF CallHolds
<1> QED BY <1>1, <1>6, GoesOn

Evaluation(a, o, n, w, cs, l, i) ==
    [step |-> "evaluate", artifacts |-> a, old |-> o, new |-> n,
     waiting |-> w, causes |-> cs, left |-> l, invalid |-> i]

Tried(e, w, cs, l, i) == [e EXCEPT !.left = l, !.invalid = i, !.waiting = w, !.causes = cs]

LEMMA EvaluationRecord ==
    ASSUME NEW a, NEW o, NEW n, NEW w, NEW cs, NEW l, NEW i, NEW w2, NEW cs2, NEW l2, NEW i2,
           NEW e, e = Evaluation(a, o, n, w, cs, l, i)
    PROVE  Tried(e, w2, cs2, l2, i2) = Evaluation(a, o, n, w2, cs2, l2, i2)
<1> DEFINE f == [e EXCEPT !.left = l2]
           g == [f EXCEPT !.invalid = i2]
           h == [g EXCEPT !.waiting = w2]
<1>1. f = Evaluation(a, o, n, w, cs, l2, i)
    BY DEF Evaluation
<1> HIDE DEF f
<1>2. g = Evaluation(a, o, n, w, cs, l2, i2)
    BY <1>1 DEF Evaluation
<1> HIDE DEF g
<1>3. h = Evaluation(a, o, n, w2, cs, l2, i2)
    BY <1>2 DEF Evaluation
<1> HIDE DEF h
<1>4. [h EXCEPT !.causes = cs2] = Evaluation(a, o, n, w2, cs2, l2, i2)
    BY <1>3 DEF Evaluation
<1> QED BY <1>4 DEF Tried, f, g, h

LEMMA EvaluateKeepsMetrics ==
    ASSUME MetricsInv, NEW c \in Callers, Metrics!Evaluate(c)
    PROVE  MetricsInv'
<1> DEFINE e == call[c]
           old == runs[e.old]
           new == runs[e.new]
           D == Metrics!FirstOf(e.left)
           found == {k \in e.waiting : Metrics!Explains(tree, old, new, D, k)}
           causes == [k \in DOMAIN e.causes |->
                        IF k \in found THEN Metrics!Cause("proven_minimum_group_set", D) ELSE e.causes[k]]
           invalid == IF Consistent(Metrics!Without(old, new, D)) THEN e.invalid ELSE e.invalid \union {D}
           now == [step |-> "evaluate", artifacts |-> e.artifacts, old |-> e.old, new |-> e.new,
                   waiting |-> e.waiting \ found, causes |-> causes, left |-> e.left \ {D}, invalid |-> invalid]
<1>1. /\ UNCHANGED <<stream, tree, runs, ledger>>
      /\ e.step = "evaluate" /\ e.waiting # {} /\ e.left # {}
      /\ call' = [call EXCEPT ![c] = Tried(e, e.waiting \ found, causes, e.left \ {D}, invalid)]
    BY DEF Metrics!Evaluate, Metrics!Evaluating, Tried
<1>2. /\ e = [step |-> "evaluate", artifacts |-> e.artifacts, old |-> e.old, new |-> e.new,
              waiting |-> e.waiting, causes |-> e.causes, left |-> e.left, invalid |-> e.invalid]
      /\ Compared(e.old, e.new, e.artifacts, runs, ledger)
      /\ tree = e.artifacts => Evaluated(e, old, new)
    BY <1>1, UnderWay
<1>3. Tried(e, e.waiting \ found, causes, e.left \ {D}, invalid) = now
    <2> HIDE DEF e, D, found, causes, invalid
    <2>1. e = Evaluation(e.artifacts, e.old, e.new, e.waiting, e.causes, e.left, e.invalid)
        BY <1>2 DEF Evaluation
    <2>2. now = Evaluation(e.artifacts, e.old, e.new, e.waiting \ found, causes, e.left \ {D}, invalid)
        BY DEF Evaluation
    <2> HIDE DEF now
    <2> QED BY <2>1, <2>2, EvaluationRecord
<1>4. call' = [call EXCEPT ![c] = now]
    <2> HIDE DEF e, D, found, causes, invalid, now
    <2> QED BY <1>1, <1>3
<1>5. /\ now.step = "evaluate" /\ now.artifacts = e.artifacts /\ now.old = e.old /\ now.new = e.new
      /\ now.waiting = e.waiting \ found /\ now.causes = causes /\ now.left = e.left \ {D} /\ now.invalid = invalid
      /\ now = [step |-> "evaluate", artifacts |-> now.artifacts, old |-> now.old, new |-> now.new,
                waiting |-> now.waiting, causes |-> now.causes, left |-> now.left, invalid |-> now.invalid]
    <2> HIDE DEF e, D, found, causes, invalid
    <2> QED OBVIOUS
<1>6. ASSUME tree = e.artifacts PROVE Evaluated(now, old, new)
    <2>1. stream \in Seq(Events) /\ RunsHold(stream, runs, ledger)
        BY DEF MetricsInv
    <2> HIDE DEF e, D, found, causes, invalid, now
    <2>2. Finite(old, new)
        BY <1>2, <2>1, ComparedAreMetric
    <2>3. Evaluated(e, old, new)
        BY <1>2, <1>6
    <2>4. D = Metrics!FirstOf(e.left) /\ found = {k \in e.waiting : Works(e.artifacts, old, new, D, k)}
        BY <1>6 DEF D, found, Works
    <2>5. /\ now.causes = [k \in DOMAIN e.causes |-> IF k \in found THEN Proven(D) ELSE e.causes[k]]
          /\ now.invalid = IF Fits(old, new, D) THEN e.invalid ELSE e.invalid \union {D}
        BY <1>5 DEF causes, invalid, Proven, Fits
    <2>6. e.waiting # {} /\ e.left # {}
        BY <1>1
    <2>7. now.artifacts = e.artifacts /\ now.left = e.left \ {D} /\ now.waiting = e.waiting \ found
        BY <1>5
    <2> HIDE DEF old, new
    <2> QED BY <2>2, <2>3, <2>4, <2>5, <2>6, <2>7, EvaluationSteps
<1> HIDE DEF now
<1>7. CallHolds(now, stream, tree, runs, ledger)
    BY <1>2, <1>5, <1>6 DEF CallHolds
<1> HIDE DEF e
<1> QED BY <1>1, <1>4, <1>7, GoesOn

LEMMA SealBridgeKeepsMetrics ==
    ASSUME MetricsInv, NEW c \in Callers, Metrics!SealBridge(c)
    PROVE  MetricsInv'
<1> DEFINE e == call[c]
           result == Metrics!Result(runs[e.old], runs[e.new], e.causes, e.invalid)
           run == [kind |-> "bridge", stage |-> "manifest", artifacts |-> tree, revision |-> head,
                   old |-> e.old, new |-> e.new, result |-> result]
<1>1. UNCHANGED <<stream, tree, ledger>> /\ e.step = "evaluate" /\ (e.waiting = {} \/ e.left = {})
    BY DEF Metrics!SealBridge, Metrics!Evaluating
<1>2. CASE tree = e.artifacts
    <2>1. /\ runs' = Append(runs, run)
          /\ call' = [call EXCEPT ![c] = [step |-> "rows", artifacts |-> tree, id |-> Len(runs) + 1]]
        BY <1>2 DEF Metrics!SealBridge
    <2>2. Compared(e.old, e.new, tree, runs, ledger) /\ Evaluated(e, runs[e.old], runs[e.new])
        BY <1>1, <1>2, UnderWay
    <2>3. stream \in Seq(Events) /\ RunsHold(stream, runs, ledger)
        BY DEF MetricsInv
    <2>4. Finite(runs[e.old], runs[e.new])
        BY <2>2, <2>3, ComparedAreMetric
    <2>5. result = Metrics!Bridge(runs[e.old], runs[e.new], tree)
        <3> HIDE DEF e
        <3> QED BY <1>1, <1>2, <2>2, <2>4, EvaluationEnds
    <2>6. /\ run.kind = "bridge" /\ run.stage = "manifest" /\ run.artifacts = tree /\ run.revision = head
          /\ run.old = e.old /\ run.new = e.new
          /\ run = [kind |-> "bridge", stage |-> "manifest", artifacts |-> tree, revision |-> head,
                    old |-> e.old, new |-> e.new, result |-> Metrics!Bridge(runs[e.old], runs[e.new], tree)]
        <3> HIDE DEF e, result
        <3> QED BY <2>5
    <2> HIDE DEF run, e, result
    <2>7. IsRun(run, stream, runs, ledger)
        BY <2>2, <2>6 DEF IsRun, IsBridge
    <2> QED BY <1>1, <2>1, <2>7, SealedKeepsMetrics
<1>3. CASE tree # e.artifacts
    <2>1. Metrics!End(c) /\ UNCHANGED runs
        BY <1>3 DEF Metrics!SealBridge
    <2> QED BY <1>1, <2>1, Ends
<1> QED BY <1>2, <1>3

LEMMA DieKeepsMetrics ==
    ASSUME MetricsInv, NEW c \in Callers, Metrics!Die(c)
    PROVE  MetricsInv'
BY Ends DEF Metrics!Die

LEMMA MetricsStart == MCInit => MetricsInv
<1> SUFFICES ASSUME MCInit PROVE MetricsInv
    OBVIOUS
<1>1. stream \in Seq(Events) /\ runs = <<>> /\ ledger = {} /\ call = [c \in Callers |-> Metrics!Idle]
    BY MetricsAssumption DEF MCInit, Metrics!Init, Metrics!StreamIsOfEvents
<1>2. RunsHold(stream, runs, ledger)
    <2>1. Len(runs) = 0 /\ runs \in Seq(Metrics!Members(runs))
        BY <1>1
    <2> QED BY <1>1, <2>1 DEF RunsHold
<1>3. \A c \in Callers : CallHolds(call[c], stream, tree, runs, ledger)
    BY <1>1 DEF CallHolds
<1> QED BY <1>1, <1>2, <1>3 DEF MetricsInv

LEMMA MetricsStep == MetricsInv /\ [MCNext]_<<system, vars, metrics>> => MetricsInv'
<1> SUFFICES ASSUME MetricsInv, [MCNext]_<<system, vars, metrics>> PROVE MetricsInv'
    OBVIOUS
<1>1. CASE UNCHANGED metrics
    BY <1>1, UnchangedKeepsMetrics DEF metrics
<1>2. CASE Metrics!Next
    <2>1. ASSUME NEW e \in Events, Metrics!Arrive(e) PROVE MetricsInv'
        BY <2>1, ArriveKeepsMetrics
    <2>2. ASSUME NEW v \in Versions, Metrics!Edit(v) PROVE MetricsInv'
        BY <2>2, EditKeepsMetrics
    <2>3. CASE Metrics!Commit
        BY <2>3, UnchangedKeepsMetrics DEF Metrics!Commit
    <2>4. ASSUME NEW c \in Callers, Metrics!Begin(c) PROVE MetricsInv'
        BY <2>4, BeginKeepsMetrics
    <2>5. ASSUME NEW c \in Callers, Metrics!Seal(c) PROVE MetricsInv'
        BY <2>5, SealKeepsMetrics
    <2>6. ASSUME NEW c \in Callers, Metrics!WriteRows(c) PROVE MetricsInv'
        BY <2>6, WriteRowsKeepsMetrics
    <2>7. ASSUME NEW c \in Callers, Metrics!AppendReceipts(c) PROVE MetricsInv'
        BY <2>7, AppendReceiptsKeepsMetrics
    <2>8. ASSUME NEW c \in Callers, NEW known \in Cutoffs, Metrics!Execute(c, known, Len(stream)) PROVE MetricsInv'
        BY <2>8, ExecuteKeepsMetrics
    <2>9. ASSUME NEW c \in Callers, NEW old \in Metrics!RunIds, NEW new \in Metrics!RunIds, Metrics!Compare(c, old, new)
          PROVE  MetricsInv'
        BY <2>9, CompareKeepsMetrics
    <2>10. ASSUME NEW c \in Callers, Metrics!Evaluate(c) PROVE MetricsInv'
        BY <2>10, EvaluateKeepsMetrics
    <2>11. ASSUME NEW c \in Callers, Metrics!SealBridge(c) PROVE MetricsInv'
        BY <2>11, SealBridgeKeepsMetrics
    <2>12. ASSUME NEW c \in Callers, Metrics!Die(c) PROVE MetricsInv'
        BY <2>12, DieKeepsMetrics
    <2> QED BY <1>2, <2>1, <2>2, <2>3, <2>4, <2>5, <2>6, <2>7, <2>8, <2>9, <2>10, <2>11, <2>12 DEF Metrics!Next
<1> QED BY <1>1, <1>2 DEF MCNext

(***************************************************************************)
(* What follows from it.                                                   *)
(***************************************************************************)
LEMMA SmallStacks ==
    ASSUME NEW x
    PROVE  Metrics!Cardinality({}) < 8 /\ Metrics!Cardinality({x}) < 8
<1>1. Cardinality({}) = 0 /\ Cardinality({x}) = 1
    BY FS_EmptySet, FS_Singleton
<1>2. Metrics!Cardinality({}) = Cardinality({}) /\ Metrics!Cardinality({x}) = Cardinality({x})
    BY CardinalityIsOne
<1> QED BY <1>1, <1>2

LEMMA RecordedReproduces ==
    ASSUME NEW run, IsMetric(run, stream)
    PROVE  Metrics!Reproduces(run, run.artifacts, stream)
<1>1. /\ run.query = <<run.artifacts, run.artifacts>> /\ run.rows = Metrics!Population(run.artifacts, run.inputs)
      /\ run.inputs = Metrics!Snapshot(stream, run.known, run.watermark) /\ Consistent(run.inputs)
    BY DEF IsMetric
<1> QED BY <1>1 DEF Metrics!Reproduces

LEMMA RecordedRun ==
    ASSUME MetricsInv, NEW r \in ledger
    PROVE  Metrics!Readable(r) /\ r \in 1 .. Len(runs) /\ IsRun(runs[r], stream, runs, ledger)
BY DEF MetricsInv, RunsHold, Metrics!Readable

LEMMA RecordedReplays ==
    ASSUME MetricsInv, NEW r \in ledger, runs[r].kind = "metric", NEW v, NEW stack, Metrics!Cardinality(stack) < 8,
           \/ runs[r].artifacts = v
           \/ runs[r].revision = runs[r].artifacts /\ runs[r].artifacts \notin stack
    PROVE  Metrics!MetricReplays(r, v, stack)
<1>1. Metrics!Readable(r) /\ IsMetric(runs[r], stream)
    BY RecordedRun DEF IsRun
<1>2. Metrics!Reproduces(runs[r], runs[r].artifacts, stream)
    BY <1>1, RecordedReproduces
<1>4. Metrics!Performable(runs[r], v, stack)
    BY DEF Metrics!Performable
<1> QED BY <1>1, <1>2, <1>4 DEF Metrics!MetricReplays

LEMMA ReceiptsFollow == MetricsInv => Metrics!ReceiptsReplay
<1> SUFFICES ASSUME MetricsInv PROVE Metrics!ReceiptsReplay
    OBVIOUS
<1>1. ASSUME NEW r \in ledger, runs[r].artifacts \in {runs[r].revision, tree} PROVE Metrics!Replays(r)
    <2>1. Metrics!Readable(r) /\ IsRun(runs[r], stream, runs, ledger)
        BY RecordedRun
    <2>2. CASE runs[r].kind = "metric"
        <3>1. Metrics!MetricReplays(r, tree, {})
            BY <1>1, <2>2, SmallStacks, RecordedReplays
        <3> QED BY <2>2, <3>1 DEF Metrics!Replays
    <2>3. CASE runs[r].kind = "bridge"
        <3> DEFINE w == runs[r].artifacts
                   stack == Metrics!Nested(runs[r], tree, {})
        <3>1. IsBridge(runs[r], runs, ledger)
            BY <2>1, <2>3 DEF IsRun
        <3>2. /\ Compared(runs[r].old, runs[r].new, w, runs, ledger)
              /\ Metrics!Bridge(runs[runs[r].old], runs[runs[r].new], w) = runs[r].result
            BY <3>1 DEF IsBridge
        <3>3. Metrics!Cardinality({}) < 8
            BY SmallStacks
        <3>4. Metrics!Performable(runs[r], tree, {})
            BY <1>1, <3>3 DEF Metrics!Performable
        <3>5. stack \in {{}, {w}}
            BY DEF Metrics!Nested
        <3> HIDE DEF stack
        <3>6. ASSUME NEW run \in {runs[r].old, runs[r].new} PROVE Metrics!MetricReplays(run, w, stack)
            <4>1. run \in ledger /\ runs[run].kind = "metric" /\ (runs[run].artifacts = w \/ runs[run].revision = runs[run].artifacts)
                BY <3>2 DEF Compared
            <4>2. run \in ledger
                BY <4>1
            <4>3. runs[run].kind = "metric"
                BY <4>1
            <4>4. \/ runs[run].artifacts = w
                  \/ runs[run].revision = runs[run].artifacts /\ runs[run].artifacts \notin stack
                BY <3>5, <4>1
            <4>5. Metrics!Cardinality(stack) < 8
                BY <3>5, SmallStacks
            <4> HIDE DEF w
            <4> QED BY <4>2, <4>3, <4>4, <4>5, RecordedReplays
        <3>7. Metrics!BridgeReplays(r, tree, {})
            BY <2>1, <3>2, <3>4, <3>6 DEF Metrics!BridgeReplays, stack
        <3> QED BY <2>3, <3>7 DEF Metrics!Replays
    <2> QED BY <2>1, <2>2, <2>3 DEF IsRun
<1>2. ASSUME NEW r \in ledger, Metrics!Archivable(r) PROVE Metrics!ArchiveReplays(Metrics!Archive(r))
    <2> DEFINE run == runs[r]
               a == Metrics!Archive(r)
    <2>1. run.revision = run.artifacts /\ run.kind = "metric"
        BY <1>2 DEF Metrics!Archivable
    <2>2. IsMetric(run, stream)
        BY <2>1, RecordedRun DEF IsRun
    <2>3. Metrics!Reproduces(run, run.artifacts, stream)
        BY <2>2, RecordedReproduces
    <2>4. Metrics!Snapshot(SubSeq(stream, 1, run.watermark), run.known, run.watermark)
            = Metrics!Snapshot(stream, run.known, run.watermark)
        <3>1. run.watermark \in 0 .. Len(stream) /\ stream \in Seq(Events)
            BY <2>2 DEF IsMetric, MetricsInv
        <3> QED BY <3>1, PrefixSnapshot
    <2>5. a.run = run /\ a.source = SubSeq(stream, 1, run.watermark)
        BY DEF Metrics!Archive
    <2> HIDE DEF run, a
    <2>6. Metrics!Reproduces(run, run.artifacts, SubSeq(stream, 1, run.watermark))
        BY <2>3, <2>4 DEF Metrics!Reproduces
    <2>7. Metrics!ArchiveReplays(a)
        BY <2>1, <2>5, <2>6 DEF Metrics!ArchiveReplays
    <2> QED BY <2>7 DEF a
<1> QED BY <1>1, <1>2 DEF Metrics!ReceiptsReplay

LEMMA AttributionFollows == MetricsInv => Metrics!AttributionIsMinimal
<1> SUFFICES ASSUME MetricsInv, NEW r \in ledger, runs[r].kind = "bridge",
                    NEW k \in Metrics!Changed(runs[runs[r].old], runs[runs[r].new])
             PROVE  LET old == runs[runs[r].old]
                        new == runs[runs[r].new]
                        cause == runs[r].result.causes[k]
                    IN  /\ cause.status = Metrics!Method(old, new, runs[r].artifacts)
                        /\ cause.status = "proven_minimum_group_set" =>
                              /\ Metrics!Explains(new.artifacts, old, new, cause.docs, k)
                              /\ \A D \in SUBSET Metrics!Groups(Metrics!Newly(old, new)) :
                                    Metrics!Explains(new.artifacts, old, new, D, k) =>
                                        Metrics!Cardinality(cause.docs) <= Metrics!Cardinality(D)
    BY DEF Metrics!AttributionIsMinimal
<1> DEFINE old == runs[runs[r].old]
           new == runs[runs[r].new]
           v == runs[r].artifacts
<1>1. IsBridge(runs[r], runs, ledger)
    BY RecordedRun DEF IsRun
<1>2. Compared(runs[r].old, runs[r].new, v, runs, ledger) /\ runs[r].result = Metrics!Bridge(old, new, v)
    BY <1>1 DEF IsBridge
<1>3. stream \in Seq(Events) /\ RunsHold(stream, runs, ledger)
    BY DEF MetricsInv
<1>4. IsMetric(new, stream) /\ Finite(old, new)
    BY <1>2, <1>3, ComparedAreMetric
<1>5. Consistent(new.inputs) /\ new.rows = Metrics!Population(new.artifacts, new.inputs)
    BY <1>4 DEF IsMetric
<1>6. runs[r].result.causes = Metrics!CausesOf(old, new, v)
    BY <1>2 DEF Metrics!Bridge, Metrics!Result
<1> HIDE DEF old, new, v
<1>7. k \in Metrics!Changed(old, new)
    BY DEF old, new
<1> DEFINE cause == Metrics!CausesOf(old, new, v)[k]
<1>8. /\ cause.status = Metrics!Method(old, new, v)
      /\ cause.status = "proven_minimum_group_set" =>
            /\ Works(new.artifacts, old, new, cause.docs, k)
            /\ \A D \in Sets(old, new) : Works(new.artifacts, old, new, D, k) =>
                    Metrics!Cardinality(cause.docs) <= Metrics!Cardinality(D)
    BY <1>4, <1>5, <1>7, CausesAreMinimal
<1> HIDE DEF cause
<1>9. runs[r].result.causes[k] = cause
    BY <1>6 DEF cause
<1> QED BY <1>8, <1>9 DEF Works, Sets, old, new, v

(* Every receipt whose artifacts were committed, or are still in the working *)
(* tree, can be performed again with the same outcome, however events       *)
(* arrive, artifacts are edited and committed and processes die in between; *)
(* and its archive replays without any of it (metrics/engine.py,            *)
(* receipts/archive.py).                                                    *)
THEOREM ReceiptsAlwaysReplay == MCSpec => []ReceiptsReplay
<1>1. MCInit => MetricsInv
    BY MetricsStart
<1>2. MetricsInv /\ [MCNext]_<<system, vars, metrics>> => MetricsInv'
    BY MetricsStep
<1>3. MetricsInv => ReceiptsReplay
    BY ReceiptsFollow DEF ReceiptsReplay
<1> QED BY <1>1, <1>2, <1>3, PTL DEF MCSpec

(* What a restatement names as the cause of a changed row explains it, and  *)
(* no smaller set of late documents does (metrics/changes.py).              *)
THEOREM AttributionIsAlwaysMinimal == MCSpec => []AttributionIsMinimal
<1>1. MCInit => MetricsInv
    BY MetricsStart
<1>2. MetricsInv /\ [MCNext]_<<system, vars, metrics>> => MetricsInv'
    BY MetricsStep
<1>3. MetricsInv => AttributionIsMinimal
    BY AttributionFollows DEF AttributionIsMinimal
<1> QED BY <1>1, <1>2, <1>3, PTL DEF MCSpec

(***************************************************************************)
(* Sums over finite sets, by induction on the numbers.                     *)
(***************************************************************************)
(* The natural numbers are well ordered. *)
LEMMA LeastOfSet ==
    ASSUME NEW T, T \subseteq Nat, T # {}
    PROVE  \E n \in T : \A m \in T : ~ (m < n)
<1> DEFINE R == OpToRel(<, Nat)
<1>1. IsWellFoundedOn(R, Nat)
  BY NatLessThanWellFounded
<1>2. \A m, n \in Nat : <<m, n>> \in R <=> m < n
  BY DEF OpToRel
<1> HIDE DEF R
<1>3. \E n \in T : \A m \in T : ~ (<<m, n>> \in R)
  BY <1>1, WFMin
<1> QED BY <1>2, <1>3

(* A set of numbers that has 0 and with each number the next one has all.   *)
LEMMA InductiveSet ==
    ASSUME NEW T, 0 \in T, \A n \in Nat : n \in T => n + 1 \in T
    PROVE  \A n \in Nat : n \in T
<1> SUFFICES ASSUME NEW k \in Nat, k \notin T PROVE FALSE
  OBVIOUS
<1>1. PICK n \in Nat \ T : \A m \in Nat \ T : ~ (m < n)
  <2>1. Nat \ T \subseteq Nat /\ Nat \ T # {}
    OBVIOUS
  <2> QED BY <2>1, LeastOfSet
<1>2. n - 1 \in Nat /\ n - 1 < n /\ (n - 1) + 1 = n
  BY <1>1
<1> QED BY <1>1, <1>2

-----------------------------------------------------------------------------
(* A sum over a finite set: it takes its terms in an order of its own.      *)
Some(s) == CHOOSE x \in s : TRUE
SumTerm(f, g, s) == IF s = {} THEN 0 ELSE f[Some(s)] + g[s \ {Some(s)}]
IsSum(f, g, SS) == g = [s \in SS |-> SumTerm(f, g, s)]
SumOf(f, S) == CHOOSE g : IsSum(f, g, SUBSET S)

LEMMA SumIsChosen ==
    ASSUME NEW f, NEW S PROVE SumFunctionOnSet(f, S) = SumOf(f, S)[S]
BY DEF SumFunctionOnSet, FoldFunctionOnSet, MapThenFoldSet, SumOf, IsSum, SumTerm, Some

LEMMA SomeSmaller ==
    ASSUME NEW s, IsFiniteSet(s), s # {}
    PROVE  /\ Some(s) \in s /\ IsFiniteSet(s \ {Some(s)})
           /\ Cardinality(s) \in Nat
           /\ Cardinality(s \ {Some(s)}) = Cardinality(s) - 1
<1>1. Some(s) \in s
  BY DEF Some
<1> QED BY <1>1, FS_RemoveElement, FS_CardinalityType

LEMMA SumsExist ==
    ASSUME NEW f, NEW S, IsFiniteSet(S)
    PROVE  IsSum(f, SumOf(f, S), SUBSET S)
<1> DEFINE Upto(n) == {s \in SUBSET S : Cardinality(s) <= n}
           T == {n \in Nat : \E g : IsSum(f, g, Upto(n))}
<1>0. \A s \in SUBSET S : IsFiniteSet(s) /\ Cardinality(s) \in Nat
  BY FS_Subset, FS_CardinalityType
<1>1. 0 \in T
  <2> DEFINE g == [s \in Upto(0) |-> 0]
  <2>1. \A s \in Upto(0) : s = {}
    <3> SUFFICES ASSUME NEW s \in Upto(0) PROVE s = {}
      OBVIOUS
    <3>1. Cardinality(s) = 0
      BY <1>0
    <3> QED BY <1>0, <3>1, FS_EmptySet
  <2>2. g = [s \in Upto(0) |-> SumTerm(f, g, s)]
    BY <2>1 DEF SumTerm
  <2> QED BY <2>2 DEF IsSum
<1>2. ASSUME NEW n \in Nat, n \in T PROVE n + 1 \in T
  <2>1. PICK g : IsSum(f, g, Upto(n))
    BY <1>2
  <2> DEFINE h == [s \in Upto(n + 1) |-> SumTerm(f, g, s)]
  <2>2. \A s \in Upto(n) : h[s] = g[s]
    <3>1. Upto(n) \subseteq Upto(n + 1)
      BY <1>0
    <3> QED BY <2>1, <3>1 DEF IsSum
  <2>3. ASSUME NEW s \in Upto(n + 1), s # {} PROVE s \ {Some(s)} \in Upto(n)
    BY <1>0, <2>3, SomeSmaller
  <2>4. \A s \in Upto(n + 1) : SumTerm(f, g, s) = SumTerm(f, h, s)
    BY <2>2, <2>3 DEF SumTerm
  <2>5. h = [s \in Upto(n + 1) |-> SumTerm(f, h, s)]
    BY <2>4
  <2> HIDE DEF h
  <2>6. IsSum(f, h, Upto(n + 1))
    BY <2>5 DEF IsSum
  <2> QED BY <2>6
<1> HIDE DEF T
<1>3. \A n \in Nat : n \in T
  BY <1>1, <1>2, InductiveSet
<1>4. Upto(Cardinality(S)) = SUBSET S
  <2>1. \A s \in SUBSET S : Cardinality(s) <= Cardinality(S)
    BY FS_Subset
  <2> QED BY <2>1
<1>5. \E g : IsSum(f, g, SUBSET S)
  BY <1>3, <1>4, FS_CardinalityType DEF T
<1> QED BY <1>5 DEF SumOf

LEMMA SumsAgree ==
    ASSUME NEW f, NEW S, IsFiniteSet(S), NEW U \in SUBSET S
    PROVE  SumOf(f, S)[U] = SumOf(f, U)[U]
<1> DEFINE g == SumOf(f, S)
           h == SumOf(f, U)
           T == {n \in Nat : \A s \in SUBSET U : Cardinality(s) <= n => g[s] = h[s]}
<1>0. \A s \in SUBSET U : IsFiniteSet(s) /\ Cardinality(s) \in Nat /\ s \in SUBSET S
  BY FS_Subset, FS_CardinalityType
<1>1. \A s \in SUBSET U : g[s] = SumTerm(f, g, s) /\ h[s] = SumTerm(f, h, s)
  <2>1. IsSum(f, g, SUBSET S) /\ IsSum(f, h, SUBSET U)
    BY <1>0, SumsExist
  <2> HIDE DEF g, h
  <2> QED BY <1>0, <2>1 DEF IsSum
<1> HIDE DEF g, h
<1>2. 0 \in T
  <2> SUFFICES ASSUME NEW s \in SUBSET U, Cardinality(s) <= 0 PROVE g[s] = h[s]
    OBVIOUS
  <2>1. s = {}
    BY <1>0, FS_EmptySet
  <2> QED BY <1>1, <2>1 DEF SumTerm
<1>3. ASSUME NEW n \in Nat, n \in T PROVE n + 1 \in T
  <2> SUFFICES ASSUME NEW s \in SUBSET U, Cardinality(s) <= n + 1, s # {} PROVE g[s] = h[s]
    BY <1>1 DEF SumTerm
  <2>1. s \ {Some(s)} \in SUBSET U /\ Cardinality(s \ {Some(s)}) <= n
    BY <1>0, SomeSmaller
  <2>2. g[s \ {Some(s)}] = h[s \ {Some(s)}]
    BY <1>3, <2>1
  <2> QED BY <1>1, <2>2 DEF SumTerm
<1> HIDE DEF T
<1>4. \A n \in Nat : n \in T
  BY <1>2, <1>3, InductiveSet
<1> QED BY <1>0, <1>4 DEF T, g, h

LEMMA SumOfSome ==
    ASSUME NEW f, NEW S, IsFiniteSet(S)
    PROVE  SumFunctionOnSet(f, S) =
             IF S = {} THEN 0 ELSE f[Some(S)] + SumFunctionOnSet(f, S \ {Some(S)})
<1>1. SumOf(f, S)[S] = SumTerm(f, SumOf(f, S), S)
  <2> DEFINE g == SumOf(f, S)
  <2>1. IsSum(f, g, SUBSET S)
    BY SumsExist
  <2> HIDE DEF g
  <2>2. g[S] = SumTerm(f, g, S)
    BY <2>1 DEF IsSum
  <2> QED BY <2>2 DEF g
<1>2. SumOf(f, S)[S \ {Some(S)}] = SumOf(f, S \ {Some(S)})[S \ {Some(S)}]
  BY SumsAgree
<1> QED BY <1>1, <1>2, SumIsChosen DEF SumTerm

LEMMA SumOfEmpty == ASSUME NEW f PROVE SumFunctionOnSet(f, {}) = 0
BY SumOfSome, FS_EmptySet

(* The terms may be taken in any order.                                     *)
LEMMA SumOfAny ==
    ASSUME NEW f, NEW S, IsFiniteSet(S), \A x \in S : f[x] \in Int
    PROVE  /\ SumFunctionOnSet(f, S) \in Int
           /\ \A x \in S : SumFunctionOnSet(f, S) = f[x] + SumFunctionOnSet(f, S \ {x})
<1> DEFINE Good(s) == /\ SumFunctionOnSet(f, s) \in Int
                      /\ \A x \in s : SumFunctionOnSet(f, s) = f[x] + SumFunctionOnSet(f, s \ {x})
           T == {n \in Nat : \A s \in SUBSET S : Cardinality(s) <= n => Good(s)}
<1>0. \A s \in SUBSET S : IsFiniteSet(s) /\ Cardinality(s) \in Nat
  BY FS_Subset, FS_CardinalityType
<1>1. 0 \in T
  <2> SUFFICES ASSUME NEW s \in SUBSET S, Cardinality(s) <= 0 PROVE Good(s)
    OBVIOUS
  <2>1. s = {}
    BY <1>0, FS_EmptySet
  <2> QED BY <2>1, SumOfEmpty
<1>2. ASSUME NEW n \in Nat, n \in T PROVE n + 1 \in T
  <2> SUFFICES ASSUME NEW s \in SUBSET S, Cardinality(s) <= n + 1 PROVE Good(s)
    OBVIOUS
  <2>0. CASE s = {}
    BY <2>0, SumOfEmpty
  <2>1. CASE s # {}
    <3> DEFINE y == Some(s)
    <3>1. /\ y \in s /\ s \ {y} \in SUBSET S
          /\ SumFunctionOnSet(f, s) = f[y] + SumFunctionOnSet(f, s \ {y})
      BY <1>0, <2>1, SomeSmaller, SumOfSome
    <3> HIDE DEF y
    <3>2. \A x \in s : s \ {x} \in SUBSET S /\ Cardinality(s \ {x}) <= n
      BY <1>0, FS_RemoveElement
    <3>3. \A x \in s : Good(s \ {x})
      BY <1>2, <3>2
    <3>4. ASSUME NEW x \in s, x # y
          PROVE  SumFunctionOnSet(f, s) = f[x] + SumFunctionOnSet(f, s \ {x})
      <4>1. x \in s \ {y} /\ y \in s \ {x} /\ (s \ {y}) \ {x} = (s \ {x}) \ {y}
        BY <3>1, <3>4
      <4> DEFINE rest == SumFunctionOnSet(f, (s \ {x}) \ {y})
      <4>2. SumFunctionOnSet(f, s \ {y}) = f[x] + SumFunctionOnSet(f, (s \ {y}) \ {x})
        BY <3>1, <3>3, <4>1
      <4>3. SumFunctionOnSet(f, s \ {x}) = f[y] + rest
        BY <3>3, <4>1
      <4>4. /\ f[x] \in Int /\ f[y] \in Int /\ (s \ {x}) \ {y} \in SUBSET S
            /\ Cardinality((s \ {x}) \ {y}) <= n
        <5>1. IsFiniteSet(s \ {x}) /\ Cardinality((s \ {x}) \ {y}) <= Cardinality(s \ {x})
          BY <1>0, <3>2, FS_Subset
        <5>2. (s \ {x}) \ {y} \in SUBSET S
          OBVIOUS
        <5> QED BY <1>0, <3>1, <3>2, <5>1, <5>2
      <4>5. rest \in Int
        BY <1>2, <4>4
      <4>6. SumFunctionOnSet(f, (s \ {y}) \ {x}) = rest
        BY <4>1
      <4> HIDE DEF rest
      <4> QED BY <3>1, <4>2, <4>3, <4>4, <4>5, <4>6
    <3>5. SumFunctionOnSet(f, s) \in Int
      BY <3>1, <3>3
    <3> QED BY <3>1, <3>4, <3>5
  <2> QED BY <2>0, <2>1
<1> HIDE DEF T, Good
<1>3. \A n \in Nat : n \in T
  BY <1>1, <1>2, InductiveSet
<1>4. Good(S)
  BY <1>0, <1>3 DEF T
<1> QED BY <1>4 DEF Good

LEMMA FiniteInduction ==
    ASSUME NEW S, IsFiniteSet(S), NEW T, {} \in T,
           \A s \in SUBSET S : \A x \in S \ s : s \in T => s \cup {x} \in T
    PROVE  S \in T
<1> DEFINE N == {n \in Nat : \A s \in SUBSET S : Cardinality(s) <= n => s \in T}
<1>0. \A s \in SUBSET S : IsFiniteSet(s) /\ Cardinality(s) \in Nat
  BY FS_Subset, FS_CardinalityType
<1>1. 0 \in N
  <2> SUFFICES ASSUME NEW s \in SUBSET S, Cardinality(s) <= 0 PROVE s \in T
    OBVIOUS
  <2>1. s = {}
    BY <1>0, FS_EmptySet
  <2> QED BY <2>1
<1>2. ASSUME NEW n \in Nat, n \in N PROVE n + 1 \in N
  <2>1. ASSUME NEW s \in SUBSET S, Cardinality(s) <= n + 1, NEW x \in s PROVE s \in T
    <3>1. IsFiniteSet(s) /\ Cardinality(s) \in Nat /\ s \ {x} \in SUBSET S
      BY <1>0
    <3>2. Cardinality(s \ {x}) = Cardinality(s) - 1
      BY <2>1, <3>1, FS_RemoveElement
    <3>3. Cardinality(s \ {x}) <= n
      BY <2>1, <3>1, <3>2
    <3>4. s \ {x} \in T /\ x \in S \ (s \ {x}) /\ (s \ {x}) \cup {x} = s
      BY <1>2, <2>1, <3>1, <3>3
    <3> QED BY <3>1, <3>4
  <2> SUFFICES ASSUME NEW s \in SUBSET S, Cardinality(s) <= n + 1 PROVE s \in T
    OBVIOUS
  <2>2. CASE s = {}
    BY <2>2
  <2> QED BY <2>1, <2>2
<1> HIDE DEF N
<1>3. \A n \in Nat : n \in N
  BY <1>1, <1>2, InductiveSet
<1> QED BY <1>0, <1>3 DEF N

LEMMA SumOfSame ==
    ASSUME NEW S, IsFiniteSet(S), NEW f, NEW g, \A x \in S : f[x] = g[x] /\ f[x] \in Int
    PROVE  SumFunctionOnSet(f, S) = SumFunctionOnSet(g, S)
<1> DEFINE T == {s \in SUBSET S : SumFunctionOnSet(f, s) = SumFunctionOnSet(g, s)}
<1>1. {} \in T
  BY SumOfEmpty
<1>2. ASSUME NEW s \in SUBSET S, NEW x \in S \ s, s \in T PROVE s \cup {x} \in T
  <2> DEFINE t == s \cup {x}
  <2>1. IsFiniteSet(t) /\ x \in t /\ t \ {x} = s /\ \A y \in t : f[y] \in Int /\ g[y] \in Int
    BY FS_Subset
  <2> HIDE DEF t
  <2>2. /\ SumFunctionOnSet(f, t) = f[x] + SumFunctionOnSet(f, t \ {x})
        /\ SumFunctionOnSet(g, t) = g[x] + SumFunctionOnSet(g, t \ {x})
    BY <2>1, SumOfAny
  <2> QED BY <1>2, <2>1, <2>2 DEF t
<1> HIDE DEF T
<1>3. S \in T
  BY <1>1, <1>2, FiniteInduction
<1> QED BY <1>3 DEF T

LEMMA SumOfNaturals ==
    ASSUME NEW S, IsFiniteSet(S), NEW f, \A x \in S : f[x] \in Nat
    PROVE  SumFunctionOnSet(f, S) \in Nat
<1> DEFINE T == {s \in SUBSET S : SumFunctionOnSet(f, s) \in Nat}
<1>1. {} \in T
  BY SumOfEmpty
<1>2. ASSUME NEW s \in SUBSET S, NEW x \in S \ s, s \in T PROVE s \cup {x} \in T
  <2> DEFINE t == s \cup {x}
  <2>1. IsFiniteSet(t) /\ x \in t /\ t \ {x} = s /\ \A y \in t : f[y] \in Int
    BY FS_Subset
  <2> HIDE DEF t
  <2>2. SumFunctionOnSet(f, t) = f[x] + SumFunctionOnSet(f, t \ {x})
    BY <2>1, SumOfAny
  <2> QED BY <1>2, <2>1, <2>2 DEF t
<1> HIDE DEF T
<1>3. S \in T
  BY <1>1, <1>2, FiniteInduction
<1> QED BY <1>3 DEF T

(* A sum with one more term, and one of nothing but zeros.                  *)
LEMMA SumGrows ==
    ASSUME NEW f, NEW g, NEW x, IsFiniteSet(DOMAIN f), x \notin DOMAIN f,
           DOMAIN g = DOMAIN f \cup {x}, \A y \in DOMAIN g : g[y] \in Int,
           \A y \in DOMAIN f : f[y] = g[y]
    PROVE  SumFunction(f) \in Int /\ SumFunction(g) = g[x] + SumFunction(f)
<1> DEFINE S == DOMAIN f
           t == DOMAIN g
<1>1. IsFiniteSet(S) /\ IsFiniteSet(t) /\ x \in t /\ t \ {x} = S /\ S \subseteq t
  BY FS_AddElement
<1>2. /\ \A y \in t : g[y] \in Int
      /\ \A y \in S : f[y] = g[y]
  OBVIOUS
<1>3. SumFunction(f) = SumFunctionOnSet(f, S) /\ SumFunction(g) = SumFunctionOnSet(g, t)
  BY DEF SumFunction
<1> HIDE DEF S, t
<1>4. SumFunctionOnSet(g, t) = g[x] + SumFunctionOnSet(g, S)
  BY <1>1, <1>2, SumOfAny
<1>5. \A y \in S : g[y] = f[y] /\ g[y] \in Int /\ f[y] \in Int
  BY <1>1, <1>2
<1>6. SumFunctionOnSet(g, S) = SumFunctionOnSet(f, S)
  BY <1>1, <1>5, SumOfSame
<1>7. SumFunctionOnSet(f, S) \in Int
  BY <1>1, <1>5, SumOfAny
<1> QED BY <1>3, <1>4, <1>6, <1>7

LEMMA SumOfZeros ==
    ASSUME NEW f, IsFiniteSet(DOMAIN f), \A x \in DOMAIN f : f[x] = 0
    PROVE  SumFunction(f) = 0
<1> DEFINE S == DOMAIN f
           T == {s \in SUBSET S : SumFunctionOnSet(f, s) = 0}
<1>1. {} \in T
  BY SumOfEmpty
<1>2. ASSUME NEW s \in SUBSET S, NEW x \in S \ s, s \in T PROVE s \cup {x} \in T
  <2> DEFINE t == s \cup {x}
  <2>1. IsFiniteSet(t) /\ x \in t /\ t \ {x} = s /\ \A y \in t : f[y] \in Int
    BY FS_Subset
  <2> HIDE DEF t
  <2>2. SumFunctionOnSet(f, t) = f[x] + SumFunctionOnSet(f, t \ {x})
    BY <2>1, SumOfAny
  <2> QED BY <1>2, <2>1, <2>2 DEF t
<1> HIDE DEF T
<1>3. IsFiniteSet(S)
  OBVIOUS
<1>4. S \in T
  <2> HIDE DEF S
  <2> QED BY <1>1, <1>2, <1>3, FiniteInduction
<1> QED BY <1>4 DEF T, SumFunction

(***************************************************************************)
(* The calendar of a report: no service begins before the stream's first   *)
(* month, which is what the cutover run breaks.                            *)
(***************************************************************************)
ServiceIsOnCalendar ==
    /\ Opening \in Months
    /\ \A d \in Documents :
          /\ d.kind = "invoice" => MonthStart[Opening] <= d.start
          /\ d.kind = "subscription" => MonthStart[Opening] <= d.ts

LEMMA MonthsIncrease ==
    ASSUME NEW a \in 1 .. Len(MonthStart), NEW b \in 1 .. Len(MonthStart), a <= b
    PROVE  MonthStart[a] <= MonthStart[b]
<1> DEFINE T == {n \in Nat : a + n <= Len(MonthStart) => MonthStart[a] <= MonthStart[a + n]}
<1>0. Len(MonthStart) \in Nat /\ a \in Nat /\ b \in Nat /\ 1 <= a /\ b <= Len(MonthStart)
  BY MonthsAssumption
<1>1. 0 \in T
  <2>1. a + 0 = a
    BY <1>0
  <2>2. MonthStart[a] \in Nat
    BY MonthsAssumption
  <2> QED BY <2>1, <2>2
<1>2. ASSUME NEW n \in Nat, n \in T PROVE n + 1 \in T
  <2> SUFFICES ASSUME a + (n + 1) <= Len(MonthStart) PROVE MonthStart[a] <= MonthStart[a + (n + 1)]
    OBVIOUS
  <2> DEFINE c == a + n
  <2>1. c \in 1 .. Len(MonthStart) - 1 /\ a + (n + 1) = c + 1 /\ c + 1 \in 1 .. Len(MonthStart)
    BY <1>0
  <2>2. MonthStart[a] <= MonthStart[c]
    BY <1>0, <1>2, <2>1
  <2> HIDE DEF c
  <2>3. MonthStart[c] < MonthStart[c + 1]
    BY <2>1, MonthsAssumption
  <2>4. c \in 1 .. Len(MonthStart)
    BY <1>0, <2>1
  <2>5. MonthStart[a] \in Nat /\ MonthStart[c] \in Nat /\ MonthStart[c + 1] \in Nat
    BY <2>1, <2>4, MonthsAssumption
  <2>6. MonthStart[a] <= MonthStart[c + 1]
    BY <2>2, <2>3, <2>5
  <2> QED BY <2>1, <2>6
<1> HIDE DEF T
<1>3. \A n \in Nat : n \in T
  BY <1>1, <1>2, InductiveSet
<1>4. b - a \in Nat /\ a + (b - a) = b
  BY <1>0
<1> QED BY <1>0, <1>3, <1>4 DEF T

\* What begins on the calendar serves no month before it.
LEMMA OnCalendar ==
    ASSUME ServiceIsOnCalendar, NEW day \in Nat, MonthStart[Opening] <= day,
           NEW m \in Months, day < MonthStart[m + 1]
    PROVE  Opening \in Int /\ Opening <= m
<1>1. Opening \in 1 .. Len(MonthStart) /\ m + 1 \in 1 .. Len(MonthStart) /\ Opening \in Int /\ m \in Int
  BY MonthsAssumption DEF ServiceIsOnCalendar, Months
<1>2. MonthStart[Opening] \in Nat /\ MonthStart[m + 1] \in Nat
  BY <1>1, MonthsAssumption
<1>3. ~(m + 1 <= Opening)
  BY <1>1, <1>2, MonthsIncrease
<1> QED BY <1>1, <1>3

(***************************************************************************)
(* Rounding: the loop's and the views'.                                    *)
(***************************************************************************)
LEMMA HalfUpIsRounded ==
    ASSUME NEW n \in Int, NEW d \in Nat, d > 0
    PROVE  HalfUp(n, d) = IF n < 0 THEN -Rounded(-n, d) ELSE Rounded(n, d)
<1>1. 2 * (-n) + d = d - 2 * n
  OBVIOUS
<1> QED BY <1>1 DEF HalfUp, Rounded

LEMMA NothingRounded ==
    ASSUME NEW d \in Nat, d > 0
    PROVE  HalfUp(0, d) = 0
<1>1. 2 * 0 + d = d /\ 2 * d > 0 /\ d < 2 * d
  OBVIOUS
<1>2. d \div (2 * d) = 0
  <2> DEFINE e == 2 * d
  <2>1. e \in Nat /\ e > 0 /\ d < e
    OBVIOUS
  <2> HIDE DEF e
  <2>2. d \div e = 0
    BY <2>1
  <2> QED BY <2>2 DEF e
<1> QED BY <1>1, <1>2 DEF HalfUp

LEMMA SpreadIsShare ==
    ASSUME NEW amount \in Nat, NEW i, i.start \in Nat, i.end \in Nat, i.start < i.end, NEW m \in Months
    PROVE  Spread(amount, i.start, i.end)[m] = IF Serves(i, m) THEN Share(amount, i, m) ELSE 0
<1> DEFINE hi == Least(i.end, MonthStart[m + 1]) - i.start
           lo == Greatest(i.start, MonthStart[m]) - i.start
           days == i.end - i.start
<1>1. m \in Periods(i.start, i.end) <=> Serves(i, m)
  BY MonthFacts DEF Periods, Serves
<1>2. CASE ~Serves(i, m)
  BY <1>1, <1>2 DEF Spread
<1>3. CASE Serves(i, m)
  <2>1. hi \in Nat /\ lo \in Nat /\ days \in Nat /\ days > 0
    BY <1>3, MonthFacts DEF Serves, Least, Greatest
  <2> HIDE DEF hi, lo, days
  <2>2. amount * hi \in Nat /\ amount * lo \in Nat
    BY <2>1
  <2>3. HalfUp(amount * hi, days) = Rounded(amount * hi, days) /\ HalfUp(amount * lo, days) = Rounded(amount * lo, days)
    BY <2>1, <2>2, HalfUpIsRounded
  <2>4. Spread(amount, i.start, i.end)[m] = HalfUp(amount * hi, days) - HalfUp(amount * lo, days)
    BY <1>1, <1>3 DEF Spread, hi, lo, days
  <2>5. Share(amount, i, m) = Rounded(amount * hi, days) - Rounded(amount * lo, days)
    BY DEF Share, hi, lo, days
  <2> QED BY <1>3, <2>3, <2>4, <2>5
<1> QED BY <1>2, <1>3

(***************************************************************************)
(* The orders, and the first and the last of some events.                  *)
(***************************************************************************)
LEMMA InvoicesAreOrdered ==
    ASSUME NEW i \in Invoices(Documents), NEW j \in Invoices(Documents), NEW k \in Invoices(Documents)
    PROVE  /\ ~InvoiceBefore(i, i)
           /\ InvoiceBefore(i, j) /\ InvoiceBefore(j, k) => InvoiceBefore(i, k)
           /\ i = j \/ InvoiceBefore(i, j) \/ InvoiceBefore(j, i)
<1>1. \A d \in Invoices(Documents) : d.id \in Int /\ d.end \in Int
  BY DocumentsAssumption, IdentitiesAssumption DEF Invoices, OfKind
<1>2. i.id = j.id => i = j
  BY IdentitiesAssumption DEF Invoices, OfKind
<1> QED BY <1>1, <1>2 DEF InvoiceBefore

LEMMA EventsAreOrdered ==
    ASSUME NEW e \in Subscriptions(Documents), NEW f \in Subscriptions(Documents), NEW g \in Subscriptions(Documents)
    PROVE  /\ ~EventBefore(e, e)
           /\ EventBefore(e, f) /\ EventBefore(f, g) => EventBefore(e, g)
           /\ e = f \/ EventBefore(e, f) \/ EventBefore(f, e)
<1>1. \A d \in Subscriptions(Documents) : d.id \in Int /\ d.ts \in Int
  BY DocumentsAssumption, IdentitiesAssumption DEF Subscriptions, OfKind
<1>2. e.id = f.id => e = f
  BY IdentitiesAssumption DEF Subscriptions, OfKind
<1>3. \A d : Priority(d) \in Int
  BY DEF Priority
<1> HIDE DEF Priority
<1> QED BY <1>1, <1>2, <1>3 DEF EventBefore


LEMMA SoonestIsFirst ==
    ASSUME NEW F, F \subseteq Subscriptions(Documents), F # {}
    PROVE  Soonest(F) \in F /\ \A g \in F : g = Soonest(F) \/ EventBefore(Soonest(F), g)
<1> DEFINE R == {p \in F \X F : EventBefore(p[1], p[2])}
<1>0. \A x, y \in F : <<x, y>> \in R <=> EventBefore(x, y)
  OBVIOUS
<1> HIDE DEF R
<1>1. Orders(R, F)
  <2>1. \A x \in F : <<x, x>> \notin R
    BY <1>0, EventsAreOrdered
  <2>2. \A x, y, z \in F : <<x, y>> \in R /\ <<y, z>> \in R => <<x, z>> \in R
    BY <1>0, EventsAreOrdered
  <2>3. \A x, y \in F : x = y \/ <<x, y>> \in R \/ <<y, x>> \in R
    BY <1>0, EventsAreOrdered
  <2> QED BY <2>1, <2>2, <2>3 DEF Orders
<1>2. IsFiniteSet(F)
  BY IdentitiesAssumption, FS_Subset DEF Subscriptions, OfKind
<1>3. \E x \in F : \A y \in F : y = x \/ <<x, y>> \in R
  BY <1>1, <1>2, LeastExists
<1>4. \E x \in F : \A y \in F : y = x \/ EventBefore(x, y)
  BY <1>0, <1>3
<1> QED BY <1>4 DEF Soonest

LEMMA LatestIsLast ==
    ASSUME NEW F, F \subseteq Subscriptions(Documents), F # {}
    PROVE  Latest(F) \in F /\ \A g \in F : g = Latest(F) \/ EventBefore(g, Latest(F))
<1> DEFINE R == {p \in F \X F : EventBefore(p[2], p[1])}
<1>0. \A x, y \in F : <<x, y>> \in R <=> EventBefore(y, x)
  OBVIOUS
<1> HIDE DEF R
<1>1. Orders(R, F)
  <2>1. \A x \in F : <<x, x>> \notin R
    BY <1>0, EventsAreOrdered
  <2>2. \A x, y, z \in F : <<x, y>> \in R /\ <<y, z>> \in R => <<x, z>> \in R
    BY <1>0, EventsAreOrdered
  <2>3. \A x, y \in F : x = y \/ <<x, y>> \in R \/ <<y, x>> \in R
    BY <1>0, EventsAreOrdered
  <2> QED BY <2>1, <2>2, <2>3 DEF Orders
<1>2. IsFiniteSet(F)
  BY IdentitiesAssumption, FS_Subset DEF Subscriptions, OfKind
<1>3. \E x \in F : \A y \in F : y = x \/ <<x, y>> \in R
  BY <1>1, <1>2, LeastExists
<1>4. \E x \in F : \A y \in F : y = x \/ EventBefore(y, x)
  BY <1>0, <1>3
<1> QED BY <1>4 DEF Latest

\* There is but one.
LEMMA OneEnd ==
    ASSUME NEW F, F \subseteq Subscriptions(Documents), NEW e \in F
    PROVE  /\ (\A g \in F : g = e \/ EventBefore(g, e)) => Latest(F) = e
           /\ (\A g \in F : g = e \/ EventBefore(e, g)) => Soonest(F) = e
<1>1. ASSUME NEW x \in F, EventBefore(x, e), EventBefore(e, x) PROVE FALSE
  BY <1>1, EventsAreOrdered
<1> QED BY <1>1, LatestIsLast, SoonestIsFirst

(***************************************************************************)
(* The windows over the events of a subscription.                          *)
(***************************************************************************)
LEMMA SomeDocuments ==
    ASSUME NEW S \in SUBSET Documents
    PROVE  /\ IsFiniteSet(S) /\ Subscriptions(S) \subseteq Subscriptions(Documents)
           /\ Invoices(S) \subseteq Invoices(Documents) /\ IsFiniteSet(Invoices(S))
           /\ \A key : EventsOf(S, key) \subseteq Subscriptions(S)
           /\ \A e : /\ UpTo(S, e) \subseteq EventsOf(S, e.subscription) /\ IsFiniteSet(UpTo(S, e))
                     /\ After(S, e) \subseteq EventsOf(S, e.subscription)
<1>1. \A F \in SUBSET Documents : IsFiniteSet(F)
  BY IdentitiesAssumption, FS_Subset
<1>2. Invoices(S) \in SUBSET Documents /\ \A e : UpTo(S, e) \in SUBSET Documents
  BY DEF Invoices, UpTo, EventsOf, Subscriptions, OfKind
<1> QED BY <1>1, <1>2 DEF Invoices, UpTo, After, EventsOf, Subscriptions, OfKind

LEMMA LastValueGrows ==
    ASSUME NEW F, F \subseteq Subscriptions(Documents), NEW e \in Subscriptions(Documents),
           \A g \in F : EventBefore(g, e), NEW field, NEW default
    PROVE  LastValue(F \cup {e}, field, default) = IF e[field] = None THEN LastValue(F, field, default) ELSE e[field]
<1> DEFINE given == {f \in F \cup {e} : f[field] # None}
           of == {f \in F : f[field] # None}
<1>1. LastValue(F \cup {e}, field, default) = IF given = {} THEN default ELSE Latest(given)[field]
  BY DEF LastValue
<1>2. LastValue(F, field, default) = IF of = {} THEN default ELSE Latest(of)[field]
  BY DEF LastValue
<1>3. CASE e[field] = None
  <2>1. given = of
    BY <1>3
  <2> QED BY <1>1, <1>2, <1>3, <2>1
<1>4. CASE e[field] # None
  <2>1. e \in given /\ given \subseteq Subscriptions(Documents) /\ \A g \in given : g = e \/ EventBefore(g, e)
    BY <1>4
  <2> HIDE DEF given, of
  <2>2. Latest(given) = e
    BY <2>1, OneEnd
  <2> QED BY <1>1, <1>4, <2>1, <2>2
<1> QED BY <1>3, <1>4

LEMMA LastValueIs ==
    ASSUME NEW F, F \subseteq Subscriptions(Documents), NEW default
    PROVE  /\ LastValue({}, "price", default) = default /\ LastValue({}, "end", default) = default
           /\ default \in Nat => LastValue(F, "price", default) \in Nat /\ LastValue(F, "end", default) \in Nat
<1>1. \A f \in Subscriptions(Documents) : f.price \in Nat \union {None} /\ f.end \in Nat \union {None}
  BY DocumentsAssumption DEF Subscriptions, OfKind
<1>2. \A G : G \subseteq F /\ G # {} => Latest(G) \in G
  BY LatestIsLast
<1>3. default \in Nat => LastValue(F, "price", default) \in Nat
  BY <1>1, <1>2 DEF LastValue
<1>4. default \in Nat => LastValue(F, "end", default) \in Nat
  BY <1>1, <1>2 DEF LastValue
<1> QED BY <1>3, <1>4 DEF LastValue

LEMMA StopDayIs ==
    ASSUME NEW S \in SUBSET Documents, NEW h \in 1 .. Len(MonthStart), NEW e \in Subscriptions(S)
    PROVE  StopDay(S, h, e) \in Nat /\ StopDay(S, h, e) <= MonthStart[h]
<1>1. MonthStart[h] \in Nat
  BY MonthsAssumption
<1>2. After(S, e) # {} => Soonest(After(S, e)).ts \in Nat
  <2>1. After(S, e) \subseteq Subscriptions(Documents)
    BY SomeDocuments
  <2>2. After(S, e) # {} => Soonest(After(S, e)) \in Subscriptions(Documents)
    BY <2>1, SoonestIsFirst
  <2> QED BY <2>2, DocumentsAssumption DEF Subscriptions, OfKind
<1>3. LastValue(UpTo(S, e), "end", MonthStart[h]) \in Nat
  <2>1. UpTo(S, e) \subseteq Subscriptions(Documents)
    BY SomeDocuments
  <2> QED BY <1>1, <2>1, LastValueIs
<1> DEFINE lead == IF After(S, e) = {} THEN MonthStart[h] ELSE Soonest(After(S, e)).ts
           paid == LastValue(UpTo(S, e), "end", MonthStart[h])
<1>4. lead \in Nat /\ paid \in Nat /\ StopDay(S, h, e) = Least(Least(lead, paid), MonthStart[h])
  BY <1>1, <1>2, <1>3 DEF StopDay
<1> HIDE DEF lead, paid
<1> QED BY <1>1, <1>4 DEF Least

LEMMA SeatDayCentsIs ==
    ASSUME NEW S \in SUBSET Documents, NEW h \in 1 .. Len(MonthStart), NEW e \in Subscriptions(S), NEW m \in Months
    PROVE  SeatDayCents(S, h, e, m) \in Int
<1> DEFINE price == LastValue(UpTo(S, e), "price", 0)
           stop == StopDay(S, h, e)
           days == Least(stop, MonthStart[m + 1]) - Greatest(e.ts, MonthStart[m])
<1>1. price \in Nat
  <2>1. UpTo(S, e) \subseteq Subscriptions(Documents)
    BY SomeDocuments
  <2> QED BY <2>1, LastValueIs
<1>2. e.ts \in Nat /\ e.seats \in Nat
  BY DocumentsAssumption DEF Subscriptions, OfKind
<1>3. stop \in Nat
  BY StopDayIs
<1>4. SeatDayCents(S, h, e, m) =
        IF e.ts < MonthStart[m + 1] /\ stop > MonthStart[m] THEN price * e.seats * days ELSE 0
  BY DEF SeatDayCents
<1> HIDE DEF stop
<1>5. days \in Int
  <2>1. MonthStart[m] \in Nat /\ MonthStart[m + 1] \in Nat
    BY MonthFacts
  <2>2. Least(stop, MonthStart[m + 1]) \in Int
    BY <1>3, <2>1 DEF Least
  <2>3. Greatest(e.ts, MonthStart[m]) \in Int
    BY <1>2, <2>1 DEF Greatest
  <2> QED BY <2>2, <2>3
<1> HIDE DEF price, days
<1>6. price * e.seats \in Int
  BY <1>1, <1>2
<1>7. price * e.seats * days \in Int
  BY <1>5, <1>6
<1> QED BY <1>4, <1>7

CentsOf(S, h, F, m) == SumFunction([f \in F |-> SeatDayCents(S, h, f, m)])
WindowOf(S, h, e) ==
    [price |-> LastValue(UpTo(S, e), "price", 0), end |-> LastValue(UpTo(S, e), "end", MonthStart[h]),
     cents |-> [m \in Months |-> CentsOf(S, h, UpTo(S, e), m)]]

LEMMA CentsGrow ==
    ASSUME NEW S \in SUBSET Documents, NEW h \in 1 .. Len(MonthStart), NEW F \in SUBSET Subscriptions(S),
           NEW e \in Subscriptions(S), e \notin F, NEW m \in Months
    PROVE  CentsOf(S, h, F \cup {e}, m) = CentsOf(S, h, F, m) + SeatDayCents(S, h, e, m)
<1> DEFINE c == SeatDayCents(S, h, e, m)
           f == [x \in F |-> SeatDayCents(S, h, x, m)]
           g == [x \in F \cup {e} |-> SeatDayCents(S, h, x, m)]
<1>1. IsFiniteSet(F)
  BY SomeDocuments, FS_Subset DEF Subscriptions, OfKind
<1>2. \A y \in F \cup {e} : SeatDayCents(S, h, y, m) \in Int
  BY SeatDayCentsIs
<1>3. /\ IsFiniteSet(DOMAIN f) /\ e \notin DOMAIN f /\ DOMAIN g = DOMAIN f \cup {e}
      /\ \A y \in DOMAIN g : g[y] \in Int
      /\ \A y \in DOMAIN f : f[y] = g[y]
      /\ g[e] = c
  BY <1>1, <1>2
<1>4. CentsOf(S, h, F, m) = SumFunction(f) /\ CentsOf(S, h, F \cup {e}, m) = SumFunction(g)
  BY DEF CentsOf
<1>5. c \in Int
  BY <1>2
<1> HIDE DEF f, g, c
<1>6. SumFunction(f) \in Int /\ SumFunction(g) = g[e] + SumFunction(f)
  BY <1>3, SumGrows
<1>7. CentsOf(S, h, F \cup {e}, m) = CentsOf(S, h, F, m) + c
  BY <1>3, <1>4, <1>5, <1>6
<1> QED BY <1>7 DEF c

LEMMA NoCents ==
    ASSUME NEW S, NEW h, NEW m
    PROVE  CentsOf(S, h, {}, m) = 0
<1> DEFINE f == [x \in {} |-> SeatDayCents(S, h, x, m)]
<1>1. DOMAIN f = {} /\ CentsOf(S, h, {}, m) = SumFunction(f)
  BY DEF CentsOf
<1> HIDE DEF f
<1> QED BY <1>1, SumOfZeros, FS_EmptySet

\* What one turn of the loop makes of what came before is the window's value.
LEMMA WindowGrows ==
    ASSUME NEW S \in SUBSET Documents, NEW h \in 1 .. Len(MonthStart), NEW e \in Subscriptions(S),
           NEW before,
           before.price = LastValue(UpTo(S, e) \ {e}, "price", 0),
           before.end = LastValue(UpTo(S, e) \ {e}, "end", MonthStart[h]),
           \A m \in Months : before.cents[m] = CentsOf(S, h, UpTo(S, e) \ {e}, m)
    PROVE  WindowOf(S, h, e) =
             [price |-> IF e.price = None THEN before.price ELSE e.price,
              end |-> IF e.end = None THEN before.end ELSE e.end,
              cents |-> [m \in Months |-> before.cents[m] + SeatDayCents(S, h, e, m)]]
<1> DEFINE F == UpTo(S, e) \ {e}
<1>1. /\ UpTo(S, e) = F \cup {e} /\ e \notin F /\ F \in SUBSET Subscriptions(S) /\ F \subseteq Subscriptions(Documents)
      /\ e \in Subscriptions(Documents) /\ \A g \in F : EventBefore(g, e)
  <2>1. e \in UpTo(S, e)
    BY DEF UpTo, EventsOf
  <2> QED BY <2>1, SomeDocuments DEF UpTo
<1>2. /\ before.price = LastValue(F, "price", 0)
      /\ before.end = LastValue(F, "end", MonthStart[h])
      /\ \A m \in Months : before.cents[m] = CentsOf(S, h, F, m)
  OBVIOUS
<1> HIDE DEF F
<1>3. \A field, default :
        LastValue(F \cup {e}, field, default) = IF e[field] = None THEN LastValue(F, field, default) ELSE e[field]
  BY <1>1, LastValueGrows
<1>4. /\ LastValue(F \cup {e}, "price", 0) = IF e.price = None THEN before.price ELSE e.price
      /\ LastValue(F \cup {e}, "end", MonthStart[h]) = IF e.end = None THEN before.end ELSE e.end
  BY <1>2, <1>3
<1>5. \A m \in Months : CentsOf(S, h, F \cup {e}, m) = before.cents[m] + SeatDayCents(S, h, e, m)
  BY <1>1, <1>2, CentsGrow
<1> QED BY <1>1, <1>4, <1>5 DEF WindowOf

\* The events before one are those up to the one before.
LEMMA WindowBefore ==
    ASSUME NEW S \in SUBSET Documents, NEW e \in Subscriptions(S), UpTo(S, e) \ {e} # {}
    PROVE  \E p \in UpTo(S, e) \ {e} : UpTo(S, p) = UpTo(S, e) \ {e} /\ e \in After(S, p)
<1> DEFINE F == UpTo(S, e) \ {e}
           p == Latest(F)
<1>1. /\ F \subseteq Subscriptions(Documents) /\ e \in Subscriptions(Documents) /\ F # {}
      /\ \A g : g \in F <=> g \in EventsOf(S, e.subscription) /\ g # e /\ EventBefore(g, e)
  BY SomeDocuments DEF UpTo
<1> HIDE DEF F
<1>2. p \in F /\ \A g \in F : g = p \/ EventBefore(g, p)
  BY <1>1, LatestIsLast
<1> HIDE DEF p
<1>3. p.subscription = e.subscription
  BY <1>1, <1>2 DEF EventsOf
<1>4. \A g \in Subscriptions(Documents) : EventBefore(g, p) => g # e /\ EventBefore(g, e)
  BY <1>1, <1>2, EventsAreOrdered
<1>5. EventsOf(S, e.subscription) \subseteq Subscriptions(Documents)
  BY SomeDocuments
<1>6. ASSUME NEW g PROVE g \in UpTo(S, p) <=> g \in F
  BY <1>1, <1>2, <1>3, <1>4, <1>5 DEF UpTo
<1>7. e \in After(S, p)
  BY <1>1, <1>2, <1>3 DEF After, EventsOf
<1>8. UpTo(S, p) = F
  BY <1>6
<1> QED BY <1>2, <1>7, <1>8 DEF F

(***************************************************************************)
(* Who posts a line.                                                       *)
(***************************************************************************)
LEMMA OnePoster ==
    ASSUME NEW S \in SUBSET Documents, NEW d \in Posters(S), NEW p \in Posters(S), Poster(p) = Poster(d)
    PROVE  p = d
<1>1. p \in S /\ d \in S /\ p \in Documents /\ d \in Documents
  BY DEF Posters
<1>2. CASE p.kind # "subscription" /\ d.kind # "subscription"
  BY <1>1, <1>2, IdentitiesAssumption DEF Poster
<1>3. CASE p.kind = "subscription" /\ d.kind # "subscription"
  BY <1>1, <1>3, IdentitiesAssumption DEF Poster
<1>4. CASE p.kind # "subscription" /\ d.kind = "subscription"
  BY <1>1, <1>4, IdentitiesAssumption DEF Poster
<1>5. CASE p.kind = "subscription" /\ d.kind = "subscription"
  <2>1. /\ p \in EventsOf(S, d.subscription) /\ d \in EventsOf(S, p.subscription)
        /\ p \in Subscriptions(Documents) /\ d \in Subscriptions(Documents)
    BY <1>1, <1>5 DEF Poster, EventsOf, Subscriptions, OfKind
  <2>2. After(S, p) = {} /\ After(S, d) = {}
    BY <1>5 DEF Posters
  <2>3. ~EventBefore(p, d) /\ ~EventBefore(d, p)
    BY <2>1, <2>2 DEF After
  <2> QED BY <2>1, <2>3, EventsAreOrdered
<1> QED BY <1>2, <1>3, <1>4, <1>5

(***************************************************************************)
(* What the views make of each kind of document.                           *)
(***************************************************************************)
LEMMA ContractColumns ==
    ASSUME NEW S, NEW h, NEW d, d.kind = "contract", NEW m
    PROVE  /\ ColumnarMovement(S, h, d, m) =
                IF m = MonthOf(d.ts) THEN [NoMovement EXCEPT !["1100"] = d.commit, !["2100"] = -d.commit] ELSE NoMovement
           /\ ColumnarRevenue(S, h, d, m) = NoRevenue
<1> DEFINE here == m = MonthOf(d.ts)
           commitment == [NoMovement EXCEPT !["1100"] = d.commit, !["2100"] = -d.commit]
<1>1. ColumnarRevenue(S, h, d, m) = NoRevenue
  BY DEF ColumnarRevenue
<1>2. CASE here
  BY <1>1, <1>2 DEF ColumnarMovement
<1>3. CASE ~here
  BY <1>1, <1>3 DEF ColumnarMovement
<1> QED BY <1>1, <1>2, <1>3

LEMMA ExpiryColumns ==
    ASSUME NEW S, NEW h, NEW d, d.kind = "expiry", NEW m \in Months, NEW amount, amount = ExpiryAmount(S, d)
    PROVE  /\ ColumnarMovement(S, h, d, m) =
                Monthly(MonthOf(d.ts), [NoMovement EXCEPT !["2100"] = amount, !["4020"] = -amount], NoMovement)[m]
           /\ ColumnarRevenue(S, h, d, m) =
                IF m < h THEN Monthly(MonthOf(d.ts), [NoRevenue EXCEPT !["commit_drawdown"] = amount], NoRevenue)[m]
                ELSE NoRevenue
<1> SUFFICES /\ ColumnarMovement(S, h, d, m) =
                  IF m = MonthOf(d.ts) THEN [NoMovement EXCEPT !["2100"] = amount, !["4020"] = -amount] ELSE NoMovement
             /\ ColumnarRevenue(S, h, d, m) =
                  IF m = MonthOf(d.ts) /\ m < h THEN [NoRevenue EXCEPT !["commit_drawdown"] = amount] ELSE NoRevenue
  BY DEF Monthly
<1>1. CASE m = MonthOf(d.ts)
  BY <1>1 DEF ColumnarMovement, ColumnarRevenue
<1>2. CASE m # MonthOf(d.ts)
  BY <1>2 DEF ColumnarMovement, ColumnarRevenue
<1> QED BY <1>1, <1>2

LEMMA CreditColumns ==
    ASSUME NEW S, NEW h, NEW d, d.kind = "credit", NEW m \in Months
    PROVE  /\ ColumnarMovement(S, h, d, m) =
                Monthly(d.month, [NoMovement EXCEPT !["4090"] = d.amount, !["1100"] = -d.amount], NoMovement)[m]
           /\ ColumnarRevenue(S, h, d, m) =
                IF m < h THEN Monthly(d.month, [NoRevenue EXCEPT !["usage"] = -d.amount], NoRevenue)[m] ELSE NoRevenue
<1> SUFFICES /\ ColumnarMovement(S, h, d, m) =
                  IF m = d.month THEN [NoMovement EXCEPT !["4090"] = d.amount, !["1100"] = -d.amount] ELSE NoMovement
             /\ ColumnarRevenue(S, h, d, m) =
                  IF m = d.month /\ m < h THEN [NoRevenue EXCEPT !["usage"] = -d.amount] ELSE NoRevenue
  BY DEF Monthly
<1>1. CASE m = d.month
  BY <1>1 DEF ColumnarMovement, ColumnarRevenue
<1>2. CASE m # d.month
  BY <1>2 DEF ColumnarMovement, ColumnarRevenue
<1> QED BY <1>1, <1>2

LEMMA NothingMoves ==
    /\ InvoiceMovement(0, 0, 0) = NoMovement
    /\ [NoMovement EXCEPT !["1100"] = 0, !["4010"] = -0] = NoMovement
    /\ [NoRevenue EXCEPT !["commit_drawdown"] = 0, !["usage"] = 0 - 0 - 0] = NoRevenue
    /\ [NoRevenue EXCEPT !["subscription"] = 0] = NoRevenue
<1>1. \A a, b \in Accounts : [[NoMovement EXCEPT ![a] = 0] EXCEPT ![b] = 0] = NoMovement
  BY DEF NoMovement
<1>2. \A a, b \in Sources : [[NoRevenue EXCEPT ![a] = 0] EXCEPT ![b] = 0] = NoRevenue
  BY DEF NoRevenue
<1>3. InvoiceMovement(0, 0, 0) = NoMovement
  BY <1>1 DEF InvoiceMovement, Accounts
<1>4. [NoMovement EXCEPT !["1100"] = 0, !["4010"] = -0] = NoMovement
  BY <1>1 DEF Accounts
<1>5. [NoRevenue EXCEPT !["commit_drawdown"] = 0, !["usage"] = 0 - 0 - 0] = NoRevenue
  BY <1>2 DEF Sources
<1>6. [NoRevenue EXCEPT !["subscription"] = 0] = NoRevenue
  BY DEF NoRevenue
<1> QED BY <1>3, <1>4, <1>5, <1>6

LEMMA InvoiceColumns ==
    ASSUME ServiceIsOnCalendar, NEW S, NEW h \in Nat, NEW i \in Invoices(Documents), i.start < i.end,
           Draw(S, i) \in Nat, NEW m \in Months
    PROVE  LET net == Spread(i.net, i.start, i.end)[m]
               fee == Spread(i.fee, i.start, i.end)[m]
               draw == Spread(Draw(S, i), i.start, i.end)[m]
           IN  /\ ColumnarMovement(S, h, i, m) = IF m < h THEN InvoiceMovement(net, fee, draw) ELSE NoMovement
               /\ ColumnarRevenue(S, h, i, m) =
                    IF m < h THEN [NoRevenue EXCEPT !["commit_drawdown"] = draw, !["usage"] = net - fee - draw]
                    ELSE NoRevenue
<1> DEFINE net == Spread(i.net, i.start, i.end)[m]
           fee == Spread(i.fee, i.start, i.end)[m]
           draw == Spread(Draw(S, i), i.start, i.end)[m]
<1>1. i.kind = "invoice" /\ i.net \in Nat /\ i.fee \in Nat /\ i.start \in Nat /\ i.end \in Nat
      /\ MonthStart[Opening] <= i.start
  BY DocumentsAssumption DEF Invoices, OfKind, ServiceIsOnCalendar
<1>2. /\ net = IF Serves(i, m) THEN Share(i.net, i, m) ELSE 0
      /\ fee = IF Serves(i, m) THEN Share(i.fee, i, m) ELSE 0
      /\ draw = IF Serves(i, m) THEN Share(Draw(S, i), i, m) ELSE 0
  BY <1>1, SpreadIsShare
<1> HIDE DEF net, fee, draw
<1>3. Serves(i, m) /\ m < h <=> Serves(i, m) /\ m \in Calendar(h)
  <2>1. Serves(i, m) => Opening \in Int /\ Opening <= m
    BY <1>1, OnCalendar DEF Serves
  <2> QED BY <2>1, MonthFacts DEF Calendar
<1>4. CASE Serves(i, m) /\ m < h
  <2>1. Serves(i, m) /\ m \in Calendar(h) /\ m < h
    BY <1>3, <1>4
  <2>2. ColumnarMovement(S, h, i, m) = [NoMovement EXCEPT !["2100"] = draw, !["1100"] = net - draw - fee,
                                   !["4000"] = -net, !["4095"] = fee]
    BY <1>1, <1>2, <2>1 DEF ColumnarMovement
  <2>3. ColumnarRevenue(S, h, i, m) = [NoRevenue EXCEPT !["commit_drawdown"] = draw, !["usage"] = net - fee - draw]
    BY <1>1, <1>2, <2>1 DEF ColumnarRevenue
  <2> QED BY <2>1, <2>2, <2>3 DEF InvoiceMovement, net, fee, draw
<1>5. CASE ~(Serves(i, m) /\ m < h)
  <2>1. ~(m \in Calendar(h) /\ Serves(i, m))
    BY <1>3, <1>5
  <2>2. ColumnarMovement(S, h, i, m) = NoMovement
    BY <1>1, <2>1 DEF ColumnarMovement
  <2>3. ColumnarRevenue(S, h, i, m) = NoRevenue
    BY <1>1, <2>1 DEF ColumnarRevenue
  <2>4. m < h => net = 0 /\ fee = 0 /\ draw = 0
    BY <1>2, <1>5
  <2>5. m < h => /\ InvoiceMovement(net, fee, draw) = NoMovement
                 /\ [NoRevenue EXCEPT !["commit_drawdown"] = draw, !["usage"] = net - fee - draw] = NoRevenue
    BY <2>4, NothingMoves
  <2>6. /\ ColumnarMovement(S, h, i, m) = IF m < h THEN InvoiceMovement(net, fee, draw) ELSE NoMovement
        /\ ColumnarRevenue(S, h, i, m) =
             IF m < h THEN [NoRevenue EXCEPT !["commit_drawdown"] = draw, !["usage"] = net - fee - draw]
             ELSE NoRevenue
    BY <2>2, <2>3, <2>5
  <2> QED BY <2>6 DEF net, fee, draw
<1> QED BY <1>4, <1>5

\* The lines of a subscription, of which the loop posts the whole when it comes
\* to the last event.
LEMMA SubscriptionColumns ==
    ASSUME ServiceIsOnCalendar, NEW S \in SUBSET Documents, NEW h \in 2 .. Len(MonthStart),
           NEW e \in Subscriptions(S), NEW m \in Months
    PROVE  LET amount == HalfUp(CentsOf(S, h, EventsOf(S, e.subscription), m), Days(m))
           IN  /\ ColumnarMovement(S, h, e, m) = [NoMovement EXCEPT !["1100"] = amount, !["4010"] = -amount]
               /\ ColumnarRevenue(S, h, e, m) =
                    IF m < h THEN [NoRevenue EXCEPT !["subscription"] = amount] ELSE NoRevenue
<1> DEFINE F == EventsOf(S, e.subscription)
           f == [x \in F |-> SeatDayCents(S, h, x, m)]
           n == CentsOf(S, h, F, m)
           amount == HalfUp(n, Days(m))
<1>0. /\ e.kind = "subscription" /\ h \in 1 .. Len(MonthStart) /\ h \in Nat /\ m \in Int /\ MonthStart[h] \in Nat
      /\ Days(m) \in Nat /\ Days(m) > 0
  BY MonthsAssumption, MonthFacts DEF Subscriptions, OfKind
<1>1. F \subseteq Subscriptions(S) /\ IsFiniteSet(F) /\ DOMAIN f = F /\ n = SumFunction(f)
  <2>1. F \subseteq Subscriptions(S) /\ Subscriptions(S) \subseteq S /\ IsFiniteSet(S)
    BY SomeDocuments DEF Subscriptions, OfKind
  <2>2. IsFiniteSet(F)
    BY <2>1, FS_Subset
  <2> QED BY <2>1, <2>2 DEF CentsOf
<1>2. n \in Int
  <2>1. \A x \in F : f[x] \in Int
    BY <1>0, <1>1, SeatDayCentsIs
  <2>2. SumFunction(f) = SumFunctionOnSet(f, F)
    BY <1>1 DEF SumFunction
  <2> HIDE DEF f, F, n
  <2> QED BY <1>1, <2>1, <2>2, SumOfAny
<1>3. SubscriptionAmount(S, h, e.subscription, m) = amount
  <2>1. SubscriptionAmount(S, h, e.subscription, m) = IF n < 0 THEN -Rounded(-n, Days(m)) ELSE Rounded(n, Days(m))
    BY DEF SubscriptionAmount, CentsOf
  <2> HIDE DEF n
  <2> QED BY <1>0, <1>2, <2>1, HalfUpIsRounded
<1>4. ASSUME m \notin Calendar(h) PROVE amount = 0
  <2>1. ASSUME NEW x \in F PROVE f[x] = 0
    <3>1. x \in Subscriptions(S) /\ x.ts \in Nat /\ MonthStart[Opening] <= x.ts
      BY <1>1, DocumentsAssumption DEF Subscriptions, OfKind, ServiceIsOnCalendar
    <3>2. StopDay(S, h, x) \in Nat /\ StopDay(S, h, x) <= MonthStart[h]
      BY <1>0, <3>1, StopDayIs
    <3>3. x.ts < MonthStart[m + 1] => Opening \in Int /\ Opening <= m
      BY <3>1, OnCalendar
    <3>4. x.ts < MonthStart[m + 1] => ~(m <= h - 1)
      BY <1>0, <1>4, <3>3 DEF Calendar
    <3>5. h <= m => MonthStart[h] <= MonthStart[m]
      BY <1>0, MonthsIncrease DEF Months
    <3>6. ~(x.ts < MonthStart[m + 1] /\ StopDay(S, h, x) > MonthStart[m])
      BY <1>0, <3>2, <3>4, <3>5, MonthFacts
    <3>7. SeatDayCents(S, h, x, m) = 0
      BY <3>6 DEF SeatDayCents
    <3> QED BY <3>7
  <2>2. SumFunction(f) = 0
    <3> HIDE DEF f
    <3> QED BY <1>1, <2>1, SumOfZeros
  <2>3. n = 0
    BY <1>1, <2>2
  <2> HIDE DEF n
  <2> QED BY <1>0, <2>3, NothingRounded
<1> HIDE DEF amount
<1>5. CASE m \in Calendar(h)
  <2>1. m < h
    BY <1>0, <1>5 DEF Calendar, ServiceIsOnCalendar, Months
  <2>2. ColumnarMovement(S, h, e, m) = [NoMovement EXCEPT !["1100"] = amount, !["4010"] = -amount]
    BY <1>0, <1>3, <1>5 DEF ColumnarMovement
  <2>3. ColumnarRevenue(S, h, e, m) = [NoRevenue EXCEPT !["subscription"] = amount]
    BY <1>0, <1>3, <1>5 DEF ColumnarRevenue
  <2> QED BY <2>1, <2>2, <2>3 DEF amount
<1>6. CASE m \notin Calendar(h)
  <2>1. ColumnarMovement(S, h, e, m) = NoMovement
    BY <1>0, <1>6 DEF ColumnarMovement
  <2>2. ColumnarRevenue(S, h, e, m) = NoRevenue
    BY <1>0, <1>6 DEF ColumnarRevenue
  <2>3. /\ [NoMovement EXCEPT !["1100"] = amount, !["4010"] = -amount] = NoMovement
        /\ [NoRevenue EXCEPT !["subscription"] = amount] = NoRevenue
    BY <1>4, <1>6, NothingMoves
  <2>4. /\ ColumnarMovement(S, h, e, m) = [NoMovement EXCEPT !["1100"] = amount, !["4010"] = -amount]
        /\ ColumnarRevenue(S, h, e, m) = IF m < h THEN [NoRevenue EXCEPT !["subscription"] = amount] ELSE NoRevenue
    BY <2>1, <2>2, <2>3
  <2> QED BY <2>4 DEF amount
<1> QED BY <1>5, <1>6

(***************************************************************************)
(* Commitments: what the invoices of a contract draw.                      *)
(***************************************************************************)
NetOf(F) == SumFunction([i \in F |-> i.net])
DrawnBy(S, F) == SumFunction([i \in F |-> Draw(S, i)])
Terms(S, key) == {c \in Contracts(S) : c.contract = key}
Covered(D, key) == {i \in Invoices(D) : i.contract = key}

LEMMA SomeInvoices ==
    ASSUME NEW F \in SUBSET Invoices(Documents)
    PROVE  IsFiniteSet(F) /\ \A i \in F : i.net \in Nat
<1>1. F \in SUBSET Documents
  BY DEF Invoices, OfKind
<1>2. IsFiniteSet(F)
  BY <1>1, IdentitiesAssumption, FS_Subset
<1> QED BY <1>2, DocumentsAssumption DEF Invoices, OfKind

LEMMA NetGrows ==
    ASSUME NEW F \in SUBSET Invoices(Documents)
    PROVE  /\ NetOf(F) \in Nat
           /\ \A i \in Invoices(Documents) \ F : NetOf(F \cup {i}) = NetOf(F) + i.net
<1> DEFINE f == [x \in F |-> x.net]
<1>1. IsFiniteSet(F) /\ DOMAIN f = F /\ NetOf(F) = SumFunction(f) /\ \A x \in F : f[x] = x.net /\ f[x] \in Nat
  BY SomeInvoices DEF NetOf
<1> HIDE DEF f
<1>2. NetOf(F) \in Nat
  BY <1>1, SumOfNaturals DEF SumFunction
<1>3. ASSUME NEW i \in Invoices(Documents) \ F PROVE NetOf(F \cup {i}) = NetOf(F) + i.net
  <2> DEFINE g == [x \in F \cup {i} |-> x.net]
  <2>1. /\ DOMAIN g = DOMAIN f \cup {i} /\ NetOf(F \cup {i}) = SumFunction(g) /\ g[i] = i.net
        /\ \A y \in DOMAIN f : f[y] = g[y]
    BY <1>1 DEF NetOf
  <2>2. \A y \in DOMAIN g : g[y] \in Int
    <3>1. \A y \in F \cup {i} : y.net \in Nat
      BY DocumentsAssumption DEF Invoices, OfKind
    <3> QED BY <3>1
  <2>3. i.net \in Int /\ i \notin DOMAIN f /\ IsFiniteSet(DOMAIN f)
    BY <1>1, DocumentsAssumption DEF Invoices, OfKind
  <2> HIDE DEF g
  <2>4. SumFunction(f) \in Int /\ SumFunction(g) = g[i] + SumFunction(f)
    BY <2>1, <2>2, <2>3, SumGrows
  <2> QED BY <1>1, <2>1, <2>3, <2>4
<1> QED BY <1>2, <1>3

LEMMA CommittedIs ==
    ASSUME NEW S \in SUBSET Documents, NEW d
    PROVE  /\ Committed(S, d) \in Nat
           /\ \A c \in ContractOf(S, d) : ~Duplicated(Contracts(S), "contract") =>
                ContractOf(S, d) = {c} /\ Committed(S, d) = c.commit
<1>1. \A c \in ContractOf(S, d) : c \in Contracts(S) /\ c.contract = d.contract /\ c.commit \in Nat
  BY DocumentsAssumption DEF ContractOf, Contracts, OfKind
<1>2. ContractOf(S, d) # {} => (CHOOSE c \in ContractOf(S, d) : TRUE) \in ContractOf(S, d)
  OBVIOUS
<1>3. ASSUME NEW c \in ContractOf(S, d), ~Duplicated(Contracts(S), "contract") PROVE ContractOf(S, d) = {c}
  BY <1>1, <1>3 DEF Duplicated
<1> QED BY <1>1, <1>2, <1>3 DEF Committed

LEMMA DrawIs ==
    ASSUME NEW S \in SUBSET Documents, NEW i \in Invoices(S)
    PROVE  Draw(S, i) \in Nat
<1>1. Earlier(S, i) \in SUBSET Invoices(Documents) /\ i.net \in Nat
  BY DocumentsAssumption DEF Earlier, Invoices, OfKind
<1>2. Prior(S, i) \in Nat
  BY <1>1, NetGrows DEF Prior, NetOf
<1> QED BY <1>1, <1>2, CommittedIs DEF Draw, Least, Greatest

LEMMA DrawsGrow ==
    ASSUME NEW S \in SUBSET Documents, NEW F \in SUBSET Invoices(S)
    PROVE  /\ DrawnBy(S, F) \in Nat
           /\ \A i \in Invoices(S) \ F : DrawnBy(S, F \cup {i}) = DrawnBy(S, F) + Draw(S, i)
<1> DEFINE f == [x \in F |-> Draw(S, x)]
<1>0. F \in SUBSET Invoices(Documents)
  BY SomeDocuments
<1>1. IsFiniteSet(F) /\ DOMAIN f = F /\ DrawnBy(S, F) = SumFunction(f) /\ \A x \in F : f[x] = Draw(S, x) /\ f[x] \in Nat
  BY <1>0, SomeInvoices, DrawIs DEF DrawnBy
<1> HIDE DEF f
<1>2. DrawnBy(S, F) \in Nat
  BY <1>1, SumOfNaturals DEF SumFunction
<1>3. ASSUME NEW i \in Invoices(S) \ F PROVE DrawnBy(S, F \cup {i}) = DrawnBy(S, F) + Draw(S, i)
  <2> DEFINE g == [x \in F \cup {i} |-> Draw(S, x)]
  <2>1. /\ DOMAIN g = DOMAIN f \cup {i} /\ DrawnBy(S, F \cup {i}) = SumFunction(g) /\ g[i] = Draw(S, i)
        /\ \A y \in DOMAIN f : f[y] = g[y]
    BY <1>1 DEF DrawnBy
  <2>2. \A y \in DOMAIN g : g[y] \in Int
    BY DrawIs
  <2>3. Draw(S, i) \in Int /\ i \notin DOMAIN f /\ IsFiniteSet(DOMAIN f)
    BY <1>1, DrawIs
  <2> HIDE DEF g
  <2>4. SumFunction(f) \in Int /\ SumFunction(g) = g[i] + SumFunction(f)
    BY <2>1, <2>2, <2>3, SumGrows
  <2> QED BY <1>1, <2>1, <2>3, <2>4
<1> QED BY <1>2, <1>3

LEMMA NothingDrawn == ASSUME NEW S PROVE NetOf({}) = 0 /\ DrawnBy(S, {}) = 0
<1> DEFINE f == [i \in {} |-> i.net]
           g == [i \in {} |-> Draw(S, i)]
<1>1. DOMAIN f = {} /\ DOMAIN g = {} /\ NetOf({}) = SumFunction(f) /\ DrawnBy(S, {}) = SumFunction(g)
  BY DEF NetOf, DrawnBy
<1> HIDE DEF f, g
<1> QED BY <1>1, SumOfZeros, FS_EmptySet

(***************************************************************************)
(* A report under way: S is what it sees, L what it has not come to yet, D *)
(* what it is done with.                                                   *)
(***************************************************************************)
\* What is done, and in which order.
DoneFirst(S, L, D) ==
    /\ S = L \cup D /\ L \cap D = {} /\ Contracts(L) = {}
    /\ \A i \in Invoices(L), j \in Invoices(D) : InvoiceBefore(j, i)
    /\ Expiries(D) # {} => Invoices(L) = {}
    /\ \A e \in Subscriptions(L), f \in Subscriptions(D) :
          f.subscription < e.subscription \/ (f.subscription = e.subscription /\ EventBefore(f, e))

\* What the views would refuse has not been met.
Identified(S) ==
    /\ ~Duplicated(Invoices(S), "invoice") /\ ~Duplicated(Contracts(S), "contract")
    /\ ~Duplicated(Credits(S), "credit") /\ ~Duplicated(Expiries(S), "contract")
NoErrorsIn(S, D) ==
    /\ \A i \in Invoices(D) : ~InvalidInvoice(S, i)
    /\ \A c \in Credits(D) : \E i \in Invoices(S) : i.invoice = c.invoice
    /\ \A x \in Expiries(D) : ~InvalidExpiry(S, x)
    /\ \A e \in Subscriptions(D) : e.monthly

\* What is left of a commitment, as the window has it, until the expiry.
Unspent(S, D, rest) ==
    \A key \in ContractKeys : \A c \in Terms(S, key) :
        (\A x \in Expiries(D) : x.contract # key) =>
            /\ rest[key] = c.commit - DrawnBy(S, Covered(D, key))
            /\ rest[key] = Greatest(c.commit - NetOf(Covered(D, key)), 0)

Served(D, last) ==
    \A key \in ContractKeys :
        /\ last[key] \in Nat
        /\ \A i \in Covered(D, key) : i.end <= last[key]
        /\ last[key] = 0 \/ \E i \in Covered(D, key) : i.end = last[key]

\* A posted line is the view's, any other is blank.
RowsAreColumnar(S, D, h, moved, earned) ==
    \A line \in Lines :
        /\ \A p \in Posters(S) : p \in D /\ Poster(p) = line[1] =>
              /\ moved[line] = ColumnarMovement(S, h, p, line[2])
              /\ earned[line] = ColumnarRevenue(S, h, p, line[2])
        /\ (\A p \in Posters(S) : p \in D => Poster(p) # line[1]) => moved[line] = NoMovement /\ earned[line] = NoRevenue

\* The cursor holds the windows' values of the last event met.
CursorIsWindow(S, D, h, held) ==
    \A e \in Subscriptions(D) :
        UpTo(S, e) = EventsOf(D, e.subscription) /\ After(S, e) # {} => held = WindowOf(S, h, e)

\* The next invoice finds what the window finds before it.
LEMMA NextDraws ==
    ASSUME NEW S \in SUBSET Documents, NEW L, NEW D, DoneFirst(S, L, D), NEW i \in Invoices(L),
           \A j \in Invoices(L) : j = i \/ InvoiceBefore(i, j)
    PROVE  Earlier(S, i) = Covered(D, i.contract)
<1>1. \A j : j \in Invoices(S) <=> j \in Invoices(L) \/ j \in Invoices(D)
  BY DEF Invoices, OfKind, DoneFirst
<1>2. Invoices(S) \subseteq Invoices(Documents) /\ i \in Invoices(S)
  BY <1>1, SomeDocuments
<1>3. \A j \in Invoices(L) : ~InvoiceBefore(j, i)
  BY <1>1, <1>2, InvoicesAreOrdered
<1>4. \A j \in Invoices(D) : InvoiceBefore(j, i)
  BY DEF DoneFirst
<1> QED BY <1>1, <1>3, <1>4 DEF Earlier, Covered

Done == seen \ left
Posting ==
    /\ DoneFirst(seen, left, Done) /\ Identified(seen) /\ NoErrorsIn(seen, Done)
    /\ Unspent(seen, Done, remaining) /\ Served(Done, lastService)
    /\ RowsAreColumnar(seen, Done, horizon, journal, earnings)
    /\ CursorIsWindow(seen, Done, horizon, cursor)
AgreeInv == BooksInv /\ (status = "posting" => Posting) /\ ImplementationsAgree

\* The next of a kind of document, as the actions take it.
NextInvoice(i) == i \in Invoices(left) /\ \A j \in Invoices(left) : j = i \/ InvoiceBefore(i, j)

LEMMA SeenIs ==
    ASSUME BooksInv
    PROVE  seen \in SUBSET Documents
BY DEF BooksInv, RunningState, seen, Visible

LEMMA KnownIs ==
    ASSUME BooksInv, NEW d
    PROVE  /\ Known(d.contract) <=> ContractOf(seen, d) # {}
           /\ ContractOf(seen, d) = Terms(seen, d.contract)
           /\ Known(d.contract) => d.contract \in ContractKeys
           /\ \A c \in ContractOf(seen, d) : Identified(seen) => Contract(d.contract) = c
           /\ d.contract = None => ContractOf(seen, d) = {}
<1>1. ContractOf(seen, d) = Terms(seen, d.contract)
  BY DEF ContractOf, Terms
<1>2. ASSUME NEW c \in ContractOf(seen, d), Identified(seen) PROVE Contract(d.contract) = c
  <2>1. c \in Contracts(seen) /\ c.contract = d.contract
    BY DEF ContractOf
  <2>2. \A b \in Contracts(seen) : b.contract = d.contract => b = c
    BY <1>2, <2>1 DEF Identified, Duplicated
  <2> QED BY <2>1, <2>2 DEF Contract
<1>3. d.contract = None => ContractOf(seen, d) = {}
  BY SeenIs, IdentitiesAssumption DEF ContractOf, Contracts, OfKind
<1> QED BY <1>1, <1>2, <1>3, SeenIsDocumented DEF Known, ContractOf

(***************************************************************************)
(* Invoices.                                                               *)
(***************************************************************************)
LEMMA DrawnIsDraw ==
    ASSUME BooksInv, Posting, NEW i, NextInvoice(i), i.contract # None => Known(i.contract)
    PROVE  /\ Drawn(i) = Draw(seen, i) /\ Draw(seen, i) \in Nat
           /\ \A c \in ContractOf(seen, i) :
                /\ remaining[i.contract] = Greatest(c.commit - NetOf(Covered(Done, i.contract)), 0)
                /\ Draw(seen, i) = Least(i.net, remaining[i.contract])
<1>1. /\ seen \in SUBSET Documents /\ i \in Invoices(left) /\ DoneFirst(seen, left, Done) /\ left \subseteq seen
      /\ i \in Invoices(seen)
  BY SeenIs DEF NextInvoice, Posting, DoneFirst, Invoices, OfKind
<1>2. i.net \in Nat /\ Draw(seen, i) \in Nat
  BY <1>1, DrawIs, DocumentsAssumption DEF Invoices, OfKind
<1>3. CASE i.contract = None
  <2>1. ContractOf(seen, i) = {}
    BY <1>3, KnownIs
  <2> QED BY <1>2, <1>3, <2>1 DEF Drawn, Available, Draw, Least
<1>4. CASE i.contract # None
  <2> DEFINE key == i.contract
             covered == Covered(Done, key)
  <2>1. PICK c \in ContractOf(seen, i) : TRUE
    BY <1>4, KnownIs
  <2>2. ContractOf(seen, i) = {c} /\ Committed(seen, i) = c.commit /\ c.commit \in Nat
    BY <1>1, <2>1, CommittedIs, DocumentsAssumption DEF Posting, Identified, ContractOf, Contracts, OfKind
  <2>3. key \in ContractKeys /\ c \in Terms(seen, key)
    BY <1>4, <2>1, KnownIs
  <2>4. Expiries(Done) = {}
    BY <1>1 DEF DoneFirst
  <2>5. remaining[key] = Greatest(c.commit - NetOf(covered), 0)
    BY <2>3, <2>4 DEF Posting, Unspent
  <2>6. Prior(seen, i) = NetOf(covered)
    BY <1>1, NextDraws DEF Prior, NetOf, NextInvoice
  <2>7. covered \in SUBSET Invoices(Documents)
    BY <1>1 DEF Covered, Invoices, OfKind, DoneFirst
  <2>8. NetOf(covered) \in Nat
    BY <2>7, NetGrows
  <2> HIDE DEF covered
  <2>9. Draw(seen, i) = Least(i.net, remaining[key])
    BY <1>4, <2>2, <2>5, <2>6 DEF Draw
  <2>10. remaining[key] \in Nat
    BY <2>3 DEF BooksInv, RunningState
  <2>11. Drawn(i) = Draw(seen, i)
    BY <1>2, <1>4, <2>9, <2>10 DEF Drawn, Available, Least
  <2> QED BY <1>2, <2>2, <2>5, <2>9, <2>11 DEF covered
<1> QED BY <1>3, <1>4

\* The loop refuses the invoice that the views find invalid.
LEMMA InvoiceRefusal ==
    ASSUME BooksInv, Posting, NEW i, NextInvoice(i)
    PROVE  Unserviceable(i) \/ (Drawn(i) # 0 /\ i.fee # 0) <=> InvalidInvoice(seen, i)
<1>1. CASE i.contract # None /\ ~Known(i.contract)
  BY <1>1, KnownIs DEF Unserviceable, InvalidInvoice
<1>2. CASE i.contract # None => Known(i.contract)
  <2>1. Drawn(i) = Draw(seen, i) /\ Draw(seen, i) \in Nat
    BY <1>2, DrawnIsDraw
  <2>2. Drawn(i) # 0 <=> Draw(seen, i) > 0
    BY <2>1
  <2>3. CASE i.contract = None
    <3>1. ContractOf(seen, i) = {}
      BY <2>3, KnownIs
    <3> QED BY <2>2, <2>3, <3>1 DEF Unserviceable, InvalidInvoice
  <2>4. CASE i.contract # None
    <3>1. PICK c \in ContractOf(seen, i) : TRUE
      BY <1>2, <2>4, KnownIs
    <3>2. \A b \in ContractOf(seen, i) : Contract(i.contract) = b
      BY KnownIs DEF Posting
    <3>3. Known(i.contract)
      BY <1>2, <2>4
    <3> QED BY <2>2, <2>4, <3>1, <3>2, <3>3 DEF Unserviceable, InvalidInvoice
  <2> QED BY <2>3, <2>4
<1> QED BY <1>1, <1>2

LEMMA PostIsColumnar ==
    ASSUME seen \in SUBSET Documents, NEW d \in Posters(seen), d \notin Done,
           RowsAreColumnar(seen, Done, horizon, journal, earnings),
           NEW movement, NEW revenue, Post(d, movement, revenue),
           \A m \in Months :
              /\ ColumnarMovement(seen, horizon, d, m) = movement[m]
              /\ ColumnarRevenue(seen, horizon, d, m) = IF m < horizon THEN revenue[m] ELSE NoRevenue
    PROVE  RowsAreColumnar(seen, Done \cup {d}, horizon, journal', earnings')
<1>1. ASSUME NEW line \in Lines
      PROVE  /\ \A p \in Posters(seen) : p \in Done \cup {d} /\ Poster(p) = line[1] =>
                  /\ journal'[line] = ColumnarMovement(seen, horizon, p, line[2])
                  /\ earnings'[line] = ColumnarRevenue(seen, horizon, p, line[2])
             /\ (\A p \in Posters(seen) : p \in Done \cup {d} => Poster(p) # line[1]) =>
                  journal'[line] = NoMovement /\ earnings'[line] = NoRevenue
  <2>1. line[2] \in Months
    BY DEF Lines
  <2>2. CASE line[1] = Poster(d)
    <3>1. \A p \in Posters(seen) : Poster(p) = line[1] => p = d
      BY <2>2, OnePoster
    <3>2. earnings[line] = NoRevenue
      BY <3>1 DEF RowsAreColumnar
    <3>3. /\ journal'[line] = movement[line[2]]
          /\ earnings'[line] = IF line[2] < horizon THEN revenue[line[2]] ELSE NoRevenue
      BY <2>2, <3>2 DEF Post
    <3>4. /\ journal'[line] = ColumnarMovement(seen, horizon, d, line[2])
          /\ earnings'[line] = ColumnarRevenue(seen, horizon, d, line[2])
      BY <2>1, <3>3
    <3> QED BY <2>2, <3>1, <3>4
  <2>3. CASE line[1] # Poster(d)
    <3>1. journal'[line] = journal[line] /\ earnings'[line] = earnings[line]
      BY <2>3 DEF Post
    <3> QED BY <2>3, <3>1 DEF RowsAreColumnar
  <2> QED BY <2>2, <2>3
<1> QED BY <1>1 DEF RowsAreColumnar

LEMMA InvoiceRows ==
    ASSUME ServiceIsOnCalendar, BooksInv, Posting, NEW i \in left, NextInvoice(i), ~InvalidInvoice(seen, i),
           LET net == Spread(i.net, i.start, i.end)
               fee == Spread(i.fee, i.start, i.end)
               draw == Spread(Drawn(i), i.start, i.end)
           IN  Post(i,
                 [m \in Months |-> IF m < horizon THEN InvoiceMovement(net[m], fee[m], draw[m]) ELSE NoMovement],
                 [m \in Months |-> [NoRevenue EXCEPT !["commit_drawdown"] = draw[m],
                                                     !["usage"] = net[m] - fee[m] - draw[m]]])
    PROVE  RowsAreColumnar(seen, Done \cup {i}, horizon, journal', earnings')
<1> DEFINE net == Spread(i.net, i.start, i.end)
           fee == Spread(i.fee, i.start, i.end)
           draw == Spread(Drawn(i), i.start, i.end)
           movement == [m \in Months |-> IF m < horizon THEN InvoiceMovement(net[m], fee[m], draw[m]) ELSE NoMovement]
           revenue == [m \in Months |-> [NoRevenue EXCEPT !["commit_drawdown"] = draw[m],
                                                          !["usage"] = net[m] - fee[m] - draw[m]]]
<1>1. /\ seen \in SUBSET Documents /\ i \notin Done /\ i \in seen /\ i \in Invoices(Documents) /\ i.kind = "invoice"
      /\ horizon \in Nat /\ RowsAreColumnar(seen, Done, horizon, journal, earnings)
  BY SeenIs DEF Posting, DoneFirst, NextInvoice, Invoices, OfKind, BooksInv, RunningState
<1>2. i.start \in Nat /\ i.end \in Nat
  BY <1>1, DocumentsAssumption DEF Invoices, OfKind
<1>3. i.start < i.end /\ (i.contract # None => Known(i.contract))
  BY <1>2, InvoiceRefusal DEF Unserviceable
<1>4. Drawn(i) = Draw(seen, i) /\ Draw(seen, i) \in Nat
  BY <1>3, DrawnIsDraw
<1>5. i \in Posters(seen)
  BY <1>1 DEF Posters
<1>6. ASSUME NEW m \in Months
      PROVE  /\ ColumnarMovement(seen, horizon, i, m) = IF m < horizon THEN InvoiceMovement(net[m], fee[m], draw[m]) ELSE NoMovement
             /\ ColumnarRevenue(seen, horizon, i, m) =
                    IF m < horizon THEN [NoRevenue EXCEPT !["commit_drawdown"] = draw[m], !["usage"] = net[m] - fee[m] - draw[m]]
                    ELSE NoRevenue
  BY <1>1, <1>3, <1>4, InvoiceColumns
<1> HIDE DEF net, fee, draw
<1>7. \A m \in Months :
        /\ ColumnarMovement(seen, horizon, i, m) = movement[m]
        /\ ColumnarRevenue(seen, horizon, i, m) = IF m < horizon THEN revenue[m] ELSE NoRevenue
  BY <1>6
<1>8. Post(i, movement, revenue)
  BY DEF net, fee, draw
<1> HIDE DEF movement, revenue
<1> QED BY <1>1, <1>5, <1>7, <1>8, PostIsColumnar

(***************************************************************************)
(* What each kind of document leaves as it was.                            *)
(***************************************************************************)
LEMMA InvoicesDone ==
    ASSUME NEW D, NEW d
    PROVE  /\ Invoices(D \cup {d}) = IF d.kind = "invoice" THEN Invoices(D) \cup {d} ELSE Invoices(D)
           /\ Invoices(D \ {d}) = Invoices(D) \ {d}
           /\ \A key : Covered(D \cup {d}, key) = IF d.kind = "invoice" /\ d.contract = key
                                                  THEN Covered(D, key) \cup {d} ELSE Covered(D, key)
<1>1. /\ Invoices(D \cup {d}) = IF d.kind = "invoice" THEN Invoices(D) \cup {d} ELSE Invoices(D)
      /\ Invoices(D \ {d}) = Invoices(D) \ {d}
  BY DEF Invoices, OfKind
<1> QED BY <1>1 DEF Covered

LEMMA OthersDone ==
    ASSUME NEW D, NEW d
    PROVE  /\ Expiries(D \cup {d}) = IF d.kind = "expiry" THEN Expiries(D) \cup {d} ELSE Expiries(D)
           /\ Credits(D \cup {d}) = IF d.kind = "credit" THEN Credits(D) \cup {d} ELSE Credits(D)
           /\ Subscriptions(D \cup {d}) = IF d.kind = "subscription" THEN Subscriptions(D) \cup {d} ELSE Subscriptions(D)
           /\ Contracts(D \ {d}) = Contracts(D) \ {d}
           /\ Subscriptions(D \ {d}) = Subscriptions(D) \ {d}
           /\ Expiries(D \ {d}) = Expiries(D) \ {d}
BY DEF OfKind, Expiries, Credits, Subscriptions, Contracts

LEMMA OrderStays ==
    ASSUME NEW S, NEW L, NEW D, DoneFirst(S, L, D), NEW d \in L,
           \A j \in Invoices(L) : d.kind = "invoice" => j = d \/ InvoiceBefore(d, j),
           d.kind = "expiry" => Invoices(L) = {},
           d.kind = "invoice" => Invoices(L) # {},
           \A f \in Subscriptions(L) : d.kind = "subscription" =>
              d.subscription < f.subscription \/ (d.subscription = f.subscription /\ (f = d \/ EventBefore(d, f)))
    PROVE  DoneFirst(S, L \ {d}, D \cup {d})
<1>1. ASSUME NEW i \in Invoices(L \ {d}), NEW j \in Invoices(D \cup {d}) PROVE InvoiceBefore(j, i)
  <2>1. i \in Invoices(L) /\ i # d /\ (j \in Invoices(D) \/ (d.kind = "invoice" /\ j = d))
    BY <1>1 DEF Invoices, OfKind
  <2>2. CASE j \in Invoices(D)
    BY <2>1, <2>2 DEF DoneFirst
  <2>3. CASE d.kind = "invoice" /\ j = d
    BY <2>1, <2>3
  <2> QED BY <2>1, <2>2, <2>3
<1>2. Expiries(D \cup {d}) # {} => Invoices(L \ {d}) = {}
  <2>1. CASE d.kind = "expiry"
    BY <2>1, InvoicesDone
  <2>2. CASE d.kind # "expiry"
    <3>1. Expiries(D \cup {d}) = Expiries(D)
      BY <2>2, OthersDone
    <3> QED BY <3>1, InvoicesDone DEF DoneFirst
  <2> QED BY <2>1, <2>2
<1>3. ASSUME NEW e \in Subscriptions(L \ {d}), NEW f \in Subscriptions(D \cup {d})
      PROVE  f.subscription < e.subscription \/ (f.subscription = e.subscription /\ EventBefore(f, e))
  <2>1. e \in Subscriptions(L) /\ e # d /\ (f \in Subscriptions(D) \/ (d.kind = "subscription" /\ f = d))
    BY <1>3 DEF Subscriptions, OfKind
  <2>2. CASE f \in Subscriptions(D)
    BY <2>1, <2>2 DEF DoneFirst
  <2>3. CASE d.kind = "subscription" /\ f = d
    BY <2>1, <2>3
  <2> QED BY <2>1, <2>2, <2>3
<1>4. Contracts(L \ {d}) = {}
  BY DEF DoneFirst, Contracts, OfKind
<1>5. S = (L \ {d}) \cup (D \cup {d}) /\ (L \ {d}) \cap (D \cup {d}) = {}
  BY DEF DoneFirst
<1> QED BY <1>1, <1>2, <1>3, <1>4, <1>5 DEF DoneFirst

LEMMA ErrorsStay ==
    ASSUME NEW S, NEW D, NoErrorsIn(S, D), NEW d,
           d.kind = "invoice" => ~InvalidInvoice(S, d),
           d.kind = "credit" => \E i \in Invoices(S) : i.invoice = d.invoice,
           d.kind = "expiry" => ~InvalidExpiry(S, d),
           d.kind = "subscription" => d.monthly
    PROVE  NoErrorsIn(S, D \cup {d})
<1>1. \A i \in Invoices(D \cup {d}) : ~InvalidInvoice(S, i)
  BY DEF NoErrorsIn, Invoices, OfKind
<1>2. \A c \in Credits(D \cup {d}) : \E i \in Invoices(S) : i.invoice = c.invoice
  BY DEF NoErrorsIn, Credits, OfKind
<1>3. \A x \in Expiries(D \cup {d}) : ~InvalidExpiry(S, x)
  BY DEF NoErrorsIn, Expiries, OfKind
<1>4. \A e \in Subscriptions(D \cup {d}) : e.monthly
  BY DEF NoErrorsIn, Subscriptions, OfKind
<1> QED BY <1>1, <1>2, <1>3, <1>4 DEF NoErrorsIn

LEMMA CursorStays ==
    ASSUME NEW S, NEW D, NEW h, NEW held, CursorIsWindow(S, D, h, held), NEW d, d.kind # "subscription"
    PROVE  CursorIsWindow(S, D \cup {d}, h, held)
<1>1. Subscriptions(D \cup {d}) = Subscriptions(D)
  BY OthersDone
<1>2. \A s : EventsOf(D \cup {d}, s) = EventsOf(D, s)
  BY <1>1 DEF EventsOf
<1> QED BY <1>1, <1>2 DEF CursorIsWindow

LEMMA ServedStays ==
    ASSUME NEW D, NEW last, Served(D, last), NEW d, d.kind # "invoice"
    PROVE  Served(D \cup {d}, last)
<1>1. \A key : Covered(D \cup {d}, key) = Covered(D, key)
  BY InvoicesDone
<1> QED BY <1>1 DEF Served

\* Neither do documents that are not invoices spend a commitment, but an expiry
\* is the last word on it.
LEMMA UnspentStays ==
    ASSUME NEW S, NEW D, NEW rest, NEW then, Unspent(S, D, rest), NEW d, d.kind # "invoice",
           \A key \in ContractKeys : then[key] = rest[key] \/ (d.kind = "expiry" /\ d.contract = key)
    PROVE  Unspent(S, D \cup {d}, then)
<1>1. \A key : Covered(D \cup {d}, key) = Covered(D, key)
  BY InvoicesDone
<1>2. /\ Expiries(D) \subseteq Expiries(D \cup {d})
      /\ d.kind = "expiry" => d \in Expiries(D \cup {d})
  BY DEF Expiries, OfKind
<1> SUFFICES ASSUME NEW key \in ContractKeys, NEW c \in Terms(S, key),
                    \A x \in Expiries(D \cup {d}) : x.contract # key
             PROVE  /\ then[key] = c.commit - DrawnBy(S, Covered(D, key))
                    /\ then[key] = Greatest(c.commit - NetOf(Covered(D, key)), 0)
  BY <1>1 DEF Unspent
<1>3. then[key] = rest[key] /\ \A x \in Expiries(D) : x.contract # key
  BY <1>2
<1>4. /\ rest[key] = c.commit - DrawnBy(S, Covered(D, key))
      /\ rest[key] = Greatest(c.commit - NetOf(Covered(D, key)), 0)
  BY <1>3 DEF Unspent
<1> QED BY <1>3, <1>4

\* An invoice spends what it draws.
LEMMA InvoiceSpends ==
    ASSUME BooksInv, Posting, NEW i \in left, NextInvoice(i), i.contract # None => Known(i.contract),
           NEW then, \A key \in ContractKeys :
              then[key] = IF key = i.contract THEN remaining[key] - Drawn(i) ELSE remaining[key]
    PROVE  Unspent(seen, Done \cup {i}, then)
<1>1. /\ seen \in SUBSET Documents /\ i \notin Done /\ Done \subseteq seen /\ i.kind = "invoice" /\ i \in Invoices(seen)
      /\ Unspent(seen, Done, remaining)
  BY SeenIs DEF Posting, DoneFirst, NextInvoice, Invoices, OfKind
<1> SUFFICES ASSUME NEW key \in ContractKeys, NEW c \in Terms(seen, key),
                    \A x \in Expiries(Done \cup {i}) : x.contract # key
             PROVE  /\ then[key] = c.commit - DrawnBy(seen, Covered(Done \cup {i}, key))
                    /\ then[key] = Greatest(c.commit - NetOf(Covered(Done \cup {i}, key)), 0)
  BY DEF Unspent
<1> DEFINE covered == Covered(Done, key)
<1>2. /\ Covered(Done \cup {i}, key) = IF i.contract = key THEN covered \cup {i} ELSE covered
      /\ i \notin covered /\ covered \in SUBSET Invoices(seen)
      /\ covered \in SUBSET Invoices(Documents) /\ i \in Invoices(Documents)
  <2>1. Covered(Done \cup {i}, key) = IF i.contract = key THEN covered \cup {i} ELSE covered
    BY <1>1 DEF Covered, Invoices, OfKind
  <2> QED BY <1>1, <2>1 DEF Covered, Invoices, OfKind
<1>3. Expiries(Done \cup {i}) = Expiries(Done)
  BY <1>1, OthersDone
<1>4. /\ remaining[key] = c.commit - DrawnBy(seen, covered)
      /\ remaining[key] = Greatest(c.commit - NetOf(covered), 0)
  BY <1>1, <1>3 DEF Unspent
<1>5. CASE i.contract # key
  BY <1>2, <1>4, <1>5
<1>6. CASE i.contract = key
  <2>1. c \in ContractOf(seen, i)
    BY <1>6 DEF Terms, ContractOf
  <2>2. /\ Drawn(i) = Draw(seen, i) /\ Draw(seen, i) \in Nat
        /\ Draw(seen, i) = Least(i.net, remaining[key])
    BY <1>6, <2>1, DrawnIsDraw
  <2>3. /\ DrawnBy(seen, covered) \in Nat /\ DrawnBy(seen, covered \cup {i}) = DrawnBy(seen, covered) + Draw(seen, i)
        /\ NetOf(covered) \in Nat /\ NetOf(covered \cup {i}) = NetOf(covered) + i.net
    BY <1>1, <1>2, DrawsGrow, NetGrows
  <2>4. i.net \in Nat /\ c.commit \in Nat
    BY <1>2, <2>1, SeenIs, DocumentsAssumption DEF ContractOf, Contracts, Invoices, OfKind
  <2>5. then[key] = remaining[key] - Draw(seen, i)
    BY <1>6, <2>2
  <2> HIDE DEF covered
  <2>6. then[key] = c.commit - DrawnBy(seen, covered \cup {i})
    BY <1>4, <2>2, <2>3, <2>4, <2>5
  <2>7. then[key] = Greatest(c.commit - NetOf(covered \cup {i}), 0)
    <3> DEFINE before == NetOf(covered)
               after == NetOf(covered \cup {i})
               drawn == Draw(seen, i)
               rest == remaining[key]
    <3>1. /\ before \in Nat /\ after = before + i.net /\ i.net \in Nat /\ c.commit \in Nat /\ drawn \in Nat
          /\ drawn = Least(i.net, rest) /\ rest = Greatest(c.commit - before, 0) /\ then[key] = rest - drawn
      BY <1>4, <2>2, <2>3, <2>4, <2>5
    <3> HIDE DEF before, after, drawn, rest
    <3>2. rest = IF c.commit - before >= 0 THEN c.commit - before ELSE 0
      BY <3>1 DEF Greatest
    <3>3. drawn = IF i.net <= rest THEN i.net ELSE rest
      BY <3>1 DEF Least
    <3>4. Greatest(c.commit - after, 0) = IF c.commit - after >= 0 THEN c.commit - after ELSE 0
      BY DEF Greatest
    <3>5. then[key] = Greatest(c.commit - after, 0)
      BY <3>1, <3>2, <3>3, <3>4
    <3> QED BY <3>5 DEF after
  <2> QED BY <1>2, <1>6, <2>6, <2>7
<1> QED BY <1>5, <1>6

LEMMA InvoiceServes ==
    ASSUME BooksInv, Posting, NEW i \in left, NextInvoice(i),
           NEW then, \A key \in ContractKeys :
              then[key] = IF key = i.contract THEN Greatest(i.end, lastService[key]) ELSE lastService[key]
    PROVE  Served(Done \cup {i}, then)
<1>1. /\ seen \in SUBSET Documents /\ Done \subseteq seen /\ i.kind = "invoice" /\ Served(Done, lastService)
      /\ i.end \in Nat
  BY SeenIs, DocumentsAssumption DEF Posting, DoneFirst, NextInvoice, Invoices, OfKind
<1> SUFFICES ASSUME NEW key \in ContractKeys
             PROVE  /\ then[key] \in Nat
                    /\ \A j \in Covered(Done \cup {i}, key) : j.end <= then[key]
                    /\ then[key] = 0 \/ \E j \in Covered(Done \cup {i}, key) : j.end = then[key]
  BY DEF Served
<1> DEFINE covered == Covered(Done, key)
<1>2. /\ Covered(Done \cup {i}, key) = IF i.contract = key THEN covered \cup {i} ELSE covered
      /\ \A j \in covered : j.end \in Nat
  <2>1. Covered(Done \cup {i}, key) = IF i.contract = key THEN covered \cup {i} ELSE covered
    BY <1>1 DEF Covered, Invoices, OfKind
  <2> QED BY <1>1, <2>1, DocumentsAssumption DEF Covered, Invoices, OfKind
<1>3. /\ lastService[key] \in Nat
      /\ \A j \in covered : j.end <= lastService[key]
      /\ lastService[key] = 0 \/ \E j \in covered : j.end = lastService[key]
  BY <1>1 DEF Served
<1> HIDE DEF covered
<1>4. CASE i.contract # key
  BY <1>2, <1>3, <1>4
<1>5. CASE i.contract = key
  <2>1. then[key] = Greatest(i.end, lastService[key])
    BY <1>5
  <2>2. then[key] \in Nat /\ i.end <= then[key] /\ lastService[key] <= then[key]
        /\ (then[key] = i.end \/ then[key] = lastService[key])
    BY <1>1, <1>3, <2>1 DEF Greatest
  <2>3. \A j \in covered : j.end <= then[key]
    BY <1>2, <1>3, <2>2
  <2> QED BY <1>2, <1>3, <1>5, <2>2, <2>3
<1> QED BY <1>4, <1>5

\* Done of what is seen: the next document goes from what is left to what is done.
LEMMA OneMoreDone ==
    ASSUME Posting, NEW d \in left, docs' = docs, horizon' = horizon, left' = left \ {d}
    PROVE  seen' = seen /\ Done' = Done \cup {d} /\ d \notin Done
<1>1. seen' = seen
  BY DEF seen
<1>2. Done' = seen' \ left' /\ Done = seen \ left
  BY DEF Done
<1>3. d \in seen
  BY DEF Posting, DoneFirst
<1> QED BY <1>1, <1>2, <1>3

LEMMA InvoiceStays ==
    ASSUME ServiceIsOnCalendar, BooksInv, Posting, NEW i \in left, TakeInvoice(i), ~InvalidInvoice(seen, i)
    PROVE  Posting' /\ status' = status
<1>1. NextInvoice(i)
  BY DEF TakeInvoice, NextInvoice
<1>2. ~(Unserviceable(i) \/ (Drawn(i) # 0 /\ i.fee # 0))
  BY <1>1, InvoiceRefusal
<1>3. i.contract # None => Known(i.contract)
  BY <1>2 DEF Unserviceable
<1>4. /\ docs' = docs /\ horizon' = horizon /\ status' = status /\ left' = left \ {i} /\ cursor' = cursor
      /\ remaining' = [c \in ContractKeys |-> IF c = i.contract THEN remaining[c] - Drawn(i) ELSE remaining[c]]
      /\ lastService' = [c \in ContractKeys |->
            IF c = i.contract THEN Greatest(i.end, lastService[c]) ELSE lastService[c]]
  BY <1>2 DEF TakeInvoice
<1>5. RowsAreColumnar(seen, Done \cup {i}, horizon, journal', earnings')
  <2>1. LET net == Spread(i.net, i.start, i.end)
            fee == Spread(i.fee, i.start, i.end)
            draw == Spread(Drawn(i), i.start, i.end)
        IN  Post(i,
                 [m \in Months |-> IF m < horizon THEN InvoiceMovement(net[m], fee[m], draw[m]) ELSE NoMovement],
                 [m \in Months |-> [NoRevenue EXCEPT !["commit_drawdown"] = draw[m],
                                                     !["usage"] = net[m] - fee[m] - draw[m]]])
    BY <1>2 DEF TakeInvoice
  <2> QED BY <1>1, <2>1, InvoiceRows
<1>6. seen' = seen /\ Done' = Done \cup {i}
  BY <1>4, OneMoreDone
<1>7. i.kind = "invoice" /\ DoneFirst(seen, left, Done) /\ NoErrorsIn(seen, Done)
      /\ CursorIsWindow(seen, Done, horizon, cursor) /\ Identified(seen)
  BY <1>1 DEF Posting, NextInvoice, Invoices, OfKind
<1>8. DoneFirst(seen, left \ {i}, Done \cup {i})
  <2>1. Invoices(left) # {} /\ \A j \in Invoices(left) : j = i \/ InvoiceBefore(i, j)
    BY <1>1 DEF NextInvoice
  <2> QED BY <1>7, <2>1, OrderStays
<1>9. NoErrorsIn(seen, Done \cup {i})
  BY <1>7, ErrorsStay
<1>10. CursorIsWindow(seen, Done \cup {i}, horizon, cursor)
  BY <1>7, CursorStays
<1>11. Unspent(seen, Done \cup {i}, remaining')
  BY <1>1, <1>3, <1>4, InvoiceSpends
<1>12. Served(Done \cup {i}, lastService')
  BY <1>1, <1>4, InvoiceServes
<1> QED BY <1>4, <1>5, <1>6, <1>7, <1>8, <1>9, <1>10, <1>11, <1>12 DEF Posting

(***************************************************************************)
(* Expiries and credits.                                                   *)
(***************************************************************************)
\* Once no invoice is left, those done are those seen.
LEMMA AllCovered ==
    ASSUME Posting, Invoices(left) = {}, NEW key
    PROVE  Covered(Done, key) = {j \in Invoices(seen) : j.contract = key}
<1>1. Invoices(seen) = Invoices(Done)
  BY DEF Posting, DoneFirst, Invoices, OfKind
<1> QED BY <1>1 DEF Covered

LEMMA ExpiryRefusal ==
    ASSUME BooksInv, Posting, Invoices(left) = {}, NEW x \in Expiries(left)
    PROVE  ~Known(x.contract) \/ lastService[x.contract] > x.ts <=> InvalidExpiry(seen, x)
<1>1. CASE ~Known(x.contract)
  BY <1>1, KnownIs DEF InvalidExpiry
<1>2. CASE Known(x.contract)
  <2> DEFINE key == x.contract
             covered == Covered(Done, key)
  <2>1. key \in ContractKeys /\ ContractOf(seen, x) # {}
    BY <1>2, KnownIs
  <2>2. x.ts \in Nat
    BY CalendarAssumption DEF Posting, DoneFirst, Expiries, OfKind, seen, Visible, BooksInv, RunningState
  <2>3. /\ lastService[key] \in Nat
        /\ \A i \in covered : i.end <= lastService[key]
        /\ lastService[key] = 0 \/ \E i \in covered : i.end = lastService[key]
    BY <2>1 DEF Posting, Served
  <2>4. covered = {j \in Invoices(seen) : j.contract = key} /\ \A j \in covered : j.end \in Nat
    <3>1. covered = {j \in Invoices(seen) : j.contract = key}
      BY AllCovered
    <3> QED BY <3>1, SeenIs, DocumentsAssumption DEF Invoices, OfKind
  <2>5. (\E i \in covered : i.end > x.ts) <=> lastService[key] > x.ts
    <3> HIDE DEF covered
    <3> QED BY <2>2, <2>3, <2>4
  <2>6. (\E i \in Invoices(seen) : i.contract = key /\ i.end > x.ts) <=> lastService[key] > x.ts
    BY <2>4, <2>5
  <2> QED BY <1>2, <2>1, <2>6 DEF InvalidExpiry
<1> QED BY <1>1, <1>2

LEMMA ExpirySpends ==
    ASSUME BooksInv, Posting, Invoices(left) = {}, NEW x \in Expiries(left), Known(x.contract)
    PROVE  remaining[x.contract] = ExpiryAmount(seen, x)
<1> DEFINE key == x.contract
<1>1. PICK c \in ContractOf(seen, x) : TRUE
  BY KnownIs
<1>2. key \in ContractKeys /\ c \in Terms(seen, key) /\ Committed(seen, x) = c.commit
  BY <1>1, KnownIs, SeenIs, CommittedIs DEF Posting, Identified
<1>3. \A y \in Expiries(Done) : y.contract # key
  <2>1. x \in Expiries(seen) /\ x \notin Done /\ \A y \in Expiries(Done) : y \in Expiries(seen) /\ y \in Done
    BY DEF Posting, DoneFirst, Expiries, OfKind
  <2>2. \A y, z \in Expiries(seen) : y # z => y["contract"] # z["contract"]
    BY DEF Posting, Identified, Duplicated
  <2> QED BY <2>1, <2>2
<1>4. remaining[key] = c.commit - DrawnBy(seen, Covered(Done, key))
  BY <1>2, <1>3 DEF Posting, Unspent
<1>5. Spent(seen, x) = DrawnBy(seen, Covered(Done, key))
  BY AllCovered DEF Spent, DrawnBy
<1> QED BY <1>2, <1>4, <1>5 DEF ExpiryAmount

LEMMA ExpiryStays ==
    ASSUME BooksInv, Posting, NEW x \in left, TakeExpiry(x), ~InvalidExpiry(seen, x)
    PROVE  Posting' /\ status' = status
<1> DEFINE amount == remaining[x.contract]
           movement == Monthly(MonthOf(x.ts), [NoMovement EXCEPT !["2100"] = amount, !["4020"] = -amount], NoMovement)
           revenue == Monthly(MonthOf(x.ts), [NoRevenue EXCEPT !["commit_drawdown"] = amount], NoRevenue)
<1>1. x \in Expiries(left) /\ Invoices(left) = {} /\ x.kind = "expiry"
  BY DEF TakeExpiry, Expiries, OfKind
<1>2. Known(x.contract) /\ ~(lastService[x.contract] > x.ts)
  BY <1>1, ExpiryRefusal
<1>3. /\ docs' = docs /\ horizon' = horizon /\ status' = status /\ left' = left \ {x} /\ cursor' = cursor
      /\ remaining' = [remaining EXCEPT ![x.contract] = 0] /\ lastService' = lastService
      /\ Post(x, movement, revenue)
  BY <1>2 DEF TakeExpiry
<1>4. seen' = seen /\ Done' = Done \cup {x} /\ x \notin Done
  BY <1>3, OneMoreDone
<1>5. /\ DoneFirst(seen, left, Done) /\ NoErrorsIn(seen, Done) /\ CursorIsWindow(seen, Done, horizon, cursor)
      /\ Identified(seen) /\ Unspent(seen, Done, remaining) /\ Served(Done, lastService)
      /\ RowsAreColumnar(seen, Done, horizon, journal, earnings) /\ seen \in SUBSET Documents
  BY SeenIs DEF Posting
<1>6. RowsAreColumnar(seen, Done \cup {x}, horizon, journal', earnings')
  <2>1. amount = ExpiryAmount(seen, x)
    BY <1>1, <1>2, ExpirySpends
  <2> HIDE DEF amount
  <2>2. \A m \in Months :
          /\ ColumnarMovement(seen, horizon, x, m) = movement[m]
          /\ ColumnarRevenue(seen, horizon, x, m) = IF m < horizon THEN revenue[m] ELSE NoRevenue
    BY <1>1, <2>1, ExpiryColumns
  <2>3. x \in Posters(seen)
    BY <1>1, <1>5 DEF Posters, DoneFirst
  <2> HIDE DEF movement, revenue
  <2> QED BY <1>3, <1>4, <1>5, <2>2, <2>3, PostIsColumnar
<1>7. DoneFirst(seen, left \ {x}, Done \cup {x})
  BY <1>1, <1>5, OrderStays
<1>8. NoErrorsIn(seen, Done \cup {x})
  BY <1>1, <1>5, ErrorsStay
<1>9. CursorIsWindow(seen, Done \cup {x}, horizon, cursor)
  BY <1>1, <1>5, CursorStays
<1>10. Unspent(seen, Done \cup {x}, remaining')
  <2>1. \A key \in ContractKeys : remaining'[key] = remaining[key] \/ (x.kind = "expiry" /\ x.contract = key)
    BY <1>1, <1>3 DEF BooksInv, RunningState
  <2> QED BY <1>1, <1>5, <2>1, UnspentStays
<1>11. Served(Done \cup {x}, lastService')
  BY <1>1, <1>3, <1>5, ServedStays
<1> QED BY <1>3, <1>4, <1>5, <1>6, <1>7, <1>8, <1>9, <1>10, <1>11 DEF Posting

LEMMA CreditStays ==
    ASSUME BooksInv, Posting, NEW c \in left, TakeCredit(c), \E i \in Invoices(seen) : i.invoice = c.invoice
    PROVE  Posting' /\ status' = status
<1> DEFINE movement == Monthly(c.month, [NoMovement EXCEPT !["4090"] = c.amount, !["1100"] = -c.amount], NoMovement)
           revenue == Monthly(c.month, [NoRevenue EXCEPT !["usage"] = -c.amount], NoRevenue)
<1>1. c.kind = "credit"
  BY DEF TakeCredit, Credits, OfKind
<1>3. /\ docs' = docs /\ horizon' = horizon /\ status' = status /\ left' = left \ {c} /\ cursor' = cursor
      /\ remaining' = remaining /\ lastService' = lastService
      /\ Post(c, movement, revenue)
  BY DEF TakeCredit
<1>4. seen' = seen /\ Done' = Done \cup {c} /\ c \notin Done
  BY <1>3, OneMoreDone
<1>5. /\ DoneFirst(seen, left, Done) /\ NoErrorsIn(seen, Done) /\ CursorIsWindow(seen, Done, horizon, cursor)
      /\ Identified(seen) /\ Unspent(seen, Done, remaining) /\ Served(Done, lastService)
      /\ RowsAreColumnar(seen, Done, horizon, journal, earnings) /\ seen \in SUBSET Documents
  BY SeenIs DEF Posting
<1>6. RowsAreColumnar(seen, Done \cup {c}, horizon, journal', earnings')
  <2>2. \A m \in Months :
          /\ ColumnarMovement(seen, horizon, c, m) = movement[m]
          /\ ColumnarRevenue(seen, horizon, c, m) = IF m < horizon THEN revenue[m] ELSE NoRevenue
    BY <1>1, CreditColumns
  <2>3. c \in Posters(seen)
    BY <1>1, <1>5 DEF Posters, DoneFirst
  <2> HIDE DEF movement, revenue
  <2> QED BY <1>3, <1>4, <1>5, <2>2, <2>3, PostIsColumnar
<1>7. DoneFirst(seen, left \ {c}, Done \cup {c})
  BY <1>1, <1>5, OrderStays
<1>8. NoErrorsIn(seen, Done \cup {c})
  BY <1>1, <1>5, ErrorsStay
<1>9. CursorIsWindow(seen, Done \cup {c}, horizon, cursor)
  BY <1>1, <1>5, CursorStays
<1>10. Unspent(seen, Done \cup {c}, remaining')
  <2>1. \A key \in ContractKeys : remaining'[key] = remaining[key] \/ (c.kind = "expiry" /\ c.contract = key)
    BY <1>3
  <2> QED BY <1>1, <1>5, <2>1, UnspentStays
<1>11. Served(Done \cup {c}, lastService')
  BY <1>1, <1>3, <1>5, ServedStays
<1> QED BY <1>3, <1>4, <1>5, <1>6, <1>7, <1>8, <1>9, <1>10, <1>11 DEF Posting

(***************************************************************************)
(* Subscription events.                                                    *)
(***************************************************************************)
NextEvent(e) ==
    /\ left = Subscriptions(left) /\ e \in left
    /\ \A f \in left : \/ e.subscription < f.subscription
                       \/ e.subscription = f.subscription /\ (f = e \/ EventBefore(e, f))

LEMMA EventsSeen ==
    ASSUME BooksInv, Posting, NEW e, NextEvent(e)
    PROVE  /\ e \in Subscriptions(seen) /\ e \in Subscriptions(Documents) /\ e \notin Done
           /\ Subscriptions(seen) \subseteq Subscriptions(Documents)
           /\ \A g \in Subscriptions(seen) : g \in left \/ g \in Subscriptions(Done)
           /\ \A g \in Subscriptions(seen) : g.subscription \in Int
           /\ Siblings(e) = EventsOf(seen, e.subscription)
           /\ \A s : EventsOf(Done, s) \subseteq EventsOf(seen, s)
<1>1. seen \in SUBSET Documents /\ DoneFirst(seen, left, Done) /\ e \in left /\ e.kind = "subscription"
  BY SeenIs DEF Posting, NextEvent, Subscriptions, OfKind
<1>2. e \in Subscriptions(seen) /\ e \notin Done /\ \A g \in Subscriptions(seen) : g \in left \/ g \in Subscriptions(Done)
  BY <1>1 DEF DoneFirst, Subscriptions, OfKind
<1>3. Subscriptions(seen) \subseteq Subscriptions(Documents)
  BY <1>1, SomeDocuments
<1>4. \A g \in Subscriptions(seen) : g.subscription \in Int
  BY <1>3, IdentitiesAssumption DEF Subscriptions, OfKind
<1>5. Siblings(e) = EventsOf(seen, e.subscription)
  BY DEF Siblings, EventsOf
<1>6. \A s : EventsOf(Done, s) \subseteq EventsOf(seen, s)
  BY <1>1 DEF DoneFirst, EventsOf, Subscriptions, OfKind
<1> QED BY <1>2, <1>3, <1>4, <1>5, <1>6

\* Those done are those before it.
LEMMA EventsBefore ==
    ASSUME BooksInv, Posting, NEW e, NextEvent(e)
    PROVE  UpTo(seen, e) \ {e} = EventsOf(Done, e.subscription)
<1> SUFFICES ASSUME NEW g \in EventsOf(seen, e.subscription), g # e
             PROVE  EventBefore(g, e) <=> g \in EventsOf(Done, e.subscription)
  <2>1. e \notin EventsOf(Done, e.subscription) /\ EventsOf(Done, e.subscription) \subseteq EventsOf(seen, e.subscription)
    BY EventsSeen DEF EventsOf, Subscriptions, OfKind
  <2> QED BY <2>1 DEF UpTo
<1>1. /\ g \in Subscriptions(seen) /\ g.subscription = e.subscription /\ g.subscription \in Int /\ e.subscription \in Int
      /\ g \in Subscriptions(Documents) /\ e \in Subscriptions(Documents)
      /\ (g \in left \/ g \in Subscriptions(Done))
  BY EventsSeen DEF EventsOf
<1>2. CASE g \in left
  <2>1. EventBefore(e, g)
    BY <1>1, <1>2 DEF NextEvent
  <2>2. ~EventBefore(g, e)
    BY <1>1, <2>1, EventsAreOrdered
  <2>3. g \notin Done
    BY <1>2 DEF Posting, DoneFirst
  <2> QED BY <2>2, <2>3 DEF EventsOf, Subscriptions, OfKind
<1>3. CASE g \in Subscriptions(Done)
  <2>1. e \in Subscriptions(left)
    BY DEF NextEvent
  <2>2. EventBefore(g, e)
    BY <1>1, <1>3, <2>1 DEF Posting, DoneFirst
  <2> QED BY <1>1, <1>3, <2>2 DEF EventsOf
<1> QED BY <1>1, <1>2, <1>3

LEMMA FirstAndLast ==
    ASSUME BooksInv, Posting, NEW e, NextEvent(e)
    PROVE  /\ IsFirst(e) <=> UpTo(seen, e) \ {e} = {}
           /\ IsLast(e) <=> After(seen, e) = {}
           /\ ~IsLast(e) => Following(e) = Soonest(After(seen, e))
           /\ IsLast(e) => UpTo(seen, e) = EventsOf(seen, e.subscription)
<1> DEFINE F == EventsOf(seen, e.subscription)
<1>1. /\ e \in F /\ F \subseteq Subscriptions(Documents) /\ Siblings(e) = F
      /\ UpTo(seen, e) = {f \in F : f = e \/ EventBefore(f, e)} /\ After(seen, e) = {f \in F : EventBefore(e, f)}
  BY EventsSeen DEF EventsOf, UpTo, After
<1> HIDE DEF F
<1>2. \A f \in F : /\ f = e \/ EventBefore(e, f) \/ EventBefore(f, e)
                   /\ ~(EventBefore(e, f) /\ EventBefore(f, e)) /\ ~EventBefore(e, e)
  BY <1>1, EventsAreOrdered
<1>3. IsFirst(e) <=> UpTo(seen, e) \ {e} = {}
  BY <1>1, <1>2 DEF IsFirst
<1>4. After(seen, e) = {} => IsLast(e) /\ UpTo(seen, e) = F
  BY <1>1, <1>2 DEF IsLast, IsNext
<1>5. ASSUME After(seen, e) # {} PROVE ~IsLast(e) /\ Following(e) = Soonest(After(seen, e))
  <2> DEFINE A == After(seen, e)
             s == Soonest(A)
  <2>1. A \subseteq Subscriptions(Documents) /\ A # {} /\ \A g : g \in A <=> g \in F /\ EventBefore(e, g)
    BY <1>1, <1>5
  <2> HIDE DEF A
  <2>2. s \in A /\ \A g \in A : g = s \/ EventBefore(s, g)
    BY <2>1, SoonestIsFirst
  <2>3. \A f : f \in Siblings(e) /\ IsNext(e, f) <=> f \in A /\ \A g \in A : g = f \/ EventBefore(f, g)
    BY <1>1, <2>1 DEF IsNext
  <2>4. \A f \in A : (\A g \in A : g = f \/ EventBefore(f, g)) => f = s
    BY <2>1, OneEnd
  <2> HIDE DEF s
  <2>5. s \in Siblings(e) /\ IsNext(e, s) /\ \A f \in Siblings(e) : IsNext(e, f) => f = s
    BY <2>2, <2>3, <2>4
  <2>6. Following(e) = s
    BY <2>5 DEF Following
  <2> QED BY <2>5, <2>6 DEF IsLast, s, A
<1> QED BY <1>3, <1>4, <1>5 DEF F

\* One turn of the loop makes of the cursor what the windows say.
LEMMA EventTurns ==
    ASSUME BooksInv, Posting, status = "posting", NEW e \in left, TakeEvent(e), e.monthly
    PROVE  cursor' = WindowOf(seen, horizon, e)
<1> DEFINE start == MonthStart[horizon]
           before == IF IsFirst(e) THEN [NoCursor EXCEPT !.end = start] ELSE cursor
           price == IF e.price = None THEN before.price ELSE e.price
           paid == IF e.end = None THEN before.end ELSE e.end
           next == IF IsLast(e) THEN start ELSE Following(e).ts
           stop == Least(Least(paid, start), next)
           cents == [m \in Months |-> before.cents[m] +
                        (IF m \in Periods(e.ts, stop)
                         THEN price * e.seats * (Least(stop, MonthStart[m + 1]) - Greatest(e.ts, MonthStart[m]))
                         ELSE 0)]
           F == UpTo(seen, e) \ {e}
<1>1. cursor' = [price |-> price, end |-> paid, cents |-> cents]
  BY DEF TakeEvent
<1>2. NextEvent(e)
  BY DEF TakeEvent, NextEvent
<1>3. seen \in SUBSET Documents /\ horizon \in 1 .. Len(MonthStart) /\ start \in Nat /\ e \in Subscriptions(seen)
  <2>1. horizon \in 2 .. Len(MonthStart) /\ seen \in SUBSET Documents
    BY SeenIs DEF BooksInv, RunningState
  <2> QED BY <1>2, <2>1, EventsSeen, MonthsAssumption
<1>4. /\ before.price = LastValue(F, "price", 0)
      /\ before.end = LastValue(F, "end", start)
      /\ \A m \in Months : before.cents[m] = CentsOf(seen, horizon, F, m)
  <2>1. CASE IsFirst(e)
    <3>1. F = {}
      BY <1>2, <2>1, FirstAndLast
    <3>2. before.price = 0 /\ before.end = start /\ \A m \in Months : before.cents[m] = 0
      BY <2>1 DEF NoCursor
    <3>3. {} \subseteq Subscriptions(Documents)
      OBVIOUS
    <3>4. LastValue({}, "price", 0) = 0 /\ LastValue({}, "end", start) = start
      BY <3>3, LastValueIs
    <3> HIDE DEF F, before
    <3> QED BY <3>1, <3>2, <3>4, NoCents
  <2>2. CASE ~IsFirst(e)
    <3>1. F # {}
      BY <1>2, <2>2, FirstAndLast
    <3>2. PICK p \in F : UpTo(seen, p) = F /\ e \in After(seen, p)
      BY <1>3, <3>1, WindowBefore
    <3>3. F = EventsOf(Done, e.subscription)
      BY <1>2, EventsBefore
    <3>4. p \in Subscriptions(Done) /\ p.subscription = e.subscription
      BY <3>2, <3>3 DEF EventsOf
    <3> HIDE DEF F
    <3>5. cursor = WindowOf(seen, horizon, p)
      BY <3>2, <3>3, <3>4 DEF Posting, CursorIsWindow
    <3>6. before = cursor
      BY <2>2
    <3> HIDE DEF before
    <3> QED BY <3>2, <3>5, <3>6 DEF WindowOf
  <2> QED BY <2>1, <2>2
<1> HIDE DEF before
<1>5. WindowOf(seen, horizon, e) =
        [price |-> price, end |-> paid, cents |-> [m \in Months |-> before.cents[m] + SeatDayCents(seen, horizon, e, m)]]
  BY <1>3, <1>4, WindowGrows
<1>6. price = LastValue(UpTo(seen, e), "price", 0) /\ paid = LastValue(UpTo(seen, e), "end", start)
  <2> HIDE DEF price, paid
  <2> QED BY <1>5 DEF WindowOf
<1>7. stop = StopDay(seen, horizon, e)
  <2>1. paid \in Nat
    <3>1. UpTo(seen, e) \subseteq Subscriptions(Documents)
      BY <1>3, SomeDocuments
    <3> HIDE DEF paid
    <3> QED BY <1>3, <1>6, <3>1, LastValueIs
  <2>2. next = IF After(seen, e) = {} THEN start ELSE Soonest(After(seen, e)).ts
    BY <1>2, FirstAndLast
  <2>3. next \in Nat
    <3>1. After(seen, e) # {} => Soonest(After(seen, e)) \in Subscriptions(Documents)
      <4>1. After(seen, e) \subseteq Subscriptions(Documents)
        BY <1>3, SomeDocuments
      <4> QED BY <4>1, SoonestIsFirst
    <3>2. After(seen, e) # {} => Soonest(After(seen, e)).ts \in Nat
      BY <3>1, DocumentsAssumption DEF Subscriptions, OfKind
    <3> HIDE DEF next
    <3> QED BY <1>3, <2>2, <3>2
  <2>4. StopDay(seen, horizon, e) = Least(Least(next, paid), start)
    <3> HIDE DEF next, paid
    <3> QED BY <1>6, <2>2 DEF StopDay
  <2> HIDE DEF next, paid, start
  <2> QED BY <1>3, <2>1, <2>3, <2>4 DEF Least
<1>8. cents = [m \in Months |-> before.cents[m] + SeatDayCents(seen, horizon, e, m)]
  <2>1. e.ts \in Nat /\ stop \in Nat
    BY <1>3, <1>7, StopDayIs, DocumentsAssumption DEF Subscriptions, OfKind
  <2> HIDE DEF stop, price
  <2>2. ASSUME NEW m \in Months
        PROVE  (IF m \in Periods(e.ts, stop)
                THEN price * e.seats * (Least(stop, MonthStart[m + 1]) - Greatest(e.ts, MonthStart[m]))
                ELSE 0) = SeatDayCents(seen, horizon, e, m)
    <3>1. m \in Periods(e.ts, stop) <=> e.ts < MonthStart[m + 1] /\ stop > MonthStart[m]
      BY <2>1, MonthFacts DEF Periods
    <3> QED BY <1>6, <1>7, <3>1 DEF SeatDayCents
  <2> QED BY <2>2
<1> HIDE DEF price, paid, cents
<1> QED BY <1>1, <1>5, <1>8

LEMMA CursorMoves ==
    ASSUME BooksInv, Posting, NEW e, NextEvent(e), NEW held, held = WindowOf(seen, horizon, e)
    PROVE  CursorIsWindow(seen, Done \cup {e}, horizon, held)
<1> SUFFICES ASSUME NEW f \in Subscriptions(Done \cup {e}), UpTo(seen, f) = EventsOf(Done \cup {e}, f.subscription),
                    After(seen, f) # {}, f # e
             PROVE  FALSE
  BY DEF CursorIsWindow
<1>1. /\ f \in Subscriptions(Done) /\ f \in Subscriptions(seen) /\ f \in Subscriptions(Documents)
      /\ e \in Subscriptions(seen) /\ e \in Subscriptions(Documents) /\ e \in Subscriptions(left)
      /\ e.subscription \in Int /\ f.subscription \in Int
  <2>1. f \in Subscriptions(Done) /\ e \in Subscriptions(left)
    BY DEF Subscriptions, OfKind, NextEvent
  <2>2. Subscriptions(Done) \subseteq Subscriptions(seen)
    BY DEF Posting, DoneFirst, Subscriptions, OfKind
  <2> QED BY <2>1, <2>2, EventsSeen
<1>2. f.subscription < e.subscription \/ (f.subscription = e.subscription /\ EventBefore(f, e))
  BY <1>1 DEF Posting, DoneFirst
<1>3. CASE f.subscription = e.subscription /\ EventBefore(f, e)
  <2>1. e \in EventsOf(Done \cup {e}, f.subscription)
    BY <1>1, <1>3 DEF EventsOf, Subscriptions, OfKind
  <2>2. EventBefore(e, f)
    BY <2>1 DEF UpTo
  <2> QED BY <1>1, <1>3, <2>2, EventsAreOrdered
<1>4. CASE f.subscription < e.subscription
  <2>1. PICK g \in After(seen, f) : TRUE
    OBVIOUS
  <2>2. g \in Subscriptions(seen) /\ g.subscription = f.subscription /\ EventBefore(f, g) /\ g \in Subscriptions(Documents)
    BY <2>1, EventsSeen DEF After, EventsOf
  <2>3. g \notin UpTo(seen, f)
    BY <1>1, <2>2, EventsAreOrdered DEF UpTo
  <2>4. g \notin Subscriptions(Done)
    BY <2>2, <2>3 DEF EventsOf, Subscriptions, OfKind
  <2>5. g \in left
    BY <2>2, <2>4, EventsSeen
  <2>6. e.subscription < g.subscription \/ e.subscription = g.subscription
    BY <2>5 DEF NextEvent
  <2> QED BY <1>1, <1>4, <2>2, <2>6
<1> QED BY <1>2, <1>3, <1>4

LEMMA EventRows ==
    ASSUME ServiceIsOnCalendar, BooksInv, Posting, status = "posting", NEW e \in left, TakeEvent(e), e.monthly
    PROVE  RowsAreColumnar(seen, Done \cup {e}, horizon, journal', earnings')
<1> DEFINE cents == cursor'.cents
           amount == [m \in Months |-> HalfUp(cents[m], Days(m))]
           movement == [m \in Months |-> [NoMovement EXCEPT !["1100"] = amount[m], !["4010"] = -amount[m]]]
           revenue == [m \in Months |-> [NoRevenue EXCEPT !["subscription"] = amount[m]]]
<1>1. NextEvent(e)
  BY DEF TakeEvent, NextEvent
<1>2. seen \in SUBSET Documents /\ horizon \in 2 .. Len(MonthStart) /\ e \in Subscriptions(seen) /\ e \notin Done
      /\ RowsAreColumnar(seen, Done, horizon, journal, earnings)
  BY <1>1, SeenIs, EventsSeen DEF BooksInv, RunningState, Posting
<1>3. IF IsLast(e) THEN Post(e, movement, revenue) ELSE UNCHANGED <<journal, earnings>>
  <2> DEFINE before == IF IsFirst(e) THEN [NoCursor EXCEPT !.end = MonthStart[horizon]] ELSE cursor
             price == IF e.price = None THEN before.price ELSE e.price
             paid == IF e.end = None THEN before.end ELSE e.end
             next == IF IsLast(e) THEN MonthStart[horizon] ELSE Following(e).ts
             stop == Least(Least(paid, MonthStart[horizon]), next)
             turned == [m \in Months |-> before.cents[m] +
                          (IF m \in Periods(e.ts, stop)
                           THEN price * e.seats * (Least(stop, MonthStart[m + 1]) - Greatest(e.ts, MonthStart[m]))
                           ELSE 0)]
             turn == [m \in Months |-> HalfUp(turned[m], Days(m))]
  <2>1. /\ cursor' = [price |-> price, end |-> paid, cents |-> turned]
        /\ IF IsLast(e)
           THEN Post(e, [m \in Months |-> [NoMovement EXCEPT !["1100"] = turn[m], !["4010"] = -turn[m]]],
                        [m \in Months |-> [NoRevenue EXCEPT !["subscription"] = turn[m]]])
           ELSE UNCHANGED <<journal, earnings>>
    BY DEF TakeEvent
  <2> HIDE DEF price, paid, turned
  <2>2. cents = turned
    BY <2>1
  <2>3. amount = turn
    BY <2>2
  <2> HIDE DEF cents, amount, turn
  <2> QED BY <2>1, <2>3
<1>4. CASE IsLast(e)
  <2>1. After(seen, e) = {} /\ UpTo(seen, e) = EventsOf(seen, e.subscription)
    BY <1>1, <1>4, FirstAndLast
  <2>2. \A m \in Months : cents[m] = CentsOf(seen, horizon, EventsOf(seen, e.subscription), m)
    BY <2>1, EventTurns DEF WindowOf
  <2>3. e \in Posters(seen)
    BY <1>2, <2>1 DEF Posters, Subscriptions, OfKind
  <2> HIDE DEF cents
  <2>4. ASSUME NEW m \in Months
        PROVE  /\ ColumnarMovement(seen, horizon, e, m) = movement[m]
               /\ ColumnarRevenue(seen, horizon, e, m) = IF m < horizon THEN revenue[m] ELSE NoRevenue
    <3>1. amount[m] = HalfUp(CentsOf(seen, horizon, EventsOf(seen, e.subscription), m), Days(m))
      BY <2>2
    <3> HIDE DEF amount
    <3> QED BY <1>2, <3>1, SubscriptionColumns
  <2>5. Post(e, movement, revenue)
    BY <1>3, <1>4
  <2> HIDE DEF movement, revenue
  <2> QED BY <1>2, <2>3, <2>4, <2>5, PostIsColumnar
<1>5. CASE ~IsLast(e)
  <2>1. e \notin Posters(seen)
    <3>1. After(seen, e) # {}
      BY <1>1, <1>5, FirstAndLast
    <3> QED BY <1>2, <3>1 DEF Posters, Subscriptions, OfKind
  <2>2. journal' = journal /\ earnings' = earnings
    BY <1>3, <1>5
  <2> QED BY <1>2, <2>1, <2>2 DEF RowsAreColumnar
<1> QED BY <1>4, <1>5

LEMMA EventStays ==
    ASSUME ServiceIsOnCalendar, BooksInv, Posting, status = "posting", NEW e \in left, TakeEvent(e), e.monthly
    PROVE  Posting' /\ status' = status
<1>1. NextEvent(e)
  BY DEF TakeEvent, NextEvent
<1>2. e.kind = "subscription"
  BY <1>1, EventsSeen DEF Subscriptions, OfKind
<1>3. /\ docs' = docs /\ horizon' = horizon /\ status' = status /\ left' = left \ {e}
      /\ remaining' = remaining /\ lastService' = lastService
  BY DEF TakeEvent
<1>4. seen' = seen /\ Done' = Done \cup {e} /\ e \notin Done
  BY <1>3, OneMoreDone
<1>5. /\ DoneFirst(seen, left, Done) /\ NoErrorsIn(seen, Done)
      /\ Identified(seen) /\ Unspent(seen, Done, remaining) /\ Served(Done, lastService)
  BY DEF Posting
<1>6. RowsAreColumnar(seen, Done \cup {e}, horizon, journal', earnings')
  BY EventRows
<1>7. DoneFirst(seen, left \ {e}, Done \cup {e})
  <2>1. \A f \in Subscriptions(left) :
            e.subscription < f.subscription \/ (e.subscription = f.subscription /\ (f = e \/ EventBefore(e, f)))
    BY <1>1 DEF NextEvent
  <2> QED BY <1>2, <1>5, <2>1, OrderStays
<1>8. NoErrorsIn(seen, Done \cup {e})
  BY <1>2, <1>5, ErrorsStay
<1>9. CursorIsWindow(seen, Done \cup {e}, horizon, cursor')
  <2>1. cursor' = WindowOf(seen, horizon, e)
    BY EventTurns
  <2> QED BY <1>1, <2>1, CursorMoves
<1>10. Unspent(seen, Done \cup {e}, remaining')
  <2>1. \A key \in ContractKeys : remaining'[key] = remaining[key] \/ (e.kind = "expiry" /\ e.contract = key)
    BY <1>3
  <2> QED BY <1>2, <1>5, <2>1, UnspentStays
<1>11. Served(Done \cup {e}, lastService')
  BY <1>2, <1>3, <1>5, ServedStays
<1> QED BY <1>3, <1>4, <1>5, <1>6, <1>7, <1>8, <1>9, <1>10, <1>11 DEF Posting

(***************************************************************************)
(* The beginning and the end of a report.                                  *)
(***************************************************************************)
LEMMA RepeatedIsDuplicated ==
    ASSUME NEW S, IsFiniteSet(S), NEW field
    PROVE  Repeated(S, field) <=> Duplicated(S, field)
<1> DEFINE T == {d[field] : d \in S}
           f == [d \in S |-> d[field]]
<1>1. f \in Surjection(S, T)
  BY DEF Surjection
<1>2. f \in Injection(S, T) <=> ~Duplicated(S, field)
  BY DEF Injection, IsInjective, Duplicated
<1> HIDE DEF f, T
<1>3. Cardinality(T) <= Cardinality(S) /\ IsFiniteSet(T) /\ (Cardinality(T) = Cardinality(S) <=> f \in Injection(S, T))
  BY <1>1, FS_Surjection
<1>4. Cardinality(T) \in Nat /\ Cardinality(S) \in Nat
  BY <1>3, FS_CardinalityType
<1> QED BY <1>2, <1>3, <1>4 DEF Repeated, T

LEMMA OpenStarts ==
    ASSUME BooksInv, NEW h \in 2 .. Len(MonthStart), Open(h)
    PROVE  \/ status' = "refused" /\ ColumnarErrors(seen', horizon')
           \/ status' = "posting" /\ Posting'
<1> DEFINE visible == Visible(docs, h)
           signed(line) == {c \in Contracts(visible) : c.id = line[1] /\ MonthOf(c.ts) = line[2]}
<1>0. docs' = docs /\ horizon' = h /\ seen' = visible
  BY DEF Open, seen
<1>1. visible \in SUBSET Documents
  BY DEF Visible, BooksInv, RunningState
<1>2. \A kind : IsFiniteSet(OfKind(visible, kind))
  <2>1. \A kind : OfKind(visible, kind) \in SUBSET Documents
    BY <1>1 DEF OfKind
  <2> QED BY <2>1, IdentitiesAssumption, FS_Subset
<1>3. \/ Repeated(Invoices(visible), "invoice") \/ Repeated(Contracts(visible), "contract")
      \/ Repeated(Credits(visible), "credit") \/ Repeated(Expiries(visible), "contract")
      <=> ~Identified(visible)
  <2> HIDE DEF visible
  <2>1. /\ IsFiniteSet(Invoices(visible)) /\ IsFiniteSet(Contracts(visible))
        /\ IsFiniteSet(Credits(visible)) /\ IsFiniteSet(Expiries(visible))
    BY <1>2 DEF Invoices, Contracts, Credits, Expiries
  <2>2. /\ \A field : Repeated(Invoices(visible), field) <=> Duplicated(Invoices(visible), field)
        /\ \A field : Repeated(Contracts(visible), field) <=> Duplicated(Contracts(visible), field)
        /\ \A field : Repeated(Credits(visible), field) <=> Duplicated(Credits(visible), field)
        /\ \A field : Repeated(Expiries(visible), field) <=> Duplicated(Expiries(visible), field)
    BY <2>1, RepeatedIsDuplicated
  <2> QED BY <2>2 DEF Identified
<1>4. CASE ~Identified(visible)
  <2>1. status' = "refused"
    BY <1>3, <1>4 DEF Open
  <2>2. AccountingErrors(visible)
    BY <1>4 DEF Identified, AccountingErrors
  <2> QED BY <1>0, <2>1, <2>2 DEF ColumnarErrors, CoreErrors
<1>5. CASE Identified(visible)
  <2>1. /\ status' = "posting" /\ left' = visible \ (Contracts(visible) \cup Tokens(visible))
        /\ remaining' = [key \in ContractKeys |->
              IF Terms(visible, key) = {} THEN 0 ELSE (CHOOSE c \in Terms(visible, key) : TRUE).commit]
        /\ journal' = [line \in Lines |->
              IF signed(line) = {} THEN NoMovement
              ELSE LET commit == (CHOOSE c \in signed(line) : TRUE).commit
                   IN  [NoMovement EXCEPT !["1100"] = commit, !["2100"] = -commit]]
        /\ earnings' = BlankEarnings /\ lastService' = NoContracts /\ cursor' = NoCursor
    BY <1>3, <1>5 DEF Open, Terms
  <2> HIDE DEF visible
  <2> DEFINE done == Contracts(visible) \cup Tokens(visible)
  <2>2. Done' = done
    <3>1. Done' = seen' \ left'
      BY DEF Done
    <3> QED BY <1>0, <2>1, <3>1 DEF Contracts, Tokens, OfKind
  <2>3. /\ Invoices(done) = {} /\ Expiries(done) = {} /\ Credits(done) = {} /\ Subscriptions(done) = {}
        /\ \A c \in done : c \in visible /\ c \in Documents /\ c.kind \in {"contract", "tokens"}
        /\ \A c \in Contracts(visible) : c \in done /\ c.kind = "contract" /\ c.commit \in Nat
        /\ \A c \in done : c.kind = "contract" => c \in Contracts(visible)
    BY <1>1, DocumentsAssumption DEF Invoices, Expiries, Credits, Subscriptions, Contracts, Tokens, OfKind
  <2>4. DoneFirst(visible, visible \ done, done)
    <3>1. visible = (visible \ done) \cup done /\ (visible \ done) \cap done = {}
      BY <2>3
    <3>2. Contracts(visible \ done) = {}
      BY DEF Contracts, OfKind
    <3> QED BY <2>3, <3>1, <3>2 DEF DoneFirst
  <2>5. NoErrorsIn(visible, done)
    BY <2>3 DEF NoErrorsIn
  <2>6. \A key : Covered(done, key) = {}
    BY <2>3 DEF Covered
  <2>7. Unspent(visible, done, remaining')
    <3> SUFFICES ASSUME NEW key \in ContractKeys, NEW c \in Terms(visible, key)
                 PROVE  remaining'[key] = c.commit - 0 /\ remaining'[key] = Greatest(c.commit - 0, 0)
      BY <2>6, NothingDrawn DEF Unspent
    <3>1. c.commit \in Nat
      BY <2>3 DEF Terms
    <3>2. \A b \in Terms(visible, key) : b = c
      BY <1>5 DEF Identified, Duplicated, Terms
    <3>3. (CHOOSE b \in Terms(visible, key) : TRUE) = c
      BY <3>2
    <3>4. remaining'[key] = c.commit
      BY <2>1, <3>3
    <3> QED BY <3>1, <3>4 DEF Greatest
  <2>8. Served(done, lastService')
    BY <2>1, <2>6 DEF Served, NoContracts
  <2>9. RowsAreColumnar(visible, done, h, journal', earnings')
    <3> SUFFICES ASSUME NEW line \in Lines
                 PROVE  /\ \A p \in Posters(visible) : p \in done /\ Poster(p) = line[1] =>
                              /\ journal'[line] = ColumnarMovement(visible, h, p, line[2])
                              /\ earnings'[line] = ColumnarRevenue(visible, h, p, line[2])
                        /\ (\A p \in Posters(visible) : p \in done => Poster(p) # line[1]) =>
                              journal'[line] = NoMovement /\ earnings'[line] = NoRevenue
      BY DEF RowsAreColumnar
    <3>1. earnings'[line] = NoRevenue
      BY <2>1 DEF BlankEarnings
    <3>2. \A c \in done : c \in Posters(visible) /\ Poster(c) = c.id
      BY <2>3 DEF Posters, Poster
    <3>3. ASSUME NEW p \in Posters(visible), p \in done, p.kind = "contract", Poster(p) = line[1]
          PROVE  journal'[line] = ColumnarMovement(visible, h, p, line[2])
      <4>1. \A c \in signed(line) : c = p
        BY <2>3, <3>2, <3>3, IdentitiesAssumption
      <4>2. p \in signed(line) <=> line[2] = MonthOf(p.ts)
        BY <2>3, <3>2, <3>3
      <4>3. ColumnarMovement(visible, h, p, line[2]) =
              IF line[2] = MonthOf(p.ts) THEN [NoMovement EXCEPT !["1100"] = p.commit, !["2100"] = -p.commit]
              ELSE NoMovement
        BY <2>3, <3>3, ContractColumns
      <4>4. CASE line[2] = MonthOf(p.ts)
        <5>1. signed(line) # {} /\ (CHOOSE c \in signed(line) : TRUE) = p
          BY <4>1, <4>2, <4>4
        <5>2. journal'[line] = [NoMovement EXCEPT !["1100"] = p.commit, !["2100"] = -p.commit]
          BY <2>1, <5>1
        <5> QED BY <4>3, <4>4, <5>2
      <4>5. CASE line[2] # MonthOf(p.ts)
        <5>1. signed(line) = {}
          BY <4>1, <4>2, <4>5
        <5>2. journal'[line] = NoMovement
          BY <2>1, <5>1
        <5> QED BY <4>3, <4>5, <5>2
      <4> QED BY <4>4, <4>5
    <3>4. ASSUME \A p \in Posters(visible) : p \in done => Poster(p) # line[1] PROVE journal'[line] = NoMovement
      <4>1. signed(line) = {}
        BY <2>3, <3>2, <3>4
      <4> QED BY <2>1, <4>1
    <3>5. ASSUME NEW p \in done PROVE ColumnarRevenue(visible, h, p, line[2]) = NoRevenue
      <4>1. CASE p.kind = "contract"
        BY <4>1, ContractColumns
      <4>2. CASE p.kind = "tokens"
        BY <4>2 DEF ColumnarRevenue
      <4> QED BY <2>3, <4>1, <4>2
    <3>6. ASSUME NEW p \in Posters(visible), p \in done, p.kind = "tokens", Poster(p) = line[1]
          PROVE  journal'[line] = ColumnarMovement(visible, h, p, line[2])
      <4>1. Poster(p) = p.id
        BY <3>6 DEF Poster
      <4>2. signed(line) = {}
        BY <1>1, <2>3, <3>6, <4>1, IdentitiesAssumption
      <4>3. journal'[line] = NoMovement
        BY <2>1, <4>2
      <4> QED BY <3>6, <4>3 DEF ColumnarMovement
    <3> QED BY <2>3, <3>1, <3>3, <3>4, <3>5, <3>6
  <2>10. CursorIsWindow(visible, done, h, cursor')
    BY <2>3 DEF CursorIsWindow
  <2>11. left' = visible \ done
    BY <2>1
  <2> HIDE DEF done
  <2> QED BY <1>0, <1>5, <2>1, <2>2, <2>4, <2>5, <2>7, <2>8, <2>9, <2>10, <2>11 DEF Posting
<1> QED BY <1>4, <1>5

LEMMA LinesAreFinite == IsFiniteSet(Lines)
<1> DEFINE P == {Poster(d) : d \in Documents}
           g == [d \in Documents |-> Poster(d)]
<1>1. g \in Surjection(Documents, P)
  BY DEF Surjection
<1>2. Lines \subseteq P \X Months
  BY DEF Lines
<1>3. IsFiniteSet(Months)
  BY MonthsAssumption, FS_Interval DEF Months
<1> HIDE DEF g, P
<1>4. IsFiniteSet(P)
  BY <1>1, FS_Surjection, IdentitiesAssumption
<1>5. IsFiniteSet(P \X Months)
  BY <1>3, <1>4, FS_Product
<1> QED BY <1>2, <1>5, FS_Subset

\* Once nothing is left, the books are the views', and both or neither tie out.
LEMMA CheckAgrees ==
    ASSUME BooksInv, Posting, left = {}
    PROVE  /\ ~AccountingErrors(seen)
           /\ journal = ColumnarJournal(seen, horizon) /\ earnings = ColumnarEarnings(seen, horizon)
           /\ TiesOut <=> ~JournalErrors(seen, horizon)
<1>1. Done = seen
  BY DEF Done
<1>2. ~AccountingErrors(seen)
  BY <1>1 DEF Posting, Identified, NoErrorsIn, AccountingErrors
<1>3. ASSUME NEW line \in Lines
      PROVE  /\ journal[line] = ColumnarJournal(seen, horizon)[line]
             /\ earnings[line] = ColumnarEarnings(seen, horizon)[line]
  <2> DEFINE d == {p \in Posters(seen) : Poster(p) = line[1]}
  <2>0. /\ \A p \in d : /\ journal[line] = ColumnarMovement(seen, horizon, p, line[2])
                        /\ earnings[line] = ColumnarRevenue(seen, horizon, p, line[2])
        /\ d = {} => journal[line] = NoMovement /\ earnings[line] = NoRevenue
    BY <1>1 DEF Posting, RowsAreColumnar, Posters
  <2>1. /\ ColumnarJournal(seen, horizon)[line] =
              IF d = {} THEN NoMovement ELSE ColumnarMovement(seen, horizon, CHOOSE p \in d : TRUE, line[2])
        /\ ColumnarEarnings(seen, horizon)[line] =
              IF d = {} THEN NoRevenue ELSE ColumnarRevenue(seen, horizon, CHOOSE p \in d : TRUE, line[2])
    BY DEF ColumnarJournal, ColumnarEarnings
  <2>2. d # {} => (CHOOSE p \in d : TRUE) \in d
    OBVIOUS
  <2> HIDE DEF d
  <2> QED BY <2>0, <2>1, <2>2
<1>4. journal = ColumnarJournal(seen, horizon) /\ earnings = ColumnarEarnings(seen, horizon)
  <2>1. journal = [line \in Lines |-> journal[line]] /\ earnings = [line \in Lines |-> earnings[line]]
    BY DEF BooksInv, BookTypes
  <2>2. /\ ColumnarJournal(seen, horizon) = [line \in Lines |-> ColumnarJournal(seen, horizon)[line]]
        /\ ColumnarEarnings(seen, horizon) = [line \in Lines |-> ColumnarEarnings(seen, horizon)[line]]
    BY DEF ColumnarJournal, ColumnarEarnings
  <2>3. [line \in Lines |-> journal[line]] = [line \in Lines |-> ColumnarJournal(seen, horizon)[line]]
    BY <1>3
  <2>4. [line \in Lines |-> earnings[line]] = [line \in Lines |-> ColumnarEarnings(seen, horizon)[line]]
    BY <1>3
  <2> QED BY <2>1, <2>2, <2>3, <2>4
<1>5. \A line \in Lines : Balance(journal[line]) = 0
  BY DEF BooksInv, DocumentsBalance
<1>6. \A m \in Months : SumFunction([l \in {line \in Lines : line[2] = m} |-> Balance(journal[l])]) = 0
  <2> SUFFICES ASSUME NEW m \in Months
               PROVE  SumFunction([l \in {line \in Lines : line[2] = m} |-> Balance(journal[l])]) = 0
    OBVIOUS
  <2> DEFINE f == [l \in {line \in Lines : line[2] = m} |-> Balance(journal[l])]
  <2>1. \A l \in DOMAIN f : f[l] = 0
    BY <1>5
  <2>2. IsFiniteSet(DOMAIN f)
    <3>1. DOMAIN f \subseteq Lines
      OBVIOUS
    <3> HIDE DEF f
    <3> QED BY <3>1, LinesAreFinite, FS_Subset
  <2> HIDE DEF f
  <2>3. SumFunction(f) = 0
    BY <2>1, <2>2, SumOfZeros
  <2> QED BY <2>3 DEF f
<1>7. TiesOut <=> ~JournalErrors(seen, horizon)
  BY <1>4, <1>5, <1>6 DEF TiesOut, JournalErrors
<1> QED BY <1>2, <1>4, <1>7

\* What an invoice earns in a month does not depend on what it draws.
LEMMA InvoiceEarns ==
    ASSUME NEW S \in SUBSET Documents, NEW h, NEW d \in Invoices(S), d.start < d.end, NEW m \in Months
    PROVE  Earned(ColumnarRevenue(S, h, d, m)) =
             IF m \in Calendar(h) /\ Serves(d, m) THEN Share(d.net, d, m) - Share(d.fee, d, m) ELSE 0
<1> DEFINE here == m \in Calendar(h) /\ Serves(d, m)
           net == Share(d.net, d, m)
           fee == Share(d.fee, d, m)
           draw == Share(Draw(S, d), d, m)
<1>1. d.kind = "invoice" /\ d.net \in Nat /\ d.fee \in Nat /\ d.start \in Nat /\ d.end \in Nat /\ Draw(S, d) \in Nat
  BY DocumentsAssumption, DrawIs DEF Invoices, OfKind
<1>2. ColumnarRevenue(S, h, d, m) =
        IF here THEN [NoRevenue EXCEPT !["commit_drawdown"] = draw, !["usage"] = net - fee - draw] ELSE NoRevenue
  <2>1. CASE here
    BY <1>1, <2>1 DEF ColumnarRevenue
  <2>2. CASE ~here
    BY <1>1, <2>2 DEF ColumnarRevenue
  <2> QED BY <2>1, <2>2
<1>3. ASSUME here, NEW amount \in Nat PROVE Share(amount, d, m) \in Int
  <2>1. Spread(amount, d.start, d.end)[m] = Share(amount, d, m)
    BY <1>1, <1>3, SpreadIsShare
  <2>2. Spread(amount, d.start, d.end)[m] \in Int
    BY <1>1, SpreadType
  <2> QED BY <2>1, <2>2
<1>4. here => net \in Int /\ fee \in Int /\ draw \in Int
  BY <1>1, <1>3
<1> HIDE DEF net, fee, draw
<1>5. CASE here
  <2> DEFINE r == [NoRevenue EXCEPT !["commit_drawdown"] = draw, !["usage"] = net - fee - draw]
  <2>1. r["commit_drawdown"] = draw /\ r["usage"] = net - fee - draw /\ r["subscription"] = 0
    BY DEF NoRevenue, Sources
  <2> HIDE DEF r
  <2>2. ColumnarRevenue(S, h, d, m) = r
    BY <1>2, <1>5 DEF r
  <2>3. Earned(r) = net - fee
    BY <1>4, <1>5, <2>1 DEF Earned
  <2> QED BY <1>5, <2>2, <2>3 DEF net, fee
<1>6. CASE ~here
  <2>1. ColumnarRevenue(S, h, d, m) = NoRevenue
    BY <1>2, <1>6
  <2> QED BY <1>6, <2>1 DEF Earned, NoRevenue, Sources
<1> QED BY <1>5, <1>6

\* When the tokens do not share what the invoices have earned, two invoices bill one
\* batch or the views find a month that an invoice serves without tokens.
LEMMA TokensAgree ==
    ASSUME BooksInv, ~AccountingErrors(seen), earnings = ColumnarEarnings(seen, horizon), ~TokensTieOut
    PROVE  Duplicated(Invoices(seen), "batch") \/ TokenErrors(seen, horizon)
<1> SUFFICES ASSUME ~Duplicated(Invoices(seen), "batch"), ~TokenErrors(seen, horizon) PROVE FALSE
  OBVIOUS
<1>1. \A i, j \in Invoices(seen) : i.batch = j.batch => i = j
  BY DEF Duplicated
<1>2. ASSUME NEW line \in Lines PROVE Unallocated(line) = 0
  <2> DEFINE here(i) == i.id = line[1] /\ ~Metered(seen, i, line[2])
  <2>1. CASE ~\E i \in Invoices(seen) : here(i)
    BY <2>1 DEF Unallocated
  <2>2. CASE \E i \in Invoices(seen) : here(i)
    <3>1. PICK i \in Invoices(seen) : here(i)
      BY <2>2
    <3>2. /\ line[2] \in Months /\ i \in seen /\ i \in Documents /\ i.kind = "invoice"
          /\ Poster(i) = i.id /\ i \in Posters(seen)
      BY SeenIs DEF Lines, Invoices, OfKind, Poster, Posters
    <3>3. \A p \in Posters(seen) : Poster(p) = line[1] => p = i
      BY <3>1, <3>2, SeenIs, OnePoster
    <3>4. earnings[line] = ColumnarRevenue(seen, horizon, i, line[2])
      <4> DEFINE d == {p \in Posters(seen) : Poster(p) = line[1]}
      <4>1. d = {i}
        BY <3>1, <3>2, <3>3
      <4>2. ColumnarEarnings(seen, horizon)[line] =
              IF d = {} THEN NoRevenue ELSE ColumnarRevenue(seen, horizon, CHOOSE p \in d : TRUE, line[2])
        BY DEF ColumnarEarnings
      <4>3. d # {} /\ (CHOOSE p \in d : TRUE) = i
        BY <4>1
      <4> HIDE DEF d
      <4> QED BY <4>2, <4>3
    <3>5. i.start < i.end
      <4>1. ~(i.end <= i.start)
        BY DEF AccountingErrors, InvalidInvoice
      <4> QED BY <3>2, <4>1, DocumentsAssumption
    <3>6. Earned(ColumnarRevenue(seen, horizon, i, line[2])) =
            IF line[2] \in Calendar(horizon) /\ Serves(i, line[2])
            THEN Share(i.net, i, line[2]) - Share(i.fee, i, line[2]) ELSE 0
      BY <3>2, <3>5, SeenIs, InvoiceEarns
    <3>7. CASE line[2] \in Calendar(horizon) /\ Serves(i, line[2])
      <4>1. Share(i.fee, i, line[2]) = 0 /\ Share(i.net, i, line[2]) = Share(i.fee, i, line[2])
        BY <3>1, <3>7 DEF TokenErrors
      <4> QED BY <3>4, <3>6, <3>7, <4>1 DEF Unallocated
    <3>8. CASE ~(line[2] \in Calendar(horizon) /\ Serves(i, line[2]))
      BY <3>4, <3>6, <3>8 DEF Unallocated
    <3> QED BY <3>7, <3>8
  <2> QED BY <2>1, <2>2
<1>3. ASSUME NEW m \in Months PROVE SumFunction([l \in {k \in Lines : k[2] = m} |-> Unallocated(l)]) = 0
  <2> DEFINE f == [l \in {k \in Lines : k[2] = m} |-> Unallocated(l)]
  <2>1. \A l \in DOMAIN f : f[l] = 0
    BY <1>2
  <2>2. DOMAIN f \subseteq Lines
    OBVIOUS
  <2> HIDE DEF f
  <2>3. SumFunction(f) = 0
    BY <2>1, <2>2, LinesAreFinite, FS_Subset, SumOfZeros
  <2> QED BY <2>3 DEF f
<1> QED BY <1>1, <1>3 DEF TokensTieOut

(***************************************************************************)
(* The two implementations agree.                                          *)
(***************************************************************************)
LEMMA RefusedAgrees ==
    ASSUME Refuse, ColumnarErrors(seen, horizon)
    PROVE  (status' = "posting" => Posting') /\ ImplementationsAgree'
<1>1. seen' = seen /\ horizon' = horizon /\ status' = "refused"
  BY DEF Refuse, seen
<1> QED BY <1>1 DEF ImplementationsAgree

LEMMA AgreeStep ==
    ASSUME ServiceIsOnCalendar, AgreeInv, [Next]_vars
    PROVE  AgreeInv'
<1>0. BooksInv /\ BooksInv' /\ (status = "posting" => Posting) /\ ImplementationsAgree
  BY NextKeepsBooks DEF AgreeInv
<1>1. ASSUME NEW d \in Documents, Record(d) PROVE (status' = "posting" => Posting') /\ ImplementationsAgree'
  <2>1. status' = "idle"
    BY <1>1 DEF Record
  <2> QED BY <2>1 DEF ImplementationsAgree
<1>2. ASSUME NEW h \in 2 .. Len(MonthStart), Open(h) PROVE (status' = "posting" => Posting') /\ ImplementationsAgree'
  <2>1. \/ status' = "refused" /\ ColumnarErrors(seen', horizon')
        \/ status' = "posting" /\ Posting'
    BY <1>0, <1>2, OpenStarts
  <2> QED BY <2>1 DEF ImplementationsAgree
<1>3. ASSUME NEW i \in left, TakeInvoice(i) PROVE (status' = "posting" => Posting') /\ ImplementationsAgree'
  <2>1. status = "posting" /\ Posting /\ NextInvoice(i)
    BY <1>0, <1>3 DEF TakeInvoice, NextInvoice
  <2>2. CASE InvalidInvoice(seen, i)
    <3>1. Refuse
      BY <1>0, <1>3, <2>1, <2>2, InvoiceRefusal DEF TakeInvoice
    <3>2. i \in Invoices(seen)
      BY <2>1 DEF NextInvoice, Posting, DoneFirst, Invoices, OfKind
    <3>3. ColumnarErrors(seen, horizon)
      BY <2>2, <3>2 DEF ColumnarErrors, CoreErrors, AccountingErrors
    <3> QED BY <3>1, <3>3, RefusedAgrees
  <2>3. CASE ~InvalidInvoice(seen, i)
    <3>1. Posting' /\ status' = "posting"
      BY <1>0, <1>3, <2>1, <2>3, InvoiceStays
    <3> QED BY <3>1 DEF ImplementationsAgree
  <2> QED BY <2>2, <2>3
<1>4. ASSUME NEW x \in left, TakeExpiry(x) PROVE (status' = "posting" => Posting') /\ ImplementationsAgree'
  <2>1. status = "posting" /\ Posting /\ Invoices(left) = {} /\ x \in Expiries(left)
    BY <1>0, <1>4 DEF TakeExpiry
  <2>2. CASE InvalidExpiry(seen, x)
    <3>1. Refuse
      BY <1>0, <1>4, <2>1, <2>2, ExpiryRefusal DEF TakeExpiry
    <3>2. x \in Expiries(seen)
      BY <2>1 DEF Posting, DoneFirst, Expiries, OfKind
    <3>3. ColumnarErrors(seen, horizon)
      BY <2>2, <3>2 DEF ColumnarErrors, CoreErrors, AccountingErrors
    <3> QED BY <3>1, <3>3, RefusedAgrees
  <2>3. CASE ~InvalidExpiry(seen, x)
    <3>1. Posting' /\ status' = "posting"
      BY <1>0, <1>4, <2>1, <2>3, ExpiryStays
    <3> QED BY <3>1 DEF ImplementationsAgree
  <2> QED BY <2>2, <2>3
<1>5. ASSUME NEW c \in left, TakeCredit(c) PROVE (status' = "posting" => Posting') /\ ImplementationsAgree'
  <2>1. status = "posting" /\ Posting /\ c \in Credits(left)
    BY <1>0, <1>5 DEF TakeCredit
  <2>2. CASE ~\E i \in Invoices(seen) : i.invoice = c.invoice
    <3>1. Refuse
      BY <1>5, <2>2 DEF TakeCredit
    <3>2. c \in Credits(seen)
      BY <2>1 DEF Posting, DoneFirst, Credits, OfKind
    <3>3. ColumnarErrors(seen, horizon)
      BY <2>2, <3>2 DEF ColumnarErrors, CoreErrors, AccountingErrors
    <3> QED BY <3>1, <3>3, RefusedAgrees
  <2>3. CASE \E i \in Invoices(seen) : i.invoice = c.invoice
    <3>1. Posting' /\ status' = "posting"
      BY <1>0, <1>5, <2>1, <2>3, CreditStays
    <3> QED BY <3>1 DEF ImplementationsAgree
  <2> QED BY <2>2, <2>3
<1>6. ASSUME NEW e \in left, TakeEvent(e) PROVE (status' = "posting" => Posting') /\ ImplementationsAgree'
  <2>1. status = "posting" /\ Posting
    BY <1>0, <1>6 DEF TakeEvent
  <2>2. CASE ~e.monthly
    <3>1. Refuse
      BY <1>6, <2>2 DEF TakeEvent
    <3>2. e \in Subscriptions(seen)
      BY <1>6, <2>1 DEF TakeEvent, Posting, DoneFirst, Subscriptions, OfKind
    <3>3. ColumnarErrors(seen, horizon)
      BY <2>2, <3>2 DEF ColumnarErrors, CoreErrors, AccountingErrors
    <3> QED BY <3>1, <3>3, RefusedAgrees
  <2>3. CASE e.monthly
    <3>1. Posting' /\ status' = "posting"
      BY <1>0, <1>6, <2>1, <2>3, EventStays
    <3> QED BY <3>1 DEF ImplementationsAgree
  <2> QED BY <2>2, <2>3
<1>7. ASSUME Check PROVE (status' = "posting" => Posting') /\ ImplementationsAgree'
  <2>1. /\ ~AccountingErrors(seen)
        /\ journal = ColumnarJournal(seen, horizon) /\ earnings = ColumnarEarnings(seen, horizon)
        /\ TiesOut <=> ~JournalErrors(seen, horizon)
    BY <1>0, <1>7, CheckAgrees DEF Check
  <2>2. CASE TiesOut /\ TokensTieOut
    <3>1. status' = "accepted" /\ docs' = docs /\ horizon' = horizon /\ journal' = journal /\ earnings' = earnings
      BY <1>7, <2>2 DEF Check, report
    <3>2. seen' = seen
      BY <3>1 DEF seen
    <3> QED BY <2>1, <2>2, <3>1, <3>2 DEF ImplementationsAgree, BookErrors
  <2>3. CASE ~(TiesOut /\ TokensTieOut)
    <3>1. Refuse
      BY <1>7, <2>3 DEF Check
    <3>2. ColumnarErrors(seen, horizon)
      <4>1. CASE ~TiesOut
        BY <2>1, <4>1 DEF ColumnarErrors
      <4>2. CASE ~TokensTieOut
        BY <1>0, <2>1, <4>2, TokensAgree DEF ColumnarErrors, CoreErrors
      <4> QED BY <2>3, <4>1, <4>2
    <3> QED BY <3>1, <3>2, RefusedAgrees
  <2> QED BY <2>2, <2>3
<1>8. ASSUME Close PROVE (status' = "posting" => Posting') /\ ImplementationsAgree'
  <2>1. status' = "idle"
    BY <1>8 DEF Close
  <2> QED BY <2>1 DEF ImplementationsAgree
<1>9. ASSUME UNCHANGED vars PROVE (status' = "posting" => Posting') /\ ImplementationsAgree'
  <2>1. /\ status' = status /\ docs' = docs /\ horizon' = horizon /\ left' = left /\ cursor' = cursor
        /\ remaining' = remaining /\ lastService' = lastService /\ journal' = journal /\ earnings' = earnings
    BY <1>9 DEF vars, report
  <2>2. seen' = seen
    BY <2>1 DEF seen
  <2>3. Done' = Done
    <3>1. Done' = seen' \ left' /\ Done = seen \ left
      BY DEF Done
    <3> QED BY <2>1, <2>2, <3>1
  <2>4. Posting => Posting'
    BY <2>1, <2>2, <2>3 DEF Posting
  <2>5. ImplementationsAgree'
    BY <1>0, <2>1, <2>2 DEF ImplementationsAgree
  <2> QED BY <1>0, <2>1, <2>4, <2>5
<1>10. (status' = "posting" => Posting') /\ ImplementationsAgree'
  BY <1>1, <1>2, <1>3, <1>4, <1>5, <1>6, <1>7, <1>8, <1>9 DEF Next
<1> QED BY <1>0, <1>10 DEF AgreeInv

\* What the sequential loop and its session accept is no error of the views'
\* accounting, and both post the same cents to the same accounts, months and
\* sources; what they refuse -- a document, or an invoice whose tokens do not share
\* what it earned -- the views refuse: for all documents and months, as long as no
\* service begins before the stream's first month (tl/compare/accounting.py,
\* tl/compare/session.py:59-79, tl/views/accounting.py, tl/views/validation.py).
THEOREM ImplementationsAlwaysAgree == ServiceIsOnCalendar => (Spec => []ImplementationsAgree)
<1> SUFFICES ASSUME ServiceIsOnCalendar PROVE Spec => []ImplementationsAgree
  OBVIOUS
<1>1. Init => AgreeInv
  <2> SUFFICES ASSUME Init PROVE AgreeInv
    OBVIOUS
  <2>1. BooksInv /\ status = "idle"
    BY InitBooks DEF Init
  <2> QED BY <2>1 DEF AgreeInv, ImplementationsAgree
<1>2. AgreeInv /\ [Next]_vars => AgreeInv'
  BY AgreeStep
<1>3. AgreeInv => ImplementationsAgree
  BY DEF AgreeInv
<1> QED BY <1>1, <1>2, <1>3, PTL DEF Spec

(***************************************************************************)
(* Commitments are spent once: what the lines of one document add up to.   *)
(***************************************************************************)
\* Filling in a part of the terms adds their sum.
LEMMA PartAdds ==
    ASSUME NEW S, IsFiniteSet(S), NEW R \in SUBSET S, NEW f \in [S -> Int], NEW g \in [S -> Int],
           \A x \in S : x \notin R => g[x] = f[x],
           \A x \in R : f[x] = 0
    PROVE  /\ SumFunctionOnSet(f, S) \in Int /\ SumFunctionOnSet(g, R) \in Int
           /\ SumFunctionOnSet(g, S) = SumFunctionOnSet(f, S) + SumFunctionOnSet(g, R)
<1> DEFINE T == {s \in SUBSET S : SumFunctionOnSet(g, s) = SumFunctionOnSet(f, s) + SumFunctionOnSet(g, s \cap R)}
<1>0. ASSUME NEW s \in SUBSET S
      PROVE  SumFunctionOnSet(f, s) \in Int /\ SumFunctionOnSet(g, s) \in Int
  <2>1. IsFiniteSet(s) /\ \A x \in s : f[x] \in Int /\ g[x] \in Int
    BY FS_Subset
  <2>2. CASE s = {}
    BY <2>2, SumOfEmpty
  <2>3. CASE s # {}
    BY <2>1, <2>3, SumOfAny
  <2> QED BY <2>2, <2>3
<1>1. {} \in T
  <2>1. {} \cap R = {}
    OBVIOUS
  <2> QED BY <2>1, SumOfEmpty
<1>2. ASSUME NEW s \in SUBSET S, NEW x \in S \ s, s \in T PROVE s \cup {x} \in T
  <2> DEFINE t == s \cup {x}
             p == s \cap R
             q == t \cap R
  <2>1. IsFiniteSet(t) /\ x \in t /\ t \ {x} = s /\ t \in SUBSET S /\ \A y \in t : f[y] \in Int /\ g[y] \in Int
    BY FS_Subset
  <2>2. /\ SumFunctionOnSet(f, s) \in Int /\ SumFunctionOnSet(g, s) \in Int
        /\ SumFunctionOnSet(g, p) \in Int
        /\ SumFunctionOnSet(g, s) = SumFunctionOnSet(f, s) + SumFunctionOnSet(g, p)
    <3>1. p \in SUBSET S
      OBVIOUS
    <3> QED BY <1>0, <1>2, <3>1
  <2>3. x \in R => IsFiniteSet(q) /\ x \in q /\ q \ {x} = p /\ \A y \in q : g[y] \in Int
    BY <2>1, FS_Subset
  <2>4. x \notin R => q = p /\ g[x] = f[x]
    OBVIOUS
  <2>5. x \in R => f[x] = 0
    OBVIOUS
  <2> HIDE DEF t, p, q
  <2>6. /\ SumFunctionOnSet(f, t) = f[x] + SumFunctionOnSet(f, s)
        /\ SumFunctionOnSet(g, t) = g[x] + SumFunctionOnSet(g, s)
        /\ f[x] \in Int /\ g[x] \in Int
    BY <2>1, SumOfAny
  <2>7. x \in R => SumFunctionOnSet(g, q) = g[x] + SumFunctionOnSet(g, p)
    BY <2>3, SumOfAny
  <2>8. SumFunctionOnSet(g, t) = SumFunctionOnSet(f, t) + SumFunctionOnSet(g, q)
    <3>1. CASE x \in R
      BY <2>2, <2>5, <2>6, <2>7, <3>1
    <3>2. CASE x \notin R
      BY <2>2, <2>4, <2>6, <3>2
    <3> QED BY <3>1, <3>2
  <2> QED BY <2>1, <2>8 DEF t, q
<1> HIDE DEF T
<1>3. S \in T
  BY <1>1, <1>2, FiniteInduction
<1>4. S \cap R = R
  OBVIOUS
<1> QED BY <1>0, <1>3, <1>4 DEF T

LEMMA SumIsNumber ==
    ASSUME NEW S, IsFiniteSet(S), NEW f, \A x \in S : f[x] \in Int
    PROVE  SumFunctionOnSet(f, S) \in Int
BY SumOfAny

\* A line of differences month by month adds up to the difference of the ends.
LEMMA RowTelescopes ==
    ASSUME NEW id, NEW f, NEW level \in [1 .. Len(MonthStart) -> Int],
           \A m \in Months : f[<<id, m>>] = level[m + 1] - level[m]
    PROVE  SumFunctionOnSet(f, {id} \X Months) = level[Len(MonthStart)] - level[1]
<1> DEFINE row(n) == {id} \X (1 .. n)
           T == {n \in Nat : n \in 0 .. Len(MonthStart) - 1 =>
                    SumFunctionOnSet(f, row(n)) = level[n + 1] - level[1]}
<1>0. Len(MonthStart) \in Nat /\ Len(MonthStart) > 1
  BY MonthsAssumption
<1>1. 0 \in T
  <2>1. row(0) = {}
    OBVIOUS
  <2>2. level[0 + 1] - level[1] = 0
    BY <1>0
  <2> HIDE DEF row
  <2> QED BY <2>1, <2>2, SumOfEmpty
<1>2. ASSUME NEW n \in Nat, n \in T PROVE n + 1 \in T
  <2> SUFFICES ASSUME n + 1 \in 0 .. Len(MonthStart) - 1
               PROVE  SumFunctionOnSet(f, row(n + 1)) = level[(n + 1) + 1] - level[1]
    OBVIOUS
  <2> DEFINE t == row(n + 1)
             x == <<id, n + 1>>
  <2>1. n + 1 \in Months /\ n \in 0 .. Len(MonthStart) - 1
    BY <1>0 DEF Months
  <2>2. x \in t /\ t \ {x} = row(n)
    OBVIOUS
  <2>3. IsFiniteSet(t)
    <3>0. 1 \in Int /\ n + 1 \in Int
      OBVIOUS
    <3>1. IsFiniteSet({id}) /\ IsFiniteSet(1 .. (n + 1))
      BY <3>0, FS_Singleton, FS_Interval
    <3> QED BY <3>1, FS_Product
  <2>4. \A y \in t : f[y] \in Int
    <3> SUFFICES ASSUME NEW m \in 1 .. (n + 1) PROVE f[<<id, m>>] \in Int
      OBVIOUS
    <3>1. m \in Months /\ m \in 1 .. Len(MonthStart) /\ m + 1 \in 1 .. Len(MonthStart)
      BY <1>0 DEF Months
    <3> QED BY <3>1
  <2>5. SumFunctionOnSet(f, row(n)) = level[n + 1] - level[1]
    BY <1>2, <2>1
  <2>6. f[x] = level[(n + 1) + 1] - level[n + 1]
    BY <2>1
  <2>7. level[(n + 1) + 1] \in Int /\ level[n + 1] \in Int /\ level[1] \in Int
    BY <1>0
  <2> HIDE DEF t, x, row
  <2>8. SumFunctionOnSet(f, t) = f[x] + SumFunctionOnSet(f, t \ {x})
    BY <2>2, <2>3, <2>4, SumOfAny
  <2>9. t \ {x} = row(n)
    BY <2>2
  <2>10. SumFunctionOnSet(f, t) = f[x] + SumFunctionOnSet(f, row(n))
    BY <2>8, <2>9
  <2>11. SumFunctionOnSet(f, t) = level[(n + 1) + 1] - level[1]
    BY <2>5, <2>6, <2>7, <2>10
  <2> QED BY <2>11 DEF t
<1> HIDE DEF T
<1>3. \A n \in Nat : n \in T
  BY <1>1, <1>2, InductiveSet
<1>4. Len(MonthStart) - 1 \in Nat /\ Len(MonthStart) - 1 \in 0 .. Len(MonthStart) - 1 /\ (Len(MonthStart) - 1) + 1 = Len(MonthStart)
  BY <1>0
<1>5. row(Len(MonthStart) - 1) = {id} \X Months
  BY DEF Months
<1> HIDE DEF row
<1> QED BY <1>3, <1>4, <1>5 DEF T

\* What is dated before a horizon falls in a month before it.
LEMMA DayHasMonth ==
    ASSUME NEW h \in 1 .. Len(MonthStart), NEW day \in Nat, MonthStart[1] <= day, day < MonthStart[h]
    PROVE  MonthOf(day) \in Months
<1> DEFINE T == {n \in Nat : n \in 1 .. Len(MonthStart) /\ day < MonthStart[n]}
<1>0. Len(MonthStart) \in Nat /\ h \in T
  BY MonthsAssumption
<1>1. PICK k \in T : \A n \in T : ~(n < k)
  <2>1. T \subseteq Nat /\ T # {}
    BY <1>0
  <2> HIDE DEF T
  <2> QED BY <2>1, LeastOfSet
<1>2. k # 1 /\ k - 1 \in Months /\ (k - 1) + 1 = k /\ k - 1 \in 1 .. Len(MonthStart)
  <2>1. k \in 1 .. Len(MonthStart) /\ day < MonthStart[k]
    BY <1>1
  <2>2. MonthStart[1] \in Nat
    BY <1>0, MonthsAssumption
  <2>3. k # 1
    BY <2>1, <2>2
  <2> QED BY <1>0, <2>1, <2>3 DEF Months
<1>3. k - 1 \notin T
  BY <1>1
<1>4. MonthStart[k - 1] <= day /\ day < MonthStart[(k - 1) + 1]
  <2>1. ~(day < MonthStart[k - 1])
    BY <1>2, <1>3
  <2>2. MonthStart[k - 1] \in Nat
    BY <1>2, MonthsAssumption
  <2>3. day < MonthStart[k]
    BY <1>1
  <2> QED BY <1>2, <2>1, <2>2, <2>3
<1> QED BY <1>2, <1>4 DEF MonthOf

\* A cumulative entitlement lies between nothing and the whole.
LEMMA RoundedIsWithin ==
    ASSUME NEW amount \in Nat, NEW k \in Nat, NEW d \in Nat, d > 0, k <= d
    PROVE  /\ HalfUp(amount * k, d) \in Int /\ 0 <= HalfUp(amount * k, d) /\ HalfUp(amount * k, d) <= amount
           /\ HalfUp(amount * 0, d) = 0 /\ HalfUp(amount * d, d) = amount
<1>1. ASSUME NEW j \in Nat, j <= d PROVE HalfUp(amount * j, d) = (2 * (amount * j) + d) \div (2 * d)
  <2>1. amount * j \in Nat
    OBVIOUS
  <2> QED BY <2>1 DEF HalfUp
<1> DEFINE e == 2 * d
           q(j) == (2 * (amount * j) + d) \div e
<1>2. e \in Nat /\ e > 0 /\ d < e
  OBVIOUS
<1>3. ASSUME NEW n \in Nat PROVE n \div e \in Int /\ e * (n \div e) <= n /\ n < e * (n \div e) + e
  BY <1>2
<1>4. ASSUME NEW j \in Nat, j <= d PROVE q(j) \in Int /\ 0 <= q(j) /\ q(j) <= amount
  <2> DEFINE n == 2 * (amount * j) + d
             p == n \div e
  <2>1. amount * j \in Nat /\ amount * d \in Nat /\ amount * j <= amount * d
    BY <1>4
  <2>2. n \in Nat /\ n <= 2 * (amount * d) + d
    BY <2>1
  <2>3. 2 * (amount * d) = e * amount
    OBVIOUS
  <2> HIDE DEF n
  <2>4. p \in Int /\ e * p <= n /\ n < e * p + e
    BY <1>3, <2>2
  <2> HIDE DEF p
  <2>5. e * p < e * amount + e /\ 0 < e * p + e
    <3> HIDE DEF e
    <3>1. e * p \in Int /\ e * amount \in Int
      BY <1>2, <2>4
    <3> QED BY <1>2, <2>2, <2>3, <2>4, <3>1
  <2>6. p <= amount
    <3> SUFFICES ASSUME p >= amount + 1 PROVE FALSE
      BY <2>4
    <3> HIDE DEF e
    <3>1. e * p >= e * (amount + 1)
      BY <1>2, <2>4
    <3>2. e * (amount + 1) = e * amount + e
      BY <1>2
    <3> QED BY <1>2, <2>4, <2>5, <3>1, <3>2
  <2>7. 0 <= p
    <3> SUFFICES ASSUME p <= -1 PROVE FALSE
      BY <2>4
    <3> HIDE DEF e
    <3>1. e * p <= e * (-1)
      BY <1>2, <2>4
    <3>2. e * (-1) = -e
      BY <1>2
    <3> QED BY <1>2, <2>4, <2>5, <3>1, <3>2
  <2> QED BY <2>4, <2>6, <2>7 DEF p, n
<1>5. HalfUp(amount * 0, d) = 0
  <2>1. amount * 0 = 0
    OBVIOUS
  <2> QED BY <2>1, NothingRounded
<1>6. q(d) >= amount
  <2> DEFINE n == 2 * (amount * d) + d
             p == n \div e
  <2>1. n \in Nat /\ n = e * amount + d
    OBVIOUS
  <2> HIDE DEF n
  <2>2. p \in Int /\ n < e * p + e
    BY <1>3, <2>1
  <2> HIDE DEF p
  <2> SUFFICES ASSUME p <= amount - 1 PROVE FALSE
    BY <2>2 DEF p, n
  <2> HIDE DEF e
  <2>3. e * p <= e * (amount - 1)
    BY <1>2, <2>2
  <2>4. e * (amount - 1) = e * amount - e
    BY <1>2
  <2> QED BY <1>2, <2>1, <2>2, <2>3, <2>4
<1> HIDE DEF q
<1>7. \A j \in Nat : j <= d => HalfUp(amount * j, d) = q(j)
  BY <1>1 DEF q
<1> QED BY <1>4, <1>5, <1>6, <1>7

\* The lines of a contract, and what they hold of its liability.
Binds(d, key) == d.kind \in {"contract", "invoice", "expiry"} /\ d.contract = key
LinesOf(S, key) == {k \in Lines : \E d \in S : Binds(d, key) /\ k[1] = d.id}
FundsIn(K, moved) == SumFunction([l \in K |-> moved[l]["2100"]])
SpentOnce(S, h, moved, rest) ==
    \A c \in Contracts(S) :
        /\ rest[c.contract] >= 0
        /\ FundsIn(LinesOf(S, c.contract), moved) + rest[c.contract] <= 0
        /\ (\A i \in Invoices(S) : i.contract = c.contract => i.end <= MonthStart[h])
             => FundsIn(LinesOf(S, c.contract), moved) + rest[c.contract] = 0

LEMMA SpentOnceIs == CommitIsSpentOnce <=> (status = "posting" => SpentOnce(seen, horizon, journal, remaining))
<1>1. \A key : Deferred(key) = FundsIn(LinesOf(seen, key), journal)
  <2> SUFFICES ASSUME NEW key PROVE Deferred(key) = FundsIn(LinesOf(seen, key), journal)
    OBVIOUS
  <2>1. LinesOf(seen, key) = {k \in Lines : \E d \in OnContract(key) : k[1] = d.id}
    BY DEF LinesOf, OnContract, Binds
  <2> QED BY <2>1 DEF Deferred, FundsIn
<1> QED BY <1>1 DEF CommitIsSpentOnce, SpentOnce

LEMMA OthersLines ==
    ASSUME NEW S \in SUBSET Documents, NEW key, NEW d \in Documents, ~Binds(d, key), NEW x \in LinesOf(S, key)
    PROVE  x[1] # Poster(d)
<1> SUFFICES ASSUME x[1] = Poster(d) PROVE FALSE
  OBVIOUS
<1>1. PICK e \in S : Binds(e, key) /\ x[1] = e.id
  BY DEF LinesOf
<1>2. e.kind # "subscription" /\ e \in Documents
  BY <1>1 DEF Binds
<1>3. e # d /\ Poster(d) = e.id
  BY <1>1
<1> QED BY <1>2, <1>3, IdentitiesAssumption DEF Poster

\* One more document, whose lines are filled in, adds what they come to.
LEMMA RowFunds ==
    ASSUME NEW S \in SUBSET Documents, NEW key, NEW d \in S,
           NEW moved \in [Lines -> Movements], NEW then \in [Lines -> Movements],
           \A line \in LinesOf(S, key) : line[1] # Poster(d) => then[line] = moved[line],
           \A line \in LinesOf(S, key) : line[1] = Poster(d) => moved[line] = NoMovement,
           NEW level \in [1 .. Len(MonthStart) -> Int],
           \A m \in Months : Binds(d, key) => then[<<Poster(d), m>>]["2100"] = level[m + 1] - level[m]
    PROVE  /\ FundsIn(LinesOf(S, key), moved) \in Int
           /\ FundsIn(LinesOf(S, key), then) = FundsIn(LinesOf(S, key), moved)
                + (IF Binds(d, key) THEN level[Len(MonthStart)] - level[1] ELSE 0)
<1> DEFINE K == LinesOf(S, key)
           f == [l \in K |-> moved[l]["2100"]]
           g == [l \in K |-> then[l]["2100"]]
<1>1. IsFiniteSet(K) /\ K \subseteq Lines
  BY LinesAreFinite, FS_Subset DEF LinesOf
<1>2. f \in [K -> Int] /\ g \in [K -> Int]
  BY <1>1 DEF Movements, Accounts
<1>3. DOMAIN f = K /\ DOMAIN g = K /\ FundsIn(K, moved) = SumFunction(f) /\ FundsIn(K, then) = SumFunction(g)
  BY DEF FundsIn
<1>4. SumFunction(f) = SumFunctionOnSet(f, K) /\ SumFunction(g) = SumFunctionOnSet(g, K)
  BY <1>3 DEF SumFunction
<1>5. \A x \in K : x[1] # Poster(d) => g[x] = f[x]
  OBVIOUS
<1>6. \A x \in K : x[1] = Poster(d) => f[x] = 0
  BY DEF NoMovement, Accounts
<1>7. CASE Binds(d, key)
  <2> DEFINE R == {d.id} \X Months
  <2>1. Poster(d) = d.id
    BY <1>7 DEF Binds, Poster
  <2>2. R \in SUBSET K
    BY <1>7, <2>1 DEF LinesOf, Lines, Tokens, OfKind, Binds
  <2>3. \A x \in K : x \in R <=> x[1] = Poster(d)
    BY <1>1, <2>1 DEF Lines
  <2>4. \A m \in Months : g[<<d.id, m>>] = level[m + 1] - level[m]
    BY <1>7, <2>1, <2>2
  <2> HIDE DEF K, f, g, R
  <2>5. /\ SumFunctionOnSet(f, K) \in Int /\ SumFunctionOnSet(g, R) \in Int
        /\ SumFunctionOnSet(g, K) = SumFunctionOnSet(f, K) + SumFunctionOnSet(g, R)
    <3>1. /\ \A x \in K : x \notin R => g[x] = f[x]
          /\ \A x \in R : f[x] = 0
      BY <1>5, <1>6, <2>2, <2>3
    <3>2. R \in SUBSET K /\ IsFiniteSet(K)
      BY <1>1, <2>2
    <3> QED BY ONLY <1>2, <3>1, <3>2, PartAdds
  <2>6. SumFunctionOnSet(g, R) = level[Len(MonthStart)] - level[1]
    <3>1. R = {d.id} \X Months
      BY DEF R
    <3>2. level \in [1 .. Len(MonthStart) -> Int]
      OBVIOUS
    <3> QED BY ONLY <2>4, <3>1, <3>2, RowTelescopes
  <2> QED BY <1>3, <1>4, <1>7, <2>5, <2>6 DEF K
<1>8. CASE ~Binds(d, key)
  <2>1. \A x \in K : x[1] # Poster(d)
    BY <1>8, OthersLines
  <2>2. f = g
    BY <1>5, <2>1
  <2>3. SumFunctionOnSet(f, K) \in Int
    <3> HIDE DEF K, f, g
    <3>1. {} \in SUBSET K /\ \A x \in K : x \notin {} => f[x] = f[x]
      OBVIOUS
    <3> QED BY <1>1, <1>2, <3>1, SumIsNumber
  <2> HIDE DEF K, f, g
  <2> QED BY <1>3, <1>4, <1>8, <2>2, <2>3 DEF K
<1> QED BY <1>7, <1>8

\* The commitment is billed in full, and all of it is left.
LEMMA OpenFunds ==
    ASSUME BooksInv, NEW h \in 2 .. Len(MonthStart), Open(h), status' = "posting", BooksInv'
    PROVE  SpentOnce(seen', horizon', journal', remaining')
<1> DEFINE visible == Visible(docs, h)
           signed(line) == {c \in Contracts(visible) : c.id = line[1] /\ MonthOf(c.ts) = line[2]}
<1>0. docs' = docs /\ horizon' = h /\ seen' = visible
  BY DEF Open, seen
<1>1. visible \in SUBSET Documents /\ journal' \in [Lines -> Movements] /\ \A d \in visible : d.ts < MonthStart[h]
  BY DEF Visible, BooksInv, RunningState, BookTypes
<1>2. /\ remaining' = [key \in ContractKeys |->
            IF Terms(visible, key) = {} THEN 0 ELSE (CHOOSE c \in Terms(visible, key) : TRUE).commit]
      /\ journal' = [line \in Lines |->
            IF signed(line) = {} THEN NoMovement
            ELSE LET commit == (CHOOSE c \in signed(line) : TRUE).commit
                 IN  [NoMovement EXCEPT !["1100"] = commit, !["2100"] = -commit]]
  BY DEF Open, Terms
<1>3. Posting'
  BY OpenStarts
<1>4. Identified(visible)
  BY <1>0, <1>3 DEF Posting
<1> HIDE DEF visible
<1> SUFFICES ASSUME NEW c \in Contracts(visible)
             PROVE  /\ remaining'[c.contract] >= 0
                    /\ FundsIn(LinesOf(visible, c.contract), journal') + remaining'[c.contract] = 0
  <2>1. ASSUME NEW c \in Contracts(visible), NEW r, NEW k, r >= 0 /\ k + r = 0
        PROVE  k + r <= 0
    BY <2>1
  <2> QED BY <1>0, <2>1 DEF SpentOnce
<1> DEFINE key == c.contract
           level == [m \in 1 .. Len(MonthStart) |-> IF m > MonthOf(c.ts) THEN -c.commit ELSE 0]
<1>5. c \in visible /\ c \in Documents /\ c.kind = "contract" /\ c.commit \in Nat /\ key \in ContractKeys /\ Poster(c) = c.id
  BY <1>1, DocumentsAssumption DEF Contracts, OfKind, ContractKeys, Poster
<1>6. MonthOf(c.ts) \in Months
  BY <1>1, <1>5, CalendarAssumption, MonthsAssumption, DayHasMonth
<1>7. remaining'[key] = c.commit
  <2>1. \A b \in Terms(visible, key) : b = c
    BY <1>4, <1>5 DEF Identified, Duplicated, Terms
  <2>2. c \in Terms(visible, key)
    BY DEF Terms
  <2>3. (CHOOSE b \in Terms(visible, key) : TRUE) = c
    BY <2>1, <2>2
  <2> QED BY <1>2, <1>5, <2>2, <2>3
<1>8. \A line \in LinesOf(visible, key) : line[1] # c.id => journal'[line] = NoMovement
  <2> SUFFICES ASSUME NEW line \in LinesOf(visible, key), line[1] # c.id PROVE journal'[line] = NoMovement
    OBVIOUS
  <2>1. PICK e \in visible : Binds(e, key) /\ line[1] = e.id
    BY DEF LinesOf
  <2>2. signed(line) = {}
    <3> SUFFICES ASSUME NEW b \in Contracts(visible), b.id = e.id PROVE FALSE
      BY <2>1
    <3>1. b = e
      BY <1>1, <2>1, IdentitiesAssumption DEF Contracts, OfKind
    <3>2. b = c
      BY <1>4, <2>1, <3>1 DEF Binds, Identified, Duplicated
    <3> QED BY <2>1, <3>1, <3>2
  <2>3. line \in Lines
    BY DEF LinesOf
  <2> QED BY <1>2, <2>2, <2>3
<1>9. \A m \in Months : journal'[<<c.id, m>>]["2100"] = level[m + 1] - level[m]
  <2> SUFFICES ASSUME NEW m \in Months PROVE journal'[<<c.id, m>>]["2100"] = level[m + 1] - level[m]
    OBVIOUS
  <2> DEFINE line == <<c.id, m>>
  <2>0. m \in 1 .. Len(MonthStart) /\ m + 1 \in 1 .. Len(MonthStart) /\ m \in Int /\ MonthOf(c.ts) \in Int
    BY <1>6, MonthsAssumption DEF Months
  <2>1. level[m + 1] - level[m] = IF m = MonthOf(c.ts) THEN -c.commit ELSE 0
    BY <1>5, <2>0
  <2>2. line \in Lines /\ line[1] = c.id /\ line[2] = m
    BY <1>5 DEF Lines, Tokens, OfKind
  <2>3. \A b \in signed(line) : b = c
    BY <1>1, <1>5, <2>2, IdentitiesAssumption DEF Contracts, OfKind
  <2>4. c \in signed(line) <=> m = MonthOf(c.ts)
    BY <2>2
  <2> HIDE DEF line, level
  <2>5. CASE m = MonthOf(c.ts)
    <3>1. signed(line) # {} /\ (CHOOSE b \in signed(line) : TRUE) = c
      BY <2>3, <2>4, <2>5
    <3>2. journal'[line] = [NoMovement EXCEPT !["1100"] = c.commit, !["2100"] = -c.commit]
      BY <1>2, <2>2, <3>1
    <3>3. journal'[line]["2100"] = -c.commit
      BY <3>2 DEF NoMovement, Accounts
    <3> QED BY <2>1, <2>5, <3>3 DEF line
  <2>6. CASE m # MonthOf(c.ts)
    <3>1. signed(line) = {}
      BY <2>3, <2>4, <2>6
    <3>2. journal'[line] = NoMovement
      BY <1>2, <2>2, <3>1
    <3>3. journal'[line]["2100"] = 0
      BY <3>2 DEF NoMovement, Accounts
    <3> QED BY <2>1, <2>6, <3>3 DEF line
  <2> QED BY <2>5, <2>6
<1>10. level[Len(MonthStart)] - level[1] = -c.commit /\ level \in [1 .. Len(MonthStart) -> Int]
  BY <1>5, <1>6, MonthsAssumption DEF Months
<1>11. BlankJournal \in [Lines -> Movements] /\ \A line \in Lines : BlankJournal[line] = NoMovement
  BY NothingSettled DEF BlankJournal, Settled
<1> HIDE DEF key, level
<1>12. FundsIn(LinesOf(visible, key), BlankJournal) = 0
  <2> DEFINE f == [l \in LinesOf(visible, key) |-> BlankJournal[l]["2100"]]
  <2>1. \A l \in DOMAIN f : f[l] = 0
    BY <1>11 DEF LinesOf, NoMovement, Accounts
  <2>2. DOMAIN f \subseteq Lines
    BY DEF LinesOf
  <2>3. FundsIn(LinesOf(visible, key), BlankJournal) = SumFunction(f)
    BY DEF FundsIn
  <2> HIDE DEF f
  <2> QED BY <2>1, <2>2, <2>3, LinesAreFinite, FS_Subset, SumOfZeros
<1>13. Binds(c, key)
  BY <1>5 DEF Binds, key
<1>14. FundsIn(LinesOf(visible, key), journal') =
         FundsIn(LinesOf(visible, key), BlankJournal) + (IF Binds(c, key) THEN level[Len(MonthStart)] - level[1] ELSE 0)
  <2>1. \A line \in LinesOf(visible, key) : line \in Lines
    BY DEF LinesOf
  <2>2. \A line \in LinesOf(visible, key) : /\ line[1] # Poster(c) => journal'[line] = BlankJournal[line]
                                            /\ line[1] = Poster(c) => BlankJournal[line] = NoMovement
    BY <1>5, <1>8, <1>11, <2>1
  <2>3. \A m \in Months : Binds(c, key) => journal'[<<Poster(c), m>>]["2100"] = level[m + 1] - level[m]
    BY <1>5, <1>9
  <2>4. visible \in SUBSET Documents /\ c \in visible /\ journal' \in [Lines -> Movements] /\ BlankJournal \in [Lines -> Movements]
    BY <1>1, <1>5, <1>11
  <2> QED BY ONLY <1>10, <2>2, <2>3, <2>4, RowFunds
<1> QED BY <1>5, <1>7, <1>10, <1>12, <1>13, <1>14 DEF key

LEMMA BlankBefore ==
    ASSUME BooksInv, Posting, NEW d \in Posters(seen), d \notin Done
    PROVE  \A line \in Lines : line[1] = Poster(d) => journal[line] = NoMovement
<1> SUFFICES ASSUME NEW line \in Lines, line[1] = Poster(d) PROVE journal[line] = NoMovement
  OBVIOUS
<1>1. \A p \in Posters(seen) : p \in Done => Poster(p) # line[1]
  BY SeenIs, OnePoster
<1> QED BY <1>1 DEF Posting, RowsAreColumnar

\* What is neither invoice nor expiry leaves the commitments as they are.
LEMMA OthersSpend ==
    ASSUME BooksInv, NEW d \in Documents, d.kind \notin {"contract", "invoice", "expiry"},
           SpentOnce(seen, horizon, journal, remaining),
           NEW then, \A line \in Lines : line[1] # Poster(d) => then[line] = journal[line]
    PROVE  SpentOnce(seen, horizon, then, remaining)
<1>1. seen \in SUBSET Documents /\ \A key : ~Binds(d, key)
  BY SeenIs DEF Binds
<1>2. ASSUME NEW key PROVE FundsIn(LinesOf(seen, key), then) = FundsIn(LinesOf(seen, key), journal)
  <2>1. \A l \in LinesOf(seen, key) : then[l] = journal[l]
    BY <1>1, OthersLines DEF LinesOf
  <2>2. [l \in LinesOf(seen, key) |-> then[l]["2100"]] = [l \in LinesOf(seen, key) |-> journal[l]["2100"]]
    BY <2>1
  <2> QED BY <2>2 DEF FundsIn
<1> QED BY <1>2 DEF SpentOnce

\* The part of an amount that is earned by a day of the service.
Entitled(amount, start, end, day) ==
    HalfUp(amount * (Least(end, Greatest(start, day)) - start), end - start)

LEMMA EntitlementIs ==
    ASSUME NEW amount \in Nat, NEW start \in Nat, NEW end \in Nat, start < end, NEW day \in Nat
    PROVE  /\ Entitled(amount, start, end, day) \in Int
           /\ 0 <= Entitled(amount, start, end, day) /\ Entitled(amount, start, end, day) <= amount
           /\ day <= start => Entitled(amount, start, end, day) = 0
           /\ end <= day => Entitled(amount, start, end, day) = amount
<1> DEFINE d == end - start
           served == Least(end, Greatest(start, day)) - start
<1>0. d \in Nat /\ d > 0
  OBVIOUS
<1>1. served \in Nat /\ served <= d /\ (day <= start => served = 0) /\ (end <= day => served = d)
  BY DEF Least, Greatest
<1>2. Entitled(amount, start, end, day) = HalfUp(amount * served, d)
  BY DEF Entitled
<1> DEFINE k == served
<1>3. k \in Nat /\ k <= d /\ d \in Nat /\ d > 0 /\ Entitled(amount, start, end, day) = HalfUp(amount * k, d)
      /\ (day <= start => k = 0) /\ (end <= day => k = d)
  BY <1>0, <1>1, <1>2
<1> HIDE DEF k, d
<1>4. /\ HalfUp(amount * k, d) \in Int /\ 0 <= HalfUp(amount * k, d) /\ HalfUp(amount * k, d) <= amount
      /\ HalfUp(amount * 0, d) = 0 /\ HalfUp(amount * d, d) = amount
  BY <1>3, RoundedIsWithin
<1> QED BY <1>3, <1>4

LEMMA EntitlementsSpread ==
    ASSUME NEW amount \in Nat, NEW start \in Nat, NEW end \in Nat, start < end, NEW m \in Months
    PROVE  Spread(amount, start, end)[m] =
             Entitled(amount, start, end, MonthStart[m + 1]) - Entitled(amount, start, end, MonthStart[m])
<1> DEFINE a == MonthStart[m]
           b == MonthStart[m + 1]
<1>1. a \in Nat /\ b \in Nat /\ a < b
  BY MonthFacts DEF Days
<1>2. Spread(amount, start, end)[m] =
        IF b > start /\ a < end
        THEN HalfUp(amount * (Least(end, b) - start), end - start)
             - HalfUp(amount * (Greatest(start, a) - start), end - start)
        ELSE 0
  BY DEF Spread, Periods
<1> HIDE DEF a, b
<1>3. CASE b > start /\ a < end
  <2>1. Least(end, Greatest(start, b)) = Least(end, b) /\ Least(end, Greatest(start, a)) = Greatest(start, a)
    BY <1>1, <1>3 DEF Least, Greatest
  <2> QED BY <1>2, <1>3, <2>1 DEF Entitled, a, b
<1>4. CASE ~(b > start /\ a < end)
  <2>1. (a <= start /\ b <= start) \/ (end <= a /\ end <= b)
    BY <1>1, <1>4
  <2>2. Entitled(amount, start, end, b) = Entitled(amount, start, end, a) /\ Entitled(amount, start, end, a) \in Int
    <3>1. ASSUME NEW day \in Nat
          PROVE  /\ Entitled(amount, start, end, day) \in Int
                 /\ day <= start => Entitled(amount, start, end, day) = 0
                 /\ end <= day => Entitled(amount, start, end, day) = amount
      BY EntitlementIs
    <3>2. CASE a <= start /\ b <= start
      BY <1>1, <3>1, <3>2
    <3>3. CASE end <= a /\ end <= b
      BY <1>1, <3>1, <3>3
    <3> QED BY <2>1, <3>2, <3>3
  <2>3. Spread(amount, start, end)[m] = 0
    BY <1>2, <1>4
  <2> QED BY <2>2, <2>3 DEF a, b
<1> QED BY <1>3, <1>4

\* An invoice moves what it draws, within the report.
LEMMA InvoiceFunds ==
    ASSUME BooksInv, BooksInv', Posting, status = "posting", NEW i \in left, TakeInvoice(i), ~InvalidInvoice(seen, i),
           SpentOnce(seen, horizon, journal, remaining)
    PROVE  SpentOnce(seen, horizon, journal', remaining')
<1> DEFINE net == Spread(i.net, i.start, i.end)
           fee == Spread(i.fee, i.start, i.end)
           amount == Drawn(i)
           draw == Spread(amount, i.start, i.end)
           movement == [m \in Months |-> IF m < horizon THEN InvoiceMovement(net[m], fee[m], draw[m]) ELSE NoMovement]
           day(m) == IF m <= horizon THEN MonthStart[m] ELSE MonthStart[horizon]
           level == [m \in 1 .. Len(MonthStart) |-> Entitled(amount, i.start, i.end, day(m))]
<1>1. NextInvoice(i)
  BY DEF TakeInvoice, NextInvoice
<1>2. ~(Unserviceable(i) \/ (Drawn(i) # 0 /\ i.fee # 0))
  BY <1>1, InvoiceRefusal
<1>3. /\ remaining' = [c \in ContractKeys |-> IF c = i.contract THEN remaining[c] - amount ELSE remaining[c]]
      /\ \A line \in Lines : journal'[line] = IF line[1] = Poster(i) THEN movement[line[2]] ELSE journal[line]
  BY <1>2 DEF TakeInvoice, Post
<1>4. /\ seen \in SUBSET Documents /\ i \in seen /\ i \in Documents /\ i \notin Done /\ i.kind = "invoice" /\ i \in Posters(seen)
      /\ Poster(i) = i.id
  BY <1>1, SeenIs DEF NextInvoice, Posting, DoneFirst, Invoices, OfKind, Posters, Poster
<1>5. i.start \in Nat /\ i.end \in Nat /\ i.start < i.end /\ MonthStart[1] <= i.start /\ (i.contract # None => Known(i.contract))
  BY <1>2, <1>4, DocumentsAssumption, CalendarAssumption DEF Unserviceable
<1>6. amount \in Nat
  BY <1>1, <1>5, DrawnIsDraw
<1>7. /\ horizon \in 2 .. Len(MonthStart) /\ journal \in [Lines -> Movements] /\ journal' \in [Lines -> Movements]
      /\ remaining \in [ContractKeys -> Nat] /\ remaining' \in [ContractKeys -> Nat] /\ Len(MonthStart) \in Nat
  BY MonthsAssumption DEF BooksInv, RunningState, BookTypes
<1>8. /\ \A m \in 1 .. Len(MonthStart) : day(m) \in Nat
      /\ day(1) <= i.start /\ day(Len(MonthStart)) = MonthStart[horizon]
      /\ \A m \in Months : IF m < horizon THEN day(m) = MonthStart[m] /\ day(m + 1) = MonthStart[m + 1] ELSE day(m + 1) = day(m)
  BY <1>5, <1>7, MonthsAssumption DEF Months
<1> HIDE DEF net, fee, amount, draw, day
<1>9. /\ level \in [1 .. Len(MonthStart) -> Int]
      /\ level[1] = 0 /\ 0 <= level[Len(MonthStart)] /\ level[Len(MonthStart)] <= amount
      /\ i.end <= MonthStart[horizon] => level[Len(MonthStart)] = amount
  <2>1. 1 \in 1 .. Len(MonthStart) /\ Len(MonthStart) \in 1 .. Len(MonthStart)
    BY <1>7
  <2>2. \A m \in 1 .. Len(MonthStart) :
            /\ Entitled(amount, i.start, i.end, day(m)) \in Int
            /\ 0 <= Entitled(amount, i.start, i.end, day(m)) /\ Entitled(amount, i.start, i.end, day(m)) <= amount
            /\ day(m) <= i.start => Entitled(amount, i.start, i.end, day(m)) = 0
            /\ i.end <= day(m) => Entitled(amount, i.start, i.end, day(m)) = amount
    <3> SUFFICES ASSUME NEW m \in 1 .. Len(MonthStart)
                 PROVE  /\ Entitled(amount, i.start, i.end, day(m)) \in Int
                        /\ 0 <= Entitled(amount, i.start, i.end, day(m)) /\ Entitled(amount, i.start, i.end, day(m)) <= amount
                        /\ day(m) <= i.start => Entitled(amount, i.start, i.end, day(m)) = 0
                        /\ i.end <= day(m) => Entitled(amount, i.start, i.end, day(m)) = amount
      OBVIOUS
    <3> DEFINE a == i.start
               b == i.end
               k == day(m)
    <3>1. amount \in Nat /\ a \in Nat /\ b \in Nat /\ a < b /\ k \in Nat
      BY <1>5, <1>6, <1>8
    <3> HIDE DEF a, b, k
    <3>2. /\ Entitled(amount, a, b, k) \in Int
          /\ 0 <= Entitled(amount, a, b, k) /\ Entitled(amount, a, b, k) <= amount
          /\ k <= a => Entitled(amount, a, b, k) = 0
          /\ b <= k => Entitled(amount, a, b, k) = amount
      BY ONLY <3>1, EntitlementIs
    <3> QED BY <3>2 DEF a, b, k
  <2> QED BY <1>8, <2>1, <2>2
<1>10. ASSUME NEW m \in Months PROVE movement[m]["2100"] = level[m + 1] - level[m]
  <2>1. m \in 1 .. Len(MonthStart) /\ m + 1 \in 1 .. Len(MonthStart)
    BY <1>7 DEF Months
  <2>2. level[m] = Entitled(amount, i.start, i.end, day(m)) /\ level[m + 1] = Entitled(amount, i.start, i.end, day(m + 1))
    BY <2>1
  <2>3. level[m] \in Int /\ level[m + 1] \in Int
    BY <1>9, <2>1
  <2>4. CASE m < horizon
    <3>1. draw[m] = Entitled(amount, i.start, i.end, MonthStart[m + 1]) - Entitled(amount, i.start, i.end, MonthStart[m])
      BY <1>5, <1>6, EntitlementsSpread DEF draw
    <3>2. movement[m]["2100"] = draw[m]
      BY <2>4 DEF InvoiceMovement, NoMovement, Accounts
    <3> QED BY <1>8, <2>2, <2>4, <3>1, <3>2
  <2>5. CASE ~(m < horizon)
    <3>1. movement[m]["2100"] = 0
      BY <2>5 DEF NoMovement, Accounts
    <3>2. level[m + 1] = level[m]
      BY <1>8, <2>2, <2>5
    <3> QED BY <2>3, <3>1, <3>2
  <2> QED BY <2>4, <2>5
<1> HIDE DEF level, movement
<1>11. \A line \in Lines : line[1] = Poster(i) => journal[line] = NoMovement
  BY <1>4, BlankBefore
<1>12. ASSUME NEW c \in Contracts(seen)
       PROVE  /\ c.contract \in ContractKeys
              /\ FundsIn(LinesOf(seen, c.contract), journal) \in Int
              /\ FundsIn(LinesOf(seen, c.contract), journal') = FundsIn(LinesOf(seen, c.contract), journal)
                    + (IF i.contract = c.contract THEN level[Len(MonthStart)] - level[1] ELSE 0)
  <2> DEFINE key == c.contract
  <2>1. key \in ContractKeys
    BY <1>4 DEF Contracts, OfKind, ContractKeys
  <2>2. Binds(i, key) <=> i.contract = key
    BY <1>4 DEF Binds
  <2>3. \A line \in LinesOf(seen, key) : /\ line[1] # Poster(i) => journal'[line] = journal[line]
                                         /\ line[1] = Poster(i) => journal[line] = NoMovement
    BY <1>3, <1>11 DEF LinesOf
  <2>4. \A m \in Months : Binds(i, key) => journal'[<<Poster(i), m>>]["2100"] = level[m + 1] - level[m]
    <3> SUFFICES ASSUME NEW m \in Months PROVE journal'[<<Poster(i), m>>]["2100"] = level[m + 1] - level[m]
      OBVIOUS
    <3> DEFINE line == <<Poster(i), m>>
    <3>1. line \in Lines /\ line[1] = Poster(i) /\ line[2] = m
      BY <1>4 DEF Lines, Tokens, OfKind
    <3>2. journal'[line] = movement[m]
      BY <1>3, <3>1
    <3> QED BY <1>10, <3>2
  <2>5. FundsIn(LinesOf(seen, key), journal) \in Int
        /\ FundsIn(LinesOf(seen, key), journal') = FundsIn(LinesOf(seen, key), journal)
             + (IF Binds(i, key) THEN level[Len(MonthStart)] - level[1] ELSE 0)
    <3>1. /\ seen \in SUBSET Documents /\ i \in seen /\ journal \in [Lines -> Movements] /\ journal' \in [Lines -> Movements]
          /\ level \in [1 .. Len(MonthStart) -> Int]
      BY <1>4, <1>7, <1>9
    <3> HIDE DEF key
    <3> QED BY ONLY <2>3, <2>4, <3>1, RowFunds
  <2> QED BY <2>1, <2>2, <2>5
<1> SUFFICES ASSUME NEW c \in Contracts(seen)
             PROVE  /\ remaining'[c.contract] >= 0
                    /\ FundsIn(LinesOf(seen, c.contract), journal') + remaining'[c.contract] <= 0
                    /\ (\A j \in Invoices(seen) : j.contract = c.contract => j.end <= MonthStart[horizon])
                          => FundsIn(LinesOf(seen, c.contract), journal') + remaining'[c.contract] = 0
  BY DEF SpentOnce
<1> DEFINE key == c.contract
           was == FundsIn(LinesOf(seen, key), journal)
           is == FundsIn(LinesOf(seen, key), journal')
           moves == level[Len(MonthStart)]
<1>13. /\ key \in ContractKeys /\ was \in Int /\ moves \in Int /\ remaining[key] \in Nat /\ remaining'[key] \in Nat
       /\ is = was + (IF i.contract = key THEN moves ELSE 0)
       /\ remaining'[key] = remaining[key] - (IF i.contract = key THEN amount ELSE 0)
  <2>1. Len(MonthStart) \in 1 .. Len(MonthStart)
    BY <1>7
  <2>2. moves \in Int /\ moves - level[1] = moves
    BY <1>9, <2>1
  <2>3. key \in ContractKeys /\ remaining[key] \in Nat
    BY <1>7, <1>12
  <2>4. remaining'[key] = remaining[key] - (IF i.contract = key THEN amount ELSE 0)
    BY <1>3, <2>3
  <2> QED BY <1>7, <1>12, <2>2, <2>3, <2>4
<1>14. was + remaining[key] <= 0
  BY DEF SpentOnce
<1>15. (\A j \in Invoices(seen) : j.contract = key => j.end <= MonthStart[horizon]) => was + remaining[key] = 0
  BY DEF SpentOnce
<1>16. (\A j \in Invoices(seen) : j.contract = key => j.end <= MonthStart[horizon]) /\ i.contract = key => moves = amount
  BY <1>4, <1>9 DEF Invoices, OfKind
<1>17. moves <= amount
  BY <1>9
<1> HIDE DEF key, was, is, moves
<1>18. is + remaining'[key] <= 0 /\ remaining'[key] >= 0
  BY <1>6, <1>13, <1>14, <1>17
<1>19. (\A j \in Invoices(seen) : j.contract = key => j.end <= MonthStart[horizon]) => is + remaining'[key] = 0
  BY <1>6, <1>13, <1>15, <1>16
<1> QED BY <1>18, <1>19 DEF key, is

\* An expiry takes what is left, and leaves nothing.
LEMMA ExpiryFunds ==
    ASSUME BooksInv, BooksInv', Posting, status = "posting", NEW x \in left, TakeExpiry(x), ~InvalidExpiry(seen, x),
           SpentOnce(seen, horizon, journal, remaining)
    PROVE  SpentOnce(seen, horizon, journal', remaining')
<1> DEFINE amount == remaining[x.contract]
           month == MonthOf(x.ts)
           movement == Monthly(month, [NoMovement EXCEPT !["2100"] = amount, !["4020"] = -amount], NoMovement)
           level == [m \in 1 .. Len(MonthStart) |-> IF m > month THEN amount ELSE 0]
<1>1. x \in Expiries(left) /\ Invoices(left) = {}
  BY DEF TakeExpiry
<1>2. Known(x.contract) /\ ~(lastService[x.contract] > x.ts)
  BY <1>1, ExpiryRefusal DEF TakeExpiry
<1>3. /\ remaining' = [remaining EXCEPT ![x.contract] = 0]
      /\ \A line \in Lines : journal'[line] = IF line[1] = Poster(x) THEN movement[line[2]] ELSE journal[line]
  BY <1>1, <1>2, ExpiryRefusal DEF TakeExpiry, Post
<1>4. /\ seen \in SUBSET Documents /\ x \in seen /\ x \in Documents /\ x \notin Done /\ x.kind = "expiry" /\ x \in Posters(seen)
      /\ Poster(x) = x.id /\ x.ts < MonthStart[horizon]
  BY <1>1, SeenIs DEF Posting, DoneFirst, Expiries, OfKind, Posters, Poster, seen, Visible
<1>5. /\ horizon \in 2 .. Len(MonthStart) /\ journal \in [Lines -> Movements] /\ journal' \in [Lines -> Movements]
      /\ remaining \in [ContractKeys -> Nat] /\ Len(MonthStart) \in Nat /\ x.contract \in ContractKeys
  BY <1>2, SeenIsDocumented, MonthsAssumption DEF BooksInv, RunningState, BookTypes
<1>6. month \in Months /\ amount \in Nat
  BY <1>4, <1>5, CalendarAssumption, DayHasMonth
<1> HIDE DEF amount, month
<1>7. level \in [1 .. Len(MonthStart) -> Int]
  BY <1>6
<1>8. level[Len(MonthStart)] - level[1] = amount
  BY <1>5, <1>6 DEF Months
<1>9. ASSUME NEW m \in Months PROVE movement[m]["2100"] = level[m + 1] - level[m]
  <2>1. m \in 1 .. Len(MonthStart) /\ m + 1 \in 1 .. Len(MonthStart) /\ m \in Int /\ month \in Int
    BY <1>5, <1>6 DEF Months
  <2>2. level[m + 1] - level[m] = IF m = month THEN amount ELSE 0
    BY <1>6, <2>1
  <2> HIDE DEF level
  <2>3. CASE m = month
    <3>1. movement[m] = [NoMovement EXCEPT !["2100"] = amount, !["4020"] = -amount]
      BY <2>3 DEF Monthly
    <3>2. movement[m]["2100"] = amount
      BY <3>1 DEF NoMovement, Accounts
    <3> QED BY <2>2, <2>3, <3>2
  <2>4. CASE m # month
    <3>1. movement[m] = NoMovement
      BY <2>4 DEF Monthly
    <3>2. movement[m]["2100"] = 0
      BY <3>1 DEF NoMovement, Accounts
    <3> QED BY <2>2, <2>4, <3>2
  <2> QED BY <2>3, <2>4
<1> HIDE DEF level, movement
<1>10. \A line \in Lines : line[1] = Poster(x) => journal[line] = NoMovement
  BY <1>4, BlankBefore
<1>11. ASSUME NEW c \in Contracts(seen)
       PROVE  /\ c.contract \in ContractKeys
              /\ FundsIn(LinesOf(seen, c.contract), journal) \in Int
              /\ FundsIn(LinesOf(seen, c.contract), journal') = FundsIn(LinesOf(seen, c.contract), journal)
                    + (IF x.contract = c.contract THEN amount ELSE 0)
  <2> DEFINE key == c.contract
  <2>1. key \in ContractKeys
    BY <1>4 DEF Contracts, OfKind, ContractKeys
  <2>2. Binds(x, key) <=> x.contract = key
    BY <1>4 DEF Binds
  <2>3. \A line \in LinesOf(seen, key) : /\ line[1] # Poster(x) => journal'[line] = journal[line]
                                         /\ line[1] = Poster(x) => journal[line] = NoMovement
    BY <1>3, <1>10 DEF LinesOf
  <2>4. \A m \in Months : Binds(x, key) => journal'[<<Poster(x), m>>]["2100"] = level[m + 1] - level[m]
    <3> SUFFICES ASSUME NEW m \in Months PROVE journal'[<<Poster(x), m>>]["2100"] = level[m + 1] - level[m]
      OBVIOUS
    <3> DEFINE line == <<Poster(x), m>>
    <3>1. line \in Lines /\ line[1] = Poster(x) /\ line[2] = m
      BY <1>4 DEF Lines, Tokens, OfKind
    <3>2. journal'[line] = movement[m]
      BY <1>3, <3>1
    <3> QED BY <1>9, <3>2
  <2>5. FundsIn(LinesOf(seen, key), journal) \in Int
        /\ FundsIn(LinesOf(seen, key), journal') = FundsIn(LinesOf(seen, key), journal)
             + (IF Binds(x, key) THEN level[Len(MonthStart)] - level[1] ELSE 0)
    <3>1. /\ seen \in SUBSET Documents /\ x \in seen /\ journal \in [Lines -> Movements] /\ journal' \in [Lines -> Movements]
          /\ level \in [1 .. Len(MonthStart) -> Int]
      BY <1>4, <1>5, <1>7
    <3> HIDE DEF key
    <3> QED BY ONLY <2>3, <2>4, <3>1, RowFunds
  <2> QED BY <1>8, <2>1, <2>2, <2>5
<1> SUFFICES ASSUME NEW c \in Contracts(seen)
             PROVE  /\ remaining'[c.contract] >= 0
                    /\ FundsIn(LinesOf(seen, c.contract), journal') + remaining'[c.contract]
                         = FundsIn(LinesOf(seen, c.contract), journal) + remaining[c.contract]
  <2>1. ASSUME NEW c \in Contracts(seen)
        PROVE  /\ remaining'[c.contract] >= 0
               /\ FundsIn(LinesOf(seen, c.contract), journal') + remaining'[c.contract]
                    = FundsIn(LinesOf(seen, c.contract), journal) + remaining[c.contract]
    OBVIOUS
  <2> QED BY <2>1 DEF SpentOnce
<1> DEFINE key == c.contract
<1>12. key \in ContractKeys /\ remaining[key] \in Nat
  BY <1>5, <1>11
<1>13. remaining'[key] = IF x.contract = key THEN 0 ELSE remaining[key]
  BY <1>3, <1>5, <1>12
<1>14. x.contract = key => remaining[key] = amount
  BY DEF amount
<1> HIDE DEF key
<1>15. /\ FundsIn(LinesOf(seen, key), journal) \in Int
       /\ FundsIn(LinesOf(seen, key), journal') = FundsIn(LinesOf(seen, key), journal)
             + (IF x.contract = key THEN amount ELSE 0)
  BY <1>11 DEF key
<1>16. /\ remaining'[key] >= 0
       /\ FundsIn(LinesOf(seen, key), journal') + remaining'[key] = FundsIn(LinesOf(seen, key), journal) + remaining[key]
  <2> DEFINE was == FundsIn(LinesOf(seen, key), journal)
             is == FundsIn(LinesOf(seen, key), journal')
  <2>1. was \in Int /\ is = was + (IF x.contract = key THEN amount ELSE 0)
    BY <1>15
  <2> HIDE DEF was, is
  <2>2. remaining'[key] >= 0 /\ is + remaining'[key] = was + remaining[key]
    BY <1>6, <1>12, <1>13, <1>14, <2>1
  <2> QED BY <2>2 DEF was, is
<1> QED BY <1>16 DEF key

(***************************************************************************)
(* A late invoice is local.  B is what a report saw before, S with it.     *)
(***************************************************************************)
Before(B, S, i) == S \in SUBSET Documents /\ i \in Invoices(S) /\ B = S \ {i}

LEMMA OneMore ==
    ASSUME NEW B, NEW S, NEW i, Before(B, S, i)
    PROVE  /\ Contracts(B) = Contracts(S) /\ Expiries(B) = Expiries(S) /\ Subscriptions(B) = Subscriptions(S)
           /\ \A j : j \in Invoices(B) <=> j \in Invoices(S) /\ j # i
           /\ i.kind = "invoice" /\ i \in S /\ i \in Documents
BY DEF Before, Contracts, Expiries, Subscriptions, Invoices, OfKind

\* An invoice draws as before, unless it ends no earlier under the same contract.
LEMMA DrawStays ==
    ASSUME NEW B, NEW S, NEW i, Before(B, S, i), NEW d \in Invoices(B),
           d.contract # i.contract \/ d.end < i.end \/ d.contract = None
    PROVE  Draw(B, d) = Draw(S, d)
<1>1. CASE d.contract = None
  BY <1>1 DEF Draw
<1>2. CASE d.contract # i.contract \/ d.end < i.end
  <2>1. d.end \in Nat /\ i.end \in Nat
    BY OneMore, DocumentsAssumption DEF Before, Invoices, OfKind
  <2>2. ~(i.contract = d.contract /\ InvoiceBefore(i, d))
    BY <1>2, <2>1 DEF InvoiceBefore
  <2>3. Earlier(B, d) = Earlier(S, d)
    BY <2>2, OneMore DEF Earlier
  <2>4. ContractOf(B, d) = ContractOf(S, d)
    BY OneMore DEF ContractOf
  <2> QED BY <2>3, <2>4 DEF Draw, Committed, Prior
<1> QED BY <1>1, <1>2

LEMMA SpentStays ==
    ASSUME NEW B, NEW S, NEW i, Before(B, S, i), NEW x, x.contract # i.contract
    PROVE  ExpiryAmount(B, x) = ExpiryAmount(S, x)
<1> DEFINE F == {j \in Invoices(B) : j.contract = x.contract}
<1>1. F = {j \in Invoices(S) : j.contract = x.contract}
  BY OneMore
<1>2. \A j \in F : Draw(B, j) = Draw(S, j)
  BY DrawStays
<1>3. [j \in F |-> Draw(B, j)] = [j \in F |-> Draw(S, j)]
  BY <1>2
<1>4. Spent(B, x) = SumFunction([j \in F |-> Draw(B, j)]) /\ Spent(S, x) = SumFunction([j \in F |-> Draw(S, j)])
  BY <1>1 DEF Spent
<1>5. ContractOf(B, x) = ContractOf(S, x)
  BY OneMore DEF ContractOf
<1> QED BY <1>3, <1>4, <1>5 DEF ExpiryAmount, Committed

LEMMA SubscriptionStays ==
    ASSUME NEW B, NEW S, NEW i, Before(B, S, i), NEW h, NEW s, NEW m
    PROVE  SubscriptionAmount(B, h, s, m) = SubscriptionAmount(S, h, s, m) /\ \A d : After(B, d) = After(S, d)
<1>1. \A z : EventsOf(B, z) = EventsOf(S, z)
  BY OneMore DEF EventsOf
<1>2. \A d : UpTo(B, d) = UpTo(S, d) /\ After(B, d) = After(S, d)
  BY <1>1 DEF UpTo, After
<1>3. \A d : StopDay(B, h, d) = StopDay(S, h, d)
  BY <1>2 DEF StopDay
<1>4. \A d : SeatDayCents(B, h, d, m) = SeatDayCents(S, h, d, m)
  BY <1>2, <1>3 DEF SeatDayCents
<1>5. [e \in EventsOf(B, s) |-> SeatDayCents(B, h, e, m)] = [e \in EventsOf(S, s) |-> SeatDayCents(S, h, e, m)]
  BY <1>1, <1>4
<1> QED BY <1>2, <1>5 DEF SubscriptionAmount

\* What the views say a document earns, with the late invoice and without.
LEMMA RevenueMoves ==
    ASSUME NEW B, NEW S, NEW i, Before(B, S, i), NEW h, NEW d \in B, NEW m \in Months,
           d.kind = "invoice" => d.start < d.end,
           ColumnarRevenue(B, h, d, m) # ColumnarRevenue(S, h, d, m)
    PROVE  /\ d.kind \in {"invoice", "expiry"} /\ d.contract = i.contract
           /\ d.kind = "invoice" =>
                d.end >= i.end /\ Earned(ColumnarRevenue(B, h, d, m)) = Earned(ColumnarRevenue(S, h, d, m))
<1>1. d \in S /\ d \in Documents /\ B \in SUBSET Documents /\ S \in SUBSET Documents
  BY DEF Before
<1>2. CASE d.kind = "invoice"
  <2>1. d \in Invoices(B) /\ d \in Invoices(S)
    BY <1>1, <1>2 DEF Invoices, OfKind
  <2>2. Draw(B, d) # Draw(S, d)
    <3> SUFFICES ASSUME Draw(B, d) = Draw(S, d) PROVE FALSE
      OBVIOUS
    <3> QED BY <1>2 DEF ColumnarRevenue
  <2>3. d.contract = i.contract /\ ~(d.end < i.end)
    BY <2>1, <2>2, DrawStays
  <2>4. d.end \in Nat /\ i.end \in Nat
    BY <1>1, <1>2, OneMore, DocumentsAssumption
  <2>5. Earned(ColumnarRevenue(B, h, d, m)) = Earned(ColumnarRevenue(S, h, d, m))
    BY <1>1, <1>2, <2>1, InvoiceEarns
  <2> QED BY <1>2, <2>3, <2>4, <2>5
<1>3. CASE d.kind = "expiry"
  <2>1. ExpiryAmount(B, d) # ExpiryAmount(S, d)
    <3> SUFFICES ASSUME ExpiryAmount(B, d) = ExpiryAmount(S, d) PROVE FALSE
      OBVIOUS
    <3> QED BY <1>3 DEF ColumnarRevenue
  <2> QED BY <1>3, <2>1, SpentStays
<1>4. CASE d.kind = "subscription"
  <2>1. SubscriptionAmount(B, h, d.subscription, m) = SubscriptionAmount(S, h, d.subscription, m)
    BY SubscriptionStays
  <2> QED BY <1>4, <2>1 DEF ColumnarRevenue
<1>5. CASE d.kind \notin {"invoice", "expiry", "subscription"}
  BY <1>5 DEF ColumnarRevenue
<1> QED BY <1>2, <1>3, <1>4, <1>5

\* Only the invoice's own line has another poster.
LEMMA PosterStays ==
    ASSUME NEW B, NEW S, NEW i, Before(B, S, i), NEW d \in B
    PROVE  /\ {p \in Posters(B) : Poster(p) = Poster(d)} = {p \in Posters(S) : Poster(p) = Poster(d)}
           /\ \A p \in Posters(B) : Poster(p) = Poster(d) => p = d \/ p.kind = "subscription"
<1>1. d \in S /\ d \in Documents /\ d # i /\ S \subseteq Documents
  BY DEF Before
<1>2. Poster(d) # i.id /\ Poster(i) = i.id
  BY <1>1, OneMore, IdentitiesAssumption DEF Poster
<1>3. \A p : p \in Posters(B) <=> p \in Posters(S) /\ p # i
  <2>1. \A p : After(B, p) = After(S, p)
    BY SubscriptionStays
  <2> QED BY <2>1 DEF Posters, Before
<1>4. ASSUME NEW p \in Posters(B), Poster(p) = Poster(d), p.kind # "subscription" PROVE p = d
  <2>1. p \in Documents
    BY <1>1, <1>3 DEF Posters
  <2> QED BY <1>1, <1>4, <2>1, IdentitiesAssumption DEF Poster
<1> QED BY <1>2, <1>3, <1>4

LEMMA LateIsLocal ==
    ASSUME NEW B, NEW S, NEW i, Before(B, S, i), NEW h, NEW d \in B \ Tokens(B), NEW m \in Months,
           \A j \in Invoices(S) : ~InvalidInvoice(S, j),
           ColumnarEarnings(B, h)[<<Poster(d), m>>] # ColumnarEarnings(S, h)[<<Poster(d), m>>]
    PROVE  /\ d.kind \in {"invoice", "expiry"} /\ d.contract = i.contract
           /\ d.kind = "invoice" =>
                /\ d.end >= i.end
                /\ Earned(ColumnarEarnings(B, h)[<<Poster(d), m>>]) = Earned(ColumnarEarnings(S, h)[<<Poster(d), m>>])
<1> DEFINE line == <<Poster(d), m>>
           P == {p \in Posters(B) : Poster(p) = Poster(d)}
           p == CHOOSE q \in P : TRUE
<1>1. d \in S /\ d \in Documents /\ line \in Lines /\ line[1] = Poster(d) /\ line[2] = m
  BY DEF Before, Lines, Tokens, OfKind
<1>2. P = {q \in Posters(S) : Poster(q) = Poster(d)}
  BY PosterStays
<1>3. /\ ColumnarEarnings(B, h)[line] = IF P = {} THEN NoRevenue ELSE ColumnarRevenue(B, h, p, m)
      /\ ColumnarEarnings(S, h)[line] = IF P = {} THEN NoRevenue ELSE ColumnarRevenue(S, h, p, m)
  <2>1. ColumnarEarnings(B, h)[line] = IF P = {} THEN NoRevenue ELSE ColumnarRevenue(B, h, p, m)
    BY <1>1 DEF ColumnarEarnings
  <2>2. ColumnarEarnings(S, h)[line] = IF P = {} THEN NoRevenue ELSE ColumnarRevenue(S, h, p, m)
    <3>1. ColumnarEarnings(S, h)[line] =
            LET D == {q \in Posters(S) : Poster(q) = line[1]}
            IN  IF D = {} THEN NoRevenue ELSE ColumnarRevenue(S, h, CHOOSE q \in D : TRUE, line[2])
      BY <1>1 DEF ColumnarEarnings
    <3>2. {q \in Posters(S) : Poster(q) = line[1]} = P
      BY <1>1, <1>2
    <3> QED BY <1>1, <3>1, <3>2
  <2> QED BY <2>1, <2>2
<1>4. P # {} => p \in P
  OBVIOUS
<1>5. P # {}
  BY <1>3 DEF line
<1>6. p \in B /\ p \in Posters(B) /\ Poster(p) = Poster(d)
  BY <1>4, <1>5 DEF Posters
<1>7. p.kind = "invoice" => p.start < p.end
  <2> SUFFICES ASSUME p.kind = "invoice" PROVE p.start < p.end
    OBVIOUS
  <2>1. p \in Invoices(S) /\ p \in Documents
    BY <1>6 DEF Before, Invoices, OfKind
  <2>2. p.start \in Nat /\ p.end \in Nat
    BY <2>1, DocumentsAssumption
  <2>3. ~(p.end <= p.start)
    BY <2>1 DEF InvalidInvoice
  <2> QED BY <2>2, <2>3
<1> HIDE DEF p, P, line
<1>8. ColumnarRevenue(B, h, p, m) # ColumnarRevenue(S, h, p, m)
  BY <1>3, <1>5 DEF line
<1>9. /\ p.kind \in {"invoice", "expiry"} /\ p.contract = i.contract
      /\ p.kind = "invoice" =>
           p.end >= i.end /\ Earned(ColumnarRevenue(B, h, p, m)) = Earned(ColumnarRevenue(S, h, p, m))
  BY <1>6, <1>7, <1>8, RevenueMoves
<1>10. p = d
  BY <1>6, <1>9, PosterStays
<1> QED BY <1>3, <1>5, <1>9, <1>10 DEF line

LEMMA LateFollows ==
    ASSUME BooksInv, ImplementationsAgree
    PROVE  LateInvoiceIsLocal
<1> SUFFICES ASSUME status = "accepted", NEW i \in Invoices(seen), NEW B, B = seen \ {i},
                    NEW d \in B \ Tokens(B), NEW m \in Months,
                    ColumnarEarnings(B, horizon)[<<Poster(d), m>>] # earnings[<<Poster(d), m>>]
             PROVE  /\ d.kind \in {"invoice", "expiry"} /\ d.contract = i.contract
                    /\ d.kind = "invoice" =>
                         /\ d.end >= i.end
                         /\ Earned(ColumnarEarnings(B, horizon)[<<Poster(d), m>>]) = Earned(earnings[<<Poster(d), m>>])
  BY DEF LateInvoiceIsLocal
<1>1. ~AccountingErrors(seen) /\ earnings = ColumnarEarnings(seen, horizon)
  BY DEF ImplementationsAgree, BookErrors
<1>2. \A j \in Invoices(seen) : ~InvalidInvoice(seen, j)
  BY <1>1 DEF AccountingErrors
<1>3. Before(B, seen, i)
  BY SeenIs DEF Before
<1> QED BY <1>1, <1>2, <1>3, LateIsLocal

(***************************************************************************)
(* Commitments are spent once, and in order.                               *)
(***************************************************************************)
CommitInv == AgreeInv /\ CommitIsSpentOnce

LEMMA CommitStep ==
    ASSUME ServiceIsOnCalendar, CommitInv, [Next]_vars
    PROVE  CommitInv'
<1> DEFINE Spent1 == status' = "posting" => SpentOnce(seen', horizon', journal', remaining')
<1>0. /\ AgreeInv' /\ BooksInv /\ BooksInv' /\ (status = "posting" => Posting)
      /\ (status = "posting" => SpentOnce(seen, horizon, journal, remaining))
  BY AgreeStep, SpentOnceIs DEF CommitInv, AgreeInv
<1>1. ASSUME status' # "posting" PROVE Spent1
  BY <1>1
<1>2. ASSUME NEW h \in 2 .. Len(MonthStart), Open(h) PROVE Spent1
  BY <1>0, <1>2, OpenFunds
<1>3. ASSUME docs' = docs, horizon' = horizon PROVE seen' = seen
  BY <1>3 DEF seen
<1>4. ASSUME NEW i \in left, TakeInvoice(i) PROVE Spent1
  <2>1. status = "posting" /\ Posting /\ SpentOnce(seen, horizon, journal, remaining) /\ NextInvoice(i)
    BY <1>0, <1>4 DEF TakeInvoice, NextInvoice
  <2>2. CASE InvalidInvoice(seen, i)
    <3>1. Refuse
      BY <1>0, <1>4, <2>1, <2>2, InvoiceRefusal DEF TakeInvoice
    <3> QED BY <1>1, <3>1 DEF Refuse
  <2>3. CASE ~InvalidInvoice(seen, i)
    <3>1. docs' = docs /\ horizon' = horizon
      BY <1>0, <1>4, <2>1, <2>3, InvoiceRefusal DEF TakeInvoice
    <3>2. SpentOnce(seen, horizon, journal', remaining')
      BY <1>0, <1>4, <2>1, <2>3, InvoiceFunds
    <3> QED BY <1>3, <3>1, <3>2
  <2> QED BY <2>2, <2>3
<1>5. ASSUME NEW x \in left, TakeExpiry(x) PROVE Spent1
  <2>1. /\ status = "posting" /\ Posting /\ SpentOnce(seen, horizon, journal, remaining)
        /\ x \in Expiries(left) /\ Invoices(left) = {}
    BY <1>0, <1>5 DEF TakeExpiry
  <2>2. CASE InvalidExpiry(seen, x)
    <3>1. Refuse
      BY <1>0, <1>5, <2>1, <2>2, ExpiryRefusal DEF TakeExpiry
    <3> QED BY <1>1, <3>1 DEF Refuse
  <2>3. CASE ~InvalidExpiry(seen, x)
    <3>1. docs' = docs /\ horizon' = horizon
      BY <1>0, <1>5, <2>1, <2>3, ExpiryRefusal DEF TakeExpiry
    <3>2. SpentOnce(seen, horizon, journal', remaining')
      BY <1>0, <1>5, <2>1, <2>3, ExpiryFunds
    <3> QED BY <1>3, <3>1, <3>2
  <2> QED BY <2>2, <2>3
<1>6. ASSUME NEW d \in left, d \in Documents, d.kind \notin {"contract", "invoice", "expiry"},
             status = "posting", docs' = docs, horizon' = horizon, remaining' = remaining,
             \A line \in Lines : line[1] # Poster(d) => journal'[line] = journal[line]
      PROVE  Spent1
  <2>1. SpentOnce(seen, horizon, journal', remaining)
    BY <1>0, <1>6, OthersSpend
  <2> QED BY <1>3, <1>6, <2>1
<1>7. \A d \in left : d \in Documents
  BY <1>0 DEF BooksInv, RunningState
<1>8. ASSUME NEW c \in left, TakeCredit(c) PROVE Spent1
  <2>1. CASE Refuse
    BY <1>1, <2>1 DEF Refuse
  <2>2. CASE ~Refuse
    <3>1. /\ status = "posting" /\ docs' = docs /\ horizon' = horizon /\ remaining' = remaining
          /\ \A line \in Lines : line[1] # Poster(c) => journal'[line] = journal[line]
      BY <1>8, <2>2 DEF TakeCredit, Post
    <3>2. c.kind \notin {"contract", "invoice", "expiry"}
      BY <1>8 DEF TakeCredit, Credits, OfKind
    <3> QED BY <1>6, <1>7, <3>1, <3>2
  <2> QED BY <2>1, <2>2
<1>9. ASSUME NEW e \in left, TakeEvent(e) PROVE Spent1
  <2>1. CASE ~e.monthly
    <3>1. Refuse
      BY <1>9, <2>1 DEF TakeEvent
    <3> QED BY <1>1, <3>1 DEF Refuse
  <2>2. CASE e.monthly
    <3>1. status = "posting" /\ docs' = docs /\ horizon' = horizon /\ remaining' = remaining /\ left = Subscriptions(left)
      BY <1>9, <2>2 DEF TakeEvent
    <3>2. \A line \in Lines : line[1] # Poster(e) => journal'[line] = journal[line]
      BY <1>9, <2>2 DEF TakeEvent, Post
    <3>3. e.kind \notin {"contract", "invoice", "expiry"}
      BY <3>1 DEF Subscriptions, OfKind
    <3> QED BY <1>6, <1>7, <3>1, <3>2, <3>3
  <2> QED BY <2>1, <2>2
<1>10. ASSUME UNCHANGED vars PROVE Spent1
  <2>1. status' = status /\ docs' = docs /\ horizon' = horizon /\ journal' = journal /\ remaining' = remaining
    BY <1>10 DEF vars, report
  <2> QED BY <1>0, <1>3, <2>1
<1>11. ASSUME (\E d \in Documents : Record(d)) \/ Check \/ Close PROVE Spent1
  <2>1. status' # "posting"
    BY <1>11 DEF Record, Check, Close, Refuse
  <2> QED BY <1>1, <2>1
<1>12. Spent1
  BY <1>2, <1>4, <1>5, <1>8, <1>9, <1>10, <1>11 DEF Next
<1>13. CommitIsSpentOnce'
  <2>1. (CommitIsSpentOnce <=> (status = "posting" => SpentOnce(seen, horizon, journal, remaining)))'
    BY SpentOnceIs, PTL
  <2> QED BY <1>12, <2>1
<1> QED BY <1>0, <1>13 DEF CommitInv

\* At every step what is left of a commitment is at most what its lines defer, and
\* exactly that once its services are over, so it is spent once and not after its
\* expiry; and an invoice that arrives late moves only the
\* funding of its own contract's later invoices and its expiry -- for all documents and
\* months, as long as no service begins before the stream's first month
\* (tl/compare/accounting.py:97, :132).
THEOREM CommitmentsAreAlwaysSpentInOrder ==
    ServiceIsOnCalendar => (Spec => []CommitmentsAreSpentInOrder)
<1> SUFFICES ASSUME ServiceIsOnCalendar PROVE Spec => []CommitmentsAreSpentInOrder
  OBVIOUS
<1>1. Init => CommitInv
  <2> SUFFICES ASSUME Init PROVE CommitInv
    OBVIOUS
  <2>1. BooksInv /\ status = "idle"
    BY InitBooks DEF Init
  <2> QED BY <2>1 DEF CommitInv, AgreeInv, ImplementationsAgree, CommitIsSpentOnce
<1>2. CommitInv /\ [Next]_vars => CommitInv'
  BY CommitStep
<1>3. CommitInv => CommitmentsAreSpentInOrder
  BY LateFollows DEF CommitInv, AgreeInv, CommitmentsAreSpentInOrder
<1> QED BY <1>1, <1>2, <1>3, PTL DEF Spec
=============================================================================
