----------------------------- MODULE ReturnsProofs -----------------------------
(***************************************************************************)
(* Properties of Returns for every value of its constants; the last four   *)
(* for prices that are whole per unit, since rounding breaks them, and the *)
(* last of them for exchanges at most a unit's price cheaper.  Five        *)
(* invariants, one for each part of the state: the returns and the order's *)
(* status, the payment of a difference, the books of units and money, what *)
(* a picked-up return is worth, and what an exchange's credit leaves.      *)
(***************************************************************************)
EXTENDS Returns, Sums, TLAPS

RefundStates == {None, "requested", "approved", "completed", "rejected"}
ReturnRows == [ReturnIds -> [kind : {None, "return", "exchange"}, status : ReturnStates,
                             lines : Lines \cup {NoLines}, open : BOOLEAN,
                             diff : Int, fee : Fees \cup {0}]]
RefundRows == [Refunds -> [state : RefundStates, amount : Nat, lines : Lines \cup {NoLines},
                           of : ReturnIds \cup {None}, by : {None, "A-507", "A-511"}]]

(* The order and its returns. *)
StatusesOf(kind) ==
    IF kind = "return" THEN {"ReturnOpen", "ReturnPickedUp", "Refunded", "Rejected"}
    ELSE {"ExchangeOpen", "ExchangePicked", "ExchangeDiffDue", "ExchangeShipped", "Rejected"}
\* A row is empty, or its status is one of its kind's and tells whether its
\* units are still on their way.
RowsAgree ==
    \A r \in ReturnIds :
        \/ ret[r] = NoReturn
        \/ /\ ret[r].kind \in {"return", "exchange"}
           /\ ret[r].status \in StatusesOf(ret[r].kind)
           /\ ret[r].lines \in Lines
           /\ ret[r].open <=> ret[r].status \in InProgress
           /\ ret[r].status = "ExchangeDiffDue" => ret[r].diff > 0
\* One return is open at a time, and the order shows its status; save that the
\* order may be closed over a return that was picked up.
ClosedOver(r) == ret[r].status = "ReturnPickedUp" /\ status = "Refunded"
OrderShows ==
    /\ \A r \in ReturnIds : ret[r].open => ret[r].status = status \/ ClosedOver(r)
    /\ \A r, s \in ReturnIds : ret[r].open /\ ret[s].open => r = s
ReturnsInv == status \in OrderStates /\ ret \in ReturnRows /\ RowsAgree /\ OrderShows

(* The payment of a difference. *)
PayTypes ==
    /\ pay \in [Keys -> [state : {None, "pending", "approved", "failed"},
                         of : ReturnIds \cup {None}]]
    /\ request \in [Keys -> {Idle} \cup (Phases \X ReturnIds)]
    /\ wire \subseteq Keys /\ accounts \subseteq Keys /\ taken \subseteq Keys
\* Who has asked the gateway has a pending row, and knows what it did.
RowOpen(k, r) == pay[k] = [state |-> "pending", of |-> r] /\ k \notin wire
AskedAt(k, r) ==
    /\ In(k, "calling", r)  => RowOpen(k, r) /\ k \notin taken \cup accounts
    /\ In(k, "approved", r) => RowOpen(k, r) /\ k \in taken \ accounts
    /\ In(k, "refused", r)  => RowOpen(k, r) /\ k \notin taken \cup accounts
    /\ In(k, "waiting", r)  => RowOpen(k, r) /\ k \in accounts
AskedHasRow == \A k \in Keys, r \in ReturnIds : AskedAt(k, r)
\* Only what was asked was taken, and a failed row has taken nothing of a card.
FailedTookNothing ==
    \A k \in Keys :
        /\ k \in wire => pay[k].state = "pending" /\ k \notin taken \cup accounts
        /\ k \in taken \cup accounts => pay[k] # NoPay
        /\ k \in taken \ accounts => pay[k].state \in {"pending", "approved"}
        /\ pay[k].state = "approved" => k \in taken
        /\ pay[k] # NoPay => pay[k].state # None
LivePay(k) == pay[k].state \in {"pending", "approved"}
OneLiveDiff ==
    \A j, k \in Keys :
        pay[j].of = pay[k].of /\ LivePay(j) /\ LivePay(k) => j = k
PayInv == PayTypes /\ AskedHasRow /\ FailedTookNothing /\ OneLiveDiff

(* The books. *)
LiveRefunds == {f \in Refunds : Live(f)}
SettledReturns == {r \in ReturnIds : ret[r].status = "Refunded"}
OpenReturns    == {r \in ReturnIds : ret[r].open}
HeldExchanges  == {r \in ReturnIds : ret[r].kind = "exchange" /\ ret[r].status # "Rejected"}
Reserved    == SumOver(LiveRefunds, [f \in Refunds |-> refund[f].amount])
Back(i)     == SumOver(LiveRefunds, [f \in Refunds |-> refund[f].lines[i]])
Returned(i) == SumOver(SettledReturns, [r \in ReturnIds |-> ret[r].lines[i]])
Leaving(i)  == SumOver(OpenReturns, [r \in ReturnIds |-> ret[r].lines[i]])
Held        == SumOver(HeldExchanges, [r \in ReturnIds |-> Units(ret[r].lines)])
\* What went back and what is on its way fit in the quantity, and what went
\* back is settled; a close settles the rest.
UnitsAgree(i) ==
    /\ settled[i] \in 0..Quantity[i]
    /\ Back(i) + Returned(i) + Leaving(i) <= Quantity[i]
    /\ Back(i) + Returned(i) <= settled[i]
    /\ status # "Refunded" => settled[i] = Back(i) + Returned(i)
BooksInv ==
    /\ refund \in RefundRows /\ closing \subseteq Refunds
    /\ refunded \in 0..Approved /\ refunded = Reserved
    /\ \A i \in Items : UnitsAgree(i)
    /\ stock \in 0..Stock /\ stock = Stock - Held

(* Prices.  If a unit of every item has a price, and something of an order    *)
(* stays unpaid while a unit is on its way, refunding units in any order,     *)
(* with rejections in between, gives back what they cost.  Where the discount *)
(* leaves a rest, the shares of discount.go are rounded at the units settled  *)
(* so far, and what units are worth depends on the order.                     *)
UnitPrice == [i \in Items |-> Net[i] \div Quantity[i]]
WholePrices == \A i \in Items : /\ Net[i] = UnitPrice[i] * Quantity[i]
                                /\ Net[i] > 0 \/ Shipping > 0
Price(l) == SumOver(Items, [i \in Items |-> UnitPrice[i] * l[i]])
Gone == [i \in Items |-> Back(i) + Returned(i)]
NoCredit == status # "ExchangeShipped"
\* An exchange that shipped is the order's last return.
ShippedIsLast == \A r \in ReturnIds : ret[r].status = "ExchangeShipped" => ~NoCredit
\* The refund of a return comes with its settlement.
RefundOfSettled ==
    \A f \in Refunds : refund[f].of # None =>
        ret[refund[f].of].status \in {"Refunded", "ExchangeShipped"}
\* Until then what was reserved is worth the units that went, and a rejection
\* takes back no less than its units' price.
PaidByUnit ==
    NoCredit => /\ Reserved <= Price(Gone)
                /\ \A f \in Refunds : Live(f) => Price(refund[f].lines) <= refund[f].amount
PickedUpOpen ==
    \A r \in ReturnIds : ret[r].status = "ReturnPickedUp" =>
        /\ status = "ReturnPickedUp"
        /\ Price(ret[r].lines) = 0 \/ ret[r].fee < Price(ret[r].lines)
MoneyInv == ShippedIsLast /\ RefundOfSettled /\ PaidByUnit /\ PickedUpOpen
-----------------------------------------------------------------------------
(* The order and its returns                                                 *)

\* What A-511 moves, in an order and in a return.
LEMMA SellerMoves ==
    ASSUME NEW from, NEW to, CanTransition(from, to, "A-511")
    PROVE  <<from, to>> \in {<<"ReturnOpen", "ReturnPickedUp">>, <<"ReturnOpen", "Delivered">>,
                             <<"ReturnPickedUp", "Refunded">>, <<"ReturnPickedUp", "Delivered">>,
                             <<"ExchangeOpen", "ExchangePicked">>, <<"ExchangeOpen", "Delivered">>,
                             <<"ExchangePicked", "ExchangeShipped">>,
                             <<"ExchangePicked", "ExchangeDiffDue">>}
BY DEF CanTransition, transitions, Moves

\* What the others move.
LEMMA OtherMoves ==
    ASSUME NEW from, NEW to
    PROVE  /\ CanTransition(from, to, "P-511") => from = "Delivered" /\ to = "ReturnOpen"
           /\ CanTransition(from, to, "P-512") => from = "Delivered" /\ to = "ExchangeOpen"
           /\ CanTransition(from, to, "P-514") => from = "ExchangeDiffDue" /\ to = "ExchangeShipped"
           /\ CanTransition(from, to, "P-510") => from = "Delivered" /\ to = "Confirmed"
           /\ CanTransition(from, "Refunded", "A-507") => from \in {"Delivered", "Shipping"}
BY DEF CanTransition, transitions, Moves

\* One return is opened, moves or is closed, and the order with it; no other
\* return is open.
LEMMA ReturnWritten ==
    ASSUME ReturnsInv, NEW r \in ReturnIds,
           status' \in OrderStates, ret' \in ReturnRows,
           \A s \in ReturnIds : s # r => ret'[s] = ret[s] /\ ~ret[s].open,
           ret'[r].kind \in {"return", "exchange"}, ret'[r].lines \in Lines,
           ret'[r].status \in StatusesOf(ret'[r].kind),
           ret'[r].open <=> ret'[r].status \in InProgress,
           ret'[r].status = "ExchangeDiffDue" => ret'[r].diff > 0,
           ret'[r].open => ret'[r].status = status'
    PROVE  ReturnsInv'
<1>1. RowsAgree'
  <2> SUFFICES ASSUME NEW s \in ReturnIds
               PROVE  \/ ret'[s] = NoReturn
                      \/ /\ ret'[s].kind \in {"return", "exchange"}
                         /\ ret'[s].status \in StatusesOf(ret'[s].kind)
                         /\ ret'[s].lines \in Lines
                         /\ ret'[s].open <=> ret'[s].status \in InProgress
                         /\ ret'[s].status = "ExchangeDiffDue" => ret'[s].diff > 0
    BY DEF RowsAgree, StatusesOf, InProgress
  <2> QED
    BY DEF ReturnsInv, RowsAgree
<1>2. OrderShows'
  BY DEF OrderShows, ClosedOver
<1> QED
  BY <1>1, <1>2 DEF ReturnsInv

\* No return is open while the order is delivered, confirmed or exchanged.
LEMMA NothingOpen ==
    ASSUME ReturnsInv, status \in {"Delivered", "Confirmed", "ExchangeShipped"}
    PROVE  \A r \in ReturnIds : ~ret[r].open
BY DEF ReturnsInv, RowsAgree, OrderShows, ClosedOver, InProgress, NoReturn

\* A return that may move is open, alone, and knows its kind.
LEMMA StepsOpen ==
    ASSUME ReturnsInv, NEW r \in ReturnIds, ret[r].status \in InProgress
    PROVE  /\ ret[r].open /\ ret[r] # NoReturn /\ ret[r].lines \in Lines
           /\ ret[r].kind \in {"return", "exchange"} /\ ret[r].status \in StatusesOf(ret[r].kind)
           /\ \A s \in ReturnIds : s # r => ~ret[s].open
           /\ ret[r].status = "ExchangeDiffDue" => ret[r].diff > 0
<1>1. ret[r] # NoReturn
  BY DEF NoReturn, InProgress, None
<1> QED
  BY <1>1 DEF ReturnsInv, RowsAgree, OrderShows

\* P-511 and P-512 open one.
LEMMA OpenReturnStep ==
    ASSUME ReturnsInv, NEW r \in ReturnIds, NEW kind \in {"return", "exchange"},
           NEW lines \in Lines, NEW delta \in Int, OpenReturn(r, kind, lines, delta),
           Units(lines) \in Nat
    PROVE  /\ ReturnsInv'
           /\ ret[r] = NoReturn /\ \A s \in ReturnIds : ~ret[s].open
           /\ ret' \in ReturnRows /\ \A s \in ReturnIds : s # r => ret'[s] = ret[s]
           /\ ret'[r].kind = kind /\ ret'[r].lines = lines /\ ret'[r].open
           /\ ret'[r].status \in {"ReturnOpen", "ExchangeOpen"}
<1> DEFINE to == IF kind = "exchange" THEN "ExchangeOpen" ELSE "ReturnOpen"
           units == IF kind = "exchange" THEN Units(lines) ELSE 0
<1>1. /\ InsertReturn(r, kind, to, lines, delta * units)
      /\ moveOrder(to, IF kind = "exchange" THEN "P-512" ELSE "P-511")
  BY DEF OpenReturn
<1>2. status = "Delivered" /\ status' = to
  BY <1>1, OtherMoves DEF moveOrder, MoveOrderStatus
<1>3. \A s \in ReturnIds : ~ret[s].open
  BY <1>2, NothingOpen
<1> DEFINE diff == delta * units
<1>4. diff \in Int
  OBVIOUS
<1> DEFINE row == [kind |-> kind, status |-> to, lines |-> lines, open |-> TRUE,
                   diff |-> diff, fee |-> 0]
<1>5. row \in [kind : {None, "return", "exchange"}, status : ReturnStates,
               lines : Lines \cup {NoLines}, open : BOOLEAN, diff : Int, fee : Fees \cup {0}]
  <2> HIDE DEF diff
  <2> QED
    BY <1>4 DEF ReturnStates
<1>6. ret' = [ret EXCEPT ![r] = row]
  BY <1>1 DEF InsertReturn
<1>7. ret' \in ReturnRows /\ ret'[r] = row /\ \A s \in ReturnIds : s # r => ret'[s] = ret[s]
  <2> HIDE DEF row
  <2> QED
    BY <1>5, <1>6 DEF ReturnsInv, ReturnRows
<1>8. /\ ret'[r].kind = kind /\ ret'[r].status = to /\ ret'[r].lines = lines /\ ret'[r].open
  BY <1>7
<1>9. ReturnsInv'
  BY <1>2, <1>3, <1>7, <1>8, ReturnWritten DEF OrderStates, StatusesOf, InProgress
<1> QED
  BY <1>3, <1>7, <1>8, <1>9 DEF OpenReturn

\* A return that is written keeps its kind, its lines and its difference.
RowOf(rows, r, to, open, fee) ==
    /\ rows \in ReturnRows
    /\ \A s \in ReturnIds : s # r => rows[s] = ret[s]
    /\ rows[r].kind = ret[r].kind /\ rows[r].lines = ret[r].lines /\ rows[r].diff = ret[r].diff
    /\ rows[r].status = to /\ rows[r].fee = fee /\ (rows[r].open <=> open)
RowTo(r, to, open, fee) == RowOf(ret', r, to, open, fee)

\* What each of the three updates of a return's row makes of it.
LEMMA RowMoved ==
    ASSUME ret \in ReturnRows, NEW r \in ReturnIds, NEW to \in ReturnStates,
           NEW fee \in Fees \cup {0}
    PROVE  /\ MoveReturn(r, to) => RowTo(r, to, ret[r].open, ret[r].fee)
           /\ CloseReturn(r, to) => RowTo(r, to, FALSE, ret[r].fee)
           /\ RecordPickup(r, to, fee) => RowTo(r, to, ret[r].open, fee)
<1>1. MoveReturn(r, to) => RowTo(r, to, ret[r].open, ret[r].fee)
  BY DEF MoveReturn, RowTo, RowOf, ReturnRows
<1>2. CloseReturn(r, to) => RowTo(r, to, FALSE, ret[r].fee)
  <2> DEFINE mid == [ret EXCEPT ![r].status = to]
  <2>1. RowOf(mid, r, to, ret[r].open, ret[r].fee)
    BY DEF RowOf, ReturnRows
  <2> DEFINE row == [mid[r] EXCEPT !.open = FALSE]
  <2>2. CloseReturn(r, to) => ret' = [mid EXCEPT ![r] = row]
    BY DEF CloseReturn
  <2> HIDE DEF mid
  <2>3. /\ row \in [kind : {None, "return", "exchange"}, status : ReturnStates,
                    lines : Lines \cup {NoLines}, open : BOOLEAN,
                    diff : Int, fee : Fees \cup {0}]
        /\ row.kind = mid[r].kind /\ row.status = mid[r].status /\ row.lines = mid[r].lines
        /\ row.diff = mid[r].diff /\ row.fee = mid[r].fee /\ ~row.open
    <3>1. PICK old \in [kind : {None, "return", "exchange"}, status : ReturnStates,
                       lines : Lines \cup {NoLines}, open : BOOLEAN,
                       diff : Int, fee : Fees \cup {0}] : old = mid[r]
      BY <2>1 DEF RowOf, ReturnRows
    <3> QED
      BY <3>1
  <2> HIDE DEF row
  <2>4. CloseReturn(r, to) => /\ ret' \in ReturnRows /\ ret'[r] = row
                              /\ \A s \in ReturnIds : s # r => ret'[s] = ret[s]
    BY <2>1, <2>2, <2>3 DEF RowOf, ReturnRows
  <2> QED
    BY <2>1, <2>3, <2>4 DEF RowOf, RowTo
<1>3. RecordPickup(r, to, fee) => RowTo(r, to, ret[r].open, fee)
  <2> DEFINE mid == [ret EXCEPT ![r].status = to]
  <2>1. RowOf(mid, r, to, ret[r].open, ret[r].fee)
    BY DEF RowOf, ReturnRows
  <2>2. RecordPickup(r, to, fee) => ret' = [mid EXCEPT ![r].fee = fee]
    BY DEF RecordPickup
  <2> HIDE DEF mid
  <2> QED
    BY <2>1, <2>2 DEF RowOf, RowTo, ReturnRows
<1> QED
  BY <1>1, <1>2, <1>3

\* A return in progress that is written, with whatever fee.
MovedTo(r, to, open) ==
    ret[r].status \in InProgress /\ \E fee \in Fees \cup {0} : RowTo(r, to, open, fee)

\* A return in progress goes on to to, and the order to goal.
LEMMA ReturnMoved ==
    ASSUME ReturnsInv, NEW r \in ReturnIds, ret[r].status \in InProgress,
           NEW to, NEW goal \in OrderStates, status' = goal,
           NEW open \in BOOLEAN, NEW fee \in Fees \cup {0}, RowTo(r, to, open, fee),
           to \in StatusesOf(ret[r].kind), open <=> to \in InProgress,
           to = "ExchangeDiffDue" => ret[r].diff > 0,
           open => to = goal
    PROVE  ReturnsInv'
<1>1. /\ ret[r].lines \in Lines /\ ret[r].kind \in {"return", "exchange"}
      /\ \A s \in ReturnIds : s # r => ~ret[s].open
  BY StepsOpen
<1>2. /\ ret' \in ReturnRows
      /\ \A s \in ReturnIds : s # r => ret'[s] = ret[s]
      /\ ret'[r].kind = ret[r].kind /\ ret'[r].lines = ret[r].lines /\ ret'[r].diff = ret[r].diff
      /\ ret'[r].status = to /\ (ret'[r].open <=> open)
  BY DEF RowTo, RowOf
<1> QED
  BY <1>1, <1>2, ReturnWritten

\* The goods of a return, or of an exchange, have come back.
LEMMA PickupStep ==
    ASSUME ReturnsInv, NEW r \in ReturnIds, NEW fault, NEW policy, NEW amount,
           ConfirmPickup(r, fault, policy, amount)
    PROVE  /\ ReturnsInv'
           /\ MovedTo(r, IF ret[r].kind = "exchange" THEN "ExchangePicked" ELSE "ReturnPickedUp", TRUE)
           /\ UNCHANGED <<bookVars, stock, diffVars, pgVars>>
<1> DEFINE to == IF ret[r].kind = "exchange" THEN "ExchangePicked" ELSE "ReturnPickedUp"
<1>1. PICK fee \in Fees \cup {0} : RecordPickup(r, to, fee)
  BY DEF ConfirmPickup, returnFeeSetting
<1>2. CanTransition(ret[r].status, to, "A-511") /\ status' = to
  BY DEF ConfirmPickup, returnStep, moveOrder, MoveOrderStatus
<1>3. ret[r].status \in InProgress
  BY <1>2, SellerMoves DEF InProgress
<1>4. RowTo(r, to, TRUE, fee) /\ ret[r].kind \in {"return", "exchange"}
  BY <1>1, <1>3, RowMoved, StepsOpen DEF ReturnsInv, ReturnStates
<1>5. ReturnsInv'
  BY <1>2, <1>3, <1>4, ReturnMoved DEF OrderStates, StatusesOf, InProgress
<1> QED
  BY <1>3, <1>4, <1>5 DEF ConfirmPickup, MovedTo

\* A return is settled.
LEMMA SettleStep ==
    ASSUME ReturnsInv, NEW r \in ReturnIds, NEW f, SettleReturn(r, f)
    PROVE  /\ ReturnsInv' /\ MovedTo(r, "Refunded", FALSE)
           /\ ret[r].kind = "return" /\ status = "ReturnPickedUp"
<1>1. /\ ret[r].kind = "return" /\ CanTransition(ret[r].status, "Refunded", "A-511")
      /\ CloseReturn(r, "Refunded") /\ status' \in {"Refunded", "Delivered"}
      /\ CanTransition(status, status', "A-511")
  BY DEF SettleReturn, returnStep, moveOrder, MoveOrderStatus
<1>2. ret[r].status = "ReturnPickedUp" /\ ret[r].status \in InProgress
  BY <1>1, SellerMoves DEF InProgress
<1>3. RowTo(r, "Refunded", FALSE, ret[r].fee) /\ ret[r].fee \in Fees \cup {0}
  <2>1. ret[r].fee \in Fees \cup {0} /\ ret \in ReturnRows
    BY DEF ReturnsInv, ReturnRows
  <2> QED
    BY <1>1, <2>1, RowMoved DEF ReturnStates
<1>4. ReturnsInv'
  BY <1>1, <1>2, <1>3, ReturnMoved DEF OrderStates, StatusesOf, InProgress
<1>5. status = "ReturnPickedUp"
  <2>1. status # "Refunded"
    BY <1>1, SellerMoves
  <2> QED
    BY <1>2, <2>1, StepsOpen DEF ReturnsInv, OrderShows, ClosedOver
<1> QED
  BY <1>1, <1>2, <1>3, <1>4, <1>5 DEF MovedTo

\* A return is rejected.
LEMMA RejectReturnStep ==
    ASSUME ReturnsInv, NEW r \in ReturnIds, RejectReturn(r)
    PROVE  ReturnsInv' /\ MovedTo(r, "Rejected", FALSE) /\ status' = "Delivered"
<1>1. /\ ret[r].status # "ReturnPickedUp" /\ CanTransition(ret[r].status, "Delivered", "A-511")
      /\ CloseReturn(r, "Rejected") /\ status' = "Delivered"
  BY DEF RejectReturn, returnStep, moveOrder, MoveOrderStatus
<1>2. ret[r].status \in InProgress
  BY <1>1, SellerMoves DEF InProgress
<1>3. RowTo(r, "Rejected", FALSE, ret[r].fee) /\ ret[r].fee \in Fees \cup {0}
  <2>1. ret[r].fee \in Fees \cup {0} /\ ret \in ReturnRows
    BY DEF ReturnsInv, ReturnRows
  <2> QED
    BY <1>1, <2>1, RowMoved DEF ReturnStates
<1>4. ret[r].kind \in {"return", "exchange"}
  BY <1>2, StepsOpen
<1>5. ReturnsInv'
  BY <1>1, <1>2, <1>3, <1>4, ReturnMoved DEF OrderStates, StatusesOf, InProgress
<1> QED
  BY <1>1, <1>2, <1>3, <1>5 DEF MovedTo

\* An exchange ships, or waits for its difference.
LEMMA CompleteStep ==
    ASSUME ReturnsInv, NEW r \in ReturnIds, NEW f, CompleteExchange(r, f)
    PROVE  /\ ReturnsInv' /\ ret[r].kind = "exchange"
           /\ \/ ret[r].diff > 0 /\ MovedTo(r, "ExchangeDiffDue", TRUE)
              \/ ~(ret[r].diff > 0) /\ MovedTo(r, "ExchangeShipped", FALSE)
<1> DEFINE to == IF ret[r].diff > 0 THEN "ExchangeDiffDue" ELSE "ExchangeShipped"
<1>1. /\ ret[r].kind = "exchange" /\ CanTransition(ret[r].status, to, "A-511")
      /\ IF ret[r].diff > 0 THEN MoveReturn(r, to) ELSE CloseReturn(r, to)
      /\ status' = to
  BY DEF CompleteExchange, returnStep, moveOrder, MoveOrderStatus
<1>2. ret[r].status \in InProgress
  BY <1>1, SellerMoves DEF InProgress
<1>3. ret[r].fee \in Fees \cup {0} /\ ret \in ReturnRows /\ ret[r].open
  BY <1>2, StepsOpen DEF ReturnsInv, ReturnRows
<1>4. CASE ret[r].diff > 0
  <2>1. to = "ExchangeDiffDue" /\ RowTo(r, to, TRUE, ret[r].fee)
    BY <1>1, <1>3, <1>4, RowMoved DEF ReturnStates
  <2> HIDE DEF to
  <2>2. ReturnsInv'
    BY <1>1, <1>2, <1>3, <1>4, <2>1, ReturnMoved DEF OrderStates, StatusesOf, InProgress
  <2> QED
    BY <1>1, <1>2, <1>3, <1>4, <2>1, <2>2 DEF MovedTo
<1>5. CASE ~(ret[r].diff > 0)
  <2>1. to = "ExchangeShipped" /\ RowTo(r, to, FALSE, ret[r].fee)
    BY <1>1, <1>3, <1>5, RowMoved DEF ReturnStates
  <2> HIDE DEF to
  <2>2. ReturnsInv'
    BY <1>1, <1>2, <1>3, <2>1, ReturnMoved DEF OrderStates, StatusesOf, InProgress
  <2> QED
    BY <1>1, <1>2, <1>3, <1>5, <2>1, <2>2 DEF MovedTo
<1> QED
  BY <1>4, <1>5

\* A paid difference ships its exchange.
LEMMA ApproveStep ==
    ASSUME ReturnsInv, NEW k, NEW r \in ReturnIds, ApproveDiff(k, r)
    PROVE  ReturnsInv' /\ MovedTo(r, "ExchangeShipped", FALSE) /\ status' = "ExchangeShipped"
<1>1. /\ ret[r].status = "ExchangeDiffDue" /\ CloseReturn(r, "ExchangeShipped")
      /\ status' = "ExchangeShipped"
  BY DEF ApproveDiff, moveOrder, MoveOrderStatus
<1>2. ret[r].status \in InProgress
  BY <1>1 DEF InProgress
<1>3. RowTo(r, "ExchangeShipped", FALSE, ret[r].fee) /\ ret[r].fee \in Fees \cup {0}
  <2>1. ret[r].fee \in Fees \cup {0} /\ ret \in ReturnRows
    BY DEF ReturnsInv, ReturnRows
  <2> QED
    BY <1>1, <2>1, RowMoved DEF ReturnStates
<1>4. ret[r].kind = "exchange"
  BY <1>1, <1>2, StepsOpen DEF StatusesOf
<1>5. ReturnsInv'
  BY <1>1, <1>2, <1>3, <1>4, ReturnMoved DEF OrderStates, StatusesOf, InProgress
<1> QED
  BY <1>1, <1>2, <1>3, <1>5 DEF MovedTo

\* The buyer confirms a delivered order; a refunded one is closed, at most
\* over a return that was picked up.
LEMMA ClosedStep ==
    ASSUME ReturnsInv, UNCHANGED ret, NEW to, NEW actor, moveOrder(to, actor),
           \/ to = "Confirmed" /\ actor = "P-510"
           \/ to = "Refunded" /\ actor \in {"A-507", "A-511"}
    PROVE  ReturnsInv'
<1>1. CanTransition(status, to, actor) /\ status' = to /\ to \in OrderStates
  BY DEF moveOrder, MoveOrderStatus, OrderStates
<1>2. CASE status \in {"Delivered", "Confirmed", "ExchangeShipped"}
  BY <1>1, <1>2, NothingOpen DEF ReturnsInv, OrderShows, RowsAgree
<1>3. CASE ~(status \in {"Delivered", "Confirmed", "ExchangeShipped"})
  <2>1. status = "ReturnPickedUp" /\ to = "Refunded"
    <3>1. to # "Confirmed" /\ actor # "A-507"
      BY <1>1, <1>3, OtherMoves DEF ReturnsInv, OrderStates
    <3> QED
      BY <1>1, <3>1, SellerMoves
  <2>2. OrderShows'
    BY <1>1, <2>1 DEF ReturnsInv, OrderShows, ClosedOver
  <2>3. RowsAgree'
    BY DEF ReturnsInv, RowsAgree
  <2> QED
    BY <1>1, <2>2, <2>3 DEF ReturnsInv
<1> QED
  BY <1>2, <1>3

\* What touches neither the order nor a return.
LEMMA ReturnsKept == ASSUME ReturnsInv, UNCHANGED orderVars PROVE ReturnsInv'
BY DEF ReturnsInv, OrderShows, ClosedOver, RowsAgree, orderVars

-----------------------------------------------------------------------------
(* The payment of a difference                                               *)

\* A request goes on to another phase.
LEMMA RequestAt ==
    ASSUME PayTypes, NEW k \in Keys, NEW r \in ReturnIds, NEW x \in Phases, Go(k, x, r)
    PROVE  /\ request' \in [Keys -> {Idle} \cup (Phases \X ReturnIds)]
           /\ \A j \in Keys : \A y, q :
                  In(j, y, q)' <=> IF j = k THEN y = x /\ q = r ELSE In(j, y, q)
BY DEF PayTypes, Go, In

\* A request is done.
LEMMA RequestDone ==
    ASSUME PayTypes, NEW k \in Keys, Return(k)
    PROVE  /\ request' \in [Keys -> {Idle} \cup (Phases \X ReturnIds)]
           /\ \A j \in Keys : \A y, q : In(j, y, q)' <=> j # k /\ In(j, y, q)
<1>1. \A x, r : Idle # <<x, r>>
  BY DEF Idle
<1> QED
  BY <1>1 DEF PayTypes, Return, In

\* A payment's state is written.
LEMMA PayWritten ==
    ASSUME PayTypes, NEW k \in Keys, NEW x \in {"approved", "failed"}, SetPay(k, x)
    PROVE  /\ pay' \in [Keys -> [state : {None, "pending", "approved", "failed"},
                                 of : ReturnIds \cup {None}]]
           /\ \A j \in Keys : /\ pay'[j].of = pay[j].of
                              /\ pay'[j].state = IF j = k THEN x ELSE pay[j].state
                              /\ j # k => pay'[j] = pay[j]
BY DEF PayTypes, SetPay

\* A step that leaves a key alone leaves what its request asked for.
LEMMA AskedKeeps ==
    ASSUME AskedHasRow, NEW j \in Keys, NEW q \in ReturnIds,
           \A y \in {"calling", "approved", "refused", "waiting"} : In(j, y, q)' => In(j, y, q),
           pay'[j] = pay[j], j \in wire' => j \in wire,
           j \in taken' <=> j \in taken, j \in accounts' <=> j \in accounts
    PROVE  AskedAt(j, q)'
<1>1. AskedAt(j, q) /\ (RowOpen(j, q) => RowOpen(j, q)')
  BY DEF AskedHasRow, RowOpen
<1> QED
  BY <1>1 DEF AskedAt

\* A request that is at no answer of the gateway asks for nothing.
LEMMA NotAsking ==
    ASSUME NEW j, NEW q,
           \A y \in {"calling", "approved", "refused", "waiting"} : ~In(j, y, q)'
    PROVE  AskedAt(j, q)'
BY DEF AskedAt

\* A request that is nowhere asks for nothing.
LEMMA NoneAsking == ASSUME \A j \in Keys : \A y, q : ~In(j, y, q)' PROVE AskedHasRow'
BY NotAsking DEF AskedHasRow

\* A request that has nothing to say to the gateway is where it likes.
LEMMA ReadStep ==
    ASSUME PayInv, NEW k \in Keys, UNCHANGED <<pay, pgVars>>,
           DiffError(k) \/ \E r \in ReturnIds : ReadDiff(k, r)
    PROVE  PayInv'
<1>1. /\ request' \in [Keys -> {Idle} \cup (Phases \X ReturnIds)]
      /\ \A j \in Keys, r \in ReturnIds, y \in Phases \ {"read"} : In(j, y, r)' => In(j, y, r)
  <2>1. CASE DiffError(k)
    BY <2>1, RequestDone DEF PayInv, DiffError
  <2>2. CASE ~DiffError(k)
    <3>1. PICK r \in ReturnIds : Go(k, "read", r)
      BY <2>2 DEF ReadDiff
    <3>2. "read" \in Phases /\ PayTypes
      BY DEF Phases, PayInv
    <3> QED
      BY <3>1, <3>2, RequestAt
  <2> QED
    BY <2>1, <2>2
<1>2. PayTypes' /\ FailedTookNothing' /\ OneLiveDiff'
  BY <1>1 DEF PayInv, PayTypes, FailedTookNothing, OneLiveDiff, LivePay, pgVars
<1>3. AskedHasRow'
  <2>1. PayInv /\ {"calling", "approved", "refused", "waiting"} \subseteq Phases \ {"read"}
    BY DEF Phases
  <2> QED
    BY <1>1, <2>1, AskedKeeps DEF PayInv, AskedHasRow, pgVars
<1> QED
  BY <1>2, <1>3 DEF PayInv

\* A row is reserved under a key nobody used, for an exchange without a live one.
LEMMA ReserveStep ==
    ASSUME PayInv, NEW k \in Keys, NEW r \in ReturnIds, ReserveDiff(k, r)
    PROVE  PayInv'
<1>1. CASE ReserveExchangePayment(k, r) /\ Go(k, "calling", r)
  <2>1. pay[k] = NoPay /\ ~LiveDiff(r) /\ UNCHANGED pgVars
    BY <1>1 DEF ReserveDiff, ReserveExchangePayment
  <2>2. /\ request' \in [Keys -> {Idle} \cup (Phases \X ReturnIds)]
        /\ \A j \in Keys : \A y, q :
               In(j, y, q)' <=> IF j = k THEN y = "calling" /\ q = r ELSE In(j, y, q)
    <3>1. "calling" \in Phases /\ PayTypes
      BY DEF Phases, PayInv
    <3> QED
      BY <1>1, <3>1, RequestAt
  <2>3. /\ pay' \in [Keys -> [state : {None, "pending", "approved", "failed"},
                              of : ReturnIds \cup {None}]]
        /\ \A j \in Keys : pay'[j] = IF j = k THEN [state |-> "pending", of |-> r] ELSE pay[j]
    BY <1>1 DEF ReserveExchangePayment, PayInv, PayTypes
  <2>4. k \notin wire /\ k \notin taken \cup accounts
    BY <2>1 DEF PayInv, FailedTookNothing, NoPay, None
  <2>5. PayTypes'
    BY <2>1, <2>2, <2>3 DEF PayInv, PayTypes, pgVars
  <2>6. AskedHasRow'
    <3>1. RowOpen(k, r)'
      BY <2>1, <2>3, <2>4 DEF RowOpen, pgVars
    <3>2. ASSUME NEW q \in ReturnIds PROVE AskedAt(k, q)'
      <4>1. \A y : In(k, y, q)' => y = "calling" /\ q = r
        BY <2>2
      <4>2. k \notin (taken \cup accounts)'
        BY <2>1, <2>4 DEF pgVars
      <4> QED
        BY <3>1, <4>1, <4>2 DEF AskedAt
    <3>3. ASSUME NEW j \in Keys \ {k}, NEW q \in ReturnIds PROVE AskedAt(j, q)'
      <4>1. (\A y : In(j, y, q)' => In(j, y, q)) /\ pay'[j] = pay[j] /\ UNCHANGED pgVars
        BY <2>1, <2>2, <2>3
      <4> QED
        BY <4>1, AskedKeeps DEF PayInv, pgVars
    <3> QED
      BY <3>2, <3>3 DEF AskedHasRow
  <2>7. FailedTookNothing'
    BY <2>1, <2>3, <2>4 DEF PayInv, FailedTookNothing, pgVars, None
  <2>8. OneLiveDiff'
    BY <2>1, <2>3 DEF PayInv, OneLiveDiff, LivePay, LiveDiff
  <2> QED
    BY <2>5, <2>6, <2>7, <2>8 DEF PayInv
<1>2. CASE Return(k) /\ UNCHANGED pay
  <2>1. /\ request' \in [Keys -> {Idle} \cup (Phases \X ReturnIds)]
        /\ \A j \in Keys : \A y, q : In(j, y, q)' <=> j # k /\ In(j, y, q)
        /\ UNCHANGED pgVars
    BY <1>2, RequestDone DEF PayInv, ReserveDiff
  <2>2. PayTypes' /\ FailedTookNothing' /\ OneLiveDiff'
    BY <1>2, <2>1 DEF PayInv, PayTypes, FailedTookNothing, OneLiveDiff, LivePay, pgVars
  <2>3. AskedHasRow'
    <3>1. PayInv /\ \A j \in Keys : \A y, q : In(j, y, q)' => In(j, y, q)
      BY <2>1
    <3> QED
      BY <1>2, <2>1, <3>1, AskedKeeps DEF PayInv, AskedHasRow, pgVars
  <2> QED
    BY <2>2, <2>3 DEF PayInv
<1> QED
  BY <1>1, <1>2 DEF ReserveDiff

\* The gateway answers a request that waits for it.
LEMMA ConfirmStep ==
    ASSUME PayInv, NEW k \in Keys, NEW r \in ReturnIds, GatewayConfirm(k, r)
    PROVE  PayInv'
<1>1. In(k, "calling", r) /\ UNCHANGED <<pay, wire>>
  BY DEF GatewayConfirm
<1>2. RowOpen(k, r) /\ k \notin taken \cup accounts
  BY <1>1 DEF PayInv, AskedHasRow, AskedAt
<1>3. pay[k].state = "pending" /\ pay[k] # NoPay /\ k \notin wire
  BY <1>2 DEF RowOpen, NoPay, None
<1>4. PICK x \in {"approved", "refused", "waiting"} :
        /\ Go(k, x, r)
        /\ taken' = taken \cup (IF x = "approved" THEN {k} ELSE {})
        /\ accounts' = accounts \cup (IF x = "waiting" THEN {k} ELSE {})
  BY DEF GatewayConfirm
<1>5. /\ request' \in [Keys -> {Idle} \cup (Phases \X ReturnIds)]
      /\ \A j \in Keys : \A y, q :
             In(j, y, q)' <=> IF j = k THEN y = x /\ q = r ELSE In(j, y, q)
  <2>1. PayTypes /\ x \in Phases
    BY DEF PayInv, Phases
  <2> QED
    BY <1>4, <2>1, RequestAt
<1>6. PayTypes' /\ OneLiveDiff'
  BY <1>1, <1>4, <1>5 DEF PayInv, PayTypes, OneLiveDiff, LivePay
<1>7. AskedHasRow'
  <2>1. ASSUME NEW q \in ReturnIds PROVE AskedAt(k, q)'
    <3>1. \A y : In(k, y, q)' => y = x /\ q = r
      BY <1>5
    <3>2. RowOpen(k, r)'
      BY <1>1, <1>2 DEF RowOpen
    <3>3. /\ x = "approved" => k \in (taken \ accounts)'
          /\ x = "refused" => k \notin (taken \cup accounts)'
          /\ x = "waiting" => k \in accounts'
          /\ x # "calling"
      BY <1>2, <1>4
    <3> QED
      BY <3>1, <3>2, <3>3 DEF AskedAt
  <2>2. ASSUME NEW j \in Keys \ {k}, NEW q \in ReturnIds PROVE AskedAt(j, q)'
    <3>1. \A y : In(j, y, q)' => In(j, y, q)
      BY <1>5
    <3>2. /\ pay'[j] = pay[j] /\ (j \in wire' => j \in wire)
          /\ (j \in taken' <=> j \in taken) /\ (j \in accounts' <=> j \in accounts)
      BY <1>1, <1>4
    <3> QED
      BY <3>1, <3>2, AskedKeeps DEF PayInv
  <2> QED
    BY <2>1, <2>2 DEF AskedHasRow
<1>8. FailedTookNothing'
  BY <1>1, <1>2, <1>3, <1>4 DEF PayInv, FailedTookNothing
<1> QED
  BY <1>6, <1>7, <1>8 DEF PayInv

\* Nobody waits for the answer any more.
LEMMA UnknownStep ==
    ASSUME PayInv, NEW k \in Keys, NEW r \in ReturnIds, DiffUnknown(k, r)
    PROVE  PayInv'
<1>1. /\ In(k, "calling", r) /\ UNCHANGED <<pay, taken, accounts>>
      /\ wire' = wire \cup {k} /\ Return(k)
  BY DEF DiffUnknown
<1>2. RowOpen(k, r) /\ k \notin taken \cup accounts
  BY <1>1 DEF PayInv, AskedHasRow, AskedAt
<1>3. /\ request' \in [Keys -> {Idle} \cup (Phases \X ReturnIds)]
      /\ \A j \in Keys : \A y, q : In(j, y, q)' <=> j # k /\ In(j, y, q)
  BY <1>1, RequestDone DEF PayInv
<1>4. PayTypes' /\ OneLiveDiff'
  BY <1>1, <1>3 DEF PayInv, PayTypes, OneLiveDiff, LivePay
<1>5. AskedHasRow'
  <2>1. ASSUME NEW q \in ReturnIds PROVE AskedAt(k, q)'
    BY <1>3, NotAsking
  <2>2. ASSUME NEW j \in Keys \ {k}, NEW q \in ReturnIds PROVE AskedAt(j, q)'
    <3>1. \A y : In(j, y, q)' => In(j, y, q)
      BY <1>3
    <3>2. /\ pay'[j] = pay[j] /\ (j \in wire' => j \in wire)
          /\ UNCHANGED <<taken, accounts>>
      BY <1>1
    <3> QED
      BY <3>1, <3>2, AskedKeeps DEF PayInv
  <2> QED
    BY <2>1, <2>2 DEF AskedHasRow
<1>6. FailedTookNothing'
  BY <1>1, <1>2 DEF PayInv, FailedTookNothing, RowOpen
<1> QED
  BY <1>4, <1>5, <1>6 DEF PayInv

\* A refusal or an account fails the row, an approval approves it.
LEMMA RecordStep ==
    ASSUME PayInv, NEW k \in Keys, NEW r \in ReturnIds, NEW x \in {"approved", "failed"},
           SetPay(k, x), Return(k), UNCHANGED pgVars,
           IF x = "approved" THEN In(k, "approved", r)
                             ELSE In(k, "refused", r) \/ In(k, "waiting", r)
    PROVE  PayInv'
<1>1. /\ RowOpen(k, r)
      /\ x = "approved" => k \in taken \ accounts
      /\ x = "failed" => k \notin taken \ accounts
  BY DEF PayInv, AskedHasRow, AskedAt
<1>2. /\ request' \in [Keys -> {Idle} \cup (Phases \X ReturnIds)]
      /\ \A j \in Keys : \A y, q : In(j, y, q)' <=> j # k /\ In(j, y, q)
  BY RequestDone DEF PayInv
<1>3. /\ pay' \in [Keys -> [state : {None, "pending", "approved", "failed"},
                            of : ReturnIds \cup {None}]]
      /\ \A j \in Keys : /\ pay'[j].of = pay[j].of
                         /\ pay'[j].state = IF j = k THEN x ELSE pay[j].state
                         /\ j # k => pay'[j] = pay[j]
  BY PayWritten DEF PayInv
<1>4. PayTypes'
  BY <1>2, <1>3 DEF PayInv, PayTypes, pgVars
<1>5. AskedHasRow'
  <2>1. ASSUME NEW q \in ReturnIds PROVE AskedAt(k, q)'
    BY <1>2, NotAsking
  <2>2. ASSUME NEW j \in Keys \ {k}, NEW q \in ReturnIds PROVE AskedAt(j, q)'
    <3>1. \A y : In(j, y, q)' => In(j, y, q)
      BY <1>2
    <3>2. /\ pay'[j] = pay[j] /\ (j \in wire' => j \in wire)
          /\ UNCHANGED <<taken, accounts>>
      BY <1>3 DEF pgVars
    <3> QED
      BY <3>1, <3>2, AskedKeeps DEF PayInv
  <2> QED
    BY <2>1, <2>2 DEF AskedHasRow
<1>6. FailedTookNothing'
  <2>1. pay'[k] # NoPay /\ pay'[k].state # None /\ pay'[k].state = x /\ k \notin wire
    BY <1>1, <1>3 DEF NoPay, None, RowOpen
  <2> QED
    BY <1>1, <1>3, <2>1 DEF PayInv, FailedTookNothing, pgVars
<1>7. OneLiveDiff'
  BY <1>1, <1>3 DEF PayInv, OneLiveDiff, LivePay, RowOpen
<1> QED
  BY <1>4, <1>5, <1>6, <1>7 DEF PayInv

\* A late answer.
LEMMA LateStep ==
    ASSUME PayInv, NEW k \in Keys, GatewayConfirmLate(k)
    PROVE  PayInv'
<1>1. /\ k \in wire /\ wire' = wire \ {k} /\ UNCHANGED diffVars
      /\ \/ taken' = taken \cup {k} /\ UNCHANGED accounts
         \/ accounts' = accounts \cup {k} /\ UNCHANGED taken
         \/ UNCHANGED <<taken, accounts>>
  BY DEF GatewayConfirmLate
<1>2. pay[k].state = "pending" /\ k \notin taken \cup accounts
  BY <1>1 DEF PayInv, FailedTookNothing
<1>3. pay[k] # NoPay
  BY <1>2 DEF NoPay, None
<1>4. \A r \in ReturnIds : ~RowOpen(k, r)
  BY <1>1 DEF RowOpen
<1>5. /\ UNCHANGED <<pay, request>>
      /\ \A j \in Keys : \A y, q : In(j, y, q)' <=> In(j, y, q)
  BY <1>1 DEF diffVars, In
<1>6. PayTypes' /\ OneLiveDiff'
  BY <1>1, <1>5 DEF PayInv, PayTypes, OneLiveDiff, LivePay
<1>7. AskedHasRow'
  <2>1. ASSUME NEW q \in ReturnIds PROVE AskedAt(k, q)'
    <3>1. \A y \in {"calling", "approved", "refused", "waiting"} : ~In(k, y, q)
      BY <1>4 DEF PayInv, AskedHasRow, AskedAt
    <3> QED
      BY <1>5, <3>1, NotAsking
  <2>2. ASSUME NEW j \in Keys \ {k}, NEW q \in ReturnIds PROVE AskedAt(j, q)'
    <3>1. \A y : In(j, y, q)' => In(j, y, q)
      BY <1>5
    <3>2. /\ pay'[j] = pay[j] /\ (j \in wire' => j \in wire)
          /\ (j \in taken' <=> j \in taken) /\ (j \in accounts' <=> j \in accounts)
      BY <1>1, <1>5
    <3> QED
      BY <3>1, <3>2, AskedKeeps DEF PayInv
  <2> QED
    BY <2>1, <2>2 DEF AskedHasRow
<1>8. FailedTookNothing'
  BY <1>1, <1>2, <1>3, <1>5 DEF PayInv, FailedTookNothing
<1> QED
  BY <1>6, <1>7, <1>8 DEF PayInv

\* A deposit to an account.
LEMMA DepositStep ==
    ASSUME PayInv, NEW k \in Keys, GatewayDeposit(k)
    PROVE  PayInv'
<1>1. /\ k \in accounts \ taken /\ taken' = taken \cup {k}
      /\ UNCHANGED <<wire, accounts, pay, request>>
      /\ \A j \in Keys : \A y, q : In(j, y, q)' <=> In(j, y, q)
  BY DEF GatewayDeposit, diffVars, In
<1>2. PayTypes' /\ OneLiveDiff'
  BY <1>1 DEF PayInv, PayTypes, OneLiveDiff, LivePay
<1>3. AskedHasRow'
  <2>1. ASSUME NEW q \in ReturnIds PROVE AskedAt(k, q)'
    <3>1. AskedAt(k, q) /\ (RowOpen(k, q) => RowOpen(k, q)')
      BY <1>1 DEF PayInv, AskedHasRow, RowOpen
    <3> QED
      BY <1>1, <3>1 DEF AskedAt
  <2>2. ASSUME NEW j \in Keys \ {k}, NEW q \in ReturnIds PROVE AskedAt(j, q)'
    <3>1. \A y : In(j, y, q)' => In(j, y, q)
      BY <1>1
    <3>2. pay'[j] = pay[j] /\ UNCHANGED <<wire, accounts>> /\ (j \in taken' <=> j \in taken)
      BY <1>1
    <3> QED
      BY <3>1, <3>2, AskedKeeps DEF PayInv
  <2> QED
    BY <2>1, <2>2 DEF AskedHasRow
<1>4. FailedTookNothing'
  BY <1>1 DEF PayInv, FailedTookNothing
<1> QED
  BY <1>2, <1>3, <1>4 DEF PayInv

\* A restart: nobody waits for the answers still to come.
LEMMA PayCrashStep == ASSUME PayInv, Crash PROVE PayInv'
<1>1. /\ \A k \in Keys : request'[k] = Idle
      /\ request' \in [Keys -> {Idle} \cup (Phases \X ReturnIds)]
      /\ UNCHANGED <<pay, accounts, taken>>
      /\ wire' = wire \cup {k \in Keys : \E r \in ReturnIds : In(k, "calling", r)}
  BY DEF Crash
<1>2. \A k \in Keys : \A y, q : ~(In(k, y, q))'
  BY <1>1 DEF In, Idle
<1>3. \A k \in wire' : k \in Keys /\ (k \in wire \/ \E r \in ReturnIds : In(k, "calling", r))
  BY <1>1 DEF PayInv, PayTypes
<1>4. PayTypes' /\ OneLiveDiff'
  BY <1>1, <1>3 DEF PayInv, PayTypes, OneLiveDiff, LivePay
<1>5. AskedHasRow'
  BY <1>2, NoneAsking
<1>6. \A k \in wire' : pay[k].state = "pending" /\ k \notin taken \cup accounts
  <2> TAKE k \in wire'
  <2>1. CASE k \in wire
    BY <1>3, <2>1 DEF PayInv, FailedTookNothing
  <2>2. CASE k \notin wire
    <3>1. PICK r \in ReturnIds : In(k, "calling", r)
      BY <1>3, <2>2
    <3>2. RowOpen(k, r) /\ k \notin taken \cup accounts
      BY <1>3, <3>1 DEF PayInv, AskedHasRow, AskedAt
    <3> QED
      BY <3>2 DEF RowOpen
  <2> QED
    BY <2>1, <2>2
<1>7. FailedTookNothing'
  BY <1>1, <1>6 DEF PayInv, FailedTookNothing
<1> QED
  BY <1>4, <1>5, <1>7 DEF PayInv

\* What has nothing to do with a difference.
LEMMA PayKept == ASSUME PayInv, UNCHANGED <<diffVars, pgVars>> PROVE PayInv'
<1>1. \A j \in Keys : \A y, q : In(j, y, q)' <=> In(j, y, q)
  BY DEF diffVars, In
<1> QED
  BY <1>1 DEF PayInv, PayTypes, AskedHasRow, AskedAt, RowOpen, FailedTookNothing, OneLiveDiff, LivePay,
              diffVars, pgVars

\* Whatever happens, what was paid stays paid.
PaidStays ==
    /\ taken \subseteq taken'
    /\ \A k \in Keys : pay[k].state = "approved" => pay'[k] = pay[k]

\* A payment row that is approved stays so when nothing is paid, or one key is.
LEMMA PaidStaysKept ==
    ASSUME UNCHANGED pay, UNCHANGED taken
           \/ \E k \in Keys : taken' = taken \cup {k}
    PROVE  PaidStays
BY DEF PaidStays

\* An exchange goes out without its difference only if it has none.
LEMMA ShippedKept ==
    ASSUME ShippedMeansPaid, PayTypes, PaidStays, UNCHANGED ret
    PROVE  ShippedMeansPaid'
BY DEF ShippedMeansPaid, PaidStays, PayTypes

\* A return that moves keeps it, unless a dearer exchange moves to shipped.
LEMMA ShippedMoved ==
    ASSUME ShippedMeansPaid, PayTypes, NEW r \in ReturnIds, NEW to, NEW open,
           MovedTo(r, to, open), to # "ExchangeShipped" \/ ~(ret[r].diff > 0), PaidStays
    PROVE  ShippedMeansPaid'
<1>1. /\ \A s \in ReturnIds : s # r => ret'[s] = ret[s]
      /\ ret'[r].status = to /\ ret'[r].diff = ret[r].diff
  BY DEF MovedTo, RowTo, RowOf
<1> QED
  BY <1>1 DEF ShippedMeansPaid, PaidStays, PayTypes

-----------------------------------------------------------------------------
(* The steps, by what they change                                            *)

\* A return is opened or moves on.
ReturnWork ==
    \E r \in ReturnIds :
        \/ \E kind \in {"return", "exchange"}, lines \in Lines, delta \in Int :
              OpenReturn(r, kind, lines, delta)
        \/ \E fault, policy, amount : ConfirmPickup(r, fault, policy, amount)
        \/ \E f \in Refunds : SettleReturn(r, f)
        \/ RejectReturn(r)
        \/ \E f \in Refunds : CompleteExchange(r, f)
        \/ \E k \in Keys : ApproveDiff(k, r)
\* A difference is talked about with the gateway.
DiffWork ==
    \E k \in Keys :
        \/ DiffError(k) \/ GatewayConfirmLate(k) \/ GatewayDeposit(k)
        \/ \E r \in ReturnIds : \/ ReadDiff(k, r) \/ ReserveDiff(k, r) \/ GatewayConfirm(k, r)
                                \/ DiffUnknown(k, r) \/ FailDiff(k, r)
\* A refund is asked for, rejected or sent.
RefundWork ==
    \E f \in Refunds :
        \/ \E lines \in Lines : RequestRefund(f, lines)
        \/ RejectRefund(f)
        \/ \E actor \in {"A-507", "A-511"} : ExecuteRefund(f, actor)
        \/ RefundAnswered(f)
\* The order is confirmed or closed.
ClosingWork == ConfirmPurchase \/ CloseByA507 \/ \E f \in Refunds : CloseByA511(f)

\* Each step is one of these six kinds of work; the later proofs split on them.
LEMMA StepKinds ==
    ASSUME [Next]_vars
    PROVE  \/ ReturnWork \/ DiffWork \/ RefundWork \/ ClosingWork \/ Crash
           \/ UNCHANGED vars
<1>1. CASE returnKindCreate
  <2>1. 0 \in Int /\ Deltas \subseteq Int
    BY ReturnsAssumption
  <2> QED
    BY <1>1, <2>1 DEF returnKindCreate, ReturnWork
<1>2. CASE exchangePayConfirm
  BY <1>2 DEF exchangePayConfirm, DiffWork, ReturnWork
<1>3. CASE refundRequest \/ orderConfirm
  BY <1>3 DEF refundRequest, orderConfirm, RefundWork, ClosingWork
<1>4. CASE ReturnAction
  BY <1>4 DEF ReturnAction, ReturnWork, RefundWork, ClosingWork
<1>5. CASE RefundSave
  BY <1>5 DEF RefundSave, RefundWork, ClosingWork
<1>6. CASE Gateway
  BY <1>6 DEF Gateway, DiffWork, RefundWork
<1> QED
  BY <1>1, <1>2, <1>3, <1>4, <1>5, <1>6 DEF Next

\* What the others leave alone.
LEMMA LeftAlone ==
    /\ DiffWork => UNCHANGED <<orderVars, bookVars, stock>>
    /\ RefundWork \/ ClosingWork => UNCHANGED <<ret, stock, diffVars, pgVars>>
    /\ RefundWork => UNCHANGED orderVars
    /\ Crash => UNCHANGED <<orderVars, settled, refunded, stock, pay, taken>>
<1>1. DiffWork => UNCHANGED <<orderVars, bookVars, stock>>
  BY DEF DiffWork, DiffError, GatewayConfirmLate, GatewayDeposit, ReadDiff, ReserveDiff,
         GatewayConfirm, DiffUnknown, FailDiff
<1>2. RefundWork => UNCHANGED <<orderVars, stock, diffVars, pgVars>>
  BY DEF RefundWork, RequestRefund, RejectRefund, ExecuteRefund, RefundAnswered
<1>3. ClosingWork => UNCHANGED <<ret, stock, diffVars, pgVars>>
  BY DEF ClosingWork, ConfirmPurchase, CloseByA507, CloseByA511, CloseRefundedOrder, orderVars
<1> QED
  BY <1>1, <1>2, <1>3 DEF Crash, orderVars

\* The numbers: what every order costs, and what a return may ask for.
LEMMA Numbers ==
    /\ Approved \in Nat
    /\ \A l \in Lines \cup {NoLines} :
          Units(l) \in Nat /\ \A i \in Items : l[i] \in Nat /\ l[i] <= Quantity[i]
    /\ \A i \in Items : NoLines[i] = 0 /\ Quantity[i] \in Nat /\ Quantity[i] > 0
    /\ Units(NoLines) = 0
<1>1. SumOver(Items, Net) \in Nat
  BY ReturnsAssumption, SumNat DEF SumOver
<1>2. ASSUME NEW l \in Lines \cup {NoLines}, NEW i \in Items
      PROVE  l[i] \in Nat /\ l[i] <= Quantity[i]
  <2>1. CASE l \in Lines
    <3>1. PICK m : l \in [Items -> 0..m]
      BY <2>1 DEF Lines
    <3> QED
      BY <2>1, <3>1 DEF Lines
  <2>2. CASE l = NoLines
    BY <2>2, ReturnsAssumption DEF NoLines
  <2> QED
    BY <2>1, <2>2
<1>3. \A l \in Lines \cup {NoLines} : Units(l) \in Nat
  <2> TAKE l \in Lines \cup {NoLines}
  <2>1. IsFiniteSet(Items) /\ \A i \in Items : l[i] \in Nat
    BY <1>2, ReturnsAssumption
  <2> QED
    BY <2>1, SumNat DEF Units, SumOver
<1>4. Units(NoLines) = 0
  <2>1. IsFiniteSet(Items) /\ IsFiniteSet({}) /\ \A i \in Items : NoLines[i] = 0
    BY ReturnsAssumption, FS_EmptySet DEF NoLines
  <2>2. SumFunctionOnSet(NoLines, Items) = 0
    BY <2>1, SumZero
  <2> QED
    BY <2>2 DEF Units, SumOver
<1> QED
  BY <1>1, <1>2, <1>3, <1>4, ReturnsAssumption DEF Approved, NoLines

\* Returns move along their statuses, and the order with them.
LEMMA ReturnsStep == ASSUME ReturnsInv, [Next]_vars PROVE ReturnsInv'
<1>1. CASE ReturnWork
  <2>1. PICK r \in ReturnIds :
        \/ \E kind \in {"return", "exchange"}, lines \in Lines, delta \in Int :
              OpenReturn(r, kind, lines, delta)
        \/ \E fault, policy, amount : ConfirmPickup(r, fault, policy, amount)
        \/ \E f \in Refunds : SettleReturn(r, f)
        \/ RejectReturn(r)
        \/ \E f \in Refunds : CompleteExchange(r, f)
        \/ \E k \in Keys : ApproveDiff(k, r)
    BY <1>1 DEF ReturnWork
  <2>2. \A lines \in Lines : Units(lines) \in Nat
    BY Numbers
  <2> QED
    BY <2>1, <2>2, OpenReturnStep, PickupStep, SettleStep, RejectReturnStep, CompleteStep, ApproveStep
<1>2. CASE DiffWork \/ RefundWork \/ Crash
  BY <1>2, LeftAlone, ReturnsKept DEF orderVars
<1>3. CASE ClosingWork
  <2>1. CASE UNCHANGED orderVars
    BY <2>1, ReturnsKept
  <2>2. CASE ~UNCHANGED orderVars
    <3>1. PICK to, actor : /\ moveOrder(to, actor)
                           /\ \/ to = "Confirmed" /\ actor = "P-510"
                              \/ to = "Refunded" /\ actor \in {"A-507", "A-511"}
      BY <1>3, <2>2 DEF ClosingWork, ConfirmPurchase, CloseByA507, CloseByA511, CloseRefundedOrder
    <3>2. UNCHANGED ret
      BY <1>3, LeftAlone
    <3> QED
      BY <3>1, <3>2, ClosedStep
  <2> QED
    BY <2>1, <2>2
<1>4. CASE UNCHANGED vars
  BY <1>4, ReturnsKept DEF vars
<1> QED
  BY <1>1, <1>2, <1>3, <1>4, StepKinds

\* A difference is paid once, by whoever comes first.
LEMMA PayStep == ASSUME PayInv, [Next]_vars PROVE PayInv'
<1>1. CASE ReturnWork
  <2>1. PICK r \in ReturnIds :
        \/ \E kind \in {"return", "exchange"}, lines \in Lines, delta \in Int :
              OpenReturn(r, kind, lines, delta)
        \/ \E fault, policy, amount : ConfirmPickup(r, fault, policy, amount)
        \/ \E f \in Refunds : SettleReturn(r, f)
        \/ RejectReturn(r)
        \/ \E f \in Refunds : CompleteExchange(r, f)
        \/ \E k \in Keys : ApproveDiff(k, r)
    BY <1>1 DEF ReturnWork
  <2>2. CASE \E k \in Keys : ApproveDiff(k, r)
    BY <2>2, RecordStep DEF ApproveDiff, ApproveExchangePayment
  <2>3. CASE ~\E k \in Keys : ApproveDiff(k, r)
    <3>1. UNCHANGED <<diffVars, pgVars>>
      BY <2>1, <2>3 DEF OpenReturn, ConfirmPickup, SettleReturn, RejectReturn, CompleteExchange
    <3> QED
      BY <3>1, PayKept
  <2> QED
    BY <2>2, <2>3
<1>2. CASE DiffWork
  <2>1. PICK k \in Keys :
        \/ DiffError(k) \/ GatewayConfirmLate(k) \/ GatewayDeposit(k)
        \/ \E r \in ReturnIds : \/ ReadDiff(k, r) \/ ReserveDiff(k, r) \/ GatewayConfirm(k, r)
                                \/ DiffUnknown(k, r) \/ FailDiff(k, r)
    BY <1>2 DEF DiffWork
  <2>2. CASE DiffError(k) \/ \E r \in ReturnIds : ReadDiff(k, r)
    <3>1. UNCHANGED <<pay, pgVars>>
      BY <2>2 DEF DiffError, ReadDiff
    <3> QED
      BY <2>2, <3>1, ReadStep
  <2>3. CASE \E r \in ReturnIds : FailDiff(k, r)
    BY <2>3, RecordStep DEF FailDiff
  <2> QED
    BY <2>1, <2>2, <2>3, LateStep, DepositStep, ReserveStep, ConfirmStep, UnknownStep
<1>3. CASE RefundWork \/ ClosingWork
  BY <1>3, LeftAlone, PayKept
<1>4. CASE Crash
  BY <1>4, PayCrashStep
<1>5. CASE UNCHANGED vars
  BY <1>5, PayKept DEF vars
<1> QED
  BY <1>1, <1>2, <1>3, <1>4, <1>5, StepKinds

\* Payments are only added to.
LEMMA PaidStaysStep == ASSUME PayInv, [Next]_vars PROVE PaidStays
<1>1. CASE ReturnWork
  <2>1. CASE UNCHANGED <<pay, taken>>
    BY <2>1 DEF PaidStays
  <2>2. CASE ~UNCHANGED <<pay, taken>>
    <3>1. PICK k \in Keys, r \in ReturnIds : ApproveDiff(k, r)
      BY <1>1, <2>2 DEF ReturnWork, OpenReturn, ConfirmPickup, SettleReturn, RejectReturn,
                        CompleteExchange, diffVars, pgVars
    <3>2. In(k, "approved", r) /\ SetPay(k, "approved") /\ UNCHANGED taken
      BY <3>1 DEF ApproveDiff, ApproveExchangePayment, pgVars
    <3>3. pay[k].state = "pending"
      <4>1. RowOpen(k, r)
        BY <3>2 DEF PayInv, AskedHasRow, AskedAt
      <4> QED
        BY <4>1 DEF RowOpen
    <3> QED
      BY <3>2, <3>3, PayWritten DEF PaidStays, PayInv
  <2> QED
    BY <2>1, <2>2
<1>2. CASE DiffWork
  <2>1. PICK k \in Keys :
        \/ DiffError(k) \/ GatewayConfirmLate(k) \/ GatewayDeposit(k)
        \/ \E r \in ReturnIds : \/ ReadDiff(k, r) \/ ReserveDiff(k, r) \/ GatewayConfirm(k, r)
                                \/ DiffUnknown(k, r) \/ FailDiff(k, r)
    BY <1>2 DEF DiffWork
  <2>2. CASE UNCHANGED pay
    <3>1. UNCHANGED taken \/ taken' = taken \cup {k}
      BY <2>1 DEF DiffError, GatewayConfirmLate, GatewayDeposit, ReadDiff, ReserveDiff,
                  GatewayConfirm, DiffUnknown, FailDiff, pgVars
    <3> QED
      BY <2>2, <3>1, PaidStaysKept
  <2>3. CASE ~UNCHANGED pay
    <3>1. PICK r \in ReturnIds : ReserveDiff(k, r) \/ FailDiff(k, r)
      BY <2>1, <2>3 DEF DiffError, GatewayConfirmLate, GatewayDeposit, ReadDiff,
                        GatewayConfirm, DiffUnknown, diffVars
    <3>2. CASE ReserveDiff(k, r)
      <4>1. ReserveExchangePayment(k, r) /\ UNCHANGED taken
        BY <2>3, <3>2 DEF ReserveDiff, pgVars
      <4>2. pay[k].state # "approved"
        BY <4>1 DEF ReserveExchangePayment, NoPay, None
      <4>3. \A j \in Keys : j # k => pay'[j] = pay[j]
        BY <4>1 DEF ReserveExchangePayment, PayInv, PayTypes
      <4> QED
        BY <4>1, <4>2, <4>3 DEF PaidStays
    <3>3. CASE FailDiff(k, r)
      <4>1. /\ In(k, "refused", r) \/ In(k, "waiting", r)
            /\ SetPay(k, "failed") /\ UNCHANGED taken
        BY <3>3 DEF FailDiff, pgVars
      <4>2. RowOpen(k, r)
        BY <4>1 DEF PayInv, AskedHasRow, AskedAt
      <4>3. pay[k].state = "pending"
        BY <4>2 DEF RowOpen
      <4> QED
        BY <4>1, <4>3, PayWritten DEF PaidStays, PayInv
    <3> QED
      BY <3>1, <3>2, <3>3
  <2> QED
    BY <2>2, <2>3
<1>3. CASE RefundWork \/ ClosingWork \/ Crash \/ UNCHANGED vars
  <2>1. UNCHANGED <<pay, taken>>
    BY <1>3, LeftAlone DEF vars, diffVars, pgVars
  <2> QED
    BY <2>1 DEF PaidStays
<1> QED
  BY <1>1, <1>2, <1>3, StepKinds

\* Of the steps that ship an exchange, one has its difference paid, the other
\* has none.
LEMMA ShippedStep ==
    ASSUME ReturnsInv, PayInv, ShippedMeansPaid, [Next]_vars
    PROVE  ShippedMeansPaid'
<1>1. PaidStays /\ PayTypes
  BY PaidStaysStep DEF PayInv
<1>2. CASE UNCHANGED ret
  BY <1>1, <1>2, ShippedKept
<1>3. CASE ~UNCHANGED ret
  <2>1. ReturnWork
    BY <1>3, LeftAlone, StepKinds DEF orderVars, vars
  <2>2. PICK r \in ReturnIds :
        \/ \E kind \in {"return", "exchange"}, lines \in Lines, delta \in Int :
              OpenReturn(r, kind, lines, delta)
        \/ \E fault, policy, amount : ConfirmPickup(r, fault, policy, amount)
        \/ \E f \in Refunds : SettleReturn(r, f)
        \/ RejectReturn(r)
        \/ \E f \in Refunds : CompleteExchange(r, f)
        \/ \E k \in Keys : ApproveDiff(k, r)
    BY <2>1 DEF ReturnWork
  <2>3. CASE \E kind \in {"return", "exchange"}, lines \in Lines, delta \in Int :
              OpenReturn(r, kind, lines, delta)
    <3>1. /\ ret'[r].status # "ExchangeShipped"
          /\ \A s \in ReturnIds : s # r => ret'[s] = ret[s]
      <4>1. PICK kind \in {"return", "exchange"} :
               \E lines \in Lines, delta \in Int : OpenReturn(r, kind, lines, delta)
        BY <2>3
      <4>2. PICK lines \in Lines : \E delta \in Int : OpenReturn(r, kind, lines, delta)
        BY <4>1
      <4>3. PICK delta \in Int : OpenReturn(r, kind, lines, delta)
        BY <4>2
      <4>4. Units(lines) \in Nat
        BY Numbers
      <4>5. /\ ret'[r].status \in {"ReturnOpen", "ExchangeOpen"}
            /\ \A s \in ReturnIds : s # r => ret'[s] = ret[s]
        BY <4>3, <4>4, OpenReturnStep
      <4> QED
        BY <4>5
    <3> QED
      BY <1>1, <3>1 DEF ShippedMeansPaid, PaidStays, PayTypes
  <2>4. CASE \E fault, policy, amount : ConfirmPickup(r, fault, policy, amount)
    <3>1. PICK to \in {"ExchangePicked", "ReturnPickedUp"} : MovedTo(r, to, TRUE)
      BY <2>4, PickupStep
    <3> QED
      BY <1>1, <3>1, ShippedMoved
  <2>5. CASE RejectReturn(r) \/ \E f \in Refunds : SettleReturn(r, f)
    <3>1. MovedTo(r, "Rejected", FALSE) \/ MovedTo(r, "Refunded", FALSE)
      <4>1. CASE RejectReturn(r)
        BY <4>1, RejectReturnStep
      <4>2. CASE \E f \in Refunds : SettleReturn(r, f)
        <5>1. PICK f \in Refunds : SettleReturn(r, f)
          BY <4>2
        <5> QED
          BY <5>1, SettleStep
      <4> QED
        BY <2>5, <4>1, <4>2
    <3> QED
      BY <1>1, <3>1, ShippedMoved
  <2>6. CASE \E f \in Refunds : CompleteExchange(r, f)
    <3>1. \/ MovedTo(r, "ExchangeDiffDue", TRUE)
          \/ ~(ret[r].diff > 0) /\ MovedTo(r, "ExchangeShipped", FALSE)
      BY <2>6, CompleteStep
    <3> QED
      BY <1>1, <3>1, ShippedMoved
  <2>7. CASE \E k \in Keys : ApproveDiff(k, r)
    <3>1. PICK k \in Keys : ApproveDiff(k, r)
      BY <2>7
    <3>2. In(k, "approved", r) /\ SetPay(k, "approved") /\ UNCHANGED taken
      BY <3>1 DEF ApproveDiff, ApproveExchangePayment, pgVars
    <3>3. k \in taken /\ pay[k] = [state |-> "pending", of |-> r]
      BY <3>2 DEF PayInv, AskedHasRow, AskedAt, RowOpen
    <3>4. pay'[k] = [state |-> "approved", of |-> r]
      <4>1. pay'[k].of = r /\ pay'[k].state = "approved"
        BY <3>2, <3>3, PayWritten DEF PayInv
      <4>2. pay'[k] \in [state : {None, "pending", "approved", "failed"}, of : ReturnIds \cup {None}]
        BY <3>2, PayWritten DEF PayInv
      <4> QED
        BY <4>1, <4>2
    <3>5. \A s \in ReturnIds : s # r => ret'[s] = ret[s]
      BY <3>1, ApproveStep DEF MovedTo, RowTo, RowOf
    <3> QED
      BY <1>1, <3>2, <3>3, <3>4, <3>5 DEF ShippedMeansPaid, PaidStays, PayTypes
  <2> QED
    BY <2>2, <2>3, <2>4, <2>5, <2>6, <2>7
<1> QED
  BY <1>2, <1>3

\* The delivered order, and no payment of any difference.
LEMMA ReturnsInit == Init => ReturnsInv /\ PayInv /\ ShippedMeansPaid
<1> SUFFICES ASSUME Init PROVE ReturnsInv /\ PayInv /\ ShippedMeansPaid
  OBVIOUS
<1>1. NoReturn \in [kind : {None, "return", "exchange"}, status : ReturnStates,
                    lines : Lines \cup {NoLines}, open : BOOLEAN,
                    diff : Int, fee : Fees \cup {0}]
  BY DEF NoReturn, ReturnStates
<1>2. NoReturn.open = FALSE /\ NoReturn.status = "none"
  BY DEF NoReturn, None
<1>3. ReturnsInv
  BY <1>1, <1>2 DEF Init, ReturnsInv, ReturnRows, OrderStates, RowsAgree, OrderShows
<1>4. \A k \in Keys : \A y, q : ~In(k, y, q)
  BY DEF Init, In, Idle
<1>5. PayTypes
  BY DEF Init, PayTypes, NoPay
<1>6. AskedHasRow /\ FailedTookNothing /\ OneLiveDiff
  BY <1>4 DEF Init, AskedHasRow, AskedAt, FailedTookNothing, OneLiveDiff, LivePay, NoPay, None
<1>7. ShippedMeansPaid
  BY <1>2 DEF Init, ShippedMeansPaid
<1> QED
  BY <1>3, <1>5, <1>6, <1>7 DEF PayInv

\* The order, its returns and the payment rows agree in every reachable state.
THEOREM ReturnsInductive == Spec => [](ReturnsInv /\ PayInv /\ ShippedMeansPaid)
<1>1. ReturnsInv /\ PayInv /\ ShippedMeansPaid /\ [Next]_vars
        => (ReturnsInv /\ PayInv /\ ShippedMeansPaid)'
  BY ReturnsStep, PayStep, ShippedStep
<1> QED
  BY ReturnsInit, <1>1, PTL DEF Spec

\* A dearer exchange never goes out unpaid, although the request that paid read
\* it without a lock (ConfirmExchangeDiff, ApproveExchangePayment).
THEOREM ShippedMeansPaidSafe == Spec => []ShippedMeansPaid
BY ReturnsInductive, PTL

\* A card is charged once for one exchange, although answers get lost
\* (payments_exchange_idx: a row that has not failed keeps others out).
THEOREM CardChargedOnceSafe == Spec => []CardChargedOnce
<1>1. PayInv => CardChargedOnce
  BY DEF PayInv, FailedTookNothing, OneLiveDiff, LivePay, CardChargedOnce, PayTypes
<1> QED
  BY ReturnsInductive, <1>1, PTL

-----------------------------------------------------------------------------
(* The books of money and units                                              *)

\* One refund changes the sums by what it brings, takes away or alters.
LEMMA OneRefundChanges ==
    ASSUME refund \in RefundRows, refund' \in RefundRows, NEW f \in Refunds,
           \A g \in Refunds : g # f => refund'[g] = refund[g]
    PROVE  /\ Reserved \in Nat /\ Reserved' \in Nat
           /\ Reserved' - (IF Live(f)' THEN refund'[f].amount ELSE 0)
                = Reserved - (IF Live(f) THEN refund[f].amount ELSE 0)
           /\ Live(f) => refund[f].amount <= Reserved
           /\ \A i \in Items :
                /\ Back(i) \in Nat /\ Back(i)' \in Nat
                /\ Back(i)' - (IF Live(f)' THEN refund'[f].lines[i] ELSE 0)
                     = Back(i) - (IF Live(f) THEN refund[f].lines[i] ELSE 0)
                /\ Live(f) => refund[f].lines[i] <= Back(i)
<1>1. /\ LiveRefunds \in SUBSET Refunds /\ LiveRefunds' \in SUBSET Refunds
      /\ \A g \in Refunds : g # f => (g \in LiveRefunds <=> g \in LiveRefunds')
      /\ f \in LiveRefunds <=> Live(f)
      /\ f \in LiveRefunds' <=> Live(f)'
  BY DEF LiveRefunds, Live
<1>2. /\ Reserved \in Nat /\ Reserved' \in Nat
      /\ Reserved' - (IF Live(f)' THEN refund'[f].amount ELSE 0)
                = Reserved - (IF Live(f) THEN refund[f].amount ELSE 0)
      /\ Live(f) => refund[f].amount <= Reserved
  <2> DEFINE u == [g \in Refunds |-> refund[g].amount]
             v == [g \in Refunds |-> refund'[g].amount]
  <2>1. /\ \A g \in Refunds : u[g] \in Nat /\ v[g] \in Nat /\ (g # f => u[g] = v[g])
        /\ u[f] = refund[f].amount /\ v[f] = refund'[f].amount
    BY DEF RefundRows
  <2>2. Reserved = SumFunctionOnSet(u, LiveRefunds) /\ Reserved' = SumFunctionOnSet(v, LiveRefunds')
    BY DEF Reserved, SumOver
  <2> HIDE DEF u, v
  <2>3. /\ SumFunctionOnSet(u, LiveRefunds) \in Nat /\ SumFunctionOnSet(v, LiveRefunds') \in Nat
        /\ SumFunctionOnSet(v, LiveRefunds') - (IF f \in LiveRefunds' THEN v[f] ELSE 0)
             = SumFunctionOnSet(u, LiveRefunds) - (IF f \in LiveRefunds THEN u[f] ELSE 0)
        /\ f \in LiveRefunds => u[f] <= SumFunctionOnSet(u, LiveRefunds)
    <3>1. /\ \A g \in Refunds : u[g] \in Nat /\ v[g] \in Nat
          /\ \A g \in Refunds : g # f => u[g] = v[g] /\ (g \in LiveRefunds <=> g \in LiveRefunds')
          /\ IsFiniteSet(Refunds) /\ LiveRefunds \in SUBSET Refunds /\ LiveRefunds' \in SUBSET Refunds
      BY <1>1, <2>1, ReturnsAssumption
    <3>2. RowChanges(u, LiveRefunds, v, LiveRefunds', f)
      BY <3>1, SumRowChanges
    <3> QED
      BY <3>2 DEF RowChanges
  <2> QED
    BY <1>1, <2>1, <2>2, <2>3
<1>3. ASSUME NEW i \in Items
      PROVE  /\ Back(i) \in Nat /\ Back(i)' \in Nat
             /\ Back(i)' - (IF Live(f)' THEN refund'[f].lines[i] ELSE 0)
                  = Back(i) - (IF Live(f) THEN refund[f].lines[i] ELSE 0)
             /\ Live(f) => refund[f].lines[i] <= Back(i)
  <2> DEFINE u == [g \in Refunds |-> refund[g].lines[i]]
             v == [g \in Refunds |-> refund'[g].lines[i]]
  <2>1. /\ \A g \in Refunds : u[g] \in Nat /\ v[g] \in Nat /\ (g # f => u[g] = v[g])
        /\ u[f] = refund[f].lines[i] /\ v[f] = refund'[f].lines[i]
    BY Numbers DEF RefundRows
  <2>2. Back(i) = SumFunctionOnSet(u, LiveRefunds) /\ Back(i)' = SumFunctionOnSet(v, LiveRefunds')
    BY DEF Back, SumOver
  <2> HIDE DEF u, v
  <2>3. /\ SumFunctionOnSet(u, LiveRefunds) \in Nat /\ SumFunctionOnSet(v, LiveRefunds') \in Nat
        /\ SumFunctionOnSet(v, LiveRefunds') - (IF f \in LiveRefunds' THEN v[f] ELSE 0)
             = SumFunctionOnSet(u, LiveRefunds) - (IF f \in LiveRefunds THEN u[f] ELSE 0)
        /\ f \in LiveRefunds => u[f] <= SumFunctionOnSet(u, LiveRefunds)
    <3>1. /\ \A g \in Refunds : u[g] \in Nat /\ v[g] \in Nat
          /\ \A g \in Refunds : g # f => u[g] = v[g] /\ (g \in LiveRefunds <=> g \in LiveRefunds')
          /\ IsFiniteSet(Refunds) /\ LiveRefunds \in SUBSET Refunds /\ LiveRefunds' \in SUBSET Refunds
      BY <1>1, <2>1, ReturnsAssumption
    <3>2. RowChanges(u, LiveRefunds, v, LiveRefunds', f)
      BY <3>1, SumRowChanges
    <3> QED
      BY <3>2 DEF RowChanges
  <2> QED
    BY <1>1, <2>1, <2>2, <2>3
<1> QED
  BY <1>2, <1>3

\* One return, too.
Kept(r) == ret[r].kind = "exchange" /\ ret[r].status # "Rejected"

\* When one return's row changes, the sums over the returns change by its part.
LEMMA OneReturnChanges ==
    ASSUME ret \in ReturnRows, ret' \in ReturnRows, NEW r \in ReturnIds,
           \A s \in ReturnIds : s # r => ret'[s] = ret[s]
    PROVE  /\ Held \in Nat /\ Held' \in Nat
           /\ Held' - (IF Kept(r)' THEN Units(ret'[r].lines) ELSE 0)
                = Held - (IF Kept(r) THEN Units(ret[r].lines) ELSE 0)
           /\ \A i \in Items :
                /\ Returned(i) \in Nat /\ Returned(i)' \in Nat
                /\ Returned(i)' - (IF ret'[r].status = "Refunded" THEN ret'[r].lines[i] ELSE 0)
                     = Returned(i) - (IF ret[r].status = "Refunded" THEN ret[r].lines[i] ELSE 0)
                /\ Leaving(i) \in Nat /\ Leaving(i)' \in Nat
                /\ Leaving(i)' - (IF ret'[r].open THEN ret'[r].lines[i] ELSE 0)
                     = Leaving(i) - (IF ret[r].open THEN ret[r].lines[i] ELSE 0)
                /\ ret[r].open => ret[r].lines[i] <= Leaving(i)
<1>1. Held \in Nat /\ Held' \in Nat
      /\ Held' - (IF Kept(r)' THEN Units(ret'[r].lines) ELSE 0)
           = Held - (IF Kept(r) THEN Units(ret[r].lines) ELSE 0)
  <2> DEFINE u == [s \in ReturnIds |-> Units(ret[s].lines)]
             v == [s \in ReturnIds |-> Units(ret'[s].lines)]
  <2>1. /\ HeldExchanges \in SUBSET ReturnIds /\ HeldExchanges' \in SUBSET ReturnIds
        /\ \A s \in ReturnIds : s # r => (s \in HeldExchanges <=> s \in HeldExchanges')
        /\ r \in HeldExchanges <=> Kept(r)
        /\ r \in HeldExchanges' <=> Kept(r)'
    BY DEF HeldExchanges, Kept
  <2>2. /\ \A s \in ReturnIds : u[s] \in Nat /\ v[s] \in Nat /\ (s # r => u[s] = v[s])
        /\ u[r] = Units(ret[r].lines) /\ v[r] = Units(ret'[r].lines)
    BY Numbers DEF ReturnRows
  <2>3. Held = SumFunctionOnSet(u, HeldExchanges) /\ Held' = SumFunctionOnSet(v, HeldExchanges')
    BY DEF Held, SumOver, Units
  <2> HIDE DEF u, v
  <2>4. /\ SumFunctionOnSet(u, HeldExchanges) \in Nat /\ SumFunctionOnSet(v, HeldExchanges') \in Nat
        /\ SumFunctionOnSet(v, HeldExchanges') - (IF r \in HeldExchanges' THEN v[r] ELSE 0)
             = SumFunctionOnSet(u, HeldExchanges) - (IF r \in HeldExchanges THEN u[r] ELSE 0)
    <3>1. /\ \A s \in ReturnIds : u[s] \in Nat /\ v[s] \in Nat
          /\ \A s \in ReturnIds : s # r => u[s] = v[s] /\ (s \in HeldExchanges <=> s \in HeldExchanges')
          /\ IsFiniteSet(ReturnIds) /\ HeldExchanges \in SUBSET ReturnIds /\ HeldExchanges' \in SUBSET ReturnIds
      BY <2>1, <2>2, ReturnsAssumption
    <3>2. RowChanges(u, HeldExchanges, v, HeldExchanges', r)
      BY <3>1, SumRowChanges
    <3> QED
      BY <3>2 DEF RowChanges
  <2> QED
    BY <2>1, <2>2, <2>3, <2>4
<1>2. ASSUME NEW i \in Items
      PROVE  /\ Returned(i) \in Nat /\ Returned(i)' \in Nat
             /\ Returned(i)' - (IF ret'[r].status = "Refunded" THEN ret'[r].lines[i] ELSE 0)
                  = Returned(i) - (IF ret[r].status = "Refunded" THEN ret[r].lines[i] ELSE 0)
             /\ Leaving(i) \in Nat /\ Leaving(i)' \in Nat
             /\ Leaving(i)' - (IF ret'[r].open THEN ret'[r].lines[i] ELSE 0)
                  = Leaving(i) - (IF ret[r].open THEN ret[r].lines[i] ELSE 0)
             /\ ret[r].open => ret[r].lines[i] <= Leaving(i)
  <2> DEFINE u == [s \in ReturnIds |-> ret[s].lines[i]]
             v == [s \in ReturnIds |-> ret'[s].lines[i]]
  <2>1. /\ SettledReturns \in SUBSET ReturnIds /\ SettledReturns' \in SUBSET ReturnIds
        /\ \A s \in ReturnIds : s # r => (s \in SettledReturns <=> s \in SettledReturns')
        /\ r \in SettledReturns <=> ret[r].status = "Refunded"
        /\ r \in SettledReturns' <=> ret'[r].status = "Refunded"
    BY DEF SettledReturns
  <2>2. /\ OpenReturns \in SUBSET ReturnIds /\ OpenReturns' \in SUBSET ReturnIds
        /\ \A s \in ReturnIds : s # r => (s \in OpenReturns <=> s \in OpenReturns')
        /\ r \in OpenReturns <=> ret[r].open
        /\ r \in OpenReturns' <=> ret'[r].open
    BY DEF OpenReturns
  <2>3. /\ \A s \in ReturnIds : u[s] \in Nat /\ v[s] \in Nat /\ (s # r => u[s] = v[s])
        /\ u[r] = ret[r].lines[i] /\ v[r] = ret'[r].lines[i]
    BY Numbers DEF ReturnRows
  <2>4. /\ Returned(i) = SumFunctionOnSet(u, SettledReturns)
        /\ Returned(i)' = SumFunctionOnSet(v, SettledReturns')
        /\ Leaving(i) = SumFunctionOnSet(u, OpenReturns)
        /\ Leaving(i)' = SumFunctionOnSet(v, OpenReturns')
    BY DEF Returned, Leaving, SumOver
  <2> HIDE DEF u, v
  <2>5. /\ SumFunctionOnSet(u, SettledReturns) \in Nat /\ SumFunctionOnSet(v, SettledReturns') \in Nat
        /\ SumFunctionOnSet(v, SettledReturns') - (IF r \in SettledReturns' THEN v[r] ELSE 0)
             = SumFunctionOnSet(u, SettledReturns) - (IF r \in SettledReturns THEN u[r] ELSE 0)
    <3>1. /\ \A s \in ReturnIds : u[s] \in Nat /\ v[s] \in Nat
          /\ \A s \in ReturnIds : s # r => u[s] = v[s] /\ (s \in SettledReturns <=> s \in SettledReturns')
          /\ IsFiniteSet(ReturnIds) /\ SettledReturns \in SUBSET ReturnIds /\ SettledReturns' \in SUBSET ReturnIds
      BY <2>1, <2>3, ReturnsAssumption
    <3>2. RowChanges(u, SettledReturns, v, SettledReturns', r)
      BY <3>1, SumRowChanges
    <3> QED
      BY <3>2 DEF RowChanges
  <2>6. /\ SumFunctionOnSet(u, OpenReturns) \in Nat /\ SumFunctionOnSet(v, OpenReturns') \in Nat
        /\ SumFunctionOnSet(v, OpenReturns') - (IF r \in OpenReturns' THEN v[r] ELSE 0)
             = SumFunctionOnSet(u, OpenReturns) - (IF r \in OpenReturns THEN u[r] ELSE 0)
        /\ r \in OpenReturns => u[r] <= SumFunctionOnSet(u, OpenReturns)
    <3>1. /\ \A s \in ReturnIds : u[s] \in Nat /\ v[s] \in Nat
          /\ \A s \in ReturnIds : s # r => u[s] = v[s] /\ (s \in OpenReturns <=> s \in OpenReturns')
          /\ IsFiniteSet(ReturnIds) /\ OpenReturns \in SUBSET ReturnIds /\ OpenReturns' \in SUBSET ReturnIds
      BY <2>2, <2>3, ReturnsAssumption
    <3>2. RowChanges(u, OpenReturns, v, OpenReturns', r)
      BY <3>1, SumRowChanges
    <3> QED
      BY <3>2 DEF RowChanges
  <2> QED
    BY <2>1, <2>2, <2>3, <2>4, <2>5, <2>6
<1> QED
  BY <1>1, <1>2

\* Units on their way, back, or held for an exchange are counted in naturals.
LEMMA UnitsNat ==
    ASSUME ret \in ReturnRows
    PROVE  Held \in Nat /\ \A i \in Items : Returned(i) \in Nat /\ Leaving(i) \in Nat
<1>1. Held \in Nat
  <2> DEFINE u == [s \in ReturnIds |-> Units(ret[s].lines)]
  <2>1. IsFiniteSet(HeldExchanges) /\ \A s \in HeldExchanges : u[s] \in Nat
    BY ReturnsAssumption, FS_Subset, Numbers DEF ReturnRows, HeldExchanges
  <2>2. Held = SumFunctionOnSet(u, HeldExchanges)
    BY DEF Held, SumOver, Units
  <2> HIDE DEF u
  <2> QED
    BY <2>1, <2>2, SumNat
<1>2. ASSUME NEW i \in Items PROVE Returned(i) \in Nat /\ Leaving(i) \in Nat
  <2> DEFINE u == [s \in ReturnIds |-> ret[s].lines[i]]
  <2>1. /\ IsFiniteSet(SettledReturns) /\ \A s \in SettledReturns : u[s] \in Nat
        /\ IsFiniteSet(OpenReturns) /\ \A s \in OpenReturns : u[s] \in Nat
    BY ReturnsAssumption, FS_Subset, Numbers DEF ReturnRows, SettledReturns, OpenReturns
  <2>2. /\ Returned(i) = SumFunctionOnSet(u, SettledReturns)
        /\ Leaving(i) = SumFunctionOnSet(u, OpenReturns)
    BY DEF Returned, Leaving, SumOver
  <2> HIDE DEF u
  <2> QED
    BY <2>1, <2>2, SumNat
<1> QED
  BY <1>1, <1>2

\* The units the refunds give back are a natural number.
LEMMA BackNat ==
    ASSUME refund \in RefundRows
    PROVE  \A i \in Items : Back(i) \in Nat
<1> TAKE i \in Items
<1> DEFINE u == [g \in Refunds |-> refund[g].lines[i]]
<1>1. IsFiniteSet(LiveRefunds) /\ \A g \in LiveRefunds : u[g] \in Nat
  BY ReturnsAssumption, FS_Subset, Numbers DEF RefundRows, LiveRefunds
<1>2. Back(i) = SumFunctionOnSet(u, LiveRefunds)
  BY DEF Back, SumOver
<1> HIDE DEF u
<1> QED
  BY <1>1, <1>2, SumNat

\* The smaller and the greater of two numbers are numbers.
LEMMA MinMaxInt ==
    ASSUME NEW a \in Int, NEW b \in Int
    PROVE  Min({a, b}) \in {a, b} /\ Max({a, b}) \in {a, b}
<1>1. a <= b \/ b <= a
  OBVIOUS
<1>2. Min({a, b}) \in {a, b}
  <2>1. \E x \in {a, b} : \A y \in {a, b} : x <= y
    BY <1>1
  <2> QED
    BY <2>1 DEF Min
<1>3. Max({a, b}) \in {a, b}
  <2>1. \E x \in {a, b} : \A y \in {a, b} : x >= y
    BY <1>1
  <2> QED
    BY <2>1 DEF Max
<1> QED
  BY <1>2, <1>3

\* What units are worth is a number.
LEMMA WorthInt ==
    ASSUME refund \in RefundRows, \A i \in Items : settled[i] \in 0..Quantity[i],
           NEW lines, \A i \in Items : lines[i] \in Nat
    PROVE  Worth(lines) \in Int
<1>1. ASSUME NEW i \in Items PROVE itemRefundable(i, lines[i]) \in Int
  <2>1. Net[i] \in Nat /\ Quantity[i] \in Nat /\ Quantity[i] > 0 /\ settled[i] \in Nat /\ lines[i] \in Nat
    BY ReturnsAssumption
  <2>2. \A n \in Nat : share(Net[i], n, Quantity[i]) \in Int
    <3> TAKE n \in Nat
    <3>1. Net[i] * n \in Int
      BY <2>1
    <3> QED
      BY <2>1, <3>1 DEF share
  <2>3. RefundableAmount(Net[i], Quantity[i], settled[i], lines[i]) \in Int
    BY <2>1, <2>2 DEF RefundableAmount
  <2>4. ExchangeCredit(i) \in Int
    <3> DEFINE C == {f \in Refunds : /\ Live(f) /\ refund[f].of # None
                                     /\ ret[refund[f].of].kind = "exchange"
                                     /\ ret[refund[f].of].lines[i] > 0}
               u == [f \in Refunds |-> refund[f].amount]
    <3>1. IsFiniteSet(C) /\ \A f \in C : u[f] \in Int
      BY ReturnsAssumption, FS_Subset DEF RefundRows
    <3>2. ExchangeCredit(i) = SumFunctionOnSet(u, C)
      BY DEF ExchangeCredit, SumOver
    <3> HIDE DEF C, u
    <3> QED
      BY <3>1, <3>2, SumInt
  <2> DEFINE part == RefundableAmount(Net[i], Quantity[i], settled[i], lines[i])
             left == Net[i] - share(Net[i], settled[i], Quantity[i]) - ExchangeCredit(i)
  <2>5. part \in Int /\ left \in Int
    BY <2>1, <2>2, <2>3, <2>4
  <2>6. itemRefundable(i, lines[i]) = IF ExchangeCredit(i) <= 0 THEN part
                                      ELSE Max({0, Min({part, left})})
    BY DEF itemRefundable, capByExchangeCredit
  <2> HIDE DEF part, left
  <2>7. Min({part, left}) \in Int
    BY <2>5, MinMaxInt
  <2>8. \A m \in Int : Max({0, m}) \in Int
    <3> TAKE m \in Int
    <3>1. \A a \in Int : Max({a, m}) \in {a, m}
      BY MinMaxInt
    <3> QED
      BY <3>1
  <2> QED
    BY <2>5, <2>6, <2>7, <2>8
<1> DEFINE T == {i \in Items : lines[i] > 0}
           w == [i \in Items |-> itemRefundable(i, lines[i])]
<1>2. IsFiniteSet(T) /\ \A i \in T : w[i] \in Int
  BY <1>1, ReturnsAssumption, FS_Subset
<1>3. Worth(lines) = SumFunctionOnSet(w, T)
  BY DEF Worth, SumOver
<1> HIDE DEF T, w
<1> QED
  BY <1>2, <1>3, SumInt

\* A closed order goes nowhere.
LEMMA NotClosed ==
    ASSUME NEW to, NEW actor, moveOrder(to, actor)
    PROVE  status # "Refunded" /\ status' = to
BY DEF moveOrder, MoveOrderStatus, CanTransition, transitions, Moves

\* A refund is reserved.
LEMMA RefundReserved ==
    ASSUME BooksInv, NEW f \in Refunds, NEW amount \in Nat, NEW lines \in Lines \cup {NoLines},
           NEW r \in ReturnIds \cup {None}, NEW by \in {"A-507", "A-511"},
           ReserveRefund(f, amount, lines, r, by)
    PROVE  /\ refund' \in RefundRows /\ refunded' \in 0..Approved /\ refunded' = Reserved'
           /\ \A i \in Items : Back(i)' = Back(i) + lines[i] /\ Back(i) \in Nat
<1>1. /\ refunded + amount <= Approved /\ refunded' = refunded + amount
      /\ refund[f].state = None
      /\ refund' = [refund EXCEPT ![f] = [state |-> "requested", amount |-> amount,
                                          lines |-> lines, of |-> r, by |-> by]]
  BY DEF ReserveRefund, InsertRefund
<1>2. refund \in RefundRows
  BY DEF BooksInv
<1> DEFINE row == [state |-> "requested", amount |-> amount, lines |-> lines, of |-> r, by |-> by]
<1>3. /\ row \in [state : RefundStates, amount : Nat, lines : Lines \cup {NoLines},
                  of : ReturnIds \cup {None}, by : {None, "A-507", "A-511"}]
      /\ row.state = "requested" /\ row.amount = amount /\ row.lines = lines
  BY DEF RefundStates
<1> HIDE DEF row
<1>4. refund' \in RefundRows /\ refund'[f] = row /\ \A g \in Refunds : g # f => refund'[g] = refund[g]
  BY <1>1, <1>2, <1>3 DEF RefundRows, row
<1>5. ~Live(f) /\ Live(f)'
  BY <1>1, <1>3, <1>4 DEF Live, None
<1>6. /\ Reserved \in Nat /\ Reserved' = Reserved + amount
      /\ \A i \in Items : Back(i)' = Back(i) + lines[i] /\ Back(i) \in Nat
  <2>1. refund'[f].amount = amount /\ refund'[f].lines = lines /\ \A i \in Items : lines[i] \in Nat
    BY <1>3, <1>4, Numbers
  <2> QED
    BY <1>2, <1>4, <1>5, <2>1, OneRefundChanges
<1>7. refunded' \in 0..Approved
  BY <1>1, Numbers DEF BooksInv
<1> QED
  BY <1>1, <1>4, <1>6, <1>7 DEF BooksInv

\* A refund's row is sent, answered or taken over: it is as live as it was.
LEMMA RefundSent ==
    ASSUME BooksInv, refund' \in RefundRows, NEW f \in Refunds,
           \A g \in Refunds : g # f => refund'[g] = refund[g],
           refund'[f].amount = refund[f].amount, refund'[f].lines = refund[f].lines,
           Live(f)' <=> Live(f),
           UNCHANGED <<orderVars, settled, refunded, stock>>, closing' \subseteq Refunds
    PROVE  BooksInv'
<1>1. Reserved' = Reserved /\ \A i \in Items : Back(i)' = Back(i)
  <2>1. refund[f].amount \in Nat /\ \A i \in Items : refund[f].lines[i] \in Nat
    BY Numbers DEF BooksInv, RefundRows
  <2> QED
    BY <2>1, OneRefundChanges DEF BooksInv
<1>2. Held' = Held /\ \A i \in Items : Returned(i)' = Returned(i) /\ Leaving(i)' = Leaving(i)
  BY DEF Held, Returned, Leaving, HeldExchanges, SettledReturns, OpenReturns, orderVars
<1>3. ASSUME NEW i \in Items PROVE UnitsAgree(i)'
  BY <1>1, <1>2 DEF BooksInv, UnitsAgree, orderVars
<1> QED
  BY <1>1, <1>2, <1>3 DEF BooksInv

\* The units of an open return are among those on their way.
LEMMA LeavingHas ==
    ASSUME ret \in ReturnRows, NEW r \in ReturnIds, ret[r].open, NEW i \in Items
    PROVE  ret[r].lines[i] <= Leaving(i) /\ Leaving(i) \in Nat
<1> DEFINE l == [s \in ReturnIds |-> ret[s].lines[i]]
<1>1. IsFiniteSet(OpenReturns) /\ r \in OpenReturns /\ \A s \in OpenReturns : l[s] \in Nat
  BY ReturnsAssumption, FS_Subset, Numbers DEF OpenReturns, ReturnRows
<1>2. Leaving(i) = SumFunctionOnSet(l, OpenReturns) /\ l[r] = ret[r].lines[i]
  BY DEF Leaving, SumOver
<1> HIDE DEF l
<1> QED
  BY <1>1, <1>2, SumNat

\* Who opens no return leaves no unit of it on its way.
LEMMA NotLeaving ==
    ASSUME ret \in ReturnRows, NEW i \in Items, ~OpenReturnItem(i)
    PROVE  Leaving(i) = 0
<1> DEFINE C == {r \in ReturnIds : LockReturnGross(r)[i] > 0}
<1>1. IsFiniteSet(C) /\ C \subseteq ReturnIds
  BY ReturnsAssumption, FS_Subset
<1>2. ~(Cardinality(C) > 0)
  BY DEF OpenReturnItem, OpenReturnItemCount
<1>3. C = {}
  <2> HIDE DEF C
  <2>1. Cardinality(C) \in Nat /\ (Cardinality(C) = 0 <=> C = {})
    BY <1>1, FS_CardinalityType, FS_EmptySet
  <2> QED
    BY <1>2, <2>1
<1> DEFINE u == [r \in ReturnIds |-> ret[r].lines[i]]
<1>4. \A r \in OpenReturns : u[r] = 0
  <2> TAKE r \in OpenReturns
  <2>1. r \in ReturnIds /\ ret[r].open /\ u[r] = ret[r].lines[i]
    BY DEF OpenReturns
  <2>2. ret[r].lines[i] \in Nat
    BY <2>1, Numbers DEF ReturnRows
  <2>3. ~(LockReturnGross(r)[i] > 0)
    BY <1>3, <2>1
  <2>4. LockReturnGross(r) = ret[r].lines
    BY <2>1 DEF LockReturnGross
  <2> QED
    BY <2>1, <2>2, <2>3, <2>4
<1>5. IsFiniteSet(OpenReturns)
  BY ReturnsAssumption, FS_Subset DEF OpenReturns
<1>6. Leaving(i) = SumFunctionOnSet(u, OpenReturns)
  BY DEF Leaving, SumOver
<1> HIDE DEF u
<1> QED
  BY <1>4, <1>5, <1>6, SumZero

\* P-507: units that are not on their way are settled and paid back.
LEMMA BooksRequested ==
    ASSUME BooksInv, ret \in ReturnRows, NEW f \in Refunds, NEW lines \in Lines,
           RequestRefund(f, lines)
    PROVE  BooksInv'
<1>1. /\ FitsIn(lines) /\ \A i \in Items : lines[i] > 0 => ~OpenReturnItem(i)
      /\ Worth(lines) > 0 /\ SettleItems(lines)
      /\ ReserveRefund(f, Worth(lines), lines, None, "A-507")
      /\ UNCHANGED <<orderVars, closing, stock>>
  BY DEF RequestRefund
<1>2. \A i \in Items : lines[i] \in Nat
  BY Numbers
<1>3. Worth(lines) \in Nat
  <2>1. Worth(lines) \in Int
    BY <1>2, WorthInt DEF BooksInv, UnitsAgree
  <2> QED
    BY <1>1, <2>1
<1>4. /\ refund' \in RefundRows /\ refunded' \in 0..Approved /\ refunded' = Reserved'
      /\ \A i \in Items : Back(i)' = Back(i) + lines[i] /\ Back(i) \in Nat
  BY <1>1, <1>3, RefundReserved
<1>5. /\ Held' = Held
      /\ \A i \in Items : Returned(i)' = Returned(i) /\ Leaving(i)' = Leaving(i)
  BY <1>1 DEF Held, Returned, Leaving, HeldExchanges, SettledReturns, OpenReturns, orderVars
<1>6. \A i \in Items : Returned(i) \in Nat /\ Leaving(i) \in Nat
  BY UnitsNat
<1>7. ASSUME NEW i \in Items PROVE UnitsAgree(i)'
  <2>1. settled'[i] = settled[i] + lines[i] /\ lines[i] <= Quantity[i] - settled[i]
    BY <1>1 DEF SettleItems, FitsIn, LockOrderItemForReturn
  <2>2. lines[i] > 0 => Leaving(i) = 0
    BY <1>1, NotLeaving
  <2>3. lines[i] \in Nat /\ Quantity[i] \in Nat /\ status' = status
    BY <1>1, <1>2, Numbers DEF orderVars
  <2>4. UnitsAgree(i)
    BY DEF BooksInv
  <2> QED
    BY <1>4, <1>5, <1>6, <2>1, <2>2, <2>3, <2>4 DEF UnitsAgree
<1> QED
  BY <1>1, <1>4, <1>5, <1>7 DEF BooksInv

\* A rejection gives units and money back.
LEMMA BooksRejected ==
    ASSUME BooksInv, ret \in ReturnRows, NEW f \in Refunds, RejectRefund(f)
    PROVE  BooksInv'
<1>1. /\ refund[f].state = "requested"
      /\ refund' = [refund EXCEPT ![f].state = "rejected"]
      /\ settled' = [i \in Items |-> settled[i] - refund[f].lines[i]]
      /\ refunded' = refunded - refund[f].amount
      /\ UNCHANGED <<orderVars, closing, stock>>
  BY DEF RejectRefund
<1>2. refund \in RefundRows
  BY DEF BooksInv
<1>3. /\ refund' \in RefundRows /\ refund'[f].state = "rejected"
      /\ \A g \in Refunds : g # f => refund'[g] = refund[g]
  BY <1>1, <1>2 DEF RefundRows, RefundStates
<1>4. Live(f) /\ ~Live(f)'
  BY <1>1, <1>3 DEF Live
<1>5. refund[f].amount \in Nat /\ \A i \in Items : refund[f].lines[i] \in Nat
  BY <1>2, Numbers DEF RefundRows
<1>6. /\ Reserved' = Reserved - refund[f].amount /\ Reserved' \in Nat
      /\ \A i \in Items : Back(i)' = Back(i) - refund[f].lines[i] /\ Back(i) \in Nat /\ Back(i)' \in Nat
  BY <1>2, <1>3, <1>4, <1>5, OneRefundChanges
<1>7. /\ Held' = Held
      /\ \A i \in Items : Returned(i)' = Returned(i) /\ Leaving(i)' = Leaving(i)
  BY <1>1 DEF Held, Returned, Leaving, HeldExchanges, SettledReturns, OpenReturns, orderVars
<1>8. \A i \in Items : Returned(i) \in Nat /\ Leaving(i) \in Nat
  BY UnitsNat
<1>9. ASSUME NEW i \in Items PROVE UnitsAgree(i)'
  <2>1. /\ settled'[i] = settled[i] - refund[f].lines[i] /\ refund[f].lines[i] \in Nat
        /\ status' = status /\ Quantity[i] \in Nat
    BY <1>1, <1>5, Numbers DEF orderVars
  <2>2. UnitsAgree(i)
    BY DEF BooksInv
  <2> QED
    BY <1>6, <1>7, <1>8, <2>1, <2>2 DEF UnitsAgree
<1>10. refunded' \in 0..Approved /\ refunded' = Reserved'
  BY <1>1, <1>5, <1>6, Numbers DEF BooksInv
<1> QED
  BY <1>1, <1>3, <1>7, <1>9, <1>10 DEF BooksInv

\* A closed order settles whatever is left.
LEMMA BooksClosed ==
    ASSUME BooksInv, ret \in ReturnRows, settled' = Quantity, status' = "Refunded",
           UNCHANGED <<ret, refunded, refund, stock>>, closing' \subseteq Refunds
    PROVE  BooksInv'
<1>1. /\ Held' = Held /\ Reserved' = Reserved
      /\ \A i \in Items : Returned(i)' = Returned(i) /\ Leaving(i)' = Leaving(i) /\ Back(i)' = Back(i)
  BY DEF Held, Returned, Leaving, HeldExchanges, SettledReturns, OpenReturns, Reserved, Back,
         LiveRefunds, Live
<1>2. \A i \in Items : Returned(i) \in Nat /\ Leaving(i) \in Nat
  BY UnitsNat
<1>3. ASSUME NEW i \in Items PROVE UnitsAgree(i)'
  <2>1. Back(i) \in Nat
    BY BackNat DEF BooksInv
  <2>2. UnitsAgree(i) /\ Quantity[i] \in Nat
    BY Numbers DEF BooksInv
  <2> QED
    BY <1>1, <1>2, <2>1, <2>2 DEF UnitsAgree
<1> QED
  BY <1>1, <1>3 DEF BooksInv

\* A row that is written: its units stop being on their way, and are back if
\* the return is settled.
LEMMA RowUnits ==
    ASSUME ReturnsInv, NEW r \in ReturnIds, NEW to, NEW open \in BOOLEAN, MovedTo(r, to, open)
    PROVE  /\ ret' \in ReturnRows /\ LockReturnGross(r) = ret[r].lines
           /\ \A i \in Items :
                /\ ret[r].lines[i] \in Nat /\ ret[r].lines[i] <= Leaving(i)
                /\ Leaving(i) \in Nat /\ Returned(i) \in Nat
                /\ Leaving(i)' = IF open THEN Leaving(i) ELSE Leaving(i) - ret[r].lines[i]
                /\ Returned(i)' = IF to = "Refunded" THEN Returned(i) + ret[r].lines[i]
                                  ELSE Returned(i)
           /\ Held \in Nat /\ Held' \in Nat
           /\ Held' = IF ret[r].kind = "exchange" /\ to = "Rejected"
                      THEN Held - Units(ret[r].lines) ELSE Held
<1>1. ret \in ReturnRows
  BY DEF ReturnsInv
<1>2. /\ ret' \in ReturnRows /\ \A s \in ReturnIds : s # r => ret'[s] = ret[s]
      /\ ret'[r].kind = ret[r].kind /\ ret'[r].lines = ret[r].lines
      /\ ret'[r].status = to /\ (ret'[r].open <=> open)
  BY DEF MovedTo, RowTo, RowOf
<1>3. ret[r].open /\ ret[r].status \in InProgress
  BY StepsOpen DEF MovedTo
<1>4. ret[r].status # "Refunded" /\ ret[r].status # "Rejected"
  BY <1>3 DEF InProgress
<1>5. Units(ret[r].lines) \in Nat /\ \A i \in Items : ret[r].lines[i] \in Nat
  BY <1>1, Numbers DEF ReturnRows
<1>6. ASSUME NEW i \in Items
      PROVE  /\ ret[r].lines[i] <= Leaving(i) /\ Leaving(i) \in Nat /\ Returned(i) \in Nat
             /\ Leaving(i)' = IF open THEN Leaving(i) ELSE Leaving(i) - ret[r].lines[i]
             /\ Returned(i)' = IF to = "Refunded" THEN Returned(i) + ret[r].lines[i]
                               ELSE Returned(i)
  <2>1. /\ Returned(i) \in Nat /\ Returned(i)' \in Nat
        /\ Returned(i)' - (IF ret'[r].status = "Refunded" THEN ret'[r].lines[i] ELSE 0)
             = Returned(i) - (IF ret[r].status = "Refunded" THEN ret[r].lines[i] ELSE 0)
        /\ Leaving(i) \in Nat /\ Leaving(i)' \in Nat
        /\ Leaving(i)' - (IF ret'[r].open THEN ret'[r].lines[i] ELSE 0)
             = Leaving(i) - (IF ret[r].open THEN ret[r].lines[i] ELSE 0)
        /\ ret[r].open => ret[r].lines[i] <= Leaving(i)
    BY <1>1, <1>2, OneReturnChanges
  <2>2. ret[r].lines[i] \in Nat
    BY <1>5
  <2> QED
    BY <1>2, <1>3, <1>4, <2>1, <2>2
<1>7. /\ Held \in Nat /\ Held' \in Nat
      /\ Held' - (IF Kept(r)' THEN Units(ret'[r].lines) ELSE 0)
           = Held - (IF Kept(r) THEN Units(ret[r].lines) ELSE 0)
  BY <1>1, <1>2, OneReturnChanges
<1>8. /\ Kept(r) <=> ret[r].kind = "exchange"
      /\ Kept(r)' <=> ret[r].kind = "exchange" /\ to # "Rejected"
  BY <1>2, <1>4 DEF Kept
<1>9. Held' = IF ret[r].kind = "exchange" /\ to = "Rejected"
              THEN Held - Units(ret[r].lines) ELSE Held
  BY <1>2, <1>5, <1>7, <1>8
<1> QED
  BY <1>2, <1>3, <1>5, <1>6, <1>7, <1>9 DEF LockReturnGross

\* What keeps the refunds, or adds one without units, keeps what they hold.
RefundsHold ==
    /\ refund' \in RefundRows /\ refunded' \in 0..Approved /\ refunded' = Reserved'
    /\ \A i \in Items : Back(i)' = Back(i) /\ Back(i) \in Nat

\* What does not touch the refunds leaves their sums.
LEMMA RefundsSame ==
    ASSUME BooksInv, UNCHANGED <<refund, refunded>>
    PROVE  RefundsHold
<1>1. Reserved' = Reserved /\ \A i \in Items : Back(i)' = Back(i)
  BY DEF Reserved, Back, LiveRefunds, Live
<1> QED
  BY <1>1, BackNat DEF BooksInv, RefundsHold

\* The refund a return opens adds its amount, and no units of its own.
LEMMA ReturnPaidBack ==
    ASSUME BooksInv, NEW f \in Refunds, NEW amount \in Nat, NEW r \in ReturnIds,
           InsertReturnRefund(f, amount, r)
    PROVE  RefundsHold
<1>1. ReserveRefund(f, amount, NoLines, r, "A-511")
  BY DEF InsertReturnRefund
<1>2. /\ refund' \in RefundRows /\ refunded' \in 0..Approved /\ refunded' = Reserved'
      /\ \A i \in Items : Back(i)' = Back(i) + NoLines[i] /\ Back(i) \in Nat
  BY <1>1, RefundReserved
<1> QED
  BY <1>2, Numbers DEF RefundsHold

\* A return is opened: its units were not on their way, and are free.
LEMMA BooksOpened ==
    ASSUME BooksInv, ReturnsInv, NEW r \in ReturnIds, NEW kind \in {"return", "exchange"},
           NEW lines \in Lines, NEW delta \in Int, OpenReturn(r, kind, lines, delta)
    PROVE  BooksInv'
<1>1. Units(lines) \in Nat /\ \A i \in Items : lines[i] \in Nat
  BY Numbers
<1>2. /\ ret[r] = NoReturn /\ \A s \in ReturnIds : ~ret[s].open
      /\ ret' \in ReturnRows /\ \A s \in ReturnIds : s # r => ret'[s] = ret[s]
      /\ ret'[r].kind = kind /\ ret'[r].lines = lines /\ ret'[r].open
      /\ ret'[r].status \in {"ReturnOpen", "ExchangeOpen"}
  BY <1>1, OpenReturnStep
<1> DEFINE units == IF kind = "exchange" THEN Units(lines) ELSE 0
<1>3. /\ FitsIn(lines) /\ stock >= units /\ stock' = stock - units
      /\ UNCHANGED bookVars /\ status # "Refunded"
  <2>1. \E to, actor : moveOrder(to, actor)
    BY DEF OpenReturn
  <2> QED
    BY <2>1, NotClosed DEF OpenReturn
<1>4. RefundsHold
  BY <1>3, RefundsSame DEF bookVars
<1>5. ret \in ReturnRows /\ ~ret[r].open /\ ret[r].kind # "exchange" /\ ret[r].status # "Refunded"
  BY <1>2 DEF ReturnsInv, NoReturn, None
<1>6. Held' = Held + units /\ Held \in Nat
  <2>1. ~Kept(r) /\ (Kept(r)' <=> kind = "exchange")
    BY <1>2, <1>5 DEF Kept
  <2>2. /\ Held \in Nat /\ Held' \in Nat
        /\ Held' - (IF Kept(r)' THEN Units(ret'[r].lines) ELSE 0)
             = Held - (IF Kept(r) THEN Units(ret[r].lines) ELSE 0)
    BY <1>2, <1>5, OneReturnChanges
  <2> QED
    BY <1>1, <1>2, <2>1, <2>2
<1>7. ASSUME NEW i \in Items PROVE UnitsAgree(i)'
  <2>1. /\ Returned(i)' = Returned(i) /\ Returned(i) \in Nat
        /\ Leaving(i)' = Leaving(i) + lines[i] /\ Leaving(i) \in Nat
    <3>1. /\ Returned(i) \in Nat /\ Returned(i)' \in Nat
          /\ Returned(i)' - (IF ret'[r].status = "Refunded" THEN ret'[r].lines[i] ELSE 0)
               = Returned(i) - (IF ret[r].status = "Refunded" THEN ret[r].lines[i] ELSE 0)
          /\ Leaving(i) \in Nat /\ Leaving(i)' \in Nat
          /\ Leaving(i)' - (IF ret'[r].open THEN ret'[r].lines[i] ELSE 0)
               = Leaving(i) - (IF ret[r].open THEN ret[r].lines[i] ELSE 0)
      BY <1>2, <1>5, OneReturnChanges
    <3> QED
      BY <1>1, <1>2, <1>5, <3>1
  <2>2. Leaving(i) = 0
    <3>1. OpenReturns = {}
      BY <1>2 DEF OpenReturns
    <3>2. Leaving(i) = SumFunctionOnSet([s \in ReturnIds |-> ret[s].lines[i]], {})
      BY <3>1 DEF Leaving, SumOver
    <3> QED
      BY <3>2, SumEmpty
  <2>3. lines[i] <= Quantity[i] - settled[i] /\ settled'[i] = settled[i]
    BY <1>3 DEF FitsIn, LockOrderItemForReturn, bookVars
  <2>4. UnitsAgree(i) /\ Quantity[i] \in Nat /\ lines[i] \in Nat
    BY <1>1, Numbers DEF BooksInv
  <2>5. Back(i)' = Back(i) /\ Back(i) \in Nat
    BY <1>4 DEF RefundsHold
  <2> QED
    BY <1>3, <2>1, <2>2, <2>3, <2>4, <2>5 DEF UnitsAgree
<1>8. stock' \in 0..Stock /\ stock' = Stock - Held'
  <2>1. units \in Nat
    BY <1>1
  <2> HIDE DEF units
  <2> QED
    BY <1>3, <1>6, <2>1, ReturnsAssumption DEF BooksInv
<1> QED
  BY <1>3, <1>4, <1>7, <1>8 DEF BooksInv, RefundsHold, bookVars

\* A return is settled: its units are back.
LEMMA BooksSettled ==
    ASSUME BooksInv, ReturnsInv, NEW r \in ReturnIds, NEW f \in Refunds, SettleReturn(r, f)
    PROVE  BooksInv'
<1>1. MovedTo(r, "Refunded", FALSE) /\ ret[r].kind = "return" /\ status = "ReturnPickedUp"
  BY SettleStep
<1>2. /\ LockReturnGross(r) = ret[r].lines
      /\ \A i \in Items :
           /\ ret[r].lines[i] \in Nat /\ ret[r].lines[i] <= Leaving(i)
           /\ Leaving(i) \in Nat /\ Returned(i) \in Nat
           /\ Leaving(i)' = Leaving(i) - ret[r].lines[i]
           /\ Returned(i)' = Returned(i) + ret[r].lines[i]
      /\ Held' = Held
  BY <1>1, RowUnits
<1> DEFINE gross == returnGross(r)
           amount == IF gross = 0 THEN 0 ELSE gross - ret[r].fee
<1>3. /\ FitsIn(ret[r].lines) /\ SettleItems(ret[r].lines)
      /\ IF amount > 0 THEN InsertReturnRefund(f, amount, r) ELSE UNCHANGED <<refunded, refund>>
      /\ UNCHANGED <<closing, stock>>
  BY <1>2 DEF SettleReturn
<1>4. amount \in Int
  <2>1. gross \in Int
    BY <1>2, WorthInt DEF returnGross, BooksInv, UnitsAgree
  <2>2. ret[r].fee \in Int
    <3>1. ret[r].fee \in Fees \cup {0}
      <4>1. ret \in ReturnRows
        BY DEF ReturnsInv
      <4> QED
        BY <4>1 DEF ReturnRows
    <3>2. \A x \in Fees \cup {0} : x \in Int
      BY ReturnsAssumption
    <3> QED
      BY <3>1, <3>2
  <2> HIDE DEF gross
  <2> QED
    BY <2>1, <2>2
<1>5. RefundsHold
  <2> HIDE DEF amount
  <2>1. CASE amount > 0
    <3>1. amount \in Nat
      BY <1>4, <2>1
    <3> QED
      BY <1>3, <2>1, <3>1, ReturnPaidBack
  <2>2. CASE ~(amount > 0)
    BY <1>3, <2>2, RefundsSame
  <2> QED
    BY <2>1, <2>2
<1>6. ASSUME NEW i \in Items PROVE UnitsAgree(i)'
  <2>1. settled'[i] = settled[i] + ret[r].lines[i] /\ ret[r].lines[i] <= Quantity[i] - settled[i]
    BY <1>3 DEF FitsIn, SettleItems, LockOrderItemForReturn
  <2>2. UnitsAgree(i) /\ Quantity[i] \in Nat /\ status # "Refunded"
    BY <1>1, Numbers DEF BooksInv
  <2>3. Back(i)' = Back(i) /\ Back(i) \in Nat
    BY <1>5 DEF RefundsHold
  <2> QED
    BY <1>2, <2>1, <2>2, <2>3 DEF UnitsAgree
<1> QED
  BY <1>2, <1>3, <1>5, <1>6 DEF BooksInv, RefundsHold

\* A return that is picked up, rejected, exchanged or paid for settles nothing.
LEMMA BooksMoved ==
    ASSUME BooksInv, ReturnsInv, NEW r \in ReturnIds, NEW to, NEW open \in BOOLEAN,
           MovedTo(r, to, open), to # "Refunded", status # "Refunded", RefundsHold,
           UNCHANGED <<settled, closing>>,
           stock' = IF ret[r].kind = "exchange" /\ to = "Rejected"
                    THEN stock + Units(ret[r].lines) ELSE stock
    PROVE  BooksInv'
<1>1. /\ \A i \in Items :
           /\ ret[r].lines[i] \in Nat /\ ret[r].lines[i] <= Leaving(i)
           /\ Leaving(i) \in Nat /\ Returned(i) \in Nat
           /\ Leaving(i)' = IF open THEN Leaving(i) ELSE Leaving(i) - ret[r].lines[i]
           /\ Returned(i)' = Returned(i)
      /\ Held \in Nat /\ Held' \in Nat
      /\ Held' = IF ret[r].kind = "exchange" /\ to = "Rejected"
                 THEN Held - Units(ret[r].lines) ELSE Held
  BY RowUnits
<1>2. ASSUME NEW i \in Items PROVE UnitsAgree(i)'
  <2>1. UnitsAgree(i) /\ Quantity[i] \in Nat /\ settled'[i] = settled[i]
    BY Numbers DEF BooksInv
  <2>2. Back(i)' = Back(i) /\ Back(i) \in Nat
    BY DEF RefundsHold
  <2>3. /\ ret[r].lines[i] \in Nat /\ Leaving(i) \in Nat /\ Returned(i) \in Nat
        /\ Leaving(i)' = Leaving(i) \/ Leaving(i)' = Leaving(i) - ret[r].lines[i]
        /\ Returned(i)' = Returned(i)
    BY <1>1
  <2> QED
    BY <2>1, <2>2, <2>3 DEF UnitsAgree
<1>3. stock' \in 0..Stock /\ stock' = Stock - Held'
  <2>1. Units(ret[r].lines) \in Nat
    BY Numbers DEF ReturnsInv, ReturnRows
  <2> QED
    BY <1>1, <2>1, ReturnsAssumption DEF BooksInv
<1> QED
  BY <1>2, <1>3 DEF BooksInv, RefundsHold

\* Nothing of the books changes, or nothing they speak of.
LEMMA BooksKept ==
    ASSUME BooksInv, UNCHANGED <<orderVars, settled, refunded, stock>>,
           refund' \in RefundRows, closing' \subseteq Refunds,
           \A f \in Refunds : /\ refund'[f].state = refund[f].state
                              /\ refund'[f].amount = refund[f].amount
                              /\ refund'[f].lines = refund[f].lines
    PROVE  BooksInv'
<1>1. LiveRefunds' = LiveRefunds
  BY DEF LiveRefunds, Live
<1>2. Reserved' = Reserved
  <2>1. [f \in Refunds |-> refund'[f].amount] = [f \in Refunds |-> refund[f].amount]
    OBVIOUS
  <2> QED
    BY <1>1, <2>1 DEF Reserved
<1>3. ASSUME NEW i \in Items PROVE Back(i)' = Back(i)
  <2>1. [f \in Refunds |-> refund'[f].lines[i]] = [f \in Refunds |-> refund[f].lines[i]]
    OBVIOUS
  <2> QED
    BY <1>1, <2>1 DEF Back
<1>4. Held' = Held /\ \A i \in Items : Returned(i)' = Returned(i) /\ Leaving(i)' = Leaving(i)
  BY DEF Held, Returned, Leaving, HeldExchanges, SettledReturns, OpenReturns, orderVars
<1>5. ASSUME NEW i \in Items PROVE UnitsAgree(i)'
  BY <1>3, <1>4 DEF BooksInv, UnitsAgree, orderVars
<1> QED
  BY <1>2, <1>4, <1>5 DEF BooksInv

\* A return that moves.
LEMMA BooksReturnStep == ASSUME BooksInv, ReturnsInv, ReturnWork PROVE BooksInv'
<1>1. PICK r \in ReturnIds :
        \/ \E kind \in {"return", "exchange"}, lines \in Lines, delta \in Int :
              OpenReturn(r, kind, lines, delta)
        \/ \E fault, policy, amount : ConfirmPickup(r, fault, policy, amount)
        \/ \E f \in Refunds : SettleReturn(r, f)
        \/ RejectReturn(r)
        \/ \E f \in Refunds : CompleteExchange(r, f)
        \/ \E k \in Keys : ApproveDiff(k, r)
  BY DEF ReturnWork
<1>2. CASE \E kind \in {"return", "exchange"}, lines \in Lines, delta \in Int :
              OpenReturn(r, kind, lines, delta)
  BY <1>2, BooksOpened
<1>3. CASE \E fault, policy, amount : ConfirmPickup(r, fault, policy, amount)
  <2>1. PICK to \in {"ExchangePicked", "ReturnPickedUp"} : MovedTo(r, to, TRUE)
    BY <1>3, PickupStep
  <2>2. UNCHANGED <<bookVars, stock>> /\ status # "Refunded"
    <3>1. \E to_, actor : moveOrder(to_, actor)
      BY <1>3 DEF ConfirmPickup
    <3> QED
      BY <1>3, <3>1, NotClosed DEF ConfirmPickup
  <2>3. RefundsHold
    BY <2>2, RefundsSame DEF bookVars
  <2> QED
    BY <2>1, <2>2, <2>3, BooksMoved DEF bookVars
<1>4. CASE \E f \in Refunds : SettleReturn(r, f)
  BY <1>4, BooksSettled
<1>5. CASE RejectReturn(r)
  <2>1. MovedTo(r, "Rejected", FALSE)
    BY <1>5, RejectReturnStep
  <2>2. UNCHANGED bookVars /\ status # "Refunded"
    BY <1>5, NotClosed DEF RejectReturn
  <2>3. stock' = IF ret[r].kind = "exchange" THEN stock + Units(ret[r].lines) ELSE stock
    BY <1>5 DEF RejectReturn, ReturnItemQuantity
  <2>4. RefundsHold
    BY <2>2, RefundsSame DEF bookVars
  <2> QED
    BY <2>1, <2>2, <2>3, <2>4, BooksMoved DEF bookVars
<1>6. CASE \E f \in Refunds : CompleteExchange(r, f)
  <2>1. PICK f \in Refunds : CompleteExchange(r, f)
    BY <1>6
  <2>2. MovedTo(r, "ExchangeDiffDue", TRUE) \/ MovedTo(r, "ExchangeShipped", FALSE)
    BY <2>1, CompleteStep
  <2>3. /\ UNCHANGED <<settled, closing, stock>> /\ reserveExchangeRefund(r, f)
        /\ status # "Refunded"
    BY <2>1, NotClosed DEF CompleteExchange
  <2>4. RefundsHold
    <3>1. CASE ret[r].diff < 0
      <4>1. ret[r].diff \in Int
        BY DEF ReturnsInv, ReturnRows
      <4>2. -ret[r].diff \in Nat
        BY <3>1, <4>1
      <4>3. InsertReturnRefund(f, -ret[r].diff, r)
        BY <2>3, <3>1 DEF reserveExchangeRefund
      <4> QED
        BY <4>2, <4>3, ReturnPaidBack
    <3>2. CASE ~(ret[r].diff < 0)
      BY <2>3, <3>2, RefundsSame DEF reserveExchangeRefund
    <3> QED
      BY <3>1, <3>2
  <2> QED
    BY <2>2, <2>3, <2>4, BooksMoved
<1>7. CASE \E k \in Keys : ApproveDiff(k, r)
  <2>1. PICK k \in Keys : ApproveDiff(k, r)
    BY <1>7
  <2>2. MovedTo(r, "ExchangeShipped", FALSE)
    BY <2>1, ApproveStep
  <2>3. UNCHANGED <<bookVars, stock>> /\ status # "Refunded"
    BY <2>1, NotClosed DEF ApproveDiff
  <2>4. RefundsHold
    BY <2>3, RefundsSame DEF bookVars
  <2> QED
    BY <2>2, <2>3, <2>4, BooksMoved DEF bookVars
<1> QED
  BY <1>1, <1>2, <1>3, <1>4, <1>5, <1>6, <1>7

\* A refund keeps its amount, its units and its return, and is as live.
Alike(f) == /\ refund'[f].amount = refund[f].amount /\ refund'[f].lines = refund[f].lines
            /\ refund'[f].of = refund[f].of /\ (Live(f)' <=> Live(f))

\* Sending a refund, and its answer, keep it alike.
LEMMA SentAlike ==
    ASSUME refund \in RefundRows, NEW f \in Refunds,
           (\E actor \in {"A-507", "A-511"} : ExecuteRefund(f, actor)) \/ RefundAnswered(f)
    PROVE  /\ refund' \in RefundRows /\ \A g \in Refunds : g # f => refund'[g] = refund[g]
           /\ \A g \in Refunds : Alike(g)
<1>1. PICK x \in {"requested", "approved", "completed"}, by \in {refund[f].by, "A-507", "A-511"} :
        refund' = [refund EXCEPT ![f].state = x, ![f].by = by]
  <2>1. CASE \E actor \in {"A-507", "A-511"} : ExecuteRefund(f, actor)
    BY <2>1 DEF ExecuteRefund
  <2>2. CASE RefundAnswered(f)
    <3>1. CASE refund' = [refund EXCEPT ![f].state = "completed"]
      <4>1. refund' = [refund EXCEPT ![f].state = "completed", ![f].by = refund[f].by]
        BY <3>1 DEF RefundRows
      <4> QED
        BY <4>1
    <3>2. CASE refund' = [refund EXCEPT ![f].state = "requested", ![f].by = "A-507"]
      BY <3>2
    <3> QED
      BY <2>2, <3>1, <3>2 DEF RefundAnswered
  <2> QED
    BY <2>1, <2>2
<1> DEFINE mid == [refund EXCEPT ![f].state = x]
<1>2. /\ mid \in RefundRows /\ \A g \in Refunds : g # f => mid[g] = refund[g]
      /\ mid[f].amount = refund[f].amount /\ mid[f].lines = refund[f].lines
      /\ mid[f].of = refund[f].of /\ mid[f].state = x
  BY DEF RefundRows, RefundStates
<1>3. refund' = [mid EXCEPT ![f].by = by] /\ by \in {None, "A-507", "A-511"}
  BY <1>1 DEF RefundRows
<1> HIDE DEF mid
<1>4. /\ refund' \in RefundRows /\ \A g \in Refunds : g # f => refund'[g] = refund[g]
      /\ refund'[f].amount = refund[f].amount /\ refund'[f].lines = refund[f].lines
      /\ refund'[f].of = refund[f].of /\ refund'[f].state = x
  BY <1>2, <1>3 DEF RefundRows
<1>5. Live(f) /\ Live(f)'
  BY <1>4 DEF ExecuteRefund, RefundAnswered, Live
<1> QED
  BY <1>4, <1>5 DEF Alike, Live

\* Every step keeps the books.
LEMMA BooksStep == ASSUME BooksInv, ReturnsInv, [Next]_vars PROVE BooksInv'
<1>1. CASE ReturnWork
  BY <1>1, BooksReturnStep
<1>2. CASE RefundWork
  <2>1. PICK f \in Refunds :
          \/ \E lines \in Lines : RequestRefund(f, lines)
          \/ RejectRefund(f)
          \/ \E actor \in {"A-507", "A-511"} : ExecuteRefund(f, actor)
          \/ RefundAnswered(f)
    BY <1>2 DEF RefundWork
  <2>2. CASE \E lines \in Lines : RequestRefund(f, lines)
    BY <2>2, BooksRequested DEF ReturnsInv
  <2>3. CASE RejectRefund(f)
    BY <2>3, BooksRejected DEF ReturnsInv
  <2>4. CASE (\E actor \in {"A-507", "A-511"} : ExecuteRefund(f, actor)) \/ RefundAnswered(f)
    <3>1. refund \in RefundRows /\ closing \subseteq Refunds
      BY DEF BooksInv
    <3>2. /\ refund' \in RefundRows /\ \A g \in Refunds : g # f => refund'[g] = refund[g]
          /\ Alike(f)
      BY <2>4, <3>1, SentAlike
    <3>3. UNCHANGED <<orderVars, settled, refunded, stock>> /\ closing' \subseteq Refunds
      BY <2>4, <3>1 DEF ExecuteRefund, RefundAnswered
    <3> QED
      BY <3>2, <3>3, RefundSent DEF Alike
  <2> QED
    BY <2>1, <2>2, <2>3, <2>4
<1>3. CASE DiffWork \/ UNCHANGED vars
  <2>1. UNCHANGED <<orderVars, bookVars, stock>>
    BY <1>3, LeftAlone DEF vars
  <2> QED
    BY <2>1, BooksKept DEF bookVars, BooksInv
<1>4. CASE ClosingWork
  <2>1. UNCHANGED <<ret, stock>>
    BY <1>4, LeftAlone
  <2>2. CASE settled' = Quantity /\ status' = "Refunded"
    <3>1. UNCHANGED <<refunded, refund>> /\ closing' \subseteq Refunds
      BY <1>4, <2>2 DEF ClosingWork, ConfirmPurchase, CloseByA507, CloseByA511,
                        CloseRefundedOrder, bookVars, BooksInv
    <3> QED
      BY <2>1, <2>2, <3>1, BooksClosed DEF ReturnsInv
  <2>3. CASE ConfirmPurchase
    <3>1. UNCHANGED <<ret, bookVars, stock>> /\ status # "Refunded"
      BY <2>3, NotClosed DEF ConfirmPurchase
    <3>2. /\ Held' = Held /\ Reserved' = Reserved
          /\ \A i \in Items : Returned(i)' = Returned(i) /\ Leaving(i)' = Leaving(i) /\ Back(i)' = Back(i)
      BY <3>1 DEF Held, Returned, Leaving, HeldExchanges, SettledReturns, OpenReturns, Reserved,
                  Back, LiveRefunds, Live, bookVars
    <3>3. ASSUME NEW i \in Items PROVE UnitsAgree(i)'
      BY <3>1, <3>2 DEF BooksInv, UnitsAgree, bookVars
    <3> QED
      BY <3>1, <3>2, <3>3 DEF BooksInv, bookVars
  <2>4. CASE UNCHANGED <<orderVars, settled, refunded, refund, stock>> /\ closing' \subseteq Refunds
    BY <2>4, BooksKept DEF BooksInv
  <2>5. \/ settled' = Quantity /\ status' = "Refunded"
        \/ ConfirmPurchase
        \/ UNCHANGED <<orderVars, settled, refunded, refund, stock>> /\ closing' \subseteq Refunds
    BY <1>4 DEF ClosingWork, CloseByA507, CloseByA511, CloseRefundedOrder, moveOrder,
                MoveOrderStatus, BooksInv
  <2> QED
    BY <2>2, <2>3, <2>4, <2>5
<1>5. CASE Crash
  <2>1. /\ UNCHANGED <<orderVars, settled, refunded, stock>> /\ closing' = {}
        /\ refund' = [f \in Refunds |-> IF refund[f].by = "A-511"
                                        THEN [refund[f] EXCEPT !.by = "A-507"] ELSE refund[f]]
    BY <1>5 DEF Crash
  <2>2. refund' \in RefundRows
    BY <2>1 DEF BooksInv, RefundRows
  <2>3. \A f \in Refunds : /\ refund'[f].state = refund[f].state
                           /\ refund'[f].amount = refund[f].amount
                           /\ refund'[f].lines = refund[f].lines
    BY <2>1 DEF BooksInv, RefundRows
  <2> QED
    BY <2>1, <2>2, <2>3, BooksKept
<1> QED
  BY <1>1, <1>2, <1>3, <1>4, <1>5, StepKinds

\* Nothing is refunded, returned or asked for yet.
LEMMA BooksInit == Init => BooksInv
<1> SUFFICES ASSUME Init PROVE BooksInv
  OBVIOUS
<1>1. /\ LiveRefunds = {} /\ SettledReturns = {} /\ OpenReturns = {} /\ HeldExchanges = {}
  BY DEF Init, LiveRefunds, Live, SettledReturns, OpenReturns, HeldExchanges, NoRefund, NoReturn, None
<1>2. \A n : SumOver({}, n) = 0
  BY SumEmpty DEF SumOver
<1>3. Reserved = 0 /\ Held = 0 /\ \A i \in Items : Back(i) = 0 /\ Returned(i) = 0 /\ Leaving(i) = 0
  BY <1>1, <1>2 DEF Reserved, Held, Back, Returned, Leaving
<1>4. refund \in RefundRows
  BY DEF Init, NoRefund, RefundRows, RefundStates
<1>5. ASSUME NEW i \in Items PROVE UnitsAgree(i)
  BY <1>3, Numbers DEF UnitsAgree, Init
<1> QED
  BY <1>3, <1>4, <1>5, Numbers, ReturnsAssumption DEF BooksInv, Init

\* Reservations, units and stock add up in every reachable state.
THEOREM ReturnsBooksInductive == Spec => [](ReturnsInv /\ BooksInv)
<1>1. Init => ReturnsInv /\ BooksInv
  BY ReturnsInit, BooksInit
<1>2. ReturnsInv /\ BooksInv /\ [Next]_vars => (ReturnsInv /\ BooksInv)'
  BY ReturnsStep, BooksStep
<1> QED
  BY <1>1, <1>2, PTL DEF Spec

\* No unit is refunded, returned or exchanged twice, although an order is
\* refunded and closed while its returns are on their way (FOR UPDATE on its
\* items, return_items_open_idx).
THEOREM UnitsAccountedSafe == Spec => []UnitsAccounted
<1>1. ReturnsInv /\ PayInv /\ BooksInv => UnitsAccounted
  <2> SUFFICES ASSUME ReturnsInv, PayInv, BooksInv PROVE UnitsAccounted
    OBVIOUS
  <2>1. TypeOK
    BY DEF TypeOK, ReturnsInv, ReturnRows, PayInv, PayTypes, BooksInv, RefundRows, RefundStates, UnitsAgree
  <2>2. ASSUME NEW i \in Items
        PROVE  /\ Back(i) + Returned(i) + Leaving(i) <= Quantity[i]
               /\ status # "Refunded" => settled[i] = Back(i) + Returned(i)
    BY DEF BooksInv, UnitsAgree
  <2> QED
    BY <2>1, <2>2 DEF UnitsAccounted, Back, Returned, Leaving, LiveRefunds, SettledReturns, OpenReturns
<1> QED
  BY ReturnsInductive, ReturnsBooksInductive, <1>1, PTL

\* The shelf lacks the units of the exchanges asked for and not rejected, and
\* no others (OpenReturn, RejectReturn).
THEOREM ExchangeStockHeldSafe == Spec => []ExchangeStockHeld
<1>1. BooksInv => ExchangeStockHeld
  BY DEF BooksInv, ExchangeStockHeld, Held, HeldExchanges
<1> QED
  BY ReturnsBooksInductive, <1>1, PTL

-----------------------------------------------------------------------------
(* Prices and payments                                                       *)

\* A product divided by one of its factors.
LEMMA DivExact ==
    ASSUME NEW m \in Int, NEW n \in Nat, n > 0
    PROVE  (m * n) \div n = m
OBVIOUS

\* Unit prices are numbers, and n units of an item share their price.
LEMMA UnitPrices ==
    ASSUME WholePrices, NEW i \in Items
    PROVE  /\ UnitPrice[i] \in Nat
           /\ \A n \in Nat : share(Net[i], n, Quantity[i]) = UnitPrice[i] * n
<1>1. Net[i] \in Nat /\ Quantity[i] \in Nat /\ Quantity[i] > 0
  BY ReturnsAssumption
<1>2. UnitPrice[i] = Net[i] \div Quantity[i] /\ Net[i] = UnitPrice[i] * Quantity[i]
  BY DEF WholePrices, UnitPrice
<1>3. UnitPrice[i] \in Int
  <2>1. Net[i] \div Quantity[i] \in Int
    BY <1>1
  <2> QED
    BY <1>2, <2>1
<1>4. UnitPrice[i] \in Nat
  <2>1. \A u \in Int, q \in Nat : q > 0 /\ u * q >= 0 => u >= 0
    OBVIOUS
  <2> QED
    BY <1>1, <1>2, <1>3, <2>1
<1>5. ASSUME NEW n \in Nat PROVE share(Net[i], n, Quantity[i]) = UnitPrice[i] * n
  <2> DEFINE m == UnitPrice[i] * n
  <2>1. m \in Int
    BY <1>4
  <2>2. Net[i] * n = m * Quantity[i]
    BY <1>1, <1>2, <1>4
  <2>3. (m * Quantity[i]) \div Quantity[i] = m
    <3> HIDE DEF m
    <3> QED
      BY <1>1, <2>1, DivExact
  <2> QED
    BY <2>2, <2>3 DEF share
<1> QED
  BY <1>4, <1>5

\* What units cost is a number.
LEMMA PriceNat ==
    ASSUME WholePrices, NEW l, \A i \in Items : l[i] \in Nat
    PROVE  /\ Price(l) \in Nat
           /\ \A i \in Items : UnitPrice[i] * l[i] \in Nat /\ UnitPrice[i] * l[i] <= Price(l)
<1> DEFINE w == [i \in Items |-> UnitPrice[i] * l[i]]
<1>1. IsFiniteSet(Items) /\ \A i \in Items : w[i] \in Nat
  BY UnitPrices, ReturnsAssumption
<1>2. Price(l) = SumFunctionOnSet(w, Items) /\ \A i \in Items : w[i] = UnitPrice[i] * l[i]
  BY DEF Price, SumOver
<1> HIDE DEF w
<1>3. SumFunctionOnSet(w, Items) \in Nat /\ \A i \in Items : w[i] <= SumFunctionOnSet(w, Items)
  BY <1>1, SumNat
<1> QED
  BY <1>1, <1>2, <1>3

\* More units cost their price more.
LEMMA PricePlus ==
    ASSUME WholePrices, NEW l, NEW m, NEW n,
           \A i \in Items : l[i] \in Nat /\ m[i] \in Nat /\ n[i] = l[i] + m[i]
    PROVE  Price(n) = Price(l) + Price(m)
<1> DEFINE v == [i \in Items |-> UnitPrice[i] * l[i]]
           w == [i \in Items |-> UnitPrice[i] * m[i]]
           x == [i \in Items |-> UnitPrice[i] * n[i]]
<1>1. ASSUME NEW i \in Items PROVE v[i] \in Int /\ w[i] \in Int /\ x[i] = v[i] + w[i]
  <2>1. UnitPrice[i] \in Nat
    BY UnitPrices
  <2> QED
    BY <2>1
<1>2. /\ Price(l) = SumFunctionOnSet(v, Items) /\ Price(m) = SumFunctionOnSet(w, Items)
      /\ Price(n) = SumFunctionOnSet(x, Items)
  BY DEF Price, SumOver
<1> HIDE DEF v, w, x
<1> QED
  BY <1>1, <1>2, ReturnsAssumption, SumPlus

\* No units cost nothing.
LEMMA PriceNone == Price(NoLines) = 0
<1> DEFINE w == [i \in Items |-> UnitPrice[i] * NoLines[i]]
<1>1. IsFiniteSet(Items) /\ \A i \in Items : w[i] = 0
  <2>1. ASSUME NEW i \in Items PROVE UnitPrice[i] * 0 = 0
    <3>1. UnitPrice[i] \in Int
      BY ReturnsAssumption DEF UnitPrice
    <3> QED
      BY <3>1
  <2> QED
    BY <2>1, ReturnsAssumption DEF NoLines
<1>2. Price(NoLines) = SumFunctionOnSet(w, Items)
  BY DEF Price, SumOver
<1> HIDE DEF w
<1> QED
  BY <1>1, <1>2, SumZero

\* All units together cost what the goods did.
LEMMA PriceOfAll == ASSUME WholePrices PROVE Price(Quantity) = SumOver(Items, Net)
<1>1. \A i \in Items : UnitPrice[i] * Quantity[i] \in Int /\ UnitPrice[i] * Quantity[i] = Net[i]
  BY ReturnsAssumption DEF WholePrices
<1> DEFINE w == [i \in Items |-> UnitPrice[i] * Quantity[i]]
<1>2. \A i \in Items : w[i] \in Int /\ w[i] = Net[i]
  BY <1>1
<1>3. Price(Quantity) = SumFunctionOnSet(w, Items)
  BY DEF Price, SumOver
<1> HIDE DEF w
<1> QED
  BY <1>2, <1>3, ReturnsAssumption, SumSame DEF SumOver

\* Without a credit, units that are left are worth their price: rejections
\* and fees have not moved the shares.
LEMMA NoCreditYet ==
    ASSUME ReturnsInv, RefundOfSettled, ShippedIsLast, NoCredit, refund \in RefundRows,
           NEW i \in Items
    PROVE  ExchangeCredit(i) = 0
<1> DEFINE C == {f \in Refunds : /\ Live(f) /\ refund[f].of # None
                                 /\ ret[refund[f].of].kind = "exchange"
                                 /\ ret[refund[f].of].lines[i] > 0}
<1>1. ASSUME NEW f \in C PROVE FALSE
  <2>1. /\ refund[f].of \in ReturnIds /\ ret[refund[f].of].kind = "exchange"
        /\ ret[refund[f].of].status \in {"Refunded", "ExchangeShipped"}
    BY DEF RefundOfSettled, RefundRows
  <2>2. ret[refund[f].of].status \in StatusesOf("exchange")
    BY <2>1 DEF ReturnsInv, RowsAgree, NoReturn, None
  <2>3. ret[refund[f].of].status = "ExchangeShipped"
    BY <2>1, <2>2 DEF StatusesOf
  <2> QED
    BY <2>1, <2>3 DEF ShippedIsLast
<1>2. C = {}
  BY <1>1
<1>3. \A n : SumOver({}, n) = 0
  BY SumEmpty DEF SumOver
<1> QED
  BY <1>2, <1>3 DEF ExchangeCredit

\* With whole prices and no credit, units are worth their price, whatever is settled.
LEMMA WorthIsPrice ==
    ASSUME WholePrices, ReturnsInv, BooksInv, RefundOfSettled, ShippedIsLast, NoCredit,
           NEW l, \A i \in Items : l[i] \in Nat
    PROVE  Worth(l) = Price(l)
<1>1. ASSUME NEW i \in Items PROVE itemRefundable(i, l[i]) = UnitPrice[i] * l[i]
  <2>1. settled[i] \in Nat /\ l[i] \in Nat /\ settled[i] + l[i] \in Nat /\ UnitPrice[i] \in Nat
    BY UnitPrices, ReturnsAssumption DEF BooksInv, UnitsAgree
  <2>2. ExchangeCredit(i) <= 0
    <3>1. ExchangeCredit(i) = 0
      BY NoCreditYet DEF BooksInv
    <3> QED
      BY <3>1
  <2>3. itemRefundable(i, l[i])
          = share(Net[i], settled[i] + l[i], Quantity[i]) - share(Net[i], settled[i], Quantity[i])
    BY <2>2 DEF itemRefundable, capByExchangeCredit, RefundableAmount
  <2>4. itemRefundable(i, l[i]) = UnitPrice[i] * (settled[i] + l[i]) - UnitPrice[i] * settled[i]
    BY <2>1, <2>3, UnitPrices
  <2> QED
    BY <2>1, <2>4
<1> DEFINE T == {i \in Items : l[i] > 0}
           v == [i \in Items |-> itemRefundable(i, l[i])]
           w == [i \in Items |-> UnitPrice[i] * l[i]]
<1>2. Worth(l) = SumFunctionOnSet(v, T) /\ Price(l) = SumFunctionOnSet(w, Items)
  BY DEF Worth, Price, SumOver
<1>3. T \in SUBSET Items /\ IsFiniteSet(Items) /\ IsFiniteSet(T)
  BY ReturnsAssumption, FS_Subset
<1>4. \A i \in Items : w[i] \in Int
  BY UnitPrices
<1>5. ASSUME NEW i \in Items, i \notin T PROVE w[i] = 0
  <2>1. l[i] = 0 /\ UnitPrice[i] \in Nat
    BY <1>5, UnitPrices
  <2> QED
    BY <2>1
<1>6. \A i \in T : v[i] = w[i] /\ v[i] \in Int
  BY <1>1, <1>4
<1> HIDE DEF T, v, w
<1>7. SumFunctionOnSet(w, Items) = SumFunctionOnSet(w, T)
  BY <1>3, <1>4, <1>5, SumSupport
<1>8. SumFunctionOnSet(v, T) = SumFunctionOnSet(w, T)
  BY <1>3, <1>6, SumSame
<1> QED
  BY <1>2, <1>7, <1>8

\* What went costs no more than its units, and with a return under way less
\* than was paid.
LEMMA GoneNat ==
    ASSUME ret \in ReturnRows, refund \in RefundRows
    PROVE  \A i \in Items : Gone[i] = Back(i) + Returned(i) /\ Gone[i] \in Nat
BY UnitsNat, BackNat DEF Gone

\* While a return is in progress there is money left to pay back, and a unit to settle.
LEMMA PickedUpNotPaid ==
    ASSUME WholePrices, ReturnsInv, BooksInv, PaidByUnit, NEW r \in ReturnIds,
           ret[r].open, status \notin {"Refunded", "ExchangeShipped"}
    PROVE  refunded < Approved /\ settled # Quantity
<1> DEFINE l == ret[r].lines
<1>1. ret \in ReturnRows /\ refund \in RefundRows /\ l \in Lines
  BY DEF ReturnsInv, BooksInv, RowsAgree, NoReturn
<1>2. PICK j \in Items : l[j] > 0
  <2>1. l # NoLines /\ \A i \in Items : l[i] \in Nat
    BY <1>1, Numbers DEF Lines
  <2>2. PICK m : l \in [Items -> 0..m]
    BY <1>1 DEF Lines
  <2> HIDE DEF l
  <2>3. \E i \in Items : l[i] # 0
    BY <2>1, <2>2 DEF NoLines
  <2> QED
    BY <2>1, <2>3
<1>3. \A i \in Items : l[i] \in Nat
  BY <1>1, Numbers
<1>4. \A i \in Items : /\ Gone[i] \in Nat /\ Gone[i] + l[i] <= Quantity[i]
                       /\ settled[i] = Gone[i]
  <2> TAKE i \in Items
  <2>1. Gone[i] = Back(i) + Returned(i) /\ Gone[i] \in Nat
    BY <1>1, GoneNat
  <2>2. UnitsAgree(i)
    BY DEF BooksInv
  <2>3. l[i] <= Leaving(i) /\ Leaving(i) \in Nat
    <3>1. \A s \in ReturnIds : s # r => ret[s] = ret[s]
      OBVIOUS
    <3> QED
      BY <1>1, LeavingHas
  <2> QED
    BY <1>3, <2>1, <2>2, <2>3, Numbers DEF UnitsAgree
<1>5. settled # Quantity
  BY <1>2, <1>3, <1>4, Numbers
<1> DEFINE m == [i \in Items |-> Quantity[i] - Gone[i] - l[i]]
           n == [i \in Items |-> Gone[i] + l[i]]
<1>6. \A i \in Items : m[i] \in Nat /\ n[i] \in Nat /\ n[i] = Gone[i] + l[i] /\ Quantity[i] = n[i] + m[i]
  BY <1>3, <1>4, Numbers
<1> HIDE DEF m, n, l
<1>7. Price(n) = Price(Gone) + Price(l)
  BY <1>3, <1>4, <1>6, PricePlus
<1>8. Price(Quantity) = Price(n) + Price(m)
  BY <1>6, PricePlus
<1>9. /\ Price(m) \in Nat /\ Price(l) \in Nat /\ Price(n) \in Nat /\ Price(Gone) \in Nat
      /\ UnitPrice[j] * l[j] <= Price(l) /\ UnitPrice[j] * l[j] \in Nat
  BY <1>3, <1>4, <1>6, PriceNat
<1>10. Price(Quantity) = SumOver(Items, Net)
  BY PriceOfAll
<1>11. refunded <= Price(Gone) /\ refunded \in Nat /\ Approved = Shipping + SumOver(Items, Net)
  BY Numbers DEF BooksInv, PaidByUnit, NoCredit, Approved
<1>12. Price(l) > 0 \/ Shipping > 0
  <2>1. CASE Net[j] > 0
    <3>1. UnitPrice[j] > 0
      <4>1. UnitPrice[j] \in Nat /\ Net[j] = UnitPrice[j] * Quantity[j] /\ Quantity[j] \in Nat
        BY UnitPrices, Numbers DEF WholePrices
      <4> QED
        BY <2>1, <4>1
    <3>2. UnitPrice[j] * l[j] > 0
      <4>1. UnitPrice[j] \in Nat /\ l[j] \in Nat /\ l[j] > 0
        BY <1>2, <1>3, UnitPrices DEF l
      <4> QED
        BY <3>1, <4>1
    <3> QED
      BY <1>9, <3>2
  <2> QED
    BY <2>1 DEF WholePrices
<1> QED
  BY <1>5, <1>7, <1>8, <1>9, <1>10, <1>11, <1>12, ReturnsAssumption
\* No return is picked up while another one is open, or none can be.
LEMMA PickedUpIsOpen ==
    ASSUME ReturnsInv, NEW r \in ReturnIds, ret[r].status = "ReturnPickedUp"
    PROVE  /\ ret[r].open /\ ret[r].lines \in Lines /\ ret[r].kind = "return"
           /\ \A s \in ReturnIds : ret[s].open => s = r
<1>1. ret[r].status \in InProgress
  BY DEF InProgress
<1>2. /\ ret[r].open /\ ret[r].lines \in Lines /\ ret[r].kind \in {"return", "exchange"}
      /\ ret[r].status \in StatusesOf(ret[r].kind) /\ \A s \in ReturnIds : s # r => ~ret[s].open
  BY <1>1, StepsOpen
<1> QED
  BY <1>2 DEF StatusesOf

\* Refunds that are alike hold the same.
LEMMA SumsAlike ==
    ASSUME \A f \in Refunds : Alike(f)
    PROVE  Reserved' = Reserved /\ \A i \in Items : Back(i)' = Back(i)
<1>1. LiveRefunds' = LiveRefunds
  BY DEF LiveRefunds, Alike
<1>2. [f \in Refunds |-> refund'[f].amount] = [f \in Refunds |-> refund[f].amount]
  BY DEF Alike
<1>3. ASSUME NEW i \in Items PROVE Back(i)' = Back(i)
  <2>1. [f \in Refunds |-> refund'[f].lines[i]] = [f \in Refunds |-> refund[f].lines[i]]
    BY DEF Alike
  <2> QED
    BY <1>1, <2>1 DEF Back
<1> QED
  BY <1>1, <1>2, <1>3 DEF Reserved

\* A step that leaves every refund's amount, lines and liveness alone keeps the money.
LEMMA MoneyKept ==
    ASSUME MoneyInv, \A f \in Refunds : Alike(f), UNCHANGED ret,
           NoCredit' <=> NoCredit,
           status' = status \/ \A r \in ReturnIds : ret[r].status # "ReturnPickedUp"
    PROVE  MoneyInv'
<1>1. Reserved' = Reserved /\ \A i \in Items : Back(i)' = Back(i)
  BY SumsAlike
<1>2. \A i \in Items : Returned(i)' = Returned(i)
  BY DEF Returned, SettledReturns
<1>3. Gone' = Gone
  BY <1>1, <1>2 DEF Gone
<1>4. ShippedIsLast' /\ PickedUpOpen'
  BY DEF MoneyInv, ShippedIsLast, PickedUpOpen
<1>5. RefundOfSettled'
  BY DEF MoneyInv, RefundOfSettled, Alike
<1>6. PaidByUnit'
  BY <1>1, <1>3 DEF MoneyInv, PaidByUnit, Alike
<1> QED
  BY <1>4, <1>5, <1>6 DEF MoneyInv

\* P-507 pays the price of units, or more than nothing after a credit.
LEMMA MoneyRequested ==
    ASSUME WholePrices, MoneyInv, ReturnsInv, BooksInv, BooksInv',
           NEW f \in Refunds, NEW lines \in Lines, RequestRefund(f, lines)
    PROVE  MoneyInv'
<1>1. /\ ReserveRefund(f, Worth(lines), lines, None, "A-507")
      /\ Worth(lines) > 0 /\ UNCHANGED orderVars
  BY DEF RequestRefund
<1>2. \A i \in Items : lines[i] \in Nat
  BY Numbers
<1>3. Worth(lines) \in Nat
  <2>1. Worth(lines) \in Int
    BY <1>2, WorthInt DEF BooksInv, UnitsAgree
  <2> QED
    BY <1>1, <2>1
<1>4. \A i \in Items : Back(i)' = Back(i) + lines[i] /\ Back(i) \in Nat
  BY <1>1, <1>3, RefundReserved
<1>5. refunded' = refunded + Worth(lines) /\ refunded \in Nat /\ refunded = Reserved /\ refunded' = Reserved'
  BY <1>1, Numbers DEF ReserveRefund, BooksInv
<1>6. /\ refund'[f].of = None /\ refund'[f].amount = Worth(lines) /\ refund'[f].lines = lines
      /\ \A g \in Refunds : g # f => refund'[g] = refund[g]
  BY <1>1 DEF ReserveRefund, InsertRefund, BooksInv, RefundRows
<1>7. ShippedIsLast' /\ PickedUpOpen'
  BY <1>1 DEF MoneyInv, ShippedIsLast, PickedUpOpen, orderVars, NoCredit
<1>8. RefundOfSettled'
  BY <1>1, <1>6 DEF MoneyInv, RefundOfSettled, orderVars
<1>9. ASSUME NoCredit PROVE Reserved' <= Price(Gone') /\ Worth(lines) = Price(lines)
  <2>1. Worth(lines) = Price(lines)
    BY <1>2, <1>9, WorthIsPrice DEF MoneyInv
  <2>2. \A i \in Items : Gone[i] \in Nat /\ Gone'[i] = Gone[i] + lines[i]
    <3>1. \A i \in Items : Returned(i)' = Returned(i)
      BY <1>1 DEF Returned, SettledReturns, orderVars
    <3>2. \A i \in Items : Gone[i] = Back(i) + Returned(i) /\ Gone[i] \in Nat /\ Returned(i) \in Nat
      BY GoneNat, UnitsNat DEF ReturnsInv, BooksInv
    <3>3. \A i \in Items : Gone'[i] = Back(i)' + Returned(i)'
      BY DEF Gone
    <3> QED
      BY <1>2, <1>4, <3>1, <3>2, <3>3
  <2>3. Price(Gone') = Price(Gone) + Price(lines)
    BY <1>2, <2>2, PricePlus
  <2>4. Price(Gone) \in Nat
    BY <2>2, PriceNat
  <2>5. Reserved <= Price(Gone)
    BY <1>9 DEF MoneyInv, PaidByUnit
  <2> QED
    BY <1>3, <1>5, <2>1, <2>3, <2>4, <2>5
<1>10. PaidByUnit'
  <2> SUFFICES ASSUME NoCredit' PROVE PaidByUnit'
    BY DEF PaidByUnit
  <2>1. NoCredit
    BY <1>1 DEF NoCredit, orderVars
  <2>2. Reserved' <= Price(Gone') /\ Worth(lines) = Price(lines) /\ Price(lines) <= Worth(lines)
    BY <1>3, <1>9, <2>1
  <2>3. ASSUME NEW g \in Refunds, Live(g)' PROVE Price(refund'[g].lines) <= refund'[g].amount
    <3>1. CASE g = f
      BY <1>6, <2>2, <3>1
    <3>2. CASE g # f
      <4>1. refund'[g] = refund[g] /\ Live(g)
        BY <1>6, <2>3, <3>2 DEF Live
      <4> QED
        BY <2>1, <4>1 DEF MoneyInv, PaidByUnit
    <3> QED
      BY <3>1, <3>2
  <2> QED
    BY <2>2, <2>3 DEF PaidByUnit
<1> QED
  BY <1>7, <1>8, <1>10 DEF MoneyInv

\* A rejection takes back what its units cost, or more.
LEMMA MoneyRejected ==
    ASSUME WholePrices, MoneyInv, ReturnsInv, BooksInv, BooksInv',
           NEW f \in Refunds, RejectRefund(f)
    PROVE  MoneyInv'
<1> DEFINE lines == refund[f].lines
<1>1. /\ refund[f].state = "requested" /\ refunded' = refunded - refund[f].amount
      /\ refund' = [refund EXCEPT ![f].state = "rejected"] /\ UNCHANGED orderVars
  BY DEF RejectRefund
<1>2. refund \in RefundRows /\ refund' \in RefundRows
  BY DEF BooksInv
<1>3. /\ refund'[f].state = "rejected" /\ refund'[f].of = refund[f].of
      /\ \A g \in Refunds : g # f => refund'[g] = refund[g]
  BY <1>1, <1>2 DEF RefundRows
<1>4. Live(f) /\ ~Live(f)'
  BY <1>1, <1>3 DEF Live
<1>5. refund[f].amount \in Nat /\ \A i \in Items : lines[i] \in Nat
  BY <1>2, Numbers DEF RefundRows
<1>6. \A i \in Items : Back(i)' = Back(i) - lines[i] /\ Back(i) \in Nat /\ Back(i)' \in Nat
  BY <1>2, <1>3, <1>4, <1>5, OneRefundChanges
<1>7. ShippedIsLast' /\ PickedUpOpen'
  BY <1>1 DEF MoneyInv, ShippedIsLast, PickedUpOpen, orderVars, NoCredit
<1>8. RefundOfSettled'
  BY <1>1, <1>3 DEF MoneyInv, RefundOfSettled, orderVars
<1>9. ASSUME NoCredit PROVE Reserved' <= Price(Gone')
  <2>1. \A i \in Items : Gone'[i] \in Nat /\ Gone[i] = Gone'[i] + lines[i]
    <3>1. \A i \in Items : Returned(i)' = Returned(i)
      BY <1>1 DEF Returned, SettledReturns, orderVars
    <3>2. \A i \in Items : Returned(i) \in Nat
      BY UnitsNat DEF ReturnsInv
    <3>3. \A i \in Items : Gone[i] = Back(i) + Returned(i) /\ Gone'[i] = Back(i)' + Returned(i)'
      BY DEF Gone
    <3> HIDE DEF lines
    <3> QED
      BY <1>5, <1>6, <3>1, <3>2, <3>3
  <2>2. Price(Gone) = Price(Gone') + Price(lines)
    BY <1>5, <2>1, PricePlus
  <2>3. Price(Gone') \in Nat /\ Price(lines) \in Nat
    BY <1>5, <2>1, PriceNat
  <2>4. Reserved <= Price(Gone) /\ Price(lines) <= refund[f].amount
    BY <1>4, <1>9 DEF MoneyInv, PaidByUnit
  <2>5. Reserved' = Reserved - refund[f].amount /\ Reserved \in Nat
    BY <1>1, Numbers DEF BooksInv
  <2> HIDE DEF lines
  <2> QED
    BY <1>5, <2>2, <2>3, <2>4, <2>5
<1>10. PaidByUnit'
  <2> SUFFICES ASSUME NoCredit' PROVE PaidByUnit'
    BY DEF PaidByUnit
  <2>1. NoCredit
    BY <1>1 DEF NoCredit, orderVars
  <2>2. ASSUME NEW g \in Refunds, Live(g)' PROVE Price(refund'[g].lines) <= refund'[g].amount
    <3>1. g # f
      BY <1>4, <2>2
    <3>2. refund'[g] = refund[g] /\ Live(g)
      BY <1>3, <2>2, <3>1 DEF Live
    <3> QED
      BY <2>1, <3>2 DEF MoneyInv, PaidByUnit
  <2> QED
    BY <1>9, <2>1, <2>2 DEF PaidByUnit
<1> QED
  BY <1>7, <1>8, <1>10 DEF MoneyInv
\* Units of returns that are not settled in the step have gone nowhere.
LEMMA GoneSame ==
    ASSUME \A i \in Items : Back(i)' = Back(i) /\ Returned(i)' = Returned(i)
    PROVE  Gone' = Gone
BY DEF Gone

\* A return is opened at a delivered order: none is picked up, and no refund
\* is of the new one.
LEMMA MoneyOpened ==
    ASSUME MoneyInv, ReturnsInv, BooksInv, NEW r \in ReturnIds,
           NEW kind \in {"return", "exchange"}, NEW lines \in Lines, NEW delta \in Int,
           OpenReturn(r, kind, lines, delta)
    PROVE  MoneyInv'
<1>1. /\ ret[r] = NoReturn /\ \A s \in ReturnIds : ~ret[s].open
      /\ ret' \in ReturnRows /\ \A s \in ReturnIds : s # r => ret'[s] = ret[s]
      /\ ret'[r].lines = lines /\ ret'[r].status \in {"ReturnOpen", "ExchangeOpen"}
  BY Numbers, OpenReturnStep
<1>2. status = "Delivered" /\ status' \in {"ReturnOpen", "ExchangeOpen"} /\ UNCHANGED refund
  BY OtherMoves DEF OpenReturn, moveOrder, MoveOrderStatus, bookVars
<1>3. ret[r].status = None /\ ret \in ReturnRows /\ refund \in RefundRows
  BY <1>1 DEF NoReturn, ReturnsInv, BooksInv
<1>4. \A s \in ReturnIds : ret[s].status # "ReturnPickedUp"
  BY <1>1, PickedUpIsOpen
<1>5. ShippedIsLast' /\ PickedUpOpen'
  BY <1>1, <1>2, <1>4 DEF MoneyInv, ShippedIsLast, PickedUpOpen, NoCredit
<1>6. RefundOfSettled'
  BY <1>1, <1>2, <1>3 DEF MoneyInv, RefundOfSettled, RefundRows, None
<1>7. \A i \in Items : Returned(i)' = Returned(i)
  <2>1. SettledReturns' = SettledReturns
    BY <1>1, <1>3 DEF SettledReturns, None
  <2>2. r \notin SettledReturns
    BY <1>3 DEF SettledReturns, None
  <2> TAKE i \in Items
  <2> DEFINE u == [s \in ReturnIds |-> ret[s].lines[i]]
             v == [s \in ReturnIds |-> ret'[s].lines[i]]
  <2>3. IsFiniteSet(SettledReturns) /\ \A s \in SettledReturns : u[s] \in Int /\ u[s] = v[s]
    BY <1>1, <1>3, <2>2, ReturnsAssumption, FS_Subset, Numbers DEF SettledReturns, ReturnRows
  <2>4. /\ Returned(i) = SumFunctionOnSet(u, SettledReturns)
        /\ Returned(i)' = SumFunctionOnSet(v, SettledReturns')
    BY DEF Returned, SumOver
  <2> HIDE DEF u, v
  <2> QED
    BY <2>1, <2>3, <2>4, SumSame
<1>8. Reserved' = Reserved /\ \A i \in Items : Back(i)' = Back(i)
  BY <1>2, SumsAlike DEF Alike, Live
<1>9. Gone' = Gone
  BY <1>7, <1>8, GoneSame
<1>10. PaidByUnit'
  BY <1>2, <1>8, <1>9 DEF MoneyInv, PaidByUnit, NoCredit, Live
<1> QED
  BY <1>5, <1>6, <1>10 DEF MoneyInv

\* A return in progress that moves on, but is not settled: a credit comes only
\* with an exchange that ships.
LEMMA MoneyMoved ==
    ASSUME MoneyInv, ReturnsInv, BooksInv, NEW r \in ReturnIds, NEW to, NEW open \in BOOLEAN,
           MovedTo(r, to, open), to # "Refunded",
           to = "ReturnPickedUp" =>
              /\ status' = "ReturnPickedUp"
              /\ Price(ret[r].lines) = 0 \/ ret'[r].fee < Price(ret[r].lines),
           NoCredit' <=> to # "ExchangeShipped",
           \A f \in Refunds : \/ refund'[f] = refund[f]
                              \/ refund'[f].of = r /\ to = "ExchangeShipped"
    PROVE  MoneyInv'
<1>1. /\ ret' \in ReturnRows /\ \A s \in ReturnIds : s # r => ret'[s] = ret[s]
      /\ ret'[r].lines = ret[r].lines /\ ret'[r].status = to /\ ret[r].status \in InProgress
  BY DEF MovedTo, RowTo, RowOf
<1>2. ret[r].open /\ \A s \in ReturnIds : s # r => ~ret[s].open
  BY <1>1, StepsOpen
<1>3. \A s \in ReturnIds : s # r => ret[s].status # "ReturnPickedUp"
  BY <1>2, PickedUpIsOpen
<1>4. NoCredit
  BY <1>2, NothingOpen DEF NoCredit
<1>5. ShippedIsLast'
  BY <1>1, <1>4 DEF MoneyInv, ShippedIsLast
<1>6. PickedUpOpen'
  BY <1>1, <1>3 DEF PickedUpOpen
<1>7. RefundOfSettled'
  <2> SUFFICES ASSUME NEW f \in Refunds, refund'[f].of # None
               PROVE  ret'[refund'[f].of].status \in {"Refunded", "ExchangeShipped"}
    BY DEF RefundOfSettled
  <2>1. CASE refund'[f] = refund[f]
    <3>1. ret[refund[f].of].status \in {"Refunded", "ExchangeShipped"} /\ refund[f].of \in ReturnIds
      BY <2>1 DEF MoneyInv, RefundOfSettled, BooksInv, RefundRows
    <3>2. refund[f].of # r
      BY <1>1, <3>1 DEF InProgress
    <3> QED
      BY <1>1, <2>1, <3>1, <3>2
  <2>2. CASE refund'[f].of = r /\ to = "ExchangeShipped"
    BY <1>1, <2>2
  <2> QED
    BY <2>1, <2>2
<1>8. PaidByUnit'
  <2> SUFFICES ASSUME NoCredit' PROVE PaidByUnit'
    BY DEF PaidByUnit
  <2>1. \A f \in Refunds : refund'[f] = refund[f]
    OBVIOUS
  <2>2. Reserved' = Reserved /\ \A i \in Items : Back(i)' = Back(i)
    BY <2>1, SumsAlike DEF Alike, Live
  <2>3. \A i \in Items : Returned(i)' = Returned(i)
    BY RowUnits
  <2>4. Gone' = Gone
    BY <2>2, <2>3, GoneSame
  <2> QED
    BY <1>4, <2>1, <2>2, <2>4 DEF MoneyInv, PaidByUnit, Live
<1> QED
  BY <1>5, <1>6, <1>7, <1>8 DEF MoneyInv

\* A-511 picks up a return: its fee is checked against its price.
LEMMA MoneyPickedUp ==
    ASSUME WholePrices, MoneyInv, ReturnsInv, BooksInv, NEW r \in ReturnIds,
           NEW fault, NEW policy, NEW amount, ConfirmPickup(r, fault, policy, amount)
    PROVE  MoneyInv'
<1> DEFINE to == IF ret[r].kind = "exchange" THEN "ExchangePicked" ELSE "ReturnPickedUp"
           due == IF fault = "seller" THEN 0 ELSE amount
           fee == IF policy = "deduct" THEN due ELSE 0
<1>1. MovedTo(r, to, TRUE) /\ UNCHANGED bookVars
  BY PickupStep
<1>2. /\ RecordPickup(r, to, fee) /\ status' = to /\ amount \in Fees
      /\ ret[r].kind = "return" /\ policy = "deduct" =>
            FitsIn(LockReturnGross(r)) /\ (returnGross(r) > 0 => due < returnGross(r))
  BY DEF ConfirmPickup, returnFeeSetting, moveOrder, MoveOrderStatus
<1>3. ret[r].open /\ ret[r].lines \in Lines /\ ret[r].kind \in {"return", "exchange"}
  BY <1>1, StepsOpen DEF MovedTo
<1>4. NoCredit
  BY <1>3, NothingOpen DEF NoCredit
<1>5. returnGross(r) = Price(ret[r].lines) /\ Price(ret[r].lines) \in Nat
  <2>1. \A i \in Items : ret[r].lines[i] \in Nat
    BY <1>3, Numbers
  <2> QED
    BY <1>3, <1>4, <2>1, WorthIsPrice, PriceNat DEF returnGross, LockReturnGross, MoneyInv
<1>6. to = "ReturnPickedUp" => Price(ret[r].lines) = 0 \/ ret'[r].fee < Price(ret[r].lines)
  <2> SUFFICES ASSUME to = "ReturnPickedUp", Price(ret[r].lines) # 0
               PROVE  ret'[r].fee < Price(ret[r].lines)
    OBVIOUS
  <2>1. ret[r].kind = "return" /\ Price(ret[r].lines) > 0
    BY <1>3, <1>5
  <2>2. ret'[r].fee = fee
    <3>1. fee \in Fees \cup {0} /\ ret \in ReturnRows /\ to \in ReturnStates
      BY <1>2 DEF ReturnsInv, ReturnStates
    <3> HIDE DEF fee, to
    <3>2. RowTo(r, to, ret[r].open, fee)
      BY <1>2, <3>1, RowMoved
    <3> QED
      BY <3>2 DEF RowTo, RowOf
  <2>3. policy = "deduct" => due < Price(ret[r].lines)
    BY <1>2, <1>5, <2>1
  <2> QED
    BY <2>1, <2>2, <2>3
<1>7. to \in {"ExchangePicked", "ReturnPickedUp"}
  OBVIOUS
<1>8. (to = "ReturnPickedUp" => status' = "ReturnPickedUp") /\ (NoCredit' <=> to # "ExchangeShipped")
  BY <1>2, <1>7 DEF NoCredit
<1>9. \A f \in Refunds : refund'[f] = refund[f]
  BY <1>1 DEF bookVars
<1> HIDE DEF to
<1>10. to # "Refunded" /\ TRUE \in BOOLEAN
  BY <1>7
<1> QED
  BY <1>1, <1>6, <1>8, <1>9, <1>10, MoneyMoved

\* A settlement pays no more than the price of its units.
LEMMA MoneySettled ==
    ASSUME WholePrices, MoneyInv, ReturnsInv, BooksInv, BooksInv',
           NEW r \in ReturnIds, NEW f \in Refunds, SettleReturn(r, f)
    PROVE  MoneyInv'
<1>1. MovedTo(r, "Refunded", FALSE) /\ status = "ReturnPickedUp"
  BY SettleStep
<1>2. /\ ret' \in ReturnRows /\ \A s \in ReturnIds : s # r => ret'[s] = ret[s]
      /\ ret'[r].lines = ret[r].lines /\ ret'[r].status = "Refunded" /\ ret[r].status \in InProgress
  BY <1>1 DEF MovedTo, RowTo, RowOf
<1>3. ret[r].open /\ ret[r].lines \in Lines /\ \A s \in ReturnIds : s # r => ~ret[s].open
  BY <1>2, StepsOpen
<1>4. \A i \in Items : ret[r].lines[i] \in Nat
  BY <1>3, Numbers
<1> DEFINE gross == returnGross(r)
           amount == IF gross = 0 THEN 0 ELSE gross - ret[r].fee
<1>5. gross = Price(ret[r].lines) /\ gross \in Nat
  BY <1>1, <1>3, <1>4, WorthIsPrice, PriceNat DEF returnGross, LockReturnGross, MoneyInv, NoCredit
<1>6. ret[r].fee \in Nat
  <2>1. ret[r].fee \in Fees \cup {0}
    BY DEF ReturnsInv, ReturnRows
  <2>2. \A x \in Fees \cup {0} : x \in Nat
    BY ReturnsAssumption
  <2> QED
    BY <2>1, <2>2
<1>7. /\ IF amount > 0 THEN InsertReturnRefund(f, amount, r) ELSE UNCHANGED <<refunded, refund>>
      /\ status' \in {"Refunded", "Delivered"}
  BY DEF SettleReturn, moveOrder, MoveOrderStatus
<1>8. amount \in Int /\ amount <= gross
  <2> HIDE DEF gross
  <2> QED
    BY <1>5, <1>6
<1> HIDE DEF amount
<1>9. /\ refunded' <= refunded + gross /\ \A i \in Items : Back(i)' = Back(i)
      /\ \A g \in Refunds : \/ refund'[g] = refund[g]
                            \/ refund'[g].of = r /\ refund'[g].lines = NoLines /\ refund'[g].amount \in Nat
  <2>1. CASE amount > 0
    <3>1. InsertReturnRefund(f, amount, r) /\ amount \in Nat
      BY <1>7, <1>8, <2>1
    <3>2. RefundsHold
      BY <3>1, ReturnPaidBack
    <3>3. /\ refunded' = refunded + amount
          /\ refund' = [refund EXCEPT ![f] = [state |-> "requested", amount |-> amount,
                                              lines |-> NoLines, of |-> r, by |-> "A-511"]]
      BY <3>1 DEF InsertReturnRefund, ReserveRefund, InsertRefund
    <3>4. refunded \in Nat
      BY Numbers DEF BooksInv
    <3> HIDE DEF gross
    <3> QED
      BY <1>5, <1>8, <3>1, <3>2, <3>3, <3>4 DEF RefundsHold, BooksInv, RefundRows
  <2>2. CASE ~(amount > 0)
    <3>1. UNCHANGED <<refunded, refund>> /\ refunded \in Nat
      BY <1>7, <2>2, Numbers DEF BooksInv
    <3>2. \A i \in Items : Back(i)' = Back(i)
      BY <3>1, SumsAlike DEF Alike, Live
    <3> HIDE DEF gross
    <3> QED
      BY <1>5, <3>1, <3>2
  <2> QED
    BY <2>1, <2>2
<1>10. ShippedIsLast'
  BY <1>1, <1>2 DEF MoneyInv, ShippedIsLast, NoCredit
<1>11. PickedUpOpen'
  BY <1>2, <1>3, PickedUpIsOpen DEF PickedUpOpen
<1>12. RefundOfSettled'
  <2> SUFFICES ASSUME NEW g \in Refunds, refund'[g].of # None
               PROVE  ret'[refund'[g].of].status \in {"Refunded", "ExchangeShipped"}
    BY DEF RefundOfSettled
  <2>1. CASE refund'[g] = refund[g]
    <3>1. ret[refund[g].of].status \in {"Refunded", "ExchangeShipped"} /\ refund[g].of \in ReturnIds
      BY <2>1 DEF MoneyInv, RefundOfSettled, BooksInv, RefundRows
    <3> QED
      BY <1>2, <2>1, <3>1
  <2>2. CASE refund'[g].of = r
    BY <1>2, <2>2
  <2> QED
    BY <1>9, <2>1, <2>2
<1>13. Reserved' <= Price(Gone')
  <2>1. \A i \in Items : Gone[i] \in Nat /\ Gone'[i] = Gone[i] + ret[r].lines[i]
    <3>1. \A i \in Items : Returned(i)' = Returned(i) + ret[r].lines[i] /\ Returned(i) \in Nat
      BY <1>1, RowUnits
    <3>2. \A i \in Items : Gone[i] = Back(i) + Returned(i) /\ Gone'[i] = Back(i)' + Returned(i)'
      BY DEF Gone
    <3>3. \A i \in Items : Back(i) \in Nat
      BY BackNat DEF BooksInv
    <3> QED
      BY <1>4, <1>9, <3>1, <3>2, <3>3
  <2>2. Price(Gone') = Price(Gone) + Price(ret[r].lines)
    BY <1>4, <2>1, PricePlus
  <2>3. Price(Gone) \in Nat
    BY <2>1, PriceNat
  <2>4. refunded = Reserved /\ refunded' = Reserved' /\ refunded \in Nat /\ refunded' \in Nat
    BY Numbers DEF BooksInv
  <2>5. Reserved <= Price(Gone)
    BY <1>1 DEF MoneyInv, PaidByUnit, NoCredit
  <2> HIDE DEF gross
  <2> QED
    BY <1>5, <1>9, <2>2, <2>3, <2>4, <2>5
<1>14. PaidByUnit'
  <2>1. ASSUME NEW g \in Refunds, Live(g)' PROVE Price(refund'[g].lines) <= refund'[g].amount
    <3>1. CASE refund'[g] = refund[g]
      BY <1>1, <2>1, <3>1 DEF Live, MoneyInv, PaidByUnit, NoCredit
    <3>2. CASE refund'[g].lines = NoLines /\ refund'[g].amount \in Nat
      BY <3>2, PriceNone
    <3> QED
      BY <1>9, <3>1, <3>2
  <2> QED
    BY <1>13, <2>1 DEF PaidByUnit
<1> QED
  BY <1>10, <1>11, <1>12, <1>14 DEF MoneyInv
\* Every move of a return keeps what it and the others are worth.
LEMMA MoneyReturnStep ==
    ASSUME WholePrices, MoneyInv, ReturnsInv, BooksInv, BooksInv', ReturnWork
    PROVE  MoneyInv'
<1>1. PICK r \in ReturnIds :
        \/ \E kind \in {"return", "exchange"}, lines \in Lines, delta \in Int :
              OpenReturn(r, kind, lines, delta)
        \/ \E fault, policy, amount : ConfirmPickup(r, fault, policy, amount)
        \/ \E f \in Refunds : SettleReturn(r, f)
        \/ RejectReturn(r)
        \/ \E f \in Refunds : CompleteExchange(r, f)
        \/ \E k \in Keys : ApproveDiff(k, r)
  BY DEF ReturnWork
<1>2. CASE \E kind \in {"return", "exchange"}, lines \in Lines, delta \in Int :
              OpenReturn(r, kind, lines, delta)
  BY <1>2, MoneyOpened
<1>3. CASE \E fault, policy, amount : ConfirmPickup(r, fault, policy, amount)
  BY <1>3, MoneyPickedUp
<1>4. CASE \E f \in Refunds : SettleReturn(r, f)
  BY <1>4, MoneySettled
<1>5. CASE RejectReturn(r)
  <2>1. MovedTo(r, "Rejected", FALSE) /\ status' = "Delivered"
    BY <1>5, RejectReturnStep
  <2>2. \A f \in Refunds : refund'[f] = refund[f]
    BY <1>5 DEF RejectReturn, bookVars
  <2> QED
    BY <2>1, <2>2, MoneyMoved DEF NoCredit
<1>6. CASE \E f \in Refunds : CompleteExchange(r, f)
  <2>1. PICK f \in Refunds : CompleteExchange(r, f)
    BY <1>6
  <2>2. /\ status' = IF ret[r].diff > 0 THEN "ExchangeDiffDue" ELSE "ExchangeShipped"
        /\ reserveExchangeRefund(r, f)
    BY <2>1 DEF CompleteExchange, moveOrder, MoveOrderStatus
  <2>3. CASE ret[r].diff > 0
    <3>1. MovedTo(r, "ExchangeDiffDue", TRUE) /\ NoCredit'
      BY <2>1, <2>2, <2>3, CompleteStep DEF NoCredit
    <3>2. ~(ret[r].diff < 0)
      <4>1. ret[r].diff \in Int
        BY DEF ReturnsInv, ReturnRows
      <4> QED
        BY <2>3, <4>1
    <3>3. \A g \in Refunds : refund'[g] = refund[g]
      BY <2>2, <3>2 DEF reserveExchangeRefund
    <3> QED
      BY <3>1, <3>3, MoneyMoved
  <2>4. CASE ~(ret[r].diff > 0)
    <3>1. MovedTo(r, "ExchangeShipped", FALSE) /\ ~NoCredit'
      BY <2>1, <2>2, <2>4, CompleteStep DEF NoCredit
    <3>2. \A g \in Refunds : refund'[g] = refund[g] \/ refund'[g].of = r
      BY <2>2 DEF reserveExchangeRefund, InsertReturnRefund, ReserveRefund, InsertRefund,
                  BooksInv, RefundRows
    <3> QED
      BY <3>1, <3>2, MoneyMoved
  <2> QED
    BY <2>3, <2>4
<1>7. CASE \E k \in Keys : ApproveDiff(k, r)
  <2>1. PICK k \in Keys : ApproveDiff(k, r)
    BY <1>7
  <2>2. MovedTo(r, "ExchangeShipped", FALSE) /\ ~NoCredit'
    BY <2>1, ApproveStep DEF NoCredit
  <2>3. \A f \in Refunds : refund'[f] = refund[f]
    BY <2>1 DEF ApproveDiff, bookVars
  <2> QED
    BY <2>2, <2>3, MoneyMoved
<1> QED
  BY <1>1, <1>2, <1>3, <1>4, <1>5, <1>6, <1>7

\* An order is closed only when nothing of it is on its way, or paid back.
LEMMA MoneyClosed ==
    ASSUME WholePrices, MoneyInv, ReturnsInv, BooksInv,
           NEW actor \in {"A-507", "A-511"}, CloseRefundedOrder(actor)
    PROVE  MoneyInv'
<1>1. /\ CanTransition(status, "Refunded", actor) /\ status' = "Refunded"
      /\ refunded >= Approved \/ settled = Quantity
      /\ UNCHANGED <<ret, refund>>
  BY DEF CloseRefundedOrder, MayClose, moveOrder, MoveOrderStatus
<1>2. NoCredit /\ NoCredit' /\ status # "Refunded"
  BY <1>1, OtherMoves, SellerMoves DEF NoCredit
<1>3. ASSUME NEW r \in ReturnIds, ret[r].status = "ReturnPickedUp" PROVE FALSE
  <2>1. refunded < Approved /\ settled # Quantity
    BY <1>2, <1>3, PickedUpIsOpen, PickedUpNotPaid DEF NoCredit, MoneyInv
  <2>2. refunded \in Nat /\ Approved \in Nat
    BY Numbers DEF BooksInv
  <2> QED
    BY <1>1, <2>1, <2>2
<1>4. \A f \in Refunds : Alike(f)
  BY <1>1 DEF Alike, Live
<1> QED
  BY <1>1, <1>2, <1>3, <1>4, MoneyKept

\* Every step keeps prices and payments in agreement.
LEMMA MoneyStep ==
    ASSUME WholePrices, MoneyInv, ReturnsInv, BooksInv, BooksInv', [Next]_vars
    PROVE  MoneyInv'
<1>1. CASE ReturnWork
  BY <1>1, MoneyReturnStep
<1>2. CASE RefundWork
  <2>1. PICK f \in Refunds :
          \/ \E lines \in Lines : RequestRefund(f, lines)
          \/ RejectRefund(f)
          \/ \E actor \in {"A-507", "A-511"} : ExecuteRefund(f, actor)
          \/ RefundAnswered(f)
    BY <1>2 DEF RefundWork
  <2>2. CASE \E lines \in Lines : RequestRefund(f, lines)
    BY <2>2, MoneyRequested
  <2>3. CASE RejectRefund(f)
    BY <2>3, MoneyRejected
  <2>4. CASE (\E actor \in {"A-507", "A-511"} : ExecuteRefund(f, actor)) \/ RefundAnswered(f)
    <3>1. UNCHANGED <<ret, status>>
      BY <2>4 DEF ExecuteRefund, RefundAnswered, orderVars
    <3>2. \A g \in Refunds : Alike(g)
      BY <2>4, SentAlike DEF BooksInv
    <3> QED
      BY <3>1, <3>2, MoneyKept DEF NoCredit
  <2> QED
    BY <2>1, <2>2, <2>3, <2>4
<1>3. CASE DiffWork \/ UNCHANGED vars
  <2>1. UNCHANGED <<ret, status, refund>>
    BY <1>3, LeftAlone DEF vars, orderVars, bookVars
  <2>2. \A f \in Refunds : Alike(f)
    BY <2>1 DEF Alike, Live
  <2> QED
    BY <2>1, <2>2, MoneyKept DEF NoCredit
<1>4. CASE ClosingWork
  <2>1. CASE ConfirmPurchase
    <3>1. UNCHANGED <<ret, refund>> /\ status = "Delivered" /\ status' = "Confirmed"
      BY <2>1, OtherMoves DEF ConfirmPurchase, bookVars, moveOrder, MoveOrderStatus
    <3>2. \A r \in ReturnIds : ret[r].status # "ReturnPickedUp"
      BY <3>1, NothingOpen, PickedUpIsOpen
    <3>3. \A f \in Refunds : Alike(f)
      BY <3>1 DEF Alike, Live
    <3> QED
      BY <3>1, <3>2, <3>3, MoneyKept DEF NoCredit
  <2>2. CASE \E actor \in {"A-507", "A-511"} : CloseRefundedOrder(actor)
    BY <2>2, MoneyClosed
  <2>3. CASE UNCHANGED <<orderVars, refund>>
    <3>1. \A f \in Refunds : Alike(f)
      BY <2>3 DEF Alike, Live
    <3> QED
      BY <2>3, <3>1, MoneyKept DEF NoCredit, orderVars
  <2> QED
    BY <1>4, <2>1, <2>2, <2>3 DEF ClosingWork, CloseByA507, CloseByA511
<1>5. CASE Crash
  <2>1. /\ UNCHANGED <<ret, status>>
        /\ refund' = [f \in Refunds |-> IF refund[f].by = "A-511"
                                        THEN [refund[f] EXCEPT !.by = "A-507"] ELSE refund[f]]
    BY <1>5 DEF Crash, orderVars
  <2>2. \A f \in Refunds : Alike(f)
    BY <2>1 DEF BooksInv, RefundRows, Alike, Live
  <2> QED
    BY <2>1, <2>2, MoneyKept DEF NoCredit
<1> QED
  BY <1>1, <1>2, <1>3, <1>4, <1>5, StepKinds

\* No refund and no return yet.
LEMMA MoneyInit == ASSUME WholePrices, Init PROVE MoneyInv
<1>1. /\ \A r \in ReturnIds : ret[r].status = None
      /\ \A f \in Refunds : refund[f].of = None /\ ~Live(f)
  BY DEF Init, NoReturn, NoRefund, Live, None
<1>2. Reserved = 0 /\ Price(Gone) \in Nat
  <2>1. LiveRefunds = {}
    BY <1>1 DEF LiveRefunds
  <2>2. Reserved = 0
    BY <2>1, SumEmpty DEF Reserved, SumOver
  <2>3. BooksInv /\ ReturnsInv
    BY BooksInit, ReturnsInit
  <2>4. \A i \in Items : Gone[i] \in Nat
    BY <2>3, GoneNat DEF BooksInv, ReturnsInv
  <2> QED
    BY <2>2, <2>4, PriceNat
<1> QED
  BY <1>1, <1>2 DEF MoneyInv, ShippedIsLast, RefundOfSettled, PaidByUnit, PickedUpOpen, None

\* With whole prices, every refund that is alive is worth its units until an
\* exchange has shipped, and no close is due before.
THEOREM ReturnsMoneyInductive ==
    ASSUME WholePrices PROVE Spec => [](ReturnsInv /\ BooksInv /\ MoneyInv)
<1>1. Init => ReturnsInv /\ BooksInv /\ MoneyInv
  BY ReturnsInit, BooksInit, MoneyInit
<1>2. ReturnsInv /\ BooksInv /\ MoneyInv /\ [Next]_vars => (ReturnsInv /\ BooksInv /\ MoneyInv)'
  BY ReturnsStep, BooksStep, MoneyStep
<1> QED
  BY <1>1, <1>2, PTL DEF Spec

\* With whole prices, the order shows its return in progress: a refund that
\* A-507 executes, or A-511 closes on, meanwhile never closes the order over
\* it (refundCloseTarget).
THEOREM OrderFollowsReturnSafe ==
    ASSUME WholePrices PROVE Spec => []OrderFollowsReturn
<1>1. ReturnsInv /\ MoneyInv => OrderFollowsReturn
  <2> SUFFICES ASSUME ReturnsInv, MoneyInv, NEW r \in ReturnIds, ret[r].status \in InProgress
               PROVE  ret[r].open /\ ret[r].status = status
    BY DEF OrderFollowsReturn
  <2>1. ret[r].open
    BY StepsOpen
  <2>2. ret[r].status = status \/ ClosedOver(r)
    BY <2>1 DEF ReturnsInv, OrderShows
  <2> QED
    BY <2>1, <2>2 DEF MoneyInv, PickedUpOpen, ClosedOver
<1> QED
  BY <1>1, ReturnsMoneyInductive, PTL

\* With whole prices, what a picked-up return's fee was checked against is
\* there when it is settled: nothing in between takes its units or their worth
\* (ConfirmPickup, SettleReturn).
THEOREM PickedUpSettlesSafe ==
    ASSUME WholePrices PROVE Spec => []PickedUpSettles
<1>1. ReturnsInv /\ BooksInv /\ MoneyInv => PickedUpSettles
  <2> SUFFICES ASSUME ReturnsInv, BooksInv, MoneyInv,
                      NEW r \in ReturnIds, ret[r].status = "ReturnPickedUp"
               PROVE  FitsIn(ret[r].lines) /\ (returnGross(r) = 0 \/ returnGross(r) > ret[r].fee)
    BY DEF PickedUpSettles
  <2>1. ret[r].open /\ ret[r].lines \in Lines
    BY PickedUpIsOpen
  <2>2. status = "ReturnPickedUp" /\ (Price(ret[r].lines) = 0 \/ ret[r].fee < Price(ret[r].lines))
    BY DEF MoneyInv, PickedUpOpen
  <2>3. \A i \in Items : ret[r].lines[i] \in Nat
    BY <2>1, Numbers
  <2>4. returnGross(r) = Price(ret[r].lines) /\ Price(ret[r].lines) \in Nat
    BY <2>1, <2>2, <2>3, WorthIsPrice, PriceNat DEF returnGross, LockReturnGross, MoneyInv, NoCredit
  <2>5. ASSUME NEW i \in Items PROVE ret[r].lines[i] <= LockOrderItemForReturn(i)
    <3>1. ret[r].lines[i] <= Leaving(i) /\ Leaving(i) \in Nat
      BY <2>1, LeavingHas DEF ReturnsInv
    <3>2. Back(i) \in Nat /\ Returned(i) \in Nat /\ UnitsAgree(i) /\ Quantity[i] \in Nat
      BY BackNat, UnitsNat, Numbers DEF BooksInv, ReturnsInv
    <3> QED
      BY <2>2, <2>3, <3>1, <3>2 DEF UnitsAgree, LockOrderItemForReturn
  <2>6. ret[r].fee \in Int
    <3>1. ret[r].fee \in Fees \cup {0}
      BY DEF ReturnsInv, ReturnRows
    <3>2. \A x \in Fees \cup {0} : x \in Int
      BY ReturnsAssumption
    <3> QED
      BY <3>1, <3>2
  <2> QED
    BY <2>2, <2>4, <2>5, <2>6 DEF FitsIn
<1> QED
  BY <1>1, ReturnsMoneyInductive, PTL

\* Until a credit, what was paid back is within the price of the units that went.
LEMMA PaidBeforeCredit ==
    ASSUME WholePrices, ReturnsInv, BooksInv, MoneyInv, NoCredit PROVE GoodsNeverOverpaid
<1> DEFINE rest == [i \in Items |-> Quantity[i] - Gone[i]]
<1>1. \A i \in Items : Gone[i] \in Nat /\ rest[i] \in Nat /\ Quantity[i] = Gone[i] + rest[i]
  <2> TAKE i \in Items
  <2>1. Gone[i] = Back(i) + Returned(i) /\ Gone[i] \in Nat
    BY GoneNat DEF ReturnsInv, BooksInv
  <2>2. UnitsAgree(i) /\ Leaving(i) \in Nat /\ Quantity[i] \in Nat /\ Back(i) \in Nat /\ Returned(i) \in Nat
    BY UnitsNat, BackNat, Numbers DEF BooksInv, ReturnsInv
  <2> QED
    BY <2>1, <2>2 DEF UnitsAgree
<1> HIDE DEF rest
<1>2. Price(Quantity) = Price(Gone) + Price(rest)
  BY <1>1, PricePlus
<1>3. Price(Gone) \in Nat /\ Price(rest) \in Nat
  BY <1>1, PriceNat
<1>4. Reserved <= Price(Gone) /\ Reserved \in Nat
  BY Numbers DEF MoneyInv, PaidByUnit, BooksInv
<1>5. Reserved <= SumOver(Items, Net)
  BY <1>2, <1>3, <1>4, PriceOfAll
<1> QED
  BY <1>5 DEF GoodsNeverOverpaid, Reserved, LiveRefunds

\* With whole prices, goods pay back no more than they cost, up to the exchange
\* that gives a credit (returns.go, reserveExchangeRefund).
THEOREM GoodsNotOverpaidSafe ==
    ASSUME WholePrices PROVE Spec => [](status # "ExchangeShipped" => GoodsNeverOverpaid)
<1>1. ReturnsInv /\ BooksInv /\ MoneyInv => (status # "ExchangeShipped" => GoodsNeverOverpaid)
  BY PaidBeforeCredit DEF NoCredit
<1> QED
  BY <1>1, ReturnsMoneyInductive, PTL
-----------------------------------------------------------------------------
(* After an exchange's credit.  What the goods pay back is bounded item by    *)
(* item: by the units that went, and by what is left of the item once the     *)
(* part of the credit counted against it is kept back.  It holds for every    *)
(* part of the refunds, since any of them may be rejected.                    *)

CheaperByAUnit == \A d \in Deltas, i \in Items : -d <= UnitPrice[i]
\* The difference an exchange gives back is within the price of its units.
DiffCovered ==
    \A r \in ReturnIds : ret[r].kind = "exchange" => -ret[r].diff <= Price(ret[r].lines)

Credits     == {f \in LiveRefunds : refund[f].of # None /\ ret[refund[f].of].kind = "exchange"}
Goods       == LiveRefunds \ Credits
PaidBack(S) == SumOver(S, [f \in Refunds |-> refund[f].amount])
UnitsOf(S)  == [i \in Items |-> SumOver(S, [f \in Refunds |-> refund[f].lines[i]])]
Taken(S)    == [i \in Items |-> UnitsOf(S)[i] + Returned(i)]
Lesser(a, b) == IF a <= b THEN a ELSE b
RoomFor(units, kept) ==
    SumOver(Items, [i \in Items |-> Lesser(UnitPrice[i] * units[i], Net[i] - kept[i])])
\* kept is the part of the credit that each item's refunds leave alone.
KeptFor(kept) ==
    /\ \A i \in Items : kept[i] <= ExchangeCredit(i)
    /\ PaidBack(Credits) <= SumOver(Items, kept)
    /\ \A S \in SUBSET Goods : PaidBack(S) <= RoomFor(Taken(S), kept)
CreditInv ==
    /\ \A f, g \in Credits : f = g
    /\ \E kept \in [Items -> Nat] : KeptFor(kept)
OverpaidInv == DiffCovered /\ (~NoCredit => CreditInv)

\* What the cap by a credit leaves, without the sets it is written with.
LEMMA CapByCredit ==
    ASSUME NEW part \in Int, NEW left \in Int
    PROVE  Max({0, Min({part, left})})
             = IF Lesser(part, left) <= 0 THEN 0 ELSE Lesser(part, left)
<1>1. Min({part, left}) = Lesser(part, left)
  <2>1. Lesser(part, left) \in {part, left} /\ \A y \in {part, left} : Lesser(part, left) <= y
    BY DEF Lesser
  <2>2. \A x \in {part, left} : (\A y \in {part, left} : x <= y) => x = Lesser(part, left)
    BY DEF Lesser
  <2> QED
    BY <2>1, <2>2 DEF Min
<1> DEFINE m == Lesser(part, left)
<1>2. m \in Int
  BY DEF Lesser
<1> HIDE DEF m
<1>3. Max({0, m}) = IF m <= 0 THEN 0 ELSE m
  <2> DEFINE g == IF m <= 0 THEN 0 ELSE m
  <2>1. g \in {0, m} /\ \A y \in {0, m} : g >= y
    BY <1>2
  <2>2. \A x \in {0, m} : (\A y \in {0, m} : x >= y) => x = g
    BY <1>2
  <2> HIDE DEF g
  <2> QED
    BY <2>1, <2>2 DEF Max, g
<1> QED
  BY <1>1, <1>3 DEF m

\* The whole credits of the exchanges an item was in.
LEMMA CreditOf ==
    \A i \in Items :
        ExchangeCredit(i) = PaidBack({f \in Credits : ret[refund[f].of].lines[i] > 0})
<1> TAKE i \in Items
<1>1. {f \in Refunds : /\ Live(f) /\ refund[f].of # None
                       /\ ret[refund[f].of].kind = "exchange"
                       /\ ret[refund[f].of].lines[i] > 0}
        = {f \in Credits : ret[refund[f].of].lines[i] > 0}
  BY DEF Credits, LiveRefunds
<1> QED
  BY <1>1 DEF ExchangeCredit, PaidBack

CreditsCounted ==
    \A i \in Items :
        ExchangeCredit(i) = PaidBack({f \in Credits : ret[refund[f].of].lines[i] > 0})
\* The same of the next state.
LEMMA CreditOfNext == CreditsCounted'
<1>1. CreditsCounted
  BY CreditOf DEF CreditsCounted
<1> QED
  BY <1>1, PTL

\* Sums over refunds are numbers, and a part and the rest make the whole.
LEMMA RefundSums ==
    ASSUME refund \in RefundRows, NEW S \in SUBSET Refunds
    PROVE  /\ IsFiniteSet(S) /\ PaidBack(S) \in Nat
           /\ \A i \in Items : UnitsOf(S)[i] \in Nat
           /\ \A R \in SUBSET S :
                /\ PaidBack(S) = PaidBack(R) + PaidBack(S \ R)
                /\ \A i \in Items : UnitsOf(S)[i] = UnitsOf(R)[i] + UnitsOf(S \ R)[i]
<1>1. IsFiniteSet(S)
  BY ReturnsAssumption, FS_Subset
<1> DEFINE a == [f \in Refunds |-> refund[f].amount]
<1>2. PaidBack(S) \in Nat /\ \A R \in SUBSET S : PaidBack(S) = PaidBack(R) + PaidBack(S \ R)
  <2>1. \A f \in S : a[f] \in Nat /\ a[f] \in Int
    BY DEF RefundRows
  <2>2. \A T : PaidBack(T) = SumFunctionOnSet(a, T)
    BY DEF PaidBack, SumOver
  <2> HIDE DEF a
  <2> QED
    BY <1>1, <2>1, <2>2, SumNat, SumSplit
<1>3. ASSUME NEW i \in Items
      PROVE  /\ UnitsOf(S)[i] \in Nat
             /\ \A R \in SUBSET S : UnitsOf(S)[i] = UnitsOf(R)[i] + UnitsOf(S \ R)[i]
  <2> DEFINE l == [f \in Refunds |-> refund[f].lines[i]]
  <2>1. \A f \in S : l[f] \in Nat /\ l[f] \in Int
    BY Numbers DEF RefundRows
  <2>2. \A T : UnitsOf(T)[i] = SumFunctionOnSet(l, T)
    BY DEF UnitsOf, SumOver
  <2> HIDE DEF l
  <2> QED
    BY <1>1, <2>1, <2>2, SumNat, SumSplit
<1> QED
  BY <1>1, <1>2, <1>3

\* One refund, and none.
LEMMA RefundSum ==
    ASSUME refund \in RefundRows
    PROVE  /\ PaidBack({}) = 0 /\ \A i \in Items : UnitsOf({})[i] = 0
           /\ \A f \in Refunds : /\ PaidBack({f}) = refund[f].amount
                                 /\ \A i \in Items : UnitsOf({f})[i] = refund[f].lines[i]
<1>1. PaidBack({}) = 0 /\ \A i \in Items : UnitsOf({})[i] = 0
  BY SumEmpty DEF PaidBack, UnitsOf, SumOver
<1>2. ASSUME NEW f \in Refunds PROVE PaidBack({f}) = refund[f].amount
  <2> DEFINE a == [g \in Refunds |-> refund[g].amount]
  <2>1. IsFiniteSet({}) /\ \A g \in {} \cup {f} : a[g] \in Int
    BY FS_EmptySet DEF RefundRows
  <2>2. a[f] = refund[f].amount /\ a[f] \in Int /\ {} \cup {f} = {f}
    BY <2>1
  <2>3. PaidBack({f}) = SumFunctionOnSet(a, {} \cup {f})
    BY <2>2 DEF PaidBack, SumOver
  <2> HIDE DEF a
  <2>4. SumFunctionOnSet(a, {} \cup {f}) = a[f] + SumFunctionOnSet(a, {})
    BY <2>1, SumAdd
  <2> QED
    BY <2>2, <2>3, <2>4, SumEmpty
<1>3. ASSUME NEW f \in Refunds, NEW i \in Items PROVE UnitsOf({f})[i] = refund[f].lines[i]
  <2> DEFINE l == [g \in Refunds |-> refund[g].lines[i]]
  <2>1. IsFiniteSet({}) /\ \A g \in {} \cup {f} : l[g] \in Int
    BY FS_EmptySet, Numbers DEF RefundRows
  <2>2. l[f] = refund[f].lines[i] /\ l[f] \in Int /\ {} \cup {f} = {f}
    BY <2>1
  <2>3. UnitsOf({f})[i] = SumFunctionOnSet(l, {} \cup {f})
    BY <2>2 DEF UnitsOf, SumOver
  <2> HIDE DEF l
  <2>4. SumFunctionOnSet(l, {} \cup {f}) = l[f] + SumFunctionOnSet(l, {})
    BY <2>1, SumAdd
  <2> QED
    BY <2>2, <2>3, <2>4, SumEmpty
<1> QED
  BY <1>1, <1>2, <1>3

\* One refund more.
LEMMA RefundSumMore ==
    ASSUME refund \in RefundRows, NEW T \in SUBSET Refunds, NEW f \in Refunds, f \notin T
    PROVE  /\ PaidBack(T \cup {f}) = PaidBack(T) + refund[f].amount
           /\ \A i \in Items : UnitsOf(T \cup {f})[i] = UnitsOf(T)[i] + refund[f].lines[i]
<1> DEFINE U == T \cup {f}
<1>1. U \in SUBSET Refunds /\ T \in SUBSET U /\ U \ T = {f}
  OBVIOUS
<1> HIDE DEF U
<1>2. /\ PaidBack(U) = PaidBack(T) + PaidBack(U \ T)
      /\ \A i \in Items : UnitsOf(U)[i] = UnitsOf(T)[i] + UnitsOf(U \ T)[i]
  BY <1>1, RefundSums
<1>3. /\ PaidBack(U) = PaidBack(T) + PaidBack({f})
      /\ \A i \in Items : UnitsOf(U)[i] = UnitsOf(T)[i] + UnitsOf({f})[i]
  BY <1>1, <1>2
<1> QED
  BY <1>3, RefundSum DEF U

MoreSums ==
    refund \in RefundRows =>
        \A T \in SUBSET Refunds, f \in Refunds : f \notin T =>
            /\ PaidBack(T \cup {f}) = PaidBack(T) + refund[f].amount
            /\ \A i \in Items : UnitsOf(T \cup {f})[i] = UnitsOf(T)[i] + refund[f].lines[i]
\* As it is said of a state.
LEMMA MoreSumsNow == MoreSums
BY RefundSumMore DEF MoreSums
\* The same of the next state.
LEMMA MoreSumsNext == MoreSums'
BY MoreSumsNow, PTL

\* Refunds whose rows keep their amounts and units sum to the same.
LEMMA RefundSumSame ==
    ASSUME refund \in RefundRows, NEW S \in SUBSET Refunds,
           \A f \in S : refund'[f].amount = refund[f].amount /\ refund'[f].lines = refund[f].lines
    PROVE  PaidBack(S)' = PaidBack(S) /\ \A i \in Items : UnitsOf(S)'[i] = UnitsOf(S)[i]
<1>1. IsFiniteSet(S)
  BY ReturnsAssumption, FS_Subset
<1>2. PaidBack(S)' = PaidBack(S)
  <2> DEFINE a == [f \in Refunds |-> refund[f].amount]
             b == [f \in Refunds |-> refund'[f].amount]
  <2>1. \A f \in S : a[f] \in Int /\ a[f] = b[f]
    BY DEF RefundRows
  <2>2. PaidBack(S) = SumFunctionOnSet(a, S) /\ PaidBack(S)' = SumFunctionOnSet(b, S)
    BY DEF PaidBack, SumOver
  <2> HIDE DEF a, b
  <2> QED
    BY <1>1, <2>1, <2>2, SumSame
<1>3. ASSUME NEW i \in Items PROVE UnitsOf(S)'[i] = UnitsOf(S)[i]
  <2> DEFINE a == [f \in Refunds |-> refund[f].lines[i]]
             b == [f \in Refunds |-> refund'[f].lines[i]]
  <2>1. \A f \in S : a[f] \in Int /\ a[f] = b[f]
    BY Numbers DEF RefundRows
  <2>2. UnitsOf(S)[i] = SumFunctionOnSet(a, S) /\ UnitsOf(S)'[i] = SumFunctionOnSet(b, S)
    BY DEF UnitsOf, SumOver
  <2> HIDE DEF a, b
  <2> QED
    BY <1>1, <2>1, <2>2, SumSame
<1> QED
  BY <1>2, <1>3

\* A part of the refunds gives back no more than all, and with the units that
\* are away the rest is still there.
LEMMA TakenFits ==
    ASSUME ReturnsInv, BooksInv, NEW S \in SUBSET LiveRefunds, NEW i \in Items
    PROVE  /\ Taken(S)[i] \in Nat /\ Taken(S)[i] = UnitsOf(S)[i] + Returned(i)
           /\ Taken(S)[i] <= Gone[i] /\ Gone[i] \in Nat
           /\ Gone[i] <= settled[i] /\ Gone[i] + Leaving(i) <= Quantity[i]
<1>1. refund \in RefundRows /\ LiveRefunds \in SUBSET Refunds /\ UnitsAgree(i)
  BY DEF BooksInv, LiveRefunds
<1>2. Gone[i] = Back(i) + Returned(i) /\ Back(i) \in Nat /\ Returned(i) \in Nat
  BY <1>1, GoneNat, BackNat, UnitsNat DEF ReturnsInv
<1>3. UnitsOf(LiveRefunds)[i] = Back(i)
  BY DEF UnitsOf, Back
<1>4. /\ UnitsOf(LiveRefunds)[i] = UnitsOf(S)[i] + UnitsOf(LiveRefunds \ S)[i]
      /\ UnitsOf(S)[i] \in Nat /\ UnitsOf(LiveRefunds \ S)[i] \in Nat
  <2>1. S \in SUBSET Refunds /\ LiveRefunds \ S \in SUBSET Refunds
    BY <1>1
  <2> QED
    BY <1>1, <2>1, RefundSums
<1>5. Taken(S)[i] = UnitsOf(S)[i] + Returned(i)
  BY DEF Taken
<1> QED
  BY <1>1, <1>2, <1>3, <1>4, <1>5 DEF UnitsAgree

\* Exchanges that cost at most a unit's price less give back at most their price.
LEMMA DiffOpened ==
    ASSUME WholePrices, CheaperByAUnit, NEW lines \in Lines, NEW delta \in Deltas
    PROVE  -(delta * Units(lines)) <= Price(lines)
<1> DEFINE c == -delta
           h == [i \in Items |-> c * lines[i]]
           w == [i \in Items |-> UnitPrice[i] * lines[i]]
<1>1. c \in Int /\ delta \in Int /\ IsFiniteSet(Items) /\ Units(lines) \in Nat
  BY Numbers, ReturnsAssumption
<1>2. ASSUME NEW i \in Items PROVE lines[i] \in Int /\ h[i] \in Int /\ w[i] \in Int /\ h[i] <= w[i]
  <2>1. lines[i] \in Nat /\ UnitPrice[i] \in Nat /\ c <= UnitPrice[i]
    BY Numbers, UnitPrices DEF CheaperByAUnit
  <2> DEFINE m == UnitPrice[i] - c
  <2>2. m \in Nat /\ UnitPrice[i] = c + m
    BY <1>1, <2>1
  <2> HIDE DEF m, c
  <2>3. /\ m * lines[i] \in Nat /\ c * lines[i] \in Int
        /\ (c + m) * lines[i] = c * lines[i] + m * lines[i]
    BY <1>1, <2>1, <2>2
  <2> QED
    BY <2>1, <2>2, <2>3
<1>3. \A i \in Items : h[i] = c * lines[i]
  OBVIOUS
<1>4. /\ Price(lines) = SumFunctionOnSet(w, Items)
      /\ Units(lines) = SumFunctionOnSet(lines, Items)
  BY DEF Price, Units, SumOver
<1>5. -(delta * Units(lines)) = c * Units(lines)
  BY <1>1
<1> HIDE DEF c, h, w
<1>6. SumFunctionOnSet(h, Items) = c * SumFunctionOnSet(lines, Items)
  BY <1>1, <1>2, <1>3, SumTimes
<1>7. SumFunctionOnSet(h, Items) <= SumFunctionOnSet(w, Items)
  BY <1>1, <1>2, SumMonotone
<1> QED
  BY <1>4, <1>5, <1>6, <1>7

\* Every step keeps the differences covered: an exchange's is written once.
LEMMA DiffCoveredStep ==
    ASSUME WholePrices, CheaperByAUnit, ReturnsInv, DiffCovered, [Next]_vars
    PROVE  DiffCovered'
<1>1. CASE ReturnWork
  <2>1. PICK r \in ReturnIds :
          \/ \E kind \in {"return", "exchange"}, lines \in Lines, delta \in Int :
                OpenReturn(r, kind, lines, delta)
          \/ \E fault, policy, amount : ConfirmPickup(r, fault, policy, amount)
          \/ \E f \in Refunds : SettleReturn(r, f)
          \/ RejectReturn(r)
          \/ \E f \in Refunds : CompleteExchange(r, f)
          \/ \E k \in Keys : ApproveDiff(k, r)
    BY <1>1 DEF ReturnWork
  <2>2. ASSUME NEW kind \in {"return", "exchange"}, NEW lines \in Lines, NEW delta \in Int,
               OpenReturn(r, kind, lines, delta)
        PROVE  DiffCovered'
    <3>1. /\ \A s \in ReturnIds : s # r => ret'[s] = ret[s]
          /\ ret'[r].kind = kind /\ ret'[r].lines = lines
      BY <2>2, Numbers, OpenReturnStep
    <3>2. CASE kind = "return"
      BY <3>1, <3>2 DEF DiffCovered
    <3>3. CASE kind = "exchange"
      <4>1. delta \in Deltas /\ InsertReturn(r, kind, "ExchangeOpen", lines, delta * Units(lines))
        BY <2>2, <3>3 DEF OpenReturn
      <4>2. ret'[r].diff = delta * Units(lines)
        BY <4>1 DEF InsertReturn, ReturnsInv, ReturnRows
      <4>3. -ret'[r].diff <= Price(lines)
        BY <4>1, <4>2, DiffOpened
      <4> QED
        BY <3>1, <4>3 DEF DiffCovered
    <3> QED
      BY <3>2, <3>3
  <2>3. CASE \E to, open : MovedTo(r, to, open)
    <3>1. /\ \A s \in ReturnIds : s # r => ret'[s] = ret[s]
          /\ ret'[r].kind = ret[r].kind /\ ret'[r].lines = ret[r].lines
          /\ ret'[r].diff = ret[r].diff
      BY <2>3 DEF MovedTo, RowTo, RowOf
    <3> QED
      BY <3>1 DEF DiffCovered
  <2>4. CASE \E fault, policy, amount : ConfirmPickup(r, fault, policy, amount)
    BY <2>3, <2>4, PickupStep
  <2>5. CASE \E f \in Refunds : SettleReturn(r, f)
    BY <2>3, <2>5, SettleStep
  <2>6. CASE RejectReturn(r)
    BY <2>3, <2>6, RejectReturnStep
  <2>7. CASE \E f \in Refunds : CompleteExchange(r, f)
    BY <2>3, <2>7, CompleteStep
  <2>8. CASE \E k \in Keys : ApproveDiff(k, r)
    BY <2>3, <2>8, ApproveStep
  <2> QED
    BY <2>1, <2>2, <2>4, <2>5, <2>6, <2>7, <2>8
<1>2. CASE UNCHANGED ret
  BY <1>2 DEF DiffCovered
<1>3. CASE DiffWork \/ RefundWork \/ ClosingWork \/ Crash \/ UNCHANGED vars
  BY <1>2, <1>3, LeftAlone DEF vars, orderVars
<1> QED
  BY <1>1, <1>3, StepKinds

\* Units cost no more than was paid for them, if that is so of each refund.
LEMMA UnitsPaid ==
    ASSUME WholePrices, refund \in RefundRows, NEW S \in SUBSET Refunds,
           \A f \in S : Price(refund[f].lines) <= refund[f].amount
    PROVE  Price(UnitsOf(S)) <= PaidBack(S)
<1> DEFINE G == {T \in SUBSET S : Price(UnitsOf(T)) <= PaidBack(T)}
<1>1. {} \in G
  <2>1. Price(UnitsOf({})) = Price(NoLines)
    <3>1. UnitsOf({}) = NoLines
      BY SumEmpty DEF UnitsOf, NoLines, SumOver
    <3> QED
      BY <3>1
  <2>2. PaidBack({}) = 0
    BY RefundSum
  <2> QED
    BY <2>1, <2>2, PriceNone
<1>2. ASSUME NEW T \in SUBSET S, NEW x \in S, T \in G, x \notin T
      PROVE  T \cup {x} \in G
  <2>1. T \in SUBSET Refunds /\ x \in Refunds /\ x \notin T
    BY <1>2
  <2>2. /\ PaidBack(T \cup {x}) = PaidBack(T) + refund[x].amount
        /\ \A i \in Items : UnitsOf(T \cup {x})[i] = UnitsOf(T)[i] + refund[x].lines[i]
    BY <2>1, RefundSumMore
  <2>3. /\ \A i \in Items : UnitsOf(T)[i] \in Nat /\ refund[x].lines[i] \in Nat
        /\ PaidBack(T) \in Nat /\ refund[x].amount \in Nat
    BY <2>1, RefundSums, Numbers DEF RefundRows
  <2>4. Price(UnitsOf(T \cup {x})) = Price(UnitsOf(T)) + Price(refund[x].lines)
    BY <2>2, <2>3, PricePlus
  <2>5. Price(UnitsOf(T)) \in Nat /\ Price(refund[x].lines) \in Nat
    BY <2>3, PriceNat
  <2>6. Price(UnitsOf(T)) <= PaidBack(T) /\ Price(refund[x].lines) <= refund[x].amount
    BY <1>2
  <2> QED
    BY <2>2, <2>3, <2>4, <2>5, <2>6
<1>3. S \in G
  <2>1. IsFiniteSet(S)
    BY RefundSums
  <2> HIDE DEF G
  <2> QED
    BY <1>1, <1>2, <2>1, FiniteInduction
<1> QED
  BY <1>3

\* Until a credit, any part of the refunds is worth the units that went.
LEMMA PartByUnit ==
    ASSUME WholePrices, ReturnsInv, BooksInv, MoneyInv, NoCredit, NEW S \in SUBSET LiveRefunds
    PROVE  PaidBack(S) <= Price(Taken(S))
<1> DEFINE rest == LiveRefunds \ S
<1>1. /\ refund \in RefundRows /\ LiveRefunds \in SUBSET Refunds
      /\ rest \in SUBSET Refunds /\ S \in SUBSET Refunds
  BY DEF BooksInv, LiveRefunds
<1>2. /\ Reserved = PaidBack(S) + PaidBack(rest) /\ PaidBack(S) \in Nat /\ PaidBack(rest) \in Nat
  <2>1. Reserved = PaidBack(LiveRefunds)
    BY DEF Reserved, PaidBack
  <2> QED
    BY <1>1, <2>1, RefundSums
<1>3. \A i \in Items : /\ Taken(S)[i] \in Nat /\ UnitsOf(rest)[i] \in Nat
                       /\ Gone[i] = Taken(S)[i] + UnitsOf(rest)[i]
  <2> TAKE i \in Items
  <2>1. UnitsOf(LiveRefunds)[i] = Back(i) /\ Gone[i] = Back(i) + Returned(i)
    BY DEF UnitsOf, Back, Gone
  <2>2. /\ UnitsOf(LiveRefunds)[i] = UnitsOf(S)[i] + UnitsOf(rest)[i]
        /\ UnitsOf(S)[i] \in Nat /\ UnitsOf(rest)[i] \in Nat
    BY <1>1, RefundSums
  <2>3. Taken(S)[i] = UnitsOf(S)[i] + Returned(i) /\ Taken(S)[i] \in Nat /\ Returned(i) \in Nat
    BY TakenFits, UnitsNat DEF ReturnsInv
  <2> HIDE DEF rest
  <2> QED
    BY <2>1, <2>2, <2>3
<1>4. Price(UnitsOf(rest)) <= PaidBack(rest)
  <2>1. \A f \in rest : Price(refund[f].lines) <= refund[f].amount
    BY DEF LiveRefunds, MoneyInv, PaidByUnit
  <2> HIDE DEF rest
  <2> QED
    BY <1>1, <2>1, UnitsPaid
<1> HIDE DEF rest
<1>5. Price(Gone) = Price(Taken(S)) + Price(UnitsOf(rest))
  BY <1>3, PricePlus
<1>6. Price(Taken(S)) \in Nat /\ Price(UnitsOf(rest)) \in Nat
  BY <1>3, PriceNat
<1>7. Reserved <= Price(Gone)
  BY DEF MoneyInv, PaidByUnit
<1> QED
  BY <1>2, <1>4, <1>5, <1>6, <1>7

\* Until an exchange ships, the refunds of returns are of settled ones.
LEMMA NothingCredited ==
    ASSUME ReturnsInv, BooksInv, MoneyInv, NoCredit
    PROVE  /\ \A f \in Refunds : refund[f].of # None =>
                 /\ refund[f].of \in ReturnIds /\ ret[refund[f].of].kind = "return"
                 /\ ret[refund[f].of].status = "Refunded"
           /\ Credits = {} /\ Goods = LiveRefunds
<1>1. ASSUME NEW f \in Refunds, refund[f].of # None
      PROVE  /\ refund[f].of \in ReturnIds /\ ret[refund[f].of].kind = "return"
             /\ ret[refund[f].of].status = "Refunded"
  <2> DEFINE r == refund[f].of
  <2>1. r \in ReturnIds /\ ret[r].status \in {"Refunded", "ExchangeShipped"}
    BY <1>1 DEF MoneyInv, RefundOfSettled, BooksInv, RefundRows
  <2> HIDE DEF r
  <2>2. ret[r].status = "Refunded"
    BY <2>1 DEF MoneyInv, ShippedIsLast
  <2>3. ret[r].kind = "return"
    BY <2>1, <2>2 DEF ReturnsInv, RowsAgree, StatusesOf, NoReturn, None
  <2> QED
    BY <2>1, <2>2, <2>3 DEF r
<1>2. Credits = {}
  <2>1. \A f \in Refunds : ~(refund[f].of # None /\ ret[refund[f].of].kind = "exchange")
    <3> TAKE f \in Refunds
    <3>1. CASE refund[f].of # None
      <4>1. ret[refund[f].of].kind = "return"
        BY <1>1, <3>1
      <4> QED
        BY <4>1
    <3> QED
      BY <3>1
  <2> QED
    BY <2>1 DEF Credits, LiveRefunds
<1> QED
  BY <1>1, <1>2 DEF Goods

\* What went stays as it was while a return moves on and is not settled.
LEMMA ReturnedSame ==
    ASSUME ReturnsInv, NEW r \in ReturnIds, NEW to, NEW open \in BOOLEAN, MovedTo(r, to, open),
           to # "Refunded"
    PROVE  \A i \in Items :
              /\ ret[r].lines[i] \in Nat /\ ret[r].lines[i] <= Leaving(i) /\ Leaving(i) \in Nat
              /\ Returned(i)' = Returned(i)
BY RowUnits

\* An exchange ships, with the refunds C of its difference, at most one.  What
\* its items were paid so far is their units' price, and the units it had away
\* cover what is kept back for them.
LEMMA CreditStarts ==
    ASSUME WholePrices, ReturnsInv, BooksInv, MoneyInv,
           NEW r \in ReturnIds, ret[r].kind = "exchange", MovedTo(r, "ExchangeShipped", FALSE),
           NEW C \in SUBSET Refunds, \A f, g \in C : f = g, \A f \in C : refund'[f].of = r,
           LiveRefunds' = LiveRefunds \cup C, C \cap LiveRefunds = {},
           \A f \in LiveRefunds : refund'[f] = refund[f],
           NEW kept \in [Items -> Nat], PaidBack(C)' <= SumOver(Items, kept),
           \A i \in Items : /\ kept[i] <= UnitPrice[i] * ret[r].lines[i]
                            /\ kept[i] <= PaidBack(C)'
    PROVE  CreditInv'
<1>1. /\ \A s \in ReturnIds : s # r => ret'[s] = ret[s]
      /\ ret'[r].kind = "exchange" /\ ret'[r].lines = ret[r].lines
      /\ ret[r].status \in InProgress
  BY DEF MovedTo, RowTo, RowOf
<1>2. NoCredit
  BY <1>1, StepsOpen, NothingOpen DEF NoCredit
<1>3. refund \in RefundRows /\ LiveRefunds \in SUBSET Refunds
  BY DEF BooksInv, LiveRefunds
<1>4. Credits' = C /\ Goods' = LiveRefunds
  <2>1. ASSUME NEW f \in C PROVE refund'[f].of # None /\ ret'[refund'[f].of].kind = "exchange"
    BY <1>1, ReturnsAssumption
  <2>2. ASSUME NEW f \in LiveRefunds
        PROVE  ~(refund'[f].of # None /\ ret'[refund'[f].of].kind = "exchange")
    <3>1. refund'[f].of = refund[f].of /\ f \in Refunds
      BY <1>3
    <3>2. CASE refund[f].of # None
      <4>1. refund[f].of \in ReturnIds /\ ret[refund[f].of].kind = "return"
        BY <1>2, <3>1, <3>2, NothingCredited
      <4>2. refund[f].of # r
        BY <4>1
      <4> QED
        BY <1>1, <3>1, <4>1, <4>2
    <3> QED
      BY <3>1, <3>2
  <2>3. Credits' = C
    BY <2>1, <2>2 DEF Credits
  <2> QED
    BY <2>3 DEF Goods
<1>5. ASSUME NEW i \in Items PROVE kept[i] <= ExchangeCredit(i)'
  <2>1. ret[r].lines[i] \in Nat /\ UnitPrice[i] \in Nat /\ kept[i] \in Nat
    BY ReturnedSame, UnitPrices
  <2> DEFINE D == {f \in C : ret[r].lines[i] > 0}
  <2>2. ExchangeCredit(i)' = SumOver(D, [f \in Refunds |-> refund'[f].amount])
    <3>1. {f \in Credits' : ret'[refund'[f].of].lines[i] > 0} = D
      BY <1>1, <1>4
    <3>2. ExchangeCredit(i)' = SumOver({f \in Credits' : ret'[refund'[f].of].lines[i] > 0},
                                       [f \in Refunds |-> refund'[f].amount])
      BY CreditOfNext DEF CreditsCounted, PaidBack
    <3> HIDE DEF D
    <3> QED
      BY <3>1, <3>2
  <2>3. CASE ret[r].lines[i] > 0
    <3>1. D = C
      BY <1>1, <2>3
    <3> QED
      BY <2>2, <3>1 DEF PaidBack
  <2>4. CASE ~(ret[r].lines[i] > 0)
    <3>1. D = {}
      BY <1>1, <2>4
    <3>2. SumOver({}, [f \in Refunds |-> refund'[f].amount]) = 0
      BY SumEmpty DEF SumOver
    <3>3. ret[r].lines[i] = 0
      BY <2>1, <2>4
    <3>4. kept[i] <= 0
      <4>1. UnitPrice[i] * 0 = 0
        BY <2>1
      <4> QED
        BY <3>3, <4>1
    <3> HIDE DEF D
    <3> QED
      BY <2>2, <3>1, <3>2, <3>4
  <2> QED
    BY <2>3, <2>4
<1>6. ASSUME NEW S \in SUBSET LiveRefunds PROVE PaidBack(S)' <= RoomFor(Taken(S)', kept)
  <2>1. PaidBack(S)' = PaidBack(S) /\ \A i \in Items : UnitsOf(S)'[i] = UnitsOf(S)[i]
    BY <1>3, RefundSumSame
  <2>2. \A i \in Items : Taken(S)'[i] = Taken(S)[i]
    <3>1. \A i \in Items : Returned(i)' = Returned(i)
      BY ReturnedSame
    <3> QED
      BY <2>1, <3>1 DEF Taken
  <2> DEFINE v == [i \in Items |-> UnitPrice[i] * Taken(S)[i]]
             w == [i \in Items |-> Lesser(UnitPrice[i] * Taken(S)'[i], Net[i] - kept[i])]
  <2>3. ASSUME NEW i \in Items PROVE v[i] \in Int /\ v[i] = w[i]
    <3>1. /\ UnitPrice[i] \in Nat /\ Net[i] = UnitPrice[i] * Quantity[i] /\ Quantity[i] \in Nat
          /\ kept[i] \in Nat /\ kept[i] <= UnitPrice[i] * ret[r].lines[i]
      BY UnitPrices, Numbers DEF WholePrices
    <3>2. /\ Taken(S)[i] \in Nat /\ Taken(S)[i] <= Gone[i] /\ Gone[i] \in Nat
          /\ Gone[i] + Leaving(i) <= Quantity[i]
          /\ ret[r].lines[i] \in Nat /\ ret[r].lines[i] <= Leaving(i) /\ Leaving(i) \in Nat
      BY TakenFits, ReturnedSame
    <3>3. Taken(S)[i] + ret[r].lines[i] <= Quantity[i]
      BY <3>1, <3>2
    <3>4. Lesser(UnitPrice[i] * Taken(S)[i], UnitPrice[i] * Quantity[i] - kept[i])
            = UnitPrice[i] * Taken(S)[i]
      <4> DEFINE u == UnitPrice[i]
                 t == Taken(S)[i]
                 l == ret[r].lines[i]
                 q == Quantity[i]
                 k == kept[i]
      <4>1. /\ u \in Nat /\ t \in Nat /\ l \in Nat /\ q \in Nat /\ t + l <= q
            /\ k \in Nat /\ k <= u * l
        BY <3>1, <3>2, <3>3
      <4> HIDE DEF u, t, l, q, k
      <4> DEFINE m == q - t - l
      <4>2. m \in Nat /\ q = t + l + m
        BY <4>1
      <4> HIDE DEF m
      <4>3. /\ u * t \in Nat /\ u * l \in Nat /\ u * m \in Nat
            /\ u * (t + l + m) = u * t + u * l + u * m
        BY <4>1, <4>2
      <4>4. u * t <= u * q - k
        BY <4>1, <4>2, <4>3
      <4> QED
        BY <4>4 DEF Lesser, u, t, q, k
    <3>5. UnitPrice[i] * Taken(S)[i] \in Int
      BY <3>1, <3>2
    <3> QED
      BY <2>2, <3>1, <3>4, <3>5
  <2>4. Price(Taken(S)) = SumFunctionOnSet(v, Items) /\ RoomFor(Taken(S)', kept) = SumFunctionOnSet(w, Items)
    BY DEF Price, RoomFor, SumOver
  <2> HIDE DEF v, w
  <2>5. SumFunctionOnSet(v, Items) = SumFunctionOnSet(w, Items)
    BY <2>3, ReturnsAssumption, SumSame
  <2>6. PaidBack(S) <= Price(Taken(S))
    BY <1>2, PartByUnit
  <2> QED
    BY <2>1, <2>4, <2>5, <2>6
<1>7. KeptFor(kept)'
  BY <1>4, <1>5, <1>6 DEF KeptFor
<1> QED
  BY <1>4, <1>7 DEF CreditInv

\* An exchange that ships with nothing to give back: no credit.
LEMMA NoneCredited ==
    ASSUME WholePrices, ReturnsInv, BooksInv, MoneyInv,
           NEW r \in ReturnIds, ret[r].kind = "exchange", MovedTo(r, "ExchangeShipped", FALSE),
           UNCHANGED refund
    PROVE  CreditInv'
<1> DEFINE kept == [i \in Items |-> 0]
<1>1. kept \in [Items -> Nat] /\ \A i \in Items : kept[i] = 0
  OBVIOUS
<1>2. PaidBack({})' = 0
  BY SumEmpty DEF PaidBack, SumOver
<1>3. SumOver(Items, kept) = 0
  <2> HIDE DEF kept
  <2> QED
    BY <1>1, ReturnsAssumption, SumZero DEF SumOver
<1>4. ASSUME NEW i \in Items PROVE kept[i] <= UnitPrice[i] * ret[r].lines[i] /\ kept[i] <= PaidBack({})'
  <2>1. ret[r].lines[i] \in Nat /\ UnitPrice[i] \in Nat
    BY ReturnedSame, UnitPrices
  <2>2. UnitPrice[i] * ret[r].lines[i] \in Nat
    BY <2>1
  <2> QED
    BY <1>2, <2>2
<1>5. /\ LiveRefunds' = LiveRefunds \cup {} /\ {} \cap LiveRefunds = {}
      /\ \A f \in LiveRefunds : refund'[f] = refund[f]
      /\ {} \in SUBSET Refunds /\ \A f, g \in {} : f = g
      /\ \A f \in {} : refund'[f].of = r
  BY DEF LiveRefunds, Live
<1> DEFINE C == {}
<1>6. /\ LiveRefunds' = LiveRefunds \cup C /\ C \cap LiveRefunds = {}
      /\ C \in SUBSET Refunds /\ \A f, g \in C : f = g
      /\ \A f \in C : refund'[f].of = r
      /\ PaidBack(C)' <= SumOver(Items, kept)
      /\ \A i \in Items : kept[i] <= UnitPrice[i] * ret[r].lines[i] /\ kept[i] <= PaidBack(C)'
  BY <1>2, <1>3, <1>4, <1>5
<1> HIDE DEF C, kept
<1> QED
  BY <1>1, <1>5, <1>6, CreditStarts

\* A part of the price of units, item by item: c of it, if they cost that much.
LEMMA ShareOut ==
    ASSUME WholePrices, NEW l, \A i \in Items : l[i] \in Nat, NEW c \in Nat, c <= Price(l)
    PROVE  \E kept \in [Items -> Nat] :
              /\ c <= SumOver(Items, kept)
              /\ \A i \in Items : kept[i] <= UnitPrice[i] * l[i] /\ kept[i] <= c
<1> DEFINE w    == [i \in Items |-> UnitPrice[i] * l[i]]
           kept == [i \in Items |-> Lesser(c, UnitPrice[i] * l[i])]
<1>1. ASSUME NEW i \in Items
      PROVE  /\ w[i] \in Nat /\ w[i] = UnitPrice[i] * l[i]
             /\ kept[i] \in Nat /\ kept[i] = Lesser(c, w[i]) /\ kept[i] <= w[i] /\ kept[i] <= c
  <2>1. UnitPrice[i] * l[i] \in Nat
    BY PriceNat
  <2> QED
    BY <2>1 DEF Lesser
<1>2. kept \in [Items -> Nat]
  <2>1. kept = [i \in Items |-> kept[i]]
    OBVIOUS
  <2> HIDE DEF kept
  <2> QED
    BY <1>1, <2>1
<1>3. Price(l) = SumFunctionOnSet(w, Items)
  BY DEF Price, SumOver
<1>4. c <= SumFunctionOnSet(kept, Items)
  <2> HIDE DEF w, kept
  <2>1. CASE \E j \in Items : c <= w[j]
    <3>1. PICK j \in Items : c <= w[j]
      BY <2>1
    <3>2. kept[j] = c
      BY <1>1, <3>1 DEF Lesser
    <3>3. kept[j] <= SumFunctionOnSet(kept, Items) /\ SumFunctionOnSet(kept, Items) \in Nat
      BY <1>1, ReturnsAssumption, SumNat
    <3> QED
      BY <3>2, <3>3
  <2>2. CASE \A j \in Items : ~(c <= w[j])
    <3>1. \A j \in Items : w[j] \in Int /\ w[j] = kept[j]
      BY <1>1, <2>2 DEF Lesser
    <3>2. SumFunctionOnSet(w, Items) = SumFunctionOnSet(kept, Items)
      BY <3>1, ReturnsAssumption, SumSame
    <3> QED
      BY <1>3, <3>2
  <2> QED
    BY <2>1, <2>2
<1>5. \A i \in Items : kept[i] <= UnitPrice[i] * l[i] /\ kept[i] <= c
  BY <1>1
<1> HIDE DEF kept
<1> QED
  BY <1>2, <1>4, <1>5 DEF SumOver

\* A cheaper exchange ships and its difference is reserved.
LEMMA OneCredited ==
    ASSUME WholePrices, ReturnsInv, BooksInv, MoneyInv, DiffCovered,
           NEW r \in ReturnIds, ret[r].kind = "exchange", MovedTo(r, "ExchangeShipped", FALSE),
           NEW f \in Refunds, ret[r].diff < 0, InsertReturnRefund(f, -ret[r].diff, r)
    PROVE  CreditInv'
<1> DEFINE c == -ret[r].diff
           l == ret[r].lines
<1>1. c \in Nat /\ c <= Price(l) /\ \A i \in Items : l[i] \in Nat
  <2>1. ret[r].diff \in Int
    BY DEF ReturnsInv, ReturnRows
  <2>2. \A i \in Items : l[i] \in Nat
    BY ReturnedSame
  <2>3. c <= Price(l)
    BY DEF DiffCovered
  <2>4. c \in Nat
    BY <2>1
  <2> QED
    BY <2>2, <2>3, <2>4
<1>2. /\ refund \in RefundRows /\ refund[f].state = None
      /\ refund' = [refund EXCEPT ![f] = [state |-> "requested", amount |-> c,
                                          lines |-> NoLines, of |-> r, by |-> "A-511"]]
  BY DEF InsertReturnRefund, ReserveRefund, InsertRefund, BooksInv
<1> HIDE DEF c, l
<1>3. /\ refund'[f].state = "requested" /\ refund'[f].amount = c /\ refund'[f].of = r
      /\ \A g \in Refunds : g # f => refund'[g] = refund[g]
  BY <1>2 DEF RefundRows
<1>4. /\ f \notin LiveRefunds /\ LiveRefunds' = LiveRefunds \cup {f}
      /\ \A g \in LiveRefunds : refund'[g] = refund[g]
  BY <1>2, <1>3 DEF LiveRefunds, Live, None
<1>5. PaidBack({f})' = c
  <2>1. refund' \in RefundRows
    <3>1. InsertReturnRefund(f, c, r) /\ c \in Nat
      BY <1>1 DEF c
    <3> QED
      BY <3>1, ReturnPaidBack DEF RefundsHold
  <2>2. PaidBack({} \cup {f})' = PaidBack({})' + refund'[f].amount
    BY <2>1, MoreSumsNext DEF MoreSums
  <2>3. PaidBack({})' = 0
    BY SumEmpty DEF PaidBack, SumOver
  <2>4. {} \cup {f} = {f}
    OBVIOUS
  <2> QED
    BY <1>1, <1>3, <2>2, <2>3, <2>4
<1>6. PICK kept \in [Items -> Nat] :
        /\ c <= SumOver(Items, kept)
        /\ \A i \in Items : kept[i] <= UnitPrice[i] * l[i] /\ kept[i] <= c
  BY <1>1, ShareOut
<1> DEFINE C == {f}
<1>7. /\ LiveRefunds' = LiveRefunds \cup C /\ C \cap LiveRefunds = {}
      /\ \A g \in LiveRefunds : refund'[g] = refund[g]
      /\ C \in SUBSET Refunds /\ \A g, h \in C : g = h
      /\ \A g \in C : refund'[g].of = r
      /\ PaidBack(C)' <= SumOver(Items, kept)
      /\ \A i \in Items : kept[i] <= UnitPrice[i] * ret[r].lines[i] /\ kept[i] <= PaidBack(C)'
  BY <1>3, <1>4, <1>5, <1>6 DEF l
<1> HIDE DEF C
<1> QED
  BY <1>7, CreditStarts

\* What keeps the refunds alike, and the returns, keeps the credit's account.
LEMMA CreditKept ==
    ASSUME CreditInv, \A f \in Refunds : Alike(f), UNCHANGED ret
    PROVE  CreditInv'
<1>1. LiveRefunds' = LiveRefunds /\ Credits' = Credits /\ Goods' = Goods
  <2>1. LiveRefunds' = LiveRefunds
    BY DEF LiveRefunds, Alike
  <2>2. Credits' = Credits
    BY <2>1 DEF Credits, LiveRefunds, Alike
  <2> QED
    BY <2>1, <2>2 DEF Goods
<1>2. /\ [f \in Refunds |-> refund'[f].amount] = [f \in Refunds |-> refund[f].amount]
      /\ \A i \in Items : [f \in Refunds |-> refund'[f].lines[i]] = [f \in Refunds |-> refund[f].lines[i]]
  BY DEF Alike
<1>3. /\ \A S : PaidBack(S)' = PaidBack(S) /\ \A i \in Items : UnitsOf(S)'[i] = UnitsOf(S)[i]
  BY <1>2 DEF PaidBack, UnitsOf
<1>4. \A i \in Items : Returned(i)' = Returned(i) /\ ExchangeCredit(i)' = ExchangeCredit(i)
  <2> TAKE i \in Items
  <2>1. {f \in Refunds : /\ Live(f)' /\ refund'[f].of # None
                         /\ ret[refund'[f].of].kind = "exchange"
                         /\ ret[refund'[f].of].lines[i] > 0}
          = {f \in Refunds : /\ Live(f) /\ refund[f].of # None
                             /\ ret[refund[f].of].kind = "exchange"
                             /\ ret[refund[f].of].lines[i] > 0}
    BY DEF Alike
  <2>2. ExchangeCredit(i)' = ExchangeCredit(i)
    BY <1>2, <2>1 DEF ExchangeCredit
  <2> QED
    BY <2>2 DEF Returned, SettledReturns
<1>5. \A S : Taken(S)' = Taken(S)
  BY <1>3, <1>4 DEF Taken
<1>6. PICK kept \in [Items -> Nat] : KeptFor(kept)
  BY DEF CreditInv
<1>7. KeptFor(kept)'
  <2>1. PaidBack(Credits)' = PaidBack(Credits)
    BY <1>1, <1>2 DEF PaidBack
  <2> QED
    BY <1>1, <1>3, <1>4, <1>5, <1>6, <2>1 DEF KeptFor
<1> QED
  BY <1>1, <1>7 DEF CreditInv

\* Room is a number.
LEMMA RoomInt ==
    ASSUME WholePrices, NEW t, NEW kept, \A i \in Items : t[i] \in Nat /\ kept[i] \in Nat
    PROVE  RoomFor(t, kept) \in Int
<1> DEFINE a == [i \in Items |-> Lesser(UnitPrice[i] * t[i], Net[i] - kept[i])]
<1>1. ASSUME NEW i \in Items PROVE a[i] \in Int
  <2>1. UnitPrice[i] * t[i] \in Int /\ Net[i] - kept[i] \in Int
    BY PriceNat, ReturnsAssumption
  <2> QED
    BY <2>1 DEF Lesser
<1>2. RoomFor(t, kept) = SumFunctionOnSet(a, Items)
  BY DEF RoomFor, SumOver
<1> HIDE DEF a
<1> QED
  BY <1>1, <1>2, ReturnsAssumption, SumInt

\* The room of an item, after units that are paid for, counts what was paid:
\* the cap by the credit is no lower than what is left of the item.
LEMMA RoomMore ==
    ASSUME WholePrices, BooksInv, ReturnsInv, NEW i \in Items,
           NEW n \in Nat, settled[i] + n <= Quantity[i],
           NEW t \in Nat, t <= settled[i], NEW k \in Nat, k <= ExchangeCredit(i)
    PROVE  /\ itemRefundable(i, n) \in Int
           /\ Lesser(UnitPrice[i] * t, Net[i] - k) + itemRefundable(i, n)
                <= Lesser(UnitPrice[i] * (t + n), Net[i] - k)
<1> DEFINE u == UnitPrice[i]
           q == Quantity[i]
           s == settled[i]
           x == ExchangeCredit(i)
           N == Net[i]
<1>1. /\ u \in Nat /\ q \in Nat /\ s \in Nat /\ N = u * q /\ s + n <= q /\ t <= s /\ k <= x
      /\ s + n \in Nat
  BY UnitPrices, ReturnsAssumption DEF WholePrices, BooksInv, UnitsAgree
<1>2. x \in Int
  <2>1. refund \in RefundRows /\ {f \in Credits : ret[refund[f].of].lines[i] > 0} \in SUBSET Refunds
    BY DEF BooksInv, Credits, LiveRefunds
  <2>2. x = PaidBack({f \in Credits : ret[refund[f].of].lines[i] > 0})
    BY CreditOf
  <2> HIDE DEF x
  <2> QED
    BY <2>1, <2>2, RefundSums
<1> DEFINE part == share(N, s + n, q) - share(N, s, q)
           left == N - share(N, s, q) - x
<1>3. itemRefundable(i, n) = IF x <= 0 THEN part ELSE Max({0, Min({part, left})})
  BY DEF itemRefundable, capByExchangeCredit, RefundableAmount
<1>4. part = u * (s + n) - u * s /\ left = N - u * s - x
  BY <1>1, UnitPrices
<1> HIDE DEF part, left, u, q, s, x, N
<1> DEFINE b == s - t
           c == q - s - n
<1>5. b \in Nat /\ c \in Nat /\ s = t + b /\ q = t + b + n + c
  BY <1>1
<1> HIDE DEF b, c
<1>6. /\ u * t \in Nat /\ u * b \in Nat /\ u * n \in Nat /\ u * c \in Nat
      /\ u * (t + n) = u * t + u * n
      /\ u * (t + b) = u * t + u * b
      /\ u * (t + b + n) = u * t + u * b + u * n
      /\ u * (t + b + n + c) = u * t + u * b + u * n + u * c
  BY <1>1, <1>5
<1>7. /\ part = u * n /\ left = N - u * t - u * b - x
      /\ N = u * t + u * b + u * n + u * c
  <2>1. s + n = t + b + n
    BY <1>5
  <2> QED
    BY <1>1, <1>4, <1>5, <1>6, <2>1
<1>8. part \in Int /\ left \in Int /\ N \in Int
  BY <1>1, <1>2, <1>6, <1>7
<1>9. itemRefundable(i, n)
        = IF x <= 0 THEN part ELSE IF Lesser(part, left) <= 0 THEN 0 ELSE Lesser(part, left)
  BY <1>3, <1>8, CapByCredit
<1> DEFINE y == itemRefundable(i, n)
<1> HIDE DEF y
<1>10. /\ y \in Int
       /\ Lesser(u * t, N - k) + y <= Lesser(u * t + u * n, N - k)
  <2> DEFINE ut == u * t
             ub == u * b
             un == u * n
             uc == u * c
  <2>1. /\ y = IF x <= 0 THEN un
               ELSE IF Lesser(un, left) <= 0 THEN 0 ELSE Lesser(un, left)
        /\ left = N - ut - ub - x /\ N = ut + ub + un + uc /\ k <= x /\ k \in Nat /\ x \in Int
        /\ ut \in Nat /\ ub \in Nat /\ un \in Nat /\ uc \in Nat
    BY <1>1, <1>2, <1>6, <1>7, <1>9 DEF y
  <2> HIDE DEF ut, ub, un, uc
  <2>2. y \in Int /\ Lesser(ut, N - k) + y <= Lesser(ut + un, N - k)
    BY <2>1 DEF Lesser
  <2> QED
    BY <2>2 DEF ut, un
<1> QED
  BY <1>6, <1>10 DEF y, u, N

\* Two steps that write the row of a refund whose return is no exchange: the
\* credits stay.
LEMMA CreditsSame ==
    ASSUME refund \in RefundRows, UNCHANGED ret, NEW f \in Refunds, f \notin Credits,
           \A g \in Refunds : g # f => refund'[g] = refund[g],
           Live(f)' => refund'[f].of = None
    PROVE  /\ Credits' = Credits /\ PaidBack(Credits)' = PaidBack(Credits)
           /\ \A i \in Items : ExchangeCredit(i)' = ExchangeCredit(i)
<1>1. Credits \in SUBSET Refunds /\ \A g \in Credits : refund'[g] = refund[g]
  BY DEF Credits, LiveRefunds
<1>2. Credits' = Credits
  BY DEF Credits, LiveRefunds, Live
<1>3. \A S \in SUBSET Credits : PaidBack(S)' = PaidBack(S)
  <2> TAKE S \in SUBSET Credits
  <2>1. S \in SUBSET Refunds /\ \A g \in S : refund'[g] = refund[g]
    BY <1>1
  <2> QED
    BY <2>1, RefundSumSame
<1>4. ASSUME NEW i \in Items PROVE ExchangeCredit(i)' = ExchangeCredit(i)
  <2> DEFINE D == {g \in Credits : ret[refund[g].of].lines[i] > 0}
  <2>1. ExchangeCredit(i) = PaidBack(D) /\ D \in SUBSET Credits
    BY CreditOf
  <2>2. D' = D
    BY <1>1, <1>2
  <2>3. ExchangeCredit(i)' = PaidBack(D)'
    BY CreditOfNext DEF CreditsCounted
  <2>4. \A S : S = D' => PaidBack(S)' = PaidBack(D)'
    BY DEF PaidBack
  <2> HIDE DEF D
  <2> QED
    BY <1>3, <2>1, <2>2, <2>3, <2>4
<1> QED
  BY <1>2, <1>3, <1>4 DEF PaidBack

\* What units are worth fits in the room they add.
LEMMA WorthFits ==
    ASSUME WholePrices, ReturnsInv, BooksInv, NEW lines \in Lines, FitsIn(lines),
           NEW t, NEW more, NEW kept,
           \A i \in Items : /\ t[i] \in Nat /\ t[i] <= settled[i] /\ more[i] = t[i] + lines[i]
                            /\ kept[i] \in Nat /\ kept[i] <= ExchangeCredit(i)
    PROVE  RoomFor(t, kept) + Worth(lines) <= RoomFor(more, kept)
<1> DEFINE T == {i \in Items : lines[i] > 0}
           v == [i \in Items |-> itemRefundable(i, lines[i])]
           y == [i \in Items |-> IF i \in T THEN v[i] ELSE 0]
           a == [i \in Items |-> Lesser(UnitPrice[i] * t[i], Net[i] - kept[i])]
           b == [i \in Items |-> Lesser(UnitPrice[i] * more[i], Net[i] - kept[i])]
           z == [i \in Items |-> a[i] + y[i]]
<1>1. ASSUME NEW i \in Items
      PROVE  a[i] \in Int /\ b[i] \in Int /\ v[i] \in Int /\ y[i] \in Int /\ a[i] + y[i] <= b[i]
  <2>1. /\ lines[i] \in Nat /\ t[i] \in Nat /\ more[i] = t[i] + lines[i] /\ kept[i] \in Nat
        /\ t[i] <= settled[i] /\ kept[i] <= ExchangeCredit(i)
        /\ UnitPrice[i] \in Nat /\ Net[i] \in Nat
        /\ settled[i] \in Nat /\ Quantity[i] \in Nat /\ lines[i] <= Quantity[i] - settled[i]
    BY Numbers, UnitPrices, ReturnsAssumption
       DEF FitsIn, LockOrderItemForReturn, BooksInv, UnitsAgree
  <2>2. settled[i] + lines[i] <= Quantity[i]
    BY <2>1
  <2>3. v[i] \in Int /\ a[i] + v[i] <= b[i]
    BY <2>1, <2>2, RoomMore
  <2>4. a[i] \in Int /\ b[i] \in Int
    <3>1. UnitPrice[i] * t[i] \in Int /\ UnitPrice[i] * more[i] \in Int /\ Net[i] - kept[i] \in Int
      BY <2>1
    <3> QED
      BY <3>1 DEF Lesser
  <2>5. i \notin T => a[i] + 0 <= b[i]
    <3>1. i \notin T => more[i] = t[i]
      BY <2>1
    <3> QED
      BY <2>4, <3>1
  <2> QED
    BY <2>3, <2>4, <2>5
<1>2. /\ \A i \in Items : z[i] = a[i] + y[i] /\ z[i] \in Int /\ z[i] <= b[i]
      /\ \A i \in T : y[i] = v[i]
      /\ \A i \in Items : i \notin T => y[i] = 0
      /\ T \in SUBSET Items
  BY <1>1
<1>3. /\ RoomFor(t, kept) = SumFunctionOnSet(a, Items)
      /\ RoomFor(more, kept) = SumFunctionOnSet(b, Items)
      /\ Worth(lines) = SumFunctionOnSet(v, T)
  BY DEF RoomFor, Worth, SumOver
<1>4. IsFiniteSet(Items) /\ IsFiniteSet(T)
  BY ReturnsAssumption, FS_Subset
<1> HIDE DEF T, v, y, a, b, z
<1>5. SumFunctionOnSet(v, T) = SumFunctionOnSet(y, T)
  <2>1. \A i \in T : v[i] \in Int /\ v[i] = y[i]
    BY <1>1, <1>2
  <2> QED
    BY <1>4, <2>1, SumSame
<1>6. SumFunctionOnSet(y, Items) = SumFunctionOnSet(y, T)
  BY <1>1, <1>2, <1>4, SumSupport
<1>7. SumFunctionOnSet(z, Items) = SumFunctionOnSet(a, Items) + SumFunctionOnSet(y, Items)
  BY <1>1, <1>2, <1>4, SumPlus
<1>8. SumFunctionOnSet(z, Items) <= SumFunctionOnSet(b, Items)
  BY <1>1, <1>2, <1>4, SumMonotone
<1> QED
  BY <1>3, <1>5, <1>6, <1>7, <1>8

\* P-507 asks for units after a credit.
LEMMA CreditRequested ==
    ASSUME WholePrices, ReturnsInv, BooksInv, CreditInv,
           NEW f \in Refunds, NEW lines \in Lines, RequestRefund(f, lines)
    PROVE  CreditInv'
<1>1. /\ FitsIn(lines) /\ Worth(lines) > 0 /\ UNCHANGED ret
      /\ ReserveRefund(f, Worth(lines), lines, None, "A-507")
  BY DEF RequestRefund, orderVars
<1>2. \A i \in Items : lines[i] \in Nat
  BY Numbers
<1>3. Worth(lines) \in Nat
  <2>1. Worth(lines) \in Int
    BY <1>2, WorthInt DEF BooksInv, UnitsAgree
  <2> QED
    BY <1>1, <2>1
<1>4. refund \in RefundRows /\ refund' \in RefundRows /\ LiveRefunds \in SUBSET Refunds
  BY <1>1, <1>3, RefundReserved DEF BooksInv, LiveRefunds
<1>5. /\ refund[f].state = None /\ refund'[f].state = "requested" /\ refund'[f].of = None
      /\ refund'[f].amount = Worth(lines) /\ refund'[f].lines = lines
      /\ \A g \in Refunds : g # f => refund'[g] = refund[g]
  BY <1>1, <1>4 DEF ReserveRefund, InsertRefund, RefundRows
<1>6. f \notin LiveRefunds /\ LiveRefunds' = LiveRefunds \cup {f}
  BY <1>5 DEF LiveRefunds, Live, None
<1>7. /\ Credits' = Credits /\ PaidBack(Credits)' = PaidBack(Credits)
      /\ \A i \in Items : ExchangeCredit(i)' = ExchangeCredit(i)
  <2>1. f \notin Credits
    BY <1>6 DEF Credits
  <2> QED
    BY <1>1, <1>4, <1>5, <2>1, CreditsSame
<1>8. Goods' = Goods \cup {f} /\ Goods \in SUBSET LiveRefunds
  BY <1>6, <1>7 DEF Goods, Credits
<1>9. PICK kept \in [Items -> Nat] : KeptFor(kept)
  BY DEF CreditInv
<1>10. ASSUME NEW S \in SUBSET Goods
       PROVE  /\ PaidBack(S)' = PaidBack(S) /\ S \in SUBSET Refunds /\ f \notin S
              /\ \A i \in Items : UnitsOf(S)'[i] = UnitsOf(S)[i] /\ Taken(S)'[i] = Taken(S)[i]
  <2>1. S \in SUBSET Refunds /\ f \notin S /\ \A g \in S : refund'[g] = refund[g]
    BY <1>4, <1>5, <1>6, <1>8
  <2>2. PaidBack(S)' = PaidBack(S) /\ \A i \in Items : UnitsOf(S)'[i] = UnitsOf(S)[i]
    BY <1>4, <2>1, RefundSumSame
  <2>3. \A i \in Items : Returned(i)' = Returned(i)
    BY <1>1 DEF Returned, SettledReturns
  <2> QED
    BY <2>1, <2>2, <2>3 DEF Taken
<1>11. ASSUME NEW S \in SUBSET Goods PROVE PaidBack(S)' <= RoomFor(Taken(S)', kept)
  <2>1. \A i \in Items : Taken(S)'[i] = Taken(S)[i]
    BY <1>10
  <2>2. RoomFor(Taken(S)', kept) = RoomFor(Taken(S), kept)
    BY <2>1 DEF RoomFor
  <2> QED
    BY <1>9, <1>10, <2>2 DEF KeptFor
<1>12. ASSUME NEW R \in SUBSET Goods PROVE PaidBack(R \cup {f})' <= RoomFor(Taken(R \cup {f})', kept)
  <2>1. /\ PaidBack(R \cup {f})' = PaidBack(R)' + refund'[f].amount
        /\ \A i \in Items : UnitsOf(R \cup {f})'[i] = UnitsOf(R)'[i] + refund'[f].lines[i]
    BY <1>4, <1>10, MoreSumsNext DEF MoreSums
  <2>2. PaidBack(R \cup {f})' = PaidBack(R) + Worth(lines)
    BY <1>5, <1>10, <2>1
  <2>3. ASSUME NEW i \in Items
        PROVE  /\ Taken(R)[i] \in Nat /\ Taken(R)[i] <= settled[i]
               /\ Taken(R \cup {f})'[i] = Taken(R)[i] + lines[i]
               /\ kept[i] \in Nat /\ kept[i] <= ExchangeCredit(i)
    <3>1. /\ Taken(R)[i] \in Nat /\ Taken(R)[i] = UnitsOf(R)[i] + Returned(i)
          /\ Taken(R)[i] <= Gone[i] /\ Gone[i] \in Nat /\ Gone[i] <= settled[i]
      BY <1>8, TakenFits
    <3>2. settled[i] \in Nat
      BY Numbers DEF BooksInv, UnitsAgree
    <3>3. Taken(R \cup {f})'[i] = UnitsOf(R \cup {f})'[i] + Returned(i)'
      BY DEF Taken
    <3>4. Returned(i)' = Returned(i) /\ Returned(i) \in Nat
      BY <1>1, UnitsNat DEF Returned, SettledReturns, ReturnsInv
    <3>5. UnitsOf(R \cup {f})'[i] = UnitsOf(R)[i] + lines[i] /\ UnitsOf(R)[i] \in Nat
      BY <1>4, <1>5, <1>10, <2>1, RefundSums
    <3>6. kept[i] \in Nat /\ kept[i] <= ExchangeCredit(i) /\ lines[i] \in Nat
      BY <1>2, <1>9 DEF KeptFor
    <3> QED
      BY <3>1, <3>2, <3>3, <3>4, <3>5, <3>6
  <2>4. RoomFor(Taken(R), kept) + Worth(lines) <= RoomFor(Taken(R \cup {f})', kept)
    BY <1>1, <2>3, WorthFits
  <2>5. PaidBack(R) <= RoomFor(Taken(R), kept)
    BY <1>9 DEF KeptFor
  <2>6. PaidBack(R) \in Nat /\ RoomFor(Taken(R), kept) \in Int /\ RoomFor(Taken(R \cup {f})', kept) \in Int
    <3>1. PaidBack(R) \in Nat
      BY <1>4, <1>10, RefundSums
    <3>2. ASSUME NEW i \in Items
          PROVE  Taken(R)[i] \in Nat /\ Taken(R \cup {f})'[i] \in Nat /\ kept[i] \in Nat
      <4>1. lines[i] \in Nat /\ Taken(R)[i] \in Nat
        BY <1>2, <2>3
      <4>2. Taken(R \cup {f})'[i] = Taken(R)[i] + lines[i] /\ kept[i] \in Nat
        BY <2>3
      <4> QED
        BY <4>1, <4>2
    <3> QED
      BY <3>1, <3>2, RoomInt
  <2> QED
    BY <1>3, <2>2, <2>4, <2>5, <2>6
<1>13. KeptFor(kept)'
  <2>1. ASSUME NEW S \in SUBSET (Goods \cup {f}) PROVE PaidBack(S)' <= RoomFor(Taken(S)', kept)
    <3>1. CASE f \notin S
      <4>1. S \in SUBSET Goods
        BY <3>1
      <4> QED
        BY <1>11, <4>1
    <3>2. CASE f \in S
      <4>1. PICK R \in SUBSET Goods : S = R \cup {f}
        <5>1. S \ {f} \in SUBSET Goods /\ S = (S \ {f}) \cup {f}
          BY <3>2
        <5> QED
          BY <5>1
      <4> QED
        BY <1>12, <4>1
    <3> QED
      BY <3>1, <3>2
  <2> QED
    BY <1>7, <1>8, <1>9, <2>1 DEF KeptFor
<1> QED
  BY <1>7, <1>13 DEF CreditInv

\* A refund is rejected after a credit: its room, or the credit, is given up.
LEMMA CreditRejected ==
    ASSUME WholePrices, ReturnsInv, BooksInv, CreditInv, NEW f \in Refunds, RejectRefund(f)
    PROVE  CreditInv'
<1>1. /\ refund[f].state = "requested" /\ UNCHANGED ret
      /\ refund' = [refund EXCEPT ![f].state = "rejected"]
  BY DEF RejectRefund, orderVars
<1>2. refund \in RefundRows /\ LiveRefunds \in SUBSET Refunds
  BY DEF BooksInv, LiveRefunds
<1>3. /\ refund'[f].state = "rejected" /\ \A g \in Refunds : g # f => refund'[g] = refund[g]
      /\ refund' \in RefundRows
  BY <1>1, <1>2 DEF RefundRows, RefundStates
<1>4. f \in LiveRefunds /\ LiveRefunds' = LiveRefunds \ {f} /\ ~Live(f)'
  BY <1>1, <1>3 DEF LiveRefunds, Live
<1>5. PICK kept \in [Items -> Nat] : KeptFor(kept)
  BY DEF CreditInv
<1>6. ASSUME NEW S \in SUBSET Goods, f \notin S
      PROVE  /\ PaidBack(S)' <= RoomFor(Taken(S), kept)
             /\ \A i \in Items : Taken(S)'[i] = Taken(S)[i] /\ Taken(S)[i] \in Nat
  <2>1. S \in SUBSET Refunds /\ S \in SUBSET LiveRefunds /\ \A g \in S : refund'[g] = refund[g]
    BY <1>2, <1>3, <1>6 DEF Goods
  <2>2. PaidBack(S)' = PaidBack(S) /\ \A i \in Items : UnitsOf(S)'[i] = UnitsOf(S)[i]
    BY <1>2, <2>1, RefundSumSame
  <2>3. \A i \in Items : Returned(i)' = Returned(i)
    BY <1>1 DEF Returned, SettledReturns
  <2>4. \A i \in Items : Taken(S)[i] \in Nat
    BY <2>1, TakenFits
  <2> QED
    BY <1>5, <2>2, <2>3, <2>4 DEF Taken, KeptFor
<1>7. CASE f \notin Credits
  <2>1. /\ Credits' = Credits /\ PaidBack(Credits)' = PaidBack(Credits)
        /\ \A i \in Items : ExchangeCredit(i)' = ExchangeCredit(i)
    BY <1>1, <1>2, <1>3, <1>4, <1>7, CreditsSame
  <2>2. Goods' = Goods \ {f}
    BY <1>4, <2>1 DEF Goods
  <2>3. ASSUME NEW S \in SUBSET (Goods \ {f}) PROVE PaidBack(S)' <= RoomFor(Taken(S)', kept)
    <3>1. RoomFor(Taken(S)', kept) = RoomFor(Taken(S), kept)
      BY <1>6 DEF RoomFor
    <3> QED
      BY <1>6, <3>1
  <2>4. KeptFor(kept)'
    BY <1>5, <2>1, <2>2, <2>3 DEF KeptFor
  <2> QED
    BY <2>1, <2>4 DEF CreditInv
<1>8. CASE f \in Credits
  <2>1. Credits' = {} /\ Goods' = Goods
    <3>1. Credits' = Credits \ {f}
      BY <1>1, <1>3, <1>4 DEF Credits
    <3>2. Credits = {f}
      BY <1>8 DEF CreditInv
    <3> QED
      BY <1>4, <3>1, <3>2 DEF Goods
  <2> DEFINE none == [i \in Items |-> 0]
  <2>2. none \in [Items -> Nat] /\ \A i \in Items : none[i] = 0
    OBVIOUS
  <2>3. PaidBack({})' = 0 /\ SumOver(Items, none) = 0
    <3>1. PaidBack({})' = 0
      BY SumEmpty DEF PaidBack, SumOver
    <3> HIDE DEF none
    <3> QED
      BY <2>2, <3>1, ReturnsAssumption, SumZero DEF SumOver
  <2>4. ASSUME NEW i \in Items PROVE none[i] <= ExchangeCredit(i)'
    <3>1. ExchangeCredit(i)' = PaidBack({g \in Credits : ret[refund[g].of].lines[i] > 0})'
      BY CreditOfNext DEF CreditsCounted
    <3>2. {g \in Credits' : ret'[refund'[g].of].lines[i] > 0} = {}
      BY <2>1
    <3>3. ExchangeCredit(i)' = PaidBack({})'
      BY <3>1, <3>2 DEF PaidBack
    <3> QED
      BY <2>2, <2>3, <3>3
  <2> HIDE DEF none
  <2>5. ASSUME NEW S \in SUBSET Goods PROVE PaidBack(S)' <= RoomFor(Taken(S)', none)
    <3>1. f \notin S
      BY <1>8 DEF Goods
    <3>2. /\ PaidBack(S)' <= RoomFor(Taken(S), kept)
          /\ \A i \in Items : Taken(S)'[i] = Taken(S)[i] /\ Taken(S)[i] \in Nat
      BY <1>6, <3>1
    <3> DEFINE a == [i \in Items |-> Lesser(UnitPrice[i] * Taken(S)[i], Net[i] - kept[i])]
               b == [i \in Items |-> Lesser(UnitPrice[i] * Taken(S)'[i], Net[i] - none[i])]
    <3>3. ASSUME NEW i \in Items PROVE a[i] \in Int /\ b[i] \in Int /\ a[i] <= b[i]
      <4>1. /\ UnitPrice[i] * Taken(S)[i] \in Int /\ Net[i] \in Nat /\ kept[i] \in Nat /\ none[i] = 0
            /\ Taken(S)'[i] = Taken(S)[i]
        BY <2>2, <3>2, PriceNat, ReturnsAssumption
      <4> QED
        BY <4>1 DEF Lesser
    <3>4. /\ RoomFor(Taken(S), kept) = SumFunctionOnSet(a, Items)
          /\ RoomFor(Taken(S)', none) = SumFunctionOnSet(b, Items)
      BY DEF RoomFor, SumOver
    <3> HIDE DEF a, b
    <3>5. SumFunctionOnSet(a, Items) <= SumFunctionOnSet(b, Items)
      BY <3>3, ReturnsAssumption, SumMonotone
    <3>6. SumFunctionOnSet(a, Items) \in Int /\ SumFunctionOnSet(b, Items) \in Int
      BY <3>3, ReturnsAssumption, SumInt
    <3>7. PaidBack(S)' \in Int
      <4>1. S \in SUBSET Refunds /\ \A g \in S : refund'[g] = refund[g]
        BY <1>2, <1>3, <3>1 DEF Goods
      <4>2. PaidBack(S)' = PaidBack(S)
        BY <1>2, <4>1, RefundSumSame
      <4> QED
        BY <1>2, <4>1, <4>2, RefundSums
    <3> QED
      BY <3>2, <3>4, <3>5, <3>6, <3>7
  <2>6. KeptFor(none)'
    <3>1. PaidBack(Credits)' = PaidBack({})'
      BY <2>1 DEF PaidBack
    <3>2. PaidBack(Credits)' <= SumOver(Items, none)
      BY <2>3, <3>1
    <3> QED
      BY <2>1, <2>4, <2>5, <3>2 DEF KeptFor
  <2> QED
    BY <2>1, <2>2, <2>6 DEF CreditInv
<1> QED
  BY <1>7, <1>8

\* An order shows an exchange as shipped once that exchange's difference is
\* given back, paid, or nothing.
LEMMA CreditShipped ==
    ASSUME WholePrices, ReturnsInv, BooksInv, MoneyInv, DiffCovered, ReturnWork, ~NoCredit'
    PROVE  CreditInv'
<1>1. PICK r \in ReturnIds :
        \/ \E kind \in {"return", "exchange"}, lines \in Lines, delta \in Int :
              OpenReturn(r, kind, lines, delta)
        \/ \E fault, policy, amount : ConfirmPickup(r, fault, policy, amount)
        \/ \E f \in Refunds : SettleReturn(r, f)
        \/ RejectReturn(r)
        \/ \E f \in Refunds : CompleteExchange(r, f)
        \/ \E k \in Keys : ApproveDiff(k, r)
  BY DEF ReturnWork
<1>2. status' = "ExchangeShipped"
  BY DEF NoCredit
<1>3. ASSUME NEW kind \in {"return", "exchange"}, NEW lines \in Lines, NEW delta \in Int,
             OpenReturn(r, kind, lines, delta)
      PROVE  FALSE
  BY <1>2, <1>3 DEF OpenReturn, moveOrder, MoveOrderStatus
<1>4. ASSUME NEW fault, NEW policy, NEW amount, ConfirmPickup(r, fault, policy, amount)
      PROVE  FALSE
  BY <1>2, <1>4 DEF ConfirmPickup, moveOrder, MoveOrderStatus
<1>5. ASSUME NEW f \in Refunds, SettleReturn(r, f) PROVE FALSE
  BY <1>2, <1>5 DEF SettleReturn, moveOrder, MoveOrderStatus
<1>6. ~RejectReturn(r)
  BY <1>2 DEF RejectReturn, moveOrder, MoveOrderStatus
<1>7. CASE \E f \in Refunds : CompleteExchange(r, f)
  <2>1. PICK f \in Refunds : CompleteExchange(r, f)
    BY <1>7
  <2>2. /\ ret[r].kind = "exchange" /\ reserveExchangeRefund(r, f)
        /\ status' = IF ret[r].diff > 0 THEN "ExchangeDiffDue" ELSE "ExchangeShipped"
    BY <2>1 DEF CompleteExchange, moveOrder, MoveOrderStatus
  <2>3. MovedTo(r, "ExchangeShipped", FALSE)
    BY <1>2, <2>1, <2>2, CompleteStep
  <2>4. CASE ret[r].diff < 0
    <3>1. InsertReturnRefund(f, -ret[r].diff, r)
      BY <2>2, <2>4 DEF reserveExchangeRefund
    <3> QED
      BY <2>2, <2>3, <2>4, <3>1, OneCredited
  <2>5. CASE ~(ret[r].diff < 0)
    <3>1. UNCHANGED refund
      BY <2>2, <2>5 DEF reserveExchangeRefund
    <3> QED
      BY <2>2, <2>3, <3>1, NoneCredited
  <2> QED
    BY <2>4, <2>5
<1>8. CASE \E k \in Keys : ApproveDiff(k, r)
  <2>1. PICK k \in Keys : ApproveDiff(k, r)
    BY <1>8
  <2>2. UNCHANGED refund /\ ret[r].status = "ExchangeDiffDue"
    BY <2>1 DEF ApproveDiff, bookVars
  <2>3. ret[r].kind = "exchange"
    BY <2>2, StepsOpen DEF InProgress, StatusesOf
  <2>4. MovedTo(r, "ExchangeShipped", FALSE)
    BY <2>1, ApproveStep
  <2> QED
    BY <2>2, <2>3, <2>4, NoneCredited
<1> QED
  BY <1>1, <1>3, <1>4, <1>5, <1>6, <1>7, <1>8

\* Every step keeps the credit shared out.
LEMMA CreditStep ==
    ASSUME WholePrices, CheaperByAUnit, ReturnsInv, BooksInv, MoneyInv, OverpaidInv, [Next]_vars
    PROVE  OverpaidInv'
<1>1. DiffCovered /\ DiffCovered'
  BY DiffCoveredStep DEF OverpaidInv
<1> SUFFICES ASSUME ~NoCredit' PROVE CreditInv'
  BY <1>1 DEF OverpaidInv
<1>2. CASE ReturnWork
  BY <1>1, <1>2, CreditShipped
<1>3. CASE ~ReturnWork
  <2>1. UNCHANGED <<ret, status>> \/ ClosingWork
    BY <1>3, LeftAlone, StepKinds DEF vars, orderVars
  <2>2. /\ UNCHANGED <<ret, status>> /\ ~NoCredit
        /\ ClosingWork => UNCHANGED refund
    <3>1. CASE ConfirmPurchase
      <4>1. status' = "Confirmed"
        BY <3>1 DEF ConfirmPurchase, moveOrder, MoveOrderStatus
      <4> QED
        BY <4>1 DEF NoCredit
    <3>2. CASE \E actor \in {"A-507", "A-511"} : CloseRefundedOrder(actor)
      <4>1. status' = "Refunded"
        BY <3>2 DEF CloseRefundedOrder, moveOrder, MoveOrderStatus
      <4> QED
        BY <4>1 DEF NoCredit
    <3>3. CASE UNCHANGED <<orderVars, refund>>
      BY <3>3 DEF NoCredit, orderVars
    <3>4. CASE ~ClosingWork
      BY <2>1, <3>4 DEF NoCredit
    <3> QED
      BY <3>1, <3>2, <3>3, <3>4 DEF ClosingWork, CloseByA507, CloseByA511
  <2>3. CreditInv
    BY <2>2 DEF OverpaidInv
  <2>4. CASE RefundWork
    <3>1. PICK f \in Refunds :
            \/ \E lines \in Lines : RequestRefund(f, lines)
            \/ RejectRefund(f)
            \/ \E actor \in {"A-507", "A-511"} : ExecuteRefund(f, actor)
            \/ RefundAnswered(f)
      BY <2>4 DEF RefundWork
    <3>2. CASE \E lines \in Lines : RequestRefund(f, lines)
      BY <2>3, <3>2, CreditRequested
    <3>3. CASE RejectRefund(f)
      BY <2>3, <3>3, CreditRejected
    <3>4. CASE (\E actor \in {"A-507", "A-511"} : ExecuteRefund(f, actor)) \/ RefundAnswered(f)
      <4>1. \A g \in Refunds : Alike(g)
        BY <3>4, SentAlike DEF BooksInv
      <4> QED
        BY <2>2, <2>3, <4>1, CreditKept
    <3> QED
      BY <3>1, <3>2, <3>3, <3>4
  <2>5. CASE DiffWork \/ UNCHANGED vars \/ ClosingWork
    <3>1. UNCHANGED refund
      BY <2>2, <2>5, LeftAlone DEF vars, bookVars
    <3>2. \A f \in Refunds : Alike(f)
      BY <3>1 DEF Alike, Live
    <3> QED
      BY <2>2, <2>3, <3>2, CreditKept
  <2>6. CASE Crash
    <3>1. refund' = [f \in Refunds |-> IF refund[f].by = "A-511"
                                       THEN [refund[f] EXCEPT !.by = "A-507"] ELSE refund[f]]
      BY <2>6 DEF Crash
    <3>2. \A f \in Refunds : Alike(f)
      BY <3>1 DEF BooksInv, RefundRows, Alike, Live
    <3> QED
      BY <2>2, <2>3, <3>2, CreditKept
  <2> QED
    BY <1>3, <2>4, <2>5, <2>6, StepKinds
<1> QED
  BY <1>2, <1>3

\* No return has a difference yet.
LEMMA CreditInit == Init => OverpaidInv
BY DEF Init, NoReturn, None, OverpaidInv, DiffCovered, NoCredit

\* With whole prices, and exchanges at most a unit's price cheaper, what an
\* exchange gives back is counted once against what its items can still pay.
THEOREM ReturnsCreditInductive ==
    ASSUME WholePrices, CheaperByAUnit
    PROVE  Spec => [](ReturnsInv /\ BooksInv /\ MoneyInv /\ OverpaidInv)
<1>1. Init => ReturnsInv /\ BooksInv /\ MoneyInv /\ OverpaidInv
  BY ReturnsInit, BooksInit, MoneyInit, CreditInit
<1>2. ReturnsInv /\ BooksInv /\ MoneyInv /\ OverpaidInv /\ [Next]_vars
        => (ReturnsInv /\ BooksInv /\ MoneyInv /\ OverpaidInv)'
  BY ReturnsStep, BooksStep, MoneyStep, CreditStep
<1> QED
  BY <1>1, <1>2, PTL DEF Spec

\* After a credit the room of every item, and what is kept of it, fit in its price.
LEMMA PaidAfterCredit ==
    ASSUME WholePrices, ReturnsInv, BooksInv, CreditInv
    PROVE  GoodsNeverOverpaid
<1>1. PICK kept \in [Items -> Nat] : KeptFor(kept)
  BY DEF CreditInv
<1> DEFINE units == Taken(Goods)
           room  == [i \in Items |-> Lesser(UnitPrice[i] * units[i], Net[i] - kept[i])]
           left  == [i \in Items |-> Net[i] - kept[i]]
<1>2. /\ LiveRefunds \in SUBSET Refunds /\ refund \in RefundRows
      /\ Goods \in SUBSET Refunds /\ Credits \in SUBSET LiveRefunds
  BY DEF LiveRefunds, BooksInv, Goods, Credits
<1>3. /\ PaidBack(LiveRefunds) = PaidBack(Credits) + PaidBack(Goods)
      /\ PaidBack(Credits) \in Nat /\ PaidBack(Goods) \in Nat
  BY <1>2, RefundSums DEF Goods
<1>4. PaidBack(Credits) <= SumOver(Items, kept) /\ PaidBack(Goods) <= RoomFor(units, kept)
  BY <1>1 DEF KeptFor
<1>5. \A i \in Items : units[i] \in Nat
  <2>1. Goods \in SUBSET LiveRefunds
    BY DEF Goods
  <2> QED
    BY <2>1, TakenFits
<1> HIDE DEF units
<1>6. ASSUME NEW i \in Items
      PROVE  /\ room[i] \in Int /\ left[i] \in Int /\ kept[i] \in Int /\ Net[i] \in Int
             /\ room[i] <= left[i] /\ Net[i] = kept[i] + left[i]
  <2>1. UnitPrice[i] * units[i] \in Int /\ Net[i] \in Int /\ kept[i] \in Int
    BY <1>5, PriceNat, ReturnsAssumption
  <2> QED
    BY <2>1 DEF Lesser
<1>7. /\ RoomFor(units, kept) = SumFunctionOnSet(room, Items)
      /\ SumOver(Items, kept) = SumFunctionOnSet(kept, Items)
      /\ SumOver(Items, Net) = SumFunctionOnSet(Net, Items)
  BY DEF RoomFor, SumOver
<1> HIDE DEF room, left
<1>8. IsFiniteSet(Items)
  BY ReturnsAssumption
<1>9. SumFunctionOnSet(room, Items) <= SumFunctionOnSet(left, Items)
  BY <1>6, <1>8, SumMonotone
<1>10. SumFunctionOnSet(Net, Items) = SumFunctionOnSet(kept, Items) + SumFunctionOnSet(left, Items)
  BY <1>6, <1>8, SumPlus
<1>11. /\ SumFunctionOnSet(room, Items) \in Int /\ SumFunctionOnSet(left, Items) \in Int
       /\ SumFunctionOnSet(kept, Items) \in Int
  BY <1>6, <1>8, SumInt
<1>12. PaidBack(LiveRefunds) <= SumOver(Items, Net)
  BY <1>3, <1>4, <1>7, <1>9, <1>10, <1>11
<1> QED
  BY <1>12 DEF GoodsNeverOverpaid, PaidBack, LiveRefunds

\* With whole prices and exchanges at most a unit's price cheaper, goods never
\* pay back more than they cost after the discount, through refunds, returns
\* and the difference of an exchange together (itemRefundable,
\* reserveExchangeRefund).
THEOREM GoodsNeverOverpaidSafe ==
    ASSUME WholePrices, CheaperByAUnit PROVE Spec => []GoodsNeverOverpaid
<1>1. ReturnsInv /\ BooksInv /\ MoneyInv /\ OverpaidInv => GoodsNeverOverpaid
  BY PaidBeforeCredit, PaidAfterCredit DEF OverpaidInv
<1> QED
  BY <1>1, ReturnsCreditInductive, PTL
===============================================================================
