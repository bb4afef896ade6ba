-------------------------------- MODULE Returns --------------------------------
(***************************************************************************)
(* Returns and exchanges of one delivered order (internal/commerce/        *)
(* returns.go; screens P-511, P-512, P-514 and A-511), together with the   *)
(* refunds that share its items and its payment's ceiling (refund.go).     *)
(*                                                                         *)
(* Every operation is one transaction that locks the order, or the items   *)
(* and the payment it changes; except ConfirmExchangeDiff: it reads,       *)
(* reserves a payment row, asks the gateway with nothing locked, and       *)
(* records the answer.  How a refund is sent, retried and answered is in   *)
(* Refund; here an execution is a step that starts and a step that ends.   *)
(*                                                                         *)
(* One variant is asked for in exchange, and its stock is kept.  The price *)
(* difference per unit is an input: both prices are read when the exchange *)
(* is opened.  A payment key belongs to one request at a time; a second    *)
(* one would be turned away by payments_pg_key_idx.                        *)
(***************************************************************************)
EXTENDS Amounts, OrderStatus

CONSTANTS
    Items,      \* the order's items
    Quantity,   \* how many of each were ordered
    Net,        \* line amount less discount of each
    Shipping,   \* the order's shipping fee, part of the approved amount
    ReturnIds,  \* bound: rows of `returns`
    Refunds,    \* bound: rows of `refunds`
    Keys,       \* bound: payment keys presented at P-514
    Fees,       \* return fees that A-512 may have set
    Deltas,     \* price differences per unit that an exchange may find
    Stock       \* of the variant the exchanges ask for

None == "none"

ASSUME ReturnsAssumption ==
    /\ IsFiniteSet(Items) /\ Items # {}
    /\ Quantity \in [Items -> Nat \ {0}]
    /\ Net \in [Items -> Nat]
    /\ Shipping \in Nat /\ Stock \in Nat
    /\ Fees \subseteq Nat /\ Deltas \subseteq Int
    /\ IsFiniteSet(ReturnIds) /\ IsFiniteSet(Refunds)
    /\ None \notin ReturnIds   \* the NULL of refunds.return_id

VARIABLES
    status,     \* orders.status
    ret,        \* returns by id
    settled,    \* order_items.settled_quantity
    refunded,   \* payments.refunded_amount
    refund,     \* refunds by id
    closing,    \* refunds whose A-511 request goes on to close the order
    stock,      \* product_variants.stock of the exchange's variant
    pay,        \* payments of kind "exchange difference", by payment key
    request,    \* what each P-514 request is doing: <<phase, return>>
    wire,       \* keys whose confirmation is on the wire with nobody waiting
    accounts,   \* keys the gateway opened a virtual account for
    taken       \* keys the gateway took money for

orderVars == <<status, ret>>
bookVars  == <<settled, refunded, refund, closing>>
diffVars  == <<pay, request>>
pgVars    == <<wire, accounts, taken>>
vars == <<orderVars, bookVars, stock, diffVars, pgVars>>

SumOver(S, n) == SumFunctionOnSet(n, S)
Approved == Shipping + SumOver(Items, Net)

NoLines  == [i \in Items |-> 0]
Lines    == {l \in [Items -> 0..Max({Quantity[i] : i \in Items})] :
               l # NoLines /\ \A i \in Items : l[i] <= Quantity[i]}
Units(l) == SumOver(Items, l)
NoReturn == [kind |-> None, status |-> None, lines |-> NoLines, open |-> FALSE,
             diff |-> 0, fee |-> 0]
NoRefund == [state |-> None, amount |-> 0, lines |-> NoLines, of |-> None, by |-> None]
NoPay    == [state |-> None, of |-> None]
Idle     == <<>>

OrderStates  == {"Delivered", "Confirmed", "Refunded", "ReturnOpen", "ReturnPickedUp",
                 "ExchangeOpen", "ExchangePicked", "ExchangeDiffDue", "ExchangeShipped"}
ReturnStates == {None, "ReturnOpen", "ReturnPickedUp", "Refunded", "ExchangeOpen",
                 "ExchangePicked", "ExchangeDiffDue", "ExchangeShipped", "Rejected"}
InProgress   == {"ReturnOpen", "ReturnPickedUp", "ExchangeOpen", "ExchangePicked",
                 "ExchangeDiffDue"}
Phases       == {"read", "calling", "approved", "refused", "waiting"}

TypeOK ==
    /\ status \in OrderStates
    /\ ret \in [ReturnIds -> [kind : {None, "return", "exchange"}, status : ReturnStates,
                              lines : Lines \cup {NoLines}, open : BOOLEAN,
                              diff : Int, fee : Fees \cup {0}]]
    /\ \A i \in Items : settled[i] \in 0..Quantity[i]
    /\ refunded \in 0..Approved
    /\ refund \in [Refunds -> [state : {None, "requested", "approved", "completed", "rejected"},
                               amount : Nat, lines : Lines \cup {NoLines},
                               of : ReturnIds \cup {None}, by : {None, "A-507", "A-511"}]]
    /\ closing \subseteq Refunds
    /\ stock \in 0..Stock
    /\ pay \in [Keys -> [state : {None, "pending", "approved", "failed"},
                         of : ReturnIds \cup {None}]]
    /\ request \in [Keys -> {Idle} \cup (Phases \X ReturnIds)]
    /\ wire \subseteq Keys /\ accounts \subseteq Keys /\ taken \subseteq Keys

Init ==
    /\ status = "Delivered"
    /\ ret = [r \in ReturnIds |-> NoReturn]
    /\ settled = NoLines
    /\ refunded = 0
    /\ refund = [f \in Refunds |-> NoRefund]
    /\ closing = {}
    /\ stock = Stock
    /\ pay = [k \in Keys |-> NoPay]
    /\ request = [k \in Keys |-> Idle]
    /\ wire = {} /\ accounts = {} /\ taken = {}

-----------------------------------------------------------------------------
(* Pieces of transactions.  Definitions commented "Mutant" are used by no    *)
(* other: each is a plausible bug of the one that follows it.                *)

\* Mutant: the state machine is not asked.
moveOrderAny(to, actor) == actor # None /\ status' = to
MoveOrderStatus(to) == status' = to
moveOrder(to, actor) ==
    /\ CanTransition(status, to, actor)
    /\ MoveOrderStatus(to)

\* returnStep: the return's own status obeys the same table; a rejected one
\* goes nowhere.
returnStep(r, to) ==
    /\ ret[r].status # "Rejected"
    /\ CanTransition(ret[r].status, to, "A-511")

\* The row of a return, FOR UPDATE, by its number and its order's.
LockReturn(r) == ret[r] # NoReturn
InsertReturn(r, kind, to, lines, diff) ==
    ret' = [ret EXCEPT ![r] = [kind |-> kind, status |-> to, lines |-> lines, open |-> TRUE,
                               diff |-> diff, fee |-> 0]]
MoveReturn(r, to)        == ret' = [ret EXCEPT ![r].status = to]
RecordPickup(r, to, fee) == ret' = [ret EXCEPT ![r].status = to, ![r].fee = fee]
CloseReturn(r, to)       == ret' = [ret EXCEPT ![r].status = to, ![r].open = FALSE]

\* What is left of an item, FOR UPDATE; how many units a return asks for.
LockOrderItemForReturn(i) == Quantity[i] - settled[i]
ReturnItemQuantity(r)     == Units(ret[r].lines)

\* The items of r still in progress; RequestRefund counts those of one item,
\* and return_items_open_idx allows one.
LockReturnGross(r) == IF ret[r].open THEN ret[r].lines ELSE NoLines
OpenReturnItemCount(i) == Cardinality({r \in ReturnIds : LockReturnGross(r)[i] > 0})
OpenReturnItem(i) == OpenReturnItemCount(i) > 0

Live(f) == refund[f].state \in {"requested", "approved", "completed"}
\* Mutant: only credits already paid count.
ExchangeCreditPaid(i) ==
    SumOver({f \in Refunds : /\ refund[f].state = "completed" /\ refund[f].of # None
                             /\ ret[refund[f].of].kind = "exchange"
                             /\ ret[refund[f].of].lines[i] > 0},
            [f \in Refunds |-> refund[f].amount])
\* ExchangeCreditForItem: the whole credit of every exchange the item was in.
ExchangeCredit(i) ==
    SumOver({f \in Refunds : /\ Live(f) /\ refund[f].of # None
                             /\ ret[refund[f].of].kind = "exchange"
                             /\ ret[refund[f].of].lines[i] > 0},
            [f \in Refunds |-> refund[f].amount])

itemRefundable(i, qty) ==
    capByExchangeCredit(RefundableAmount(Net[i], Quantity[i], settled[i], qty),
                        Net[i], Quantity[i], settled[i], ExchangeCredit(i))

FitsIn(lines) == \A i \in Items : lines[i] <= LockOrderItemForReturn(i)
Worth(lines) ==
    SumOver({i \in Items : lines[i] > 0}, [i \in Items |-> itemRefundable(i, lines[i])])
SettleItems(lines) == settled' = [i \in Items |-> settled[i] + lines[i]]
UnsettledItemCount == Cardinality({i \in Items : settled[i] < Quantity[i]})

InsertRefund(f, amount, lines, r, by) ==
    /\ refund[f].state = None
    /\ refund' = [refund EXCEPT ![f] = [state |-> "requested", amount |-> amount,
                                        lines |-> lines, of |-> r, by |-> by]]
\* The CHECK on payments, then the row; that of a return names no items.
ReserveRefund(f, amount, lines, r, by) ==
    /\ refunded + amount <= Approved
    /\ refunded' = refunded + amount
    /\ InsertRefund(f, amount, lines, r, by)
InsertReturnRefund(f, amount, r) == ReserveRefund(f, amount, NoLines, r, "A-511")

-----------------------------------------------------------------------------
(* P-511 and P-512. *)

\* The deadline (seven days) only ever forbids it, so it is left out.
OpenReturn(r, kind, lines, delta) ==
    LET exchange == kind = "exchange"
        to == IF exchange THEN "ExchangeOpen" ELSE "ReturnOpen"
        units == IF exchange THEN Units(lines) ELSE 0 IN
    /\ ret[r] = NoReturn
    /\ IF exchange THEN delta \in Deltas ELSE delta = 0
    /\ FitsIn(lines)
    /\ \A i \in Items : lines[i] > 0 => ~OpenReturnItem(i)
    /\ stock >= units
    /\ stock' = stock - units
    /\ InsertReturn(r, kind, to, lines, delta * units)
    /\ moveOrder(to, IF exchange THEN "P-512" ELSE "P-511")
    /\ UNCHANGED <<bookVars, diffVars, pgVars>>

-----------------------------------------------------------------------------
(* A-511. *)

returnGross(r) == Worth(LockReturnGross(r))

\* A-512 may have saved any policy with any fee by now.
returnFeeSetting(policy, amount) == policy \in {"deduct", "separate"} /\ amount \in Fees

\* The row keeps what the settlement will deduct: nothing if the seller is at
\* fault or the fee is charged separately.
ConfirmPickup(r, fault, policy, amount) ==
    LET to  == IF ret[r].kind = "exchange" THEN "ExchangePicked" ELSE "ReturnPickedUp"
        fee == IF fault = "seller" THEN 0 ELSE amount IN
    /\ returnFeeSetting(policy, amount)
    /\ LockReturn(r)
    /\ returnStep(r, to)
    /\ ret[r].kind = "return" /\ policy = "deduct" =>
          FitsIn(LockReturnGross(r)) /\ (returnGross(r) > 0 => fee < returnGross(r))
    /\ RecordPickup(r, to, IF policy = "deduct" THEN fee ELSE 0)
    /\ moveOrder(to, "A-511")
    /\ UNCHANGED <<bookVars, stock, diffVars, pgVars>>

\* A return worth nothing (an exchange gave it back already) has no refund.
SettleReturn(r, f) ==
    LET gross == returnGross(r)
        amount == IF gross = 0 THEN 0 ELSE gross - ret[r].fee IN
    /\ LockReturn(r)
    /\ ret[r].kind = "return"
    /\ returnStep(r, "Refunded")
    /\ LockReturnGross(r) # NoLines /\ FitsIn(LockReturnGross(r))
    /\ gross > 0 => amount > 0
    /\ SettleItems(LockReturnGross(r))
    /\ IF amount > 0 THEN InsertReturnRefund(f, amount, r) ELSE UNCHANGED <<refunded, refund>>
    /\ CloseReturn(r, "Refunded")
    /\ moveOrder(IF UnsettledItemCount' = 0 THEN "Refunded" ELSE "Delivered", "A-511")
    /\ UNCHANGED <<closing, stock, diffVars, pgVars>>

\* Mutant: a rejected exchange keeps its units.
RejectReturnKeepingStock(r) ==
    /\ ret[r].status # "ReturnPickedUp"
    /\ returnStep(r, "Delivered")
    /\ CloseReturn(r, "Rejected")
    /\ moveOrder("Delivered", "A-511")
    /\ UNCHANGED <<bookVars, stock, diffVars, pgVars>>
RejectReturn(r) ==
    /\ LockReturn(r)
    /\ ret[r].status # "ReturnPickedUp"
    /\ returnStep(r, "Delivered")
    /\ stock' = IF ret[r].kind = "exchange" THEN stock + ReturnItemQuantity(r) ELSE stock
    /\ CloseReturn(r, "Rejected")
    /\ moveOrder("Delivered", "A-511")
    /\ UNCHANGED <<bookVars, diffVars, pgVars>>

\* A cheaper variant gives its difference back.
reserveExchangeRefund(r, f) ==
    IF ret[r].diff < 0 THEN InsertReturnRefund(f, -ret[r].diff, r)
                       ELSE UNCHANGED <<refunded, refund>>

\* Mutant: a dearer variant ships at once too.
CompleteExchangeAtOnce(r, f) ==
    /\ ret[r].kind = "exchange"
    /\ returnStep(r, "ExchangeShipped")
    /\ CloseReturn(r, "ExchangeShipped")
    /\ reserveExchangeRefund(r, f)
    /\ moveOrder("ExchangeShipped", "A-511")
    /\ UNCHANGED <<settled, closing, stock, diffVars, pgVars>>
\* A dearer variant waits for its difference, with its items still open; a
\* cheaper one ships, and its difference is reserved as a refund.
CompleteExchange(r, f) ==
    LET to == IF ret[r].diff > 0 THEN "ExchangeDiffDue" ELSE "ExchangeShipped" IN
    /\ LockReturn(r)
    /\ ret[r].kind = "exchange"
    /\ returnStep(r, to)
    /\ IF ret[r].diff > 0 THEN MoveReturn(r, to) ELSE CloseReturn(r, to)
    /\ reserveExchangeRefund(r, f)
    /\ moveOrder(to, "A-511")
    /\ UNCHANGED <<settled, closing, stock, diffVars, pgVars>>

-----------------------------------------------------------------------------
(* P-514: ConfirmExchangeDiff for payment key k. *)

In(k, phase, r) == request[k] = <<phase, r>>
Go(k, phase, r) == request' = [request EXCEPT ![k] = <<phase, r>>]
Return(k)       == request' = [request EXCEPT ![k] = Idle]
SetPay(k, state) == pay' = [pay EXCEPT ![k].state = state]

\* The difference that is due; without a lock.
ExchangeDiffDue(r) ==
    ret[r].kind = "exchange" /\ ret[r].status = "ExchangeDiffDue" /\ ret[r].diff > 0

ReadDiff(k, r) ==
    /\ request[k] = Idle
    /\ ExchangeDiffDue(r)
    /\ Go(k, "read", r)
    /\ UNCHANGED <<orderVars, bookVars, stock, pay, pgVars>>

\* payments_exchange_idx: one row per return that has not failed.
LiveDiff(r) == \E k \in Keys : pay[k].of = r /\ pay[k].state \in {"pending", "approved"}

\* payments_pg_key_idx: a key has one row, ever.
ReserveExchangePayment(k, r) ==
    /\ pay[k] = NoPay /\ ~LiveDiff(r)
    /\ pay' = [pay EXCEPT ![k] = [state |-> "pending", of |-> r]]
ReserveDiff(k, r) ==
    /\ In(k, "read", r)
    /\ \/ ReserveExchangePayment(k, r) /\ Go(k, "calling", r)
       \/ (pay[k] # NoPay \/ LiveDiff(r)) /\ Return(k) /\ UNCHANGED pay
    /\ UNCHANGED <<orderVars, bookVars, stock, pgVars>>

\* The gateway answers; "waiting" is a virtual account nobody has paid yet.
GatewayConfirm(k, r) ==
    /\ In(k, "calling", r)
    /\ \/ taken' = taken \cup {k} /\ Go(k, "approved", r) /\ UNCHANGED accounts
       \/ Go(k, "refused", r) /\ UNCHANGED <<taken, accounts>>
       \/ accounts' = accounts \cup {k} /\ Go(k, "waiting", r) /\ UNCHANGED taken
    /\ UNCHANGED <<orderVars, bookVars, stock, pay, wire>>

\* Mutant: an unknown result counts as a refusal.
DiffUnknownFails(k, r) ==
    /\ In(k, "calling", r)
    /\ Return(k)
    /\ wire' = wire \cup {k}
    /\ SetPay(k, "failed")
    /\ UNCHANGED <<orderVars, bookVars, stock, accounts, taken>>
\* No answer, or one for another amount: the row stays pending.
DiffUnknown(k, r) ==
    /\ In(k, "calling", r)
    /\ Return(k)
    /\ wire' = wire \cup {k}
    /\ UNCHANGED <<orderVars, bookVars, stock, pay, accounts, taken>>

\* FailPaymentByID after a refusal, DeclinePayment after an account.
FailDiff(k, r) ==
    /\ In(k, "refused", r) \/ In(k, "waiting", r)
    /\ SetPay(k, "failed")
    /\ Return(k)
    /\ UNCHANGED <<orderVars, bookVars, stock, pgVars>>

ApproveExchangePayment(k) == SetPay(k, "approved")
ApproveDiff(k, r) ==
    /\ In(k, "approved", r)
    /\ ApproveExchangePayment(k)
    /\ moveOrder("ExchangeShipped", "P-514")
    /\ ret[r].status = "ExchangeDiffDue"
    /\ CloseReturn(r, "ExchangeShipped")
    /\ Return(k)
    /\ UNCHANGED <<bookVars, stock, pgVars>>

\* A database error after the answer: the row stays pending.
DiffError(k) ==
    /\ request[k] # Idle /\ request[k][1] # "calling"
    /\ Return(k)
    /\ UNCHANGED <<orderVars, bookVars, stock, pay, pgVars>>

GatewayConfirmLate(k) ==
    /\ k \in wire
    /\ wire' = wire \ {k}
    /\ \/ taken' = taken \cup {k} /\ UNCHANGED accounts
       \/ accounts' = accounts \cup {k} /\ UNCHANGED taken
       \/ UNCHANGED <<taken, accounts>>
    /\ UNCHANGED <<orderVars, bookVars, stock, diffVars>>

GatewayDeposit(k) ==
    /\ k \in accounts \ taken
    /\ taken' = taken \cup {k}
    /\ UNCHANGED <<orderVars, bookVars, stock, diffVars, wire, accounts>>

-----------------------------------------------------------------------------
(* Refunds of the same items: P-507 and A-507 at any status of the order.    *)

\* Mutant: items of an open return may be refunded.
RequestRefundAnyway(f, lines) ==
    /\ FitsIn(lines)
    /\ Worth(lines) > 0
    /\ SettleItems(lines)
    /\ ReserveRefund(f, Worth(lines), lines, None, "A-507")
    /\ UNCHANGED <<orderVars, closing, stock, diffVars, pgVars>>
RequestRefund(f, lines) ==
    /\ FitsIn(lines)
    /\ \A i \in Items : lines[i] > 0 => ~OpenReturnItem(i)
    /\ Worth(lines) > 0
    /\ SettleItems(lines)
    /\ ReserveRefund(f, Worth(lines), lines, None, "A-507")
    /\ UNCHANGED <<orderVars, closing, stock, diffVars, pgVars>>

RejectRefund(f) ==
    /\ refund[f].state = "requested"
    /\ refund' = [refund EXCEPT ![f].state = "rejected"]
    /\ settled' = [i \in Items |-> settled[i] - refund[f].lines[i]]
    /\ refunded' = refunded - refund[f].amount
    /\ UNCHANGED <<orderVars, closing, stock, diffVars, pgVars>>

\* By the A-511 request that reserved it, or by A-507's "execute".
ExecuteRefund(f, actor) ==
    /\ refund[f].state = "requested"
    /\ actor \in {"A-507", refund[f].by}
    /\ refund' = [refund EXCEPT ![f].state = "approved", ![f].by = actor]
    /\ UNCHANGED <<orderVars, settled, refunded, closing, stock, diffVars, pgVars>>

RefundAnswered(f) ==
    /\ refund[f].state = "approved"
    /\ \/ /\ refund' = [refund EXCEPT ![f].state = "completed"]
          /\ closing' = IF refund[f].by = "A-511" THEN closing \cup {f} ELSE closing
       \/ /\ refund' = [refund EXCEPT ![f].state = "requested", ![f].by = "A-507"]
          /\ UNCHANGED closing
    /\ UNCHANGED <<orderVars, settled, refunded, stock, diffVars, pgVars>>

\* refundCloseTarget of an order that left the shop: Cancelled is out of reach.
MayClose(actor) ==
    /\ \A f \in Refunds : refund[f].state \notin {"requested", "approved"}
    /\ CanTransition(status, "Refunded", actor)
    /\ refunded >= Approved \/ settled = Quantity

CloseRefundedOrder(actor) ==
    /\ MayClose(actor)
    /\ settled' = Quantity
    /\ moveOrder("Refunded", actor)
    /\ UNCHANGED <<ret, refunded, refund, stock, diffVars, pgVars>>

CloseByA507 == CloseRefundedOrder("A-507") /\ UNCHANGED closing
CloseByA511(f) ==
    /\ f \in closing
    /\ closing' = closing \ {f}
    /\ \/ CloseRefundedOrder("A-511")
       \/ /\ ~MayClose("A-511")
          /\ UNCHANGED <<orderVars, settled, refunded, refund, stock, diffVars, pgVars>>

ConfirmPurchase ==
    /\ moveOrder("Confirmed", "P-510")
    /\ UNCHANGED <<ret, bookVars, stock, diffVars, pgVars>>

\* A restart drops every request; what was being asked stays on the wire.
Crash ==
    /\ request' = [k \in Keys |-> Idle]
    /\ wire' = wire \cup {k \in Keys : \E r \in ReturnIds : In(k, "calling", r)}
    /\ closing' = {}
    /\ refund' = [f \in Refunds |-> IF refund[f].by = "A-511"
                                    THEN [refund[f] EXCEPT !.by = "A-507"] ELSE refund[f]]
    /\ UNCHANGED <<orderVars, settled, refunded, stock, pay, accounts, taken>>

-----------------------------------------------------------------------------
(* Who does what.                                                            *)
returnKindCreate ==
    \E r \in ReturnIds, lines \in Lines :
        \/ OpenReturn(r, "return", lines, 0)
        \/ \E delta \in Deltas : OpenReturn(r, "exchange", lines, delta)
exchangePayConfirm ==
    \E k \in Keys : \/ DiffError(k)
                    \/ \E r \in ReturnIds : \/ ReadDiff(k, r) \/ ReserveDiff(k, r)
                                            \/ DiffUnknown(k, r) \/ FailDiff(k, r)
                                            \/ ApproveDiff(k, r)
refundRequest == \E f \in Refunds, lines \in Lines : RequestRefund(f, lines)
orderConfirm  == ConfirmPurchase

\* A-511: pickup, rejection, settlement and exchange, and the refund the last
\* two reserve, which the same request sends.
ReturnAction ==
    \/ \E r \in ReturnIds : \/ RejectReturn(r)
                            \/ \E fault \in {"buyer", "seller"}, policy \in {"deduct", "separate"},
                                  amount \in Fees : ConfirmPickup(r, fault, policy, amount)
                            \/ \E f \in Refunds : SettleReturn(r, f) \/ CompleteExchange(r, f)
    \/ \E f \in Refunds : ExecuteRefund(f, "A-511") \/ CloseByA511(f)
\* A-507: rejects, sends, or closes the order.
RefundSave ==
    \/ \E f \in Refunds : RejectRefund(f) \/ ExecuteRefund(f, "A-507")
    \/ CloseByA507

Gateway ==
    \/ \E k \in Keys : \/ GatewayConfirmLate(k) \/ GatewayDeposit(k)
                       \/ \E r \in ReturnIds : GatewayConfirm(k, r)
    \/ \E f \in Refunds : RefundAnswered(f)

Next ==
    \/ returnKindCreate \/ exchangePayConfirm \/ refundRequest \/ orderConfirm
    \/ ReturnAction \/ RefundSave \/ Gateway \/ Crash

Spec == Init /\ [][Next]_vars

-----------------------------------------------------------------------------
(* Properties. *)

\* The order's status is the status of its return in progress, and no return
\* is in progress when the order is delivered, confirmed or closed: neither
\* the refunds executed meanwhile nor the difference's payment part them.
OrderFollowsReturn ==
    \A r \in ReturnIds : ret[r].status \in InProgress => ret[r].open /\ ret[r].status = status

\* No unit is paid back twice: the units refunded, returned and being returned
\* or exchanged fit in the quantity, and until the order is closed the
\* settled ones are those that went back.
UnitsAccounted ==
    /\ TypeOK
    /\ \A i \in Items :
        LET went == SumOver({f \in Refunds : Live(f)}, [f \in Refunds |-> refund[f].lines[i]])
                    + SumOver({r \in ReturnIds : ret[r].status = "Refunded"},
                              [r \in ReturnIds |-> ret[r].lines[i]])
            leaving == SumOver({r \in ReturnIds : ret[r].open}, [r \in ReturnIds |-> ret[r].lines[i]])
        IN /\ went + leaving <= Quantity[i]
           /\ status # "Refunded" => settled[i] = went

\* The shelf lacks exactly the units of exchanges asked for and not rejected.
ExchangeStockHeld ==
    stock = Stock - SumOver({r \in ReturnIds : ret[r].kind = "exchange" /\ ret[r].status # "Rejected"},
                            [r \in ReturnIds |-> Units(ret[r].lines)])

\* A dearer exchange goes out only with its difference paid, although the
\* request that paid read the exchange before it reserved anything.
ShippedMeansPaid ==
    \A r \in ReturnIds : ret[r].status = "ExchangeShipped" /\ ret[r].diff > 0 =>
        \E k \in taken : pay[k] = [state |-> "approved", of |-> r]

\* FR-608: the difference of one exchange is charged once to a card, although
\* the answer to the first attempt was lost or came late.
CardChargedOnce ==
    \A j, k \in taken \ accounts : pay[j].of = pay[k].of => j = k

\* A picked-up return can be settled: no refund or credit in between takes
\* what its fee was checked against, since nothing else leads out of there.
PickedUpSettles ==
    \A r \in ReturnIds : ret[r].status = "ReturnPickedUp" =>
        /\ FitsIn(ret[r].lines)
        /\ returnGross(r) = 0 \/ returnGross(r) > ret[r].fee

\* Goods never pay back more than they cost after the discount, through
\* refunds, returns and exchange differences together; the shipping fee, which
\* the payment's ceiling includes, stays.  It is promised for shares without a
\* remainder and exchanges at most a unit's price cheaper.
GoodsNeverOverpaid ==
    SumOver({f \in Refunds : Live(f)}, [f \in Refunds |-> refund[f].amount])
        <= SumOver(Items, Net)
===============================================================================
