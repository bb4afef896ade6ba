-------------------------------- MODULE Refund --------------------------------
(***************************************************************************)
(* How a paid order's money goes back (internal/commerce/refund.go and the *)
(* handlers P-506, P-507 and A-507 that call it).                          *)
(*                                                                         *)
(* A refund first reserves its amount and its quantities in one            *)
(* transaction, then a call to the gateway sends it, then a third          *)
(* transaction records the answer, and a fourth one closes the order when  *)
(* nothing is left to refund.  Nothing is locked across the call, so a     *)
(* second click, another administrator, a cancellation, a rejection or a   *)
(* restart may come between any two of them.  One order is modelled:       *)
(* refunds of different orders share no row.                               *)
(*                                                                         *)
(* The gateway (external) answers a repeated idempotency key with its      *)
(* first answer, whatever that was, and forgets it after fifteen days.     *)
(***************************************************************************)
EXTENDS Amounts, OrderStatus

CONSTANTS
    Items,      \* the order's items
    Quantity,   \* how many of each were ordered
    Net,        \* line amount less discount of each
    Fee,        \* the shipping fee, refunded only by a full cancellation
    Refunds,    \* bound: rows of `refunds`
    Callers,    \* bound: requests executing refunds at the same time
    MaxCrashes  \* bound: process restarts

ASSUME RefundAssumption ==
    /\ IsFiniteSet(Items) /\ Items # {}
    /\ Quantity \in [Items -> Nat \ {0}]
    /\ Net \in [Items -> Nat]
    /\ Fee \in Nat /\ MaxCrashes \in Nat
    /\ IsFiniteSet(Refunds)

VARIABLES
    status,     \* orders.status
    restocked,  \* how often the items went back on the shelf
    settled,    \* order_items.settled_quantity
    refunded,   \* payments.refunded_amount
    refund,     \* refunds by id: state, amount, and the lines of refund_items
    call,       \* what each executing request is doing: <<refund, phase>>
    wire,       \* refunds whose cancel call is on the wire with nobody waiting
    answer,     \* the gateway's first answer to each refund's request key
    payouts,    \* how often the gateway paid each refund
    old,        \* refunds requested more than RefundRetryWindow ago
    crashes

bookVars == <<settled, refunded, refund>>
pgVars   == <<wire, answer, payouts>>
vars == <<status, restocked, bookVars, call, pgVars, old, crashes>>

Approved == Fee + SumFunctionOnSet(Net, Items)

NoLines == [i \in Items |-> 0]
Lines   == {l \in [Items -> 0..Max({Quantity[i] : i \in Items})] :
              l # NoLines /\ \A i \in Items : l[i] <= Quantity[i]}
NoRefund == [state |-> "none", amount |-> 0, lines |-> NoLines]
Idle     == <<>>

OrderStates  == {"Paid", "Preparing", "Shipping", "Delivered", "Confirmed",
                 "Cancelled", "Refunded"}
RefundStates == {"none", "requested", "approved", "completed", "rejected"}
Phases       == {"calling", "paid", "refused", "closing"}

TypeOK ==
    /\ status \in OrderStates
    /\ restocked \in Nat
    /\ \A i \in Items : settled[i] \in 0..Quantity[i]
    /\ refunded \in 0..Approved
    /\ refund \in [Refunds -> [state : RefundStates, amount : Nat, lines : Lines \cup {NoLines}]]
    /\ call \in [Callers -> {Idle} \cup (Refunds \X Phases)]
    /\ wire \subseteq Refunds
    /\ answer \in [Refunds -> {"none", "paid", "refused"}]
    /\ payouts \in [Refunds -> Nat]
    /\ old \subseteq Refunds
    /\ crashes \in 0..MaxCrashes

Init ==
    /\ status = "Paid"
    /\ restocked = 0
    /\ settled = NoLines
    /\ refunded = 0
    /\ refund = [r \in Refunds |-> NoRefund]
    /\ call = [c \in Callers |-> Idle]
    /\ wire = {}
    /\ answer = [r \in Refunds |-> "none"]
    /\ payouts = [r \in Refunds |-> 0]
    /\ old = {}
    /\ crashes = 0

-----------------------------------------------------------------------------
(* The order's own life: A-506 moves it on, P-510 confirms the purchase.     *)
(* Definitions commented "Mutant" are used by no other: each is a plausible  *)
(* bug of the one that follows it, which the model checker must notice.      *)
\* Mutant: any status may be left for any other.
moveOrderAny(to, actor) == actor # "" /\ status' = to
MoveOrderStatus(to) == status' = to
moveOrder(to, actor) ==
    /\ CanTransition(status, to, actor)
    /\ MoveOrderStatus(to)

TransitionOrder(to, actor) ==
    /\ moveOrder(to, actor)
    /\ UNCHANGED <<restocked, bookVars, call, pgVars, old, crashes>>

-----------------------------------------------------------------------------
(* Requesting, rejecting, cancelling: one transaction each, under the locks  *)
(* of the order's items.                                                     *)

SetRefund(r, state) == refund' = [refund EXCEPT ![r].state = state]
\* A refund's number stands for the request key of its form.
RefundKeyTaken(r) == refund[r].state # "none"
NewRefund(r, amount, lines) ==
    /\ ~RefundKeyTaken(r)
    /\ refund' = [refund EXCEPT ![r] =
                    [state |-> "requested", amount |-> amount, lines |-> lines]]

\* Mutant: assigns where it should add.
ReserveRefundAmountAssigned(amount) ==
    /\ amount <= Approved
    /\ refunded' = amount
\* The CHECK on payments: a reservation never exceeds the approved amount.
ReserveRefundAmount(amount) ==
    /\ refunded + amount <= Approved
    /\ refunded' = refunded + amount
ReleaseRefundAmount(amount) == refunded' = refunded - amount

\* Rows read FOR UPDATE: what is left of the payment, the units left of an item.
LockApprovedPayment == Approved - refunded
LockOrderItemForRefund(i) == Quantity[i] - settled[i]

SettleOrderItem(lines)   == settled' = [i \in Items |-> settled[i] + lines[i]]
UnsettleRefundItems(r)   == settled' = [i \in Items |-> settled[i] - refund[r].lines[i]]
SettleAllOrderItems      == settled' = Quantity
UnsettledItemCount       == Cardinality({i \in Items : settled[i] < Quantity[i]})
\* OrderItemStock names every item of the order, and each goes back.
restockOrder == restocked' = restocked + 1

RequestRefund(r, lines) ==
    LET amount == SumFunction(
          [i \in Items |-> RefundableAmount(Net[i], Quantity[i], settled[i], lines[i])]) IN
    /\ \A i \in Items : lines[i] <= LockOrderItemForRefund(i)
    /\ amount > 0
    /\ SettleOrderItem(lines)
    /\ ReserveRefundAmount(amount)
    /\ NewRefund(r, amount, lines)
    /\ UNCHANGED <<status, restocked, call, pgVars, old, crashes>>

\* Mutant: the UPDATE without its condition on the refund's state.
RejectRefundTwice(r) ==
    /\ RefundKeyTaken(r)
    /\ SetRefund(r, "rejected")
    /\ UnsettleRefundItems(r)
    /\ ReleaseRefundAmount(refund[r].amount)
    /\ UNCHANGED <<status, restocked, call, pgVars, old, crashes>>

RejectRefund(r) ==
    /\ refund[r].state = "requested"
    /\ SetRefund(r, "rejected")
    /\ UnsettleRefundItems(r)
    /\ ReleaseRefundAmount(refund[r].amount)
    /\ UNCHANGED <<status, restocked, call, pgVars, old, crashes>>

\* P-506 and "cancel everything" of A-507; the refund row has no lines.
CancelOrder(r, actor) ==
    LET remaining == LockApprovedPayment IN
    /\ moveOrder("Cancelled", actor)
    /\ restockOrder
    /\ SettleAllOrderItems
    /\ IF remaining > 0
       THEN ReserveRefundAmount(remaining) /\ NewRefund(r, remaining, NoLines)
       ELSE UNCHANGED <<refunded, refund>>
    /\ UNCHANGED <<call, pgVars, old, crashes>>

Full == refunded >= Approved
\* Mutant: a refund on its way to the gateway does not count.
OpenRefundRequested == \E r \in Refunds : refund[r].state = "requested"
\* Mutant: a completed refund still counts.
OpenRefundEver == \E r \in Refunds : refund[r].state \notin {"none", "rejected"}
OpenRefund == \E r \in Refunds : refund[r].state \in {"requested", "approved"}
\* refundCloseTarget: where an order whose refunds are done goes, if anywhere.
CloseTargets(actor) ==
    {to \in {"Cancelled", "Refunded"} :
        /\ ~OpenRefund
        /\ CanTransition(status, to, actor)
        /\ to = "Cancelled" => Full
        /\ to = "Refunded"  => /\ Full \/ UnsettledItemCount = 0
                               /\ ~(Full /\ CanTransition(status, "Cancelled", actor))}

\* The transaction of CloseRefundedOrder, for the caller c or from A-507.
CloseOrder(actor) ==
    \E to \in CloseTargets(actor) :
        /\ moveOrder(to, actor)
        /\ IF to = "Cancelled" THEN restockOrder ELSE UNCHANGED restocked
        /\ SettleAllOrderItems

CloseRefundedOrder ==
    /\ CloseOrder("A-507")
    /\ UNCHANGED <<refunded, refund, call, pgVars, old, crashes>>

-----------------------------------------------------------------------------
(* Executing a refund: executeRefund and executeAndSettle, by a caller c.    *)

Phase(c, r, phase) == call[c] = <<r, phase>>
Go(c, r, phase)    == call' = [call EXCEPT ![c] = <<r, phase>>]
Return(c)          == call' = [call EXCEPT ![c] = Idle]

\* Mutant: an approved refund is sent again however old it is.
MayExecuteForever(r) == refund[r].state \in {"requested", "approved"}
LockRefundForExecute(r, state) == refund[r].state = state
\* First transaction.  An approved refund, whose result is unknown, is sent
\* again only by RetryRefund and only inside the retry window.
MayExecute(r) == \/ LockRefundForExecute(r, "requested")
                 \/ LockRefundForExecute(r, "approved") /\ r \notin old

ExecuteRefund(c, r) ==
    /\ call[c] = Idle
    /\ MayExecute(r)
    /\ SetRefund(r, "approved")
    /\ Go(c, r, "calling")
    /\ UNCHANGED <<status, restocked, settled, refunded, pgVars, old, crashes>>

\* A completed refund is not sent again; the caller goes on to close the order.
ExecuteCompleted(c, r) ==
    /\ call[c] = Idle
    /\ LockRefundForExecute(r, "completed")
    /\ Go(c, r, "closing")
    /\ UNCHANGED <<status, restocked, bookVars, pgVars, old, crashes>>

\* The gateway handles a cancel call for r's request key and answers x.
PaidOut == SumFunction([r \in Refunds |-> payouts[r] * refund[r].amount])
Answer(r, x) ==
    IF answer[r] # "none"
    THEN x = answer[r] /\ UNCHANGED <<answer, payouts>>
    ELSE /\ x = "paid" => PaidOut + refund[r].amount <= Approved
         /\ answer' = [answer EXCEPT ![r] = x]
         /\ payouts' = IF x = "paid" THEN [payouts EXCEPT ![r] = @ + 1] ELSE payouts

GatewayCancel(c, r) ==
    /\ Phase(c, r, "calling")
    /\ \E x \in {"paid", "refused"} : Answer(r, x) /\ Go(c, r, x)
    /\ UNCHANGED <<status, restocked, bookVars, wire, old, crashes>>

\* No answer, or "still processing the first one": the refund stays approved.
ExecuteTimeout(c, r) ==
    /\ Phase(c, r, "calling")
    /\ Return(c)
    /\ wire' = wire \cup {r}
    /\ UNCHANGED <<status, restocked, bookVars, answer, payouts, old, crashes>>

\* What is on the wire is handled, or lost.
GatewayCancelLate(r) ==
    /\ r \in wire
    /\ wire' = wire \ {r}
    /\ \/ \E x \in {"paid", "refused"} : Answer(r, x)
       \/ UNCHANGED <<answer, payouts>>
    /\ UNCHANGED <<status, restocked, bookVars, call, old, crashes>>

\* After a definite refusal; the UPDATE has a condition.
RevertRefundToRequested(r) ==
    IF refund[r].state = "approved" THEN SetRefund(r, "requested") ELSE UNCHANGED refund
ExecuteRevert(c, r) ==
    /\ Phase(c, r, "refused")
    /\ RevertRefundToRequested(r)
    /\ Return(c)
    /\ UNCHANGED <<status, restocked, settled, refunded, pgVars, old, crashes>>

\* The UPDATE has a condition; no row is ErrRefundState.
CompleteRefundRow(r) ==
    /\ refund[r].state = "approved"
    /\ SetRefund(r, "completed")
CompleteRefund(c, r) ==
    /\ Phase(c, r, "paid")
    /\ CompleteRefundRow(r)
    /\ Go(c, r, "closing")
    /\ UNCHANGED <<status, restocked, settled, refunded, pgVars, old, crashes>>

\* ErrRefundState, nothing to close yet, or a database error (on the close,
\* ErrRefundSentNotSettled).
ExecuteError(c) ==
    /\ call[c] # Idle /\ call[c][2] # "calling"
    /\ Return(c)
    /\ UNCHANGED <<status, restocked, bookVars, pgVars, old, crashes>>

ExecuteClose(c, r, actor) ==
    /\ Phase(c, r, "closing")
    /\ Return(c)
    /\ CloseOrder(actor)
    /\ UNCHANGED <<refunded, refund, pgVars, old, crashes>>

-----------------------------------------------------------------------------
(* Time and restarts. *)

PassRetryWindow(r) ==
    /\ refund[r].state # "none" /\ r \notin old
    /\ old' = old \cup {r}
    /\ UNCHANGED <<status, restocked, bookVars, call, pgVars, crashes>>

\* Fifteen days after the first call, so after the window and, moneyCtx giving
\* a call a minute, after every call made inside it came back.
GatewayForget(r) ==
    /\ r \in old /\ r \notin wire /\ answer[r] # "none"
    /\ \A c \in Callers : call[c] \notin {r} \X Phases
    /\ answer' = [answer EXCEPT ![r] = "none"]
    /\ UNCHANGED <<status, restocked, bookVars, call, wire, payouts, old, crashes>>

Crash ==
    /\ crashes < MaxCrashes
    /\ crashes' = crashes + 1
    /\ call' = [c \in Callers |-> Idle]
    /\ wire' = wire \cup {r \in Refunds : \E c \in Callers : Phase(c, r, "calling")}
    /\ UNCHANGED <<status, restocked, bookVars, answer, payouts, old>>

(* Who does what.  Every form names its order, which must be the buyer's own *)
(* or the administrator's to see; a form sent twice carries one request key, *)
(* so its second arrival does nothing.                                       *)
OrderTransition == \E to \in OrderStates : TransitionOrder(to, "A-506")
orderConfirm    == TransitionOrder("Confirmed", "P-510")
refundRequest   == \E r \in Refunds, lines \in Lines : RequestRefund(r, lines)
orderCancel     == \E r \in Refunds : CancelOrder(r, "P-506")
\* A-507 (its new request is the step of refundRequest).
RefundSave ==
    \/ \E r \in Refunds : RejectRefund(r) \/ CancelOrder(r, "A-507")
    \/ CloseRefundedOrder

\* P-506 and A-507 go on to send the refund; A-507 sends one again.
Execute ==
    \E c \in Callers :
        \/ ExecuteError(c)
        \/ \E r \in Refunds :
              \/ ExecuteRefund(c, r) \/ ExecuteCompleted(c, r) \/ ExecuteTimeout(c, r)
              \/ ExecuteRevert(c, r) \/ CompleteRefund(c, r) \/ GatewayCancel(c, r)
              \/ \E actor \in {"P-506", "A-507"} : ExecuteClose(c, r, actor)

Time == \E r \in Refunds : GatewayCancelLate(r) \/ PassRetryWindow(r) \/ GatewayForget(r)

Next ==
    \/ OrderTransition \/ orderConfirm \/ refundRequest \/ orderCancel \/ RefundSave
    \/ Execute \/ Time \/ Crash

Spec == Init /\ [][Next]_vars

\* The administrator presses "close the order" whenever A-507 offers it.
FairSpec == Spec /\ WF_vars(CloseRefundedOrder)

-----------------------------------------------------------------------------
(* Properties. *)

Live == {r \in Refunds : refund[r].state \in {"requested", "approved", "completed"}}

\* payments.refunded_amount is the sum of the refunds not rejected: a request,
\* a cancellation that takes what is left, and a rejection that gives back, in
\* any order, lose or double no reservation.
ReservationsAddUp == refunded = SumFunctionOnSet([r \in Refunds |-> refund[r].amount], Live)

\* No unit is refunded twice: each item counts at least the units of its
\* refunds that are not rejected.
UnitsCounted ==
    /\ TypeOK
    /\ \A i \in Items : SumFunctionOnSet([r \in Refunds |-> refund[r].lines[i]], Live) <= settled[i]

\* The gateway pays a refund once, however often it is sent, retried after an
\* unknown result, or sent by two people; and one whose reservation was given
\* back is never paid.
PaidOnce ==
    \A r \in Refunds :
                        /\ payouts[r] <= 1
                        /\ payouts[r] = 1 => refund[r].state \in {"approved", "completed"}
                        /\ refund[r].state = "completed" => payouts[r] = 1

\* The stock comes back once if the order ends before dispatch, by P-506, by
\* A-507 or by the refund that completes the sum, and never otherwise.
RestockedOnce == restocked = IF status = "Cancelled" THEN 1 ELSE 0

\* An order closed as refunded has nothing left to refund and no refund whose
\* money may still be refused or rejected (refundCloseTarget reads both while
\* requests, rejections and gateway answers go on).
RefundedIsFinal ==
    status = "Refunded" => /\ settled = Quantity
                           /\ \A r \in Refunds : refund[r].state \in {"none", "completed", "rejected"}

\* An order whose refunds are over does not stay in the dispatch queue: once
\* all its money went back, or all its units after dispatch, it is closed,
\* although a refund that was on its way blocked the first attempt, or the
\* request that completed the last one died before closing.
RefundsAreOver ==
    /\ \A r \in Refunds : refund[r].state \in {"none", "completed", "rejected"}
    /\ \/ Full
       \/ settled = Quantity /\ status \in {"Shipping", "Delivered"}
FullyRefundedCloses == RefundsAreOver ~> status \in {"Cancelled", "Refunded", "Confirmed"}
===============================================================================
