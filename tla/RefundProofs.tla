------------------------------ MODULE RefundProofs ------------------------------
(***************************************************************************)
(* Five properties of Refund, for every value of its constants.  Three of  *)
(* them speak of one refund, or of the order, at a time: what the gateway  *)
(* did with a refund is told by its answer as long as anybody may still    *)
(* ask, and an order that is closed is never reopened.  The other two are  *)
(* about the books: the amount reserved of the payment and the units       *)
(* settled of each item are sums over the refunds that count.              *)
(***************************************************************************)
EXTENDS Refund, Sums, TLAPS

\* Of the rows of refunds only their states matter here.
RowsInv ==
    /\ status \in OrderStates
    /\ DOMAIN refund = Refunds
    /\ \A r \in Refunds : "state" \in DOMAIN refund[r] /\ refund[r].state \in RefundStates
    /\ call \in [Callers -> {Idle} \cup (Refunds \X Phases)]
    /\ wire \subseteq Refunds /\ old \subseteq Refunds
    /\ answer \in [Refunds -> {"none", "paid", "refused"}]
    /\ payouts \in [Refunds -> {0, 1}]

Asking(r) == r \in wire \/ \E c \in Callers : call[c] = <<r, "calling">>
Heard(r)  == \E c \in Callers : call[c] \in {<<r, "paid">>, <<r, "refused">>}

\* The answer tells what was paid, and a caller what was answered.
AnswerTells ==
    /\ \A r \in Refunds : /\ answer[r] = "paid" => payouts[r] = 1
                          /\ answer[r] = "refused" => payouts[r] = 0
    /\ \A c \in Callers, r \in Refunds : /\ call[c] = <<r, "paid">> => answer[r] = "paid"
                                         /\ call[c] = <<r, "refused">> => answer[r] = "refused"
\* A payment the gateway has forgotten is out of everybody's reach.
ForgottenIsOver ==
    \A r \in Refunds : payouts[r] = 1 /\ answer[r] = "none" =>
        r \in old /\ ~Asking(r) /\ ~Heard(r)
\* Whoever may still pay a refund finds it sent, or refused.
AskedIsSent ==
    \A r \in Refunds : Asking(r) =>
        refund[r].state \in {"approved", "completed"} \/ answer[r] = "refused"

GatewayInv == AnswerTells /\ ForgottenIsOver /\ AskedIsSent /\ PaidOnce
OrderInv   == RestockedOnce /\ RefundedIsFinal
RefundInv  == RowsInv /\ GatewayInv /\ OrderInv
-----------------------------------------------------------------------------
(* Statuses, rows and callers                                                *)

\* A closed order is never left, and only a close or a cancellation closes one.
LEMMA ClosedStays ==
    ASSUME NEW to, NEW actor
    PROVE  /\ ~CanTransition("Cancelled", to, actor) /\ ~CanTransition("Refunded", to, actor)
           /\ \A from : CanTransition(from, to, "A-506") \/ CanTransition(from, to, "P-510") =>
                  to \notin {"Cancelled", "Refunded"}
BY DEF CanTransition, transitions, Moves

\* A refund's state is written.
LEMMA StateWritten ==
    ASSUME RowsInv, NEW r \in Refunds, NEW x \in RefundStates, SetRefund(r, x)
    PROVE  /\ DOMAIN refund' = Refunds
           /\ \A q \in Refunds :
                 /\ "state" \in DOMAIN refund'[q]
                 /\ refund'[q].state = IF q = r THEN x ELSE refund[q].state
BY DEF RowsInv, SetRefund

\* A row is inserted under a request key nobody used.
LEMMA RowInserted ==
    ASSUME RowsInv, NEW r \in Refunds, NEW amount, NEW lines, NewRefund(r, amount, lines)
    PROVE  /\ DOMAIN refund' = Refunds /\ refund[r].state = "none"
           /\ \A q \in Refunds :
                 /\ "state" \in DOMAIN refund'[q]
                 /\ refund'[q].state = IF q = r THEN "requested" ELSE refund[q].state
BY DEF RowsInv, NewRefund, RefundKeyTaken, RefundStates

\* A caller goes on to another phase.
LEMMA CallerAt ==
    ASSUME RowsInv, NEW c \in Callers, NEW r \in Refunds, NEW x \in Phases,
           Go(c, r, x)
    PROVE  /\ call' \in [Callers -> {Idle} \cup (Refunds \X Phases)]
           /\ \A d \in Callers : call'[d] = IF d = c THEN <<r, x>> ELSE call[d]
BY DEF RowsInv, Go

\* A caller is done.
LEMMA CallerReturns ==
    ASSUME RowsInv, NEW c \in Callers, Return(c)
    PROVE  /\ call' \in [Callers -> {Idle} \cup (Refunds \X Phases)]
           /\ \A d \in Callers : call'[d] = IF d = c THEN <<>> ELSE call[d]
           /\ \A r, x : <<r, x>> # <<>>
BY DEF RowsInv, Return, Idle

-----------------------------------------------------------------------------
(* The order                                                                 *)

\* What keeps the order as it is, and reopens no refund of a closed one.
LEMMA OrderKept ==
    ASSUME OrderInv, UNCHANGED <<status, restocked, settled>>,
           status = "Refunded" => \A r \in Refunds :
               refund'[r].state \in {"none", "completed", "rejected"}
    PROVE  OrderInv'
BY DEF OrderInv, RestockedOnce, RefundedIsFinal

\* A close: nothing is open, and the stock comes back with a cancellation.
LEMMA OrderClosed ==
    ASSUME RowsInv, OrderInv, UNCHANGED refund, NEW actor, CloseOrder(actor)
    PROVE  status' \in OrderStates /\ OrderInv'
<1>1. PICK to \in CloseTargets(actor) :
        /\ moveOrder(to, actor)
        /\ IF to = "Cancelled" THEN restockOrder ELSE UNCHANGED restocked
        /\ SettleAllOrderItems
  BY DEF CloseOrder
<1>2. to \in {"Cancelled", "Refunded"} /\ ~OpenRefund /\ status' = to /\ CanTransition(status, to, actor)
  BY <1>1 DEF CloseTargets, moveOrder, MoveOrderStatus
<1>3. status # "Cancelled" /\ restocked = 0
  BY <1>2, ClosedStays DEF OrderInv, RestockedOnce
<1>4. RestockedOnce'
  BY <1>1, <1>2, <1>3 DEF RestockedOnce, restockOrder
<1>5. \A r \in Refunds : refund'[r].state \in {"none", "completed", "rejected"}
  BY <1>2 DEF OpenRefund, RowsInv, RefundStates
<1>6. RefundedIsFinal'
  BY <1>1, <1>5 DEF RefundedIsFinal, SettleAllOrderItems
<1> QED
  BY <1>2, <1>4, <1>6 DEF OrderInv, OrderStates

-----------------------------------------------------------------------------
(* The gateway's part: what depends on the states of refunds only            *)

\* A refund nobody has sent changes between none, requested and rejected.
LEMMA UnsentMoves ==
    ASSUME RowsInv, GatewayInv, NEW r \in Refunds,
           refund[r].state \in {"none", "requested"},
           \A q \in Refunds : q # r => refund'[q].state = refund[q].state,
           refund'[r].state \in {"requested", "rejected"},
           UNCHANGED <<call, pgVars, old>>
    PROVE  GatewayInv'
<1>1. payouts[r] = 0 /\ (Asking(r) => answer[r] = "refused")
  BY DEF GatewayInv, PaidOnce, AskedIsSent, RowsInv
<1>2. AnswerTells' /\ ForgottenIsOver'
  BY DEF GatewayInv, AnswerTells, ForgottenIsOver, Asking, Heard, pgVars
<1>3. AskedIsSent'
  BY <1>1 DEF GatewayInv, AskedIsSent, Asking, pgVars
<1>4. PaidOnce'
  BY <1>1 DEF GatewayInv, PaidOnce, pgVars
<1> QED
  BY <1>2, <1>3, <1>4 DEF GatewayInv

\* What leaves refunds, callers and the gateway alone leaves their agreement alone.
LEMMA GatewayKept ==
    ASSUME GatewayInv, UNCHANGED <<refund, call, pgVars, old>>
    PROVE  GatewayInv'
BY DEF GatewayInv, AnswerTells, ForgottenIsOver, AskedIsSent, PaidOnce, Asking, Heard, pgVars

-----------------------------------------------------------------------------
(* The order's own steps, requests, rejections and cancellations             *)

\* A-506 and P-510 close no order and leave no closed one.
LEMMA TransitionStep ==
    ASSUME RefundInv, NEW to \in OrderStates, NEW actor \in {"A-506", "P-510"},
           TransitionOrder(to, actor)
    PROVE  RefundInv'
<1>1. /\ CanTransition(status, to, actor) /\ status' = to
      /\ UNCHANGED <<restocked, bookVars, call, pgVars, old>>
  BY DEF TransitionOrder, moveOrder, MoveOrderStatus
<1>2. status # "Cancelled" /\ to \notin {"Cancelled", "Refunded"}
  BY <1>1, ClosedStays
<1>3. RowsInv'
  BY <1>1 DEF RefundInv, RowsInv, bookVars, pgVars
<1>4. GatewayInv'
  BY <1>1, GatewayKept DEF RefundInv, bookVars
<1>5. OrderInv'
  BY <1>1, <1>2 DEF RefundInv, OrderInv, RestockedOnce, RefundedIsFinal
<1> QED
  BY <1>3, <1>4, <1>5 DEF RefundInv

\* A closed order has no units left to ask for.
LEMMA RequestStep ==
    ASSUME RefundInv, NEW r \in Refunds, NEW lines \in Lines, RequestRefund(r, lines)
    PROVE  RefundInv'
<1>1. /\ UNCHANGED <<status, restocked, call, pgVars, old>>
      /\ \A i \in Items : lines[i] <= Quantity[i] - settled[i]
  BY DEF RequestRefund, LockOrderItemForRefund
<1>2. /\ DOMAIN refund' = Refunds /\ refund[r].state = "none"
      /\ \A q \in Refunds : /\ "state" \in DOMAIN refund'[q]
                            /\ refund'[q].state = IF q = r THEN "requested" ELSE refund[q].state
  BY RowInserted DEF RequestRefund, RefundInv
<1>3. RowsInv'
  BY <1>1, <1>2 DEF RefundInv, RowsInv, RefundStates, pgVars
<1>4. GatewayInv'
  BY <1>1, <1>2, UnsentMoves DEF RefundInv
<1>5. status # "Refunded"
  <2>1. SUFFICES ASSUME settled = Quantity PROVE FALSE
    BY DEF RefundInv, OrderInv, RefundedIsFinal
  <2>2. PICK m : lines \in [Items -> 0..m] /\ lines # NoLines
    BY DEF Lines
  <2>3. \A i \in Items : lines[i] \in Int /\ 0 <= lines[i] /\ Quantity[i] \in Int
    BY <2>2, RefundAssumption
  <2>4. \A i \in Items : lines[i] = 0
    BY <1>1, <2>1, <2>3
  <2>5. lines = NoLines
    BY <2>2, <2>4 DEF NoLines
  <2> QED
    BY <2>2, <2>5
<1>6. OrderInv'
  BY <1>1, <1>5 DEF RefundInv, OrderInv, RestockedOnce, RefundedIsFinal
<1> QED
  BY <1>3, <1>4, <1>6 DEF RefundInv

\* What may be rejected was not sent, and its order is not closed.
LEMMA RejectStep ==
    ASSUME RefundInv, NEW r \in Refunds, RejectRefund(r)
    PROVE  RefundInv'
<1>1. /\ UNCHANGED <<status, restocked, call, pgVars, old>>
      /\ refund[r].state = "requested" /\ SetRefund(r, "rejected")
  BY DEF RejectRefund
<1>2. /\ DOMAIN refund' = Refunds
      /\ \A q \in Refunds : /\ "state" \in DOMAIN refund'[q]
                            /\ refund'[q].state = IF q = r THEN "rejected" ELSE refund[q].state
  BY <1>1, StateWritten DEF RefundInv, RefundStates
<1>3. RowsInv'
  BY <1>1, <1>2 DEF RefundInv, RowsInv, RefundStates, pgVars
<1>4. GatewayInv'
  BY <1>1, <1>2, UnsentMoves DEF RefundInv
<1>5. status # "Refunded"
  BY <1>1 DEF RefundInv, OrderInv, RefundedIsFinal
<1>6. OrderInv'
  BY <1>1, <1>5 DEF RefundInv, OrderInv, RestockedOnce, RefundedIsFinal
<1> QED
  BY <1>3, <1>4, <1>6 DEF RefundInv

\* A cancellation brings the stock back and asks for what is left.
LEMMA CancelStep ==
    ASSUME RefundInv, NEW r \in Refunds, NEW actor, CancelOrder(r, actor)
    PROVE  RefundInv'
<1>1. /\ CanTransition(status, "Cancelled", actor) /\ status' = "Cancelled"
      /\ restocked' = restocked + 1 /\ UNCHANGED <<call, pgVars, old>>
  BY DEF CancelOrder, moveOrder, MoveOrderStatus, restockOrder
<1>2. status # "Cancelled"
  BY <1>1, ClosedStays
<1>3. OrderInv'
  BY <1>1, <1>2 DEF RefundInv, OrderInv, RestockedOnce, RefundedIsFinal
<1>4. RowsInv' /\ GatewayInv'
  <2>1. CASE UNCHANGED refund
    <3>1. RowsInv'
      BY <1>1, <2>1 DEF RefundInv, RowsInv, pgVars, OrderStates
    <3> QED
      BY <1>1, <2>1, <3>1, GatewayKept DEF RefundInv
  <2>2. CASE ~UNCHANGED refund
    <3>1. /\ DOMAIN refund' = Refunds /\ refund[r].state = "none"
          /\ \A q \in Refunds :
                /\ "state" \in DOMAIN refund'[q]
                /\ refund'[q].state = IF q = r THEN "requested" ELSE refund[q].state
      BY <2>2, RowInserted DEF CancelOrder, RefundInv
    <3>2. RowsInv'
      BY <1>1, <3>1 DEF RefundInv, RowsInv, RefundStates, pgVars, OrderStates
    <3> QED
      BY <1>1, <3>1, <3>2, UnsentMoves DEF RefundInv
  <2> QED
    BY <2>1, <2>2
<1> QED
  BY <1>3, <1>4 DEF RefundInv

\* A-507 closes the order.
LEMMA CloseStep == ASSUME RefundInv, CloseRefundedOrder PROVE RefundInv'
<1>1. UNCHANGED <<refunded, refund, call, pgVars, old>> /\ CloseOrder("A-507")
  BY DEF CloseRefundedOrder
<1>2. status' \in OrderStates /\ OrderInv'
  BY <1>1, OrderClosed DEF RefundInv
<1>3. RowsInv'
  BY <1>1, <1>2 DEF RefundInv, RowsInv, pgVars
<1> QED
  BY <1>1, <1>2, <1>3, GatewayKept DEF RefundInv

-----------------------------------------------------------------------------
(* Executing a refund, time and restarts                                     *)

\* Sending: r is requested, or approved and known to the gateway.
LEMMA ExecuteStep ==
    ASSUME RefundInv, NEW c \in Callers, NEW r \in Refunds, ExecuteRefund(c, r)
    PROVE  RefundInv'
<1>1. /\ UNCHANGED <<status, restocked, settled, pgVars, old>>
      /\ call[c] = Idle /\ SetRefund(r, "approved") /\ Go(c, r, "calling")
      /\ refund[r].state = "requested" \/ (refund[r].state = "approved" /\ r \notin old)
  BY DEF ExecuteRefund, MayExecute, LockRefundForExecute
<1>2. /\ DOMAIN refund' = Refunds
      /\ \A q \in Refunds : /\ "state" \in DOMAIN refund'[q]
                            /\ refund'[q].state = IF q = r THEN "approved" ELSE refund[q].state
  BY <1>1, StateWritten DEF RefundInv, RefundStates
<1>3. /\ call' \in [Callers -> {Idle} \cup (Refunds \X Phases)]
      /\ \A d \in Callers : call'[d] = IF d = c THEN <<r, "calling">> ELSE call[d]
  BY <1>1, CallerAt DEF RefundInv, Phases
<1>4. RowsInv'
  BY <1>1, <1>2, <1>3 DEF RefundInv, RowsInv, RefundStates, pgVars
<1>5. \A q \in Refunds : (Heard(q))' => Heard(q)
  BY <1>3 DEF Heard
<1>6. \A q \in Refunds : (Asking(q))' => q = r \/ Asking(q)
  BY <1>1, <1>3 DEF Asking, pgVars
<1>7. payouts[r] = 1 => answer[r] # "none"
  BY <1>1 DEF RefundInv, GatewayInv, ForgottenIsOver, PaidOnce
<1>8. AnswerTells'
  BY <1>1, <1>3 DEF RefundInv, GatewayInv, AnswerTells, pgVars
<1>9. ForgottenIsOver'
  BY <1>1, <1>5, <1>6, <1>7 DEF RefundInv, GatewayInv, ForgottenIsOver, pgVars
<1>10. AskedIsSent'
  BY <1>1, <1>2, <1>6 DEF RefundInv, GatewayInv, AskedIsSent, pgVars
<1>11. PaidOnce'
  BY <1>1, <1>2 DEF RefundInv, GatewayInv, PaidOnce, pgVars
<1>12. OrderInv'
  BY <1>1, <1>2 DEF RefundInv, OrderInv, RestockedOnce, RefundedIsFinal
<1> QED
  BY <1>4, <1>8, <1>9, <1>10, <1>11, <1>12 DEF RefundInv, GatewayInv

\* The gateway answers a call that somebody made, and only then.
LEMMA Answered ==
    ASSUME RefundInv, NEW r \in Refunds, Asking(r), NEW x \in {"paid", "refused"}, Answer(r, x)
    PROVE  /\ answer' = [answer EXCEPT ![r] = x]
           /\ payouts' \in [Refunds -> {0, 1}]
           /\ \A q \in Refunds :
                payouts'[q] = IF q # r THEN payouts[q] ELSE IF x = "paid" THEN 1 ELSE 0
           /\ x = "paid" => refund[r].state \in {"approved", "completed"}
           /\ x = "refused" => refund[r].state # "completed"
<1>1. /\ answer[r] \in {"none", "paid", "refused"} /\ payouts[r] \in {0, 1}
      /\ answer \in [Refunds -> {"none", "paid", "refused"}] /\ payouts \in [Refunds -> {0, 1}]
  BY DEF RefundInv, RowsInv
<1>2. CASE answer[r] = "none"
  <2>1. payouts[r] = 0
    BY <1>1, <1>2 DEF RefundInv, GatewayInv, ForgottenIsOver
  <2>2. /\ answer' = [answer EXCEPT ![r] = x]
        /\ payouts' = IF x = "paid" THEN [payouts EXCEPT ![r] = payouts[r] + 1] ELSE payouts
    BY <1>2 DEF Answer
  <2>3. /\ payouts' \in [Refunds -> {0, 1}]
        /\ \A q \in Refunds :
             payouts'[q] = IF q # r THEN payouts[q] ELSE IF x = "paid" THEN 1 ELSE 0
    <3>1. CASE x = "paid"
      BY <1>1, <2>1, <2>2, <3>1
    <3>2. CASE x # "paid"
      BY <1>1, <2>1, <2>2, <3>2
    <3> QED
      BY <3>1, <3>2
  <2>4. refund[r].state \in {"approved", "completed"} /\ refund[r].state # "completed"
    BY <1>2, <2>1 DEF RefundInv, GatewayInv, AskedIsSent, PaidOnce
  <2> QED
    BY <2>2, <2>3, <2>4
<1>3. CASE answer[r] # "none"
  <2>1. x = answer[r] /\ UNCHANGED <<answer, payouts>>
    BY <1>3 DEF Answer
  <2>2. payouts[r] = IF x = "paid" THEN 1 ELSE 0
    BY <2>1 DEF RefundInv, GatewayInv, AnswerTells
  <2>3. /\ x = "paid" => refund[r].state \in {"approved", "completed"}
        /\ x = "refused" => refund[r].state # "completed"
    BY <2>2 DEF RefundInv, GatewayInv, PaidOnce
  <2> QED
    BY <1>1, <2>1, <2>2, <2>3
<1> QED
  BY <1>2, <1>3

\* What an answer leaves true of the gateway's part.
LEMMA AnswerKeeps ==
    ASSUME RefundInv, NEW r \in Refunds, Asking(r), NEW x \in {"paid", "refused"}, Answer(r, x),
           UNCHANGED <<refund, old>>,
           \A q \in Refunds : (Asking(q))' => Asking(q),
           \A q \in Refunds : q # r /\ (Heard(q))' => Heard(q),
           \A c \in Callers : call'[c] # call[c] => \A q \in Refunds :
               /\ call'[c] = <<q, "paid">> => q = r /\ x = "paid"
               /\ call'[c] = <<q, "refused">> => q = r /\ x = "refused"
    PROVE  /\ answer' \in [Refunds -> {"none", "paid", "refused"}]
           /\ payouts' \in [Refunds -> {0, 1}]
           /\ GatewayInv'
<1>1. /\ answer' = [answer EXCEPT ![r] = x]
      /\ payouts' \in [Refunds -> {0, 1}]
      /\ \A q \in Refunds :
           payouts'[q] = IF q # r THEN payouts[q] ELSE IF x = "paid" THEN 1 ELSE 0
      /\ x = "paid" => refund[r].state \in {"approved", "completed"}
      /\ x = "refused" => refund[r].state # "completed"
  BY Answered
<1>2. /\ answer' \in [Refunds -> {"none", "paid", "refused"}]
      /\ payouts' \in [Refunds -> {0, 1}]
      /\ \A q \in Refunds : answer'[q] = IF q = r THEN x ELSE answer[q]
  BY <1>1 DEF RefundInv, RowsInv
<1>3. answer[r] \in {"none", x}
  BY DEF Answer, RefundInv, RowsInv
<1>4. AnswerTells'
  BY <1>1, <1>2, <1>3 DEF RefundInv, GatewayInv, AnswerTells
<1>5. ForgottenIsOver'
  BY <1>1, <1>2 DEF RefundInv, GatewayInv, ForgottenIsOver
<1>6. AskedIsSent'
  BY <1>1, <1>2 DEF RefundInv, GatewayInv, AskedIsSent
<1>7. PaidOnce'
  BY <1>1, <1>2 DEF RefundInv, GatewayInv, PaidOnce
<1> QED
  BY <1>2, <1>4, <1>5, <1>6, <1>7 DEF GatewayInv

\* The gateway answers a caller who waits.
LEMMA GatewayCancelStep ==
    ASSUME RefundInv, NEW c \in Callers, NEW r \in Refunds, GatewayCancel(c, r)
    PROVE  RefundInv'
<1>1. /\ call[c] = <<r, "calling">>
      /\ UNCHANGED <<status, restocked, bookVars, wire, old>>
  BY DEF GatewayCancel, Phase
<1>2. PICK x \in {"paid", "refused"} : Answer(r, x) /\ Go(c, r, x)
  BY DEF GatewayCancel
<1>3. /\ call' \in [Callers -> {Idle} \cup (Refunds \X Phases)]
      /\ \A d \in Callers : call'[d] = IF d = c THEN <<r, x>> ELSE call[d]
  <2>1. x \in Phases
    BY DEF Phases
  <2> QED
    BY <1>2, <2>1, CallerAt DEF RefundInv
<1>4. Asking(r)
  BY <1>1 DEF Asking
<1>5. \A q \in Refunds : (Asking(q))' => Asking(q)
  BY <1>1, <1>3 DEF Asking
<1>6. \A q \in Refunds : q # r /\ (Heard(q))' => Heard(q)
  BY <1>3 DEF Heard
<1>7. \A d \in Callers : call'[d] # call[d] => \A q \in Refunds :
          /\ call'[d] = <<q, "paid">> => q = r /\ x = "paid"
          /\ call'[d] = <<q, "refused">> => q = r /\ x = "refused"
  BY <1>3
<1>8. /\ answer' \in [Refunds -> {"none", "paid", "refused"}]
      /\ payouts' \in [Refunds -> {0, 1}]
      /\ GatewayInv'
  BY <1>1, <1>2, <1>4, <1>5, <1>6, <1>7, AnswerKeeps DEF bookVars
<1>9. RowsInv'
  BY <1>1, <1>3, <1>8 DEF RefundInv, RowsInv, bookVars
<1>10. OrderInv'
  BY <1>1 DEF RefundInv, OrderInv, RestockedOnce, RefundedIsFinal, bookVars
<1> QED
  BY <1>8, <1>9, <1>10 DEF RefundInv

\* The gateway handles a call nobody waits for, or the call is lost.
LEMMA GatewayCancelLateStep ==
    ASSUME RefundInv, NEW r \in Refunds, GatewayCancelLate(r)
    PROVE  RefundInv'
<1>1. /\ r \in wire /\ wire' = wire \ {r}
      /\ UNCHANGED <<status, restocked, bookVars, call, old>>
  BY DEF GatewayCancelLate
<1>2. Asking(r) /\ \A q \in Refunds : /\ (Asking(q))' => Asking(q)
                                      /\ (Heard(q))' => Heard(q)
  BY <1>1 DEF Asking, Heard
<1>3. /\ answer' \in [Refunds -> {"none", "paid", "refused"}]
      /\ payouts' \in [Refunds -> {0, 1}]
      /\ GatewayInv'
  <2>1. CASE UNCHANGED <<answer, payouts>>
    <3>1. AnswerTells' /\ PaidOnce'
      BY <1>1, <2>1 DEF RefundInv, GatewayInv, AnswerTells, PaidOnce, bookVars
    <3>2. ForgottenIsOver' /\ AskedIsSent'
      BY <1>1, <1>2, <2>1 DEF RefundInv, GatewayInv, ForgottenIsOver, AskedIsSent, bookVars
    <3> QED
      BY <2>1, <3>1, <3>2 DEF GatewayInv, RefundInv, RowsInv
  <2>2. CASE \E x \in {"paid", "refused"} : Answer(r, x)
    <3>1. PICK x \in {"paid", "refused"} : Answer(r, x)
      BY <2>2
    <3> QED
      BY <1>1, <1>2, <3>1, AnswerKeeps DEF bookVars
  <2> QED
    BY <2>1, <2>2 DEF GatewayCancelLate
<1>4. RowsInv'
  BY <1>1, <1>3 DEF RefundInv, RowsInv, bookVars
<1>5. OrderInv'
  BY <1>1 DEF RefundInv, OrderInv, RestockedOnce, RefundedIsFinal, bookVars
<1> QED
  BY <1>3, <1>4, <1>5 DEF RefundInv

\* Whoever gives up or is cut off leaves at most a call that was on its way.
LEMMA CallersGone ==
    ASSUME RefundInv, call' \in [Callers -> {Idle} \cup (Refunds \X Phases)],
           \A c \in Callers, r \in Refunds, x \in {"calling", "paid", "refused"} :
               call'[c] = <<r, x>> => call[c] = <<r, x>>,
           wire' \subseteq Refunds,
           \A r \in wire' : r \in wire \/ \E c \in Callers : call[c] = <<r, "calling">>,
           UNCHANGED <<status, restocked, bookVars, answer, payouts, old>>
    PROVE  RefundInv'
<1>1. RowsInv'
  BY DEF RefundInv, RowsInv, bookVars
<1>2. \A r \in Refunds : /\ (Asking(r))' => Asking(r)
                         /\ (Heard(r))' => Heard(r)
  BY DEF Asking, Heard
<1>3. AnswerTells' /\ PaidOnce'
  BY DEF RefundInv, GatewayInv, AnswerTells, PaidOnce, bookVars
<1>4. ForgottenIsOver' /\ AskedIsSent'
  BY <1>2 DEF RefundInv, GatewayInv, ForgottenIsOver, AskedIsSent, bookVars
<1>5. OrderInv'
  BY DEF RefundInv, OrderInv, RestockedOnce, RefundedIsFinal, bookVars
<1> QED
  BY <1>1, <1>3, <1>4, <1>5 DEF RefundInv, GatewayInv

\* A refund that is complete is not sent.
LEMMA ExecuteCompletedStep ==
    ASSUME RefundInv, NEW c \in Callers, NEW r \in Refunds, ExecuteCompleted(c, r)
    PROVE  RefundInv'
<1>1. /\ call' \in [Callers -> {Idle} \cup (Refunds \X Phases)]
      /\ \A d \in Callers : call'[d] = IF d = c THEN <<r, "closing">> ELSE call[d]
  BY CallerAt DEF RefundInv, Phases, ExecuteCompleted
<1> QED
  BY <1>1, CallersGone DEF ExecuteCompleted, pgVars, RefundInv, RowsInv

\* A call without an answer stays on the wire.
LEMMA ExecuteTimeoutStep ==
    ASSUME RefundInv, NEW c \in Callers, NEW r \in Refunds, ExecuteTimeout(c, r)
    PROVE  RefundInv'
<1>1. /\ call' \in [Callers -> {Idle} \cup (Refunds \X Phases)]
      /\ \A d \in Callers : call'[d] = IF d = c THEN <<>> ELSE call[d]
      /\ \A q, x : <<q, x>> # <<>>
  BY CallerReturns DEF RefundInv, ExecuteTimeout
<1> QED
  BY <1>1, CallersGone DEF ExecuteTimeout, Phase, RefundInv, RowsInv

\* An error after the answer leaves the refund as it is.
LEMMA ExecuteErrorStep ==
    ASSUME RefundInv, NEW c \in Callers, ExecuteError(c)
    PROVE  RefundInv'
<1>1. /\ call' \in [Callers -> {Idle} \cup (Refunds \X Phases)]
      /\ \A d \in Callers : call'[d] = IF d = c THEN <<>> ELSE call[d]
      /\ \A q, x : <<q, x>> # <<>>
  BY CallerReturns DEF RefundInv, ExecuteError
<1> QED
  BY <1>1, CallersGone DEF ExecuteError, pgVars, RefundInv, RowsInv

\* A restart leaves every call on the wire.
LEMMA CrashStep ==
    ASSUME RefundInv, Crash
    PROVE  RefundInv'
<1>1. /\ call' \in [Callers -> {Idle} \cup (Refunds \X Phases)]
      /\ \A c \in Callers : call'[c] = <<>>
      /\ \A q, x : <<q, x>> # <<>>
  BY DEF Crash, Idle
<1>2. wire' = wire \cup {r \in Refunds : \E c \in Callers : call[c] = <<r, "calling">>}
  BY DEF Crash, Phase
<1> QED
  BY <1>1, <1>2, CallersGone DEF Crash, RefundInv, RowsInv

\* A refused refund can be rejected again: the gateway paid nothing.
LEMMA ExecuteRevertStep ==
    ASSUME RefundInv, NEW c \in Callers, NEW r \in Refunds, ExecuteRevert(c, r)
    PROVE  RefundInv'
<1>1. /\ UNCHANGED <<status, restocked, settled, pgVars, old>>
      /\ call[c] = <<r, "refused">> /\ RevertRefundToRequested(r)
  BY DEF ExecuteRevert, Phase
<1>2. /\ call' \in [Callers -> {Idle} \cup (Refunds \X Phases)]
      /\ \A d \in Callers : call'[d] = IF d = c THEN <<>> ELSE call[d]
      /\ \A q, x : <<q, x>> # <<>>
  BY CallerReturns DEF RefundInv, ExecuteRevert
<1>3. answer[r] = "refused" /\ payouts[r] = 0
  BY <1>1 DEF RefundInv, GatewayInv, AnswerTells
<1>4. /\ DOMAIN refund' = Refunds
      /\ \A q \in Refunds : "state" \in DOMAIN refund'[q]
      /\ \A q \in Refunds : q # r => refund'[q].state = refund[q].state
      /\ refund'[r].state =
           IF refund[r].state = "approved" THEN "requested" ELSE refund[r].state
  <2>1. CASE refund[r].state = "approved"
    BY <1>1, <2>1, StateWritten DEF RevertRefundToRequested, RefundInv, RefundStates
  <2>2. CASE refund[r].state # "approved"
    BY <1>1, <2>2 DEF RevertRefundToRequested, RefundInv, RowsInv
  <2> QED
    BY <2>1, <2>2
<1>5. RowsInv'
  BY <1>1, <1>2, <1>4 DEF RefundInv, RowsInv, RefundStates, pgVars
<1>6. \A q \in Refunds : /\ (Asking(q))' => Asking(q)
                         /\ (Heard(q))' => Heard(q)
  BY <1>1, <1>2 DEF Asking, Heard, pgVars
<1>7. AnswerTells'
  BY <1>1, <1>2 DEF RefundInv, GatewayInv, AnswerTells, pgVars
<1>8. ForgottenIsOver'
  BY <1>1, <1>6 DEF RefundInv, GatewayInv, ForgottenIsOver, pgVars
<1>9. AskedIsSent'
  BY <1>1, <1>3, <1>4, <1>6 DEF RefundInv, GatewayInv, AskedIsSent, pgVars
<1>10. PaidOnce'
  BY <1>1, <1>3, <1>4 DEF RefundInv, GatewayInv, PaidOnce, pgVars
<1>11. OrderInv'
  BY <1>1, <1>4 DEF RefundInv, OrderInv, RestockedOnce, RefundedIsFinal
<1> QED
  BY <1>5, <1>7, <1>8, <1>9, <1>10, <1>11 DEF RefundInv, GatewayInv

\* A refund is complete when the gateway said it was paid.
LEMMA CompleteRefundStep ==
    ASSUME RefundInv, NEW c \in Callers, NEW r \in Refunds, CompleteRefund(c, r)
    PROVE  RefundInv'
<1>1. /\ UNCHANGED <<status, restocked, settled, pgVars, old>>
      /\ call[c] = <<r, "paid">> /\ refund[r].state = "approved" /\ SetRefund(r, "completed")
  BY DEF CompleteRefund, Phase, CompleteRefundRow
<1>2. /\ call' \in [Callers -> {Idle} \cup (Refunds \X Phases)]
      /\ \A d \in Callers : call'[d] = IF d = c THEN <<r, "closing">> ELSE call[d]
  BY CallerAt DEF RefundInv, CompleteRefund, Phases
<1>3. payouts[r] = 1
  BY <1>1 DEF RefundInv, GatewayInv, AnswerTells
<1>4. /\ DOMAIN refund' = Refunds
      /\ \A q \in Refunds : /\ "state" \in DOMAIN refund'[q]
                            /\ refund'[q].state = IF q = r THEN "completed" ELSE refund[q].state
  BY <1>1, StateWritten DEF RefundInv, RefundStates
<1>5. RowsInv'
  BY <1>1, <1>2, <1>4 DEF RefundInv, RowsInv, RefundStates, pgVars
<1>6. \A q \in Refunds : /\ (Asking(q))' => Asking(q)
                         /\ (Heard(q))' => Heard(q)
  BY <1>1, <1>2 DEF Asking, Heard, pgVars
<1>7. AnswerTells'
  BY <1>1, <1>2 DEF RefundInv, GatewayInv, AnswerTells, pgVars
<1>8. ForgottenIsOver'
  BY <1>1, <1>6 DEF RefundInv, GatewayInv, ForgottenIsOver, pgVars
<1>9. AskedIsSent'
  BY <1>1, <1>4, <1>6 DEF RefundInv, GatewayInv, AskedIsSent, pgVars
<1>10. PaidOnce'
  BY <1>1, <1>3, <1>4 DEF RefundInv, GatewayInv, PaidOnce, pgVars
<1>11. OrderInv'
  BY <1>1, <1>4 DEF RefundInv, OrderInv, RestockedOnce, RefundedIsFinal
<1> QED
  BY <1>5, <1>7, <1>8, <1>9, <1>10, <1>11 DEF RefundInv, GatewayInv

\* The caller that completed the last refund closes the order.
LEMMA ExecuteCloseStep ==
    ASSUME RefundInv, NEW c \in Callers, NEW r \in Refunds, NEW actor,
           ExecuteClose(c, r, actor)
    PROVE  RefundInv'
<1>1. UNCHANGED <<refund, pgVars, old>> /\ CloseOrder(actor)
  BY DEF ExecuteClose
<1>2. /\ call' \in [Callers -> {Idle} \cup (Refunds \X Phases)]
      /\ \A d \in Callers : call'[d] = IF d = c THEN <<>> ELSE call[d]
      /\ \A q, x : <<q, x>> # <<>>
  BY CallerReturns DEF RefundInv, ExecuteClose
<1>3. status' \in OrderStates /\ OrderInv'
  BY <1>1, OrderClosed DEF RefundInv
<1>4. RowsInv'
  BY <1>1, <1>2, <1>3 DEF RefundInv, RowsInv, pgVars
<1>5. \A q \in Refunds : /\ (Asking(q))' => Asking(q)
                         /\ (Heard(q))' => Heard(q)
  BY <1>1, <1>2 DEF Asking, Heard, pgVars
<1>6. AnswerTells' /\ PaidOnce'
  BY <1>1, <1>2 DEF RefundInv, GatewayInv, AnswerTells, PaidOnce, pgVars
<1>7. ForgottenIsOver' /\ AskedIsSent'
  BY <1>1, <1>5 DEF RefundInv, GatewayInv, ForgottenIsOver, AskedIsSent, pgVars
<1> QED
  BY <1>3, <1>4, <1>6, <1>7 DEF RefundInv, GatewayInv

\* An unknown refund grows too old to be sent again.
LEMMA WindowStep ==
    ASSUME RefundInv, NEW r \in Refunds, PassRetryWindow(r)
    PROVE  RefundInv'
<1>1. /\ old' = old \cup {r} /\ UNCHANGED <<status, restocked, bookVars, call, pgVars>>
  BY DEF PassRetryWindow
<1>2. RowsInv' /\ OrderInv'
  BY <1>1 DEF RefundInv, RowsInv, OrderInv, RestockedOnce, RefundedIsFinal, bookVars, pgVars
<1>3. GatewayInv'
  BY <1>1 DEF RefundInv, GatewayInv, AnswerTells, ForgottenIsOver, AskedIsSent, PaidOnce,
              Asking, Heard, bookVars, pgVars
<1> QED
  BY <1>2, <1>3 DEF RefundInv

\* Nobody waits for, or holds, an answer the gateway forgets.
LEMMA ForgetStep ==
    ASSUME RefundInv, NEW r \in Refunds, GatewayForget(r)
    PROVE  RefundInv'
<1>1. /\ r \in old /\ r \notin wire
      /\ answer' = [answer EXCEPT ![r] = "none"]
      /\ UNCHANGED <<status, restocked, bookVars, call, wire, payouts, old>>
  BY DEF GatewayForget
<1>2. \A c \in Callers, x \in Phases : call[c] # <<r, x>>
  BY DEF GatewayForget
<1>3. ~Asking(r) /\ ~Heard(r)
  BY <1>1, <1>2 DEF Asking, Heard, Phases
<1>4. RowsInv' /\ OrderInv'
  BY <1>1 DEF RefundInv, RowsInv, OrderInv, RestockedOnce, RefundedIsFinal, bookVars
<1>5. \A q \in Refunds : answer'[q] = IF q = r THEN "none" ELSE answer[q]
  BY <1>1 DEF RefundInv, RowsInv
<1>6. \A q \in Refunds : ((Asking(q))' <=> Asking(q)) /\ ((Heard(q))' <=> Heard(q))
  BY <1>1 DEF Asking, Heard
<1>7. AnswerTells'
  BY <1>1, <1>3, <1>5 DEF RefundInv, GatewayInv, AnswerTells, Heard
<1>8. ForgottenIsOver'
  BY <1>1, <1>3, <1>5, <1>6 DEF RefundInv, GatewayInv, ForgottenIsOver
<1>9. AskedIsSent'
  BY <1>1, <1>3, <1>5, <1>6 DEF RefundInv, GatewayInv, AskedIsSent, bookVars
<1>10. PaidOnce'
  BY <1>1 DEF RefundInv, GatewayInv, PaidOnce, bookVars
<1> QED
  BY <1>4, <1>7, <1>8, <1>9, <1>10 DEF RefundInv, GatewayInv

-----------------------------------------------------------------------------
(* The invariant and what it implies                                         *)

\* The paid order everything begins with.
LEMMA RefundInit == Init => RefundInv
<1> SUFFICES ASSUME Init PROVE RefundInv
  OBVIOUS
<1>1. RowsInv
  BY DEF Init, RowsInv, NoRefund, OrderStates, RefundStates
<1>2. \A c \in Callers : \A q, x : call[c] # <<q, x>>
  BY DEF Init, Idle
<1>3. GatewayInv
  BY <1>2 DEF Init, GatewayInv, AnswerTells, ForgottenIsOver, AskedIsSent, PaidOnce, Asking, Heard,
              NoRefund
<1>4. OrderInv
  BY DEF Init, OrderInv, RestockedOnce, RefundedIsFinal
<1> QED
  BY <1>1, <1>3, <1>4 DEF RefundInv

\* Every step keeps the invariant.
LEMMA RefundStep ==
    ASSUME RefundInv, [Next]_vars
    PROVE  RefundInv'
<1>1. CASE OrderTransition \/ orderConfirm
  BY <1>1, TransitionStep DEF OrderTransition, orderConfirm, OrderStates
<1>2. CASE refundRequest
  BY <1>2, RequestStep DEF refundRequest
<1>3. CASE orderCancel \/ RefundSave
  BY <1>3, RejectStep, CancelStep, CloseStep DEF orderCancel, RefundSave
<1>4. CASE Execute
  <2>1. PICK c \in Callers :
          \/ ExecuteError(c)
          \/ \E r \in Refunds :
                \/ ExecuteRefund(c, r) \/ ExecuteCompleted(c, r) \/ ExecuteTimeout(c, r)
                \/ ExecuteRevert(c, r) \/ CompleteRefund(c, r) \/ GatewayCancel(c, r)
                \/ \E actor \in {"P-506", "A-507"} : ExecuteClose(c, r, actor)
    BY <1>4 DEF Execute
  <2>2. CASE ExecuteError(c)
    BY <2>2, ExecuteErrorStep
  <2>3. CASE ~ExecuteError(c)
    <3>1. PICK r \in Refunds :
             \/ ExecuteRefund(c, r) \/ ExecuteCompleted(c, r) \/ ExecuteTimeout(c, r)
             \/ ExecuteRevert(c, r) \/ CompleteRefund(c, r) \/ GatewayCancel(c, r)
             \/ \E actor \in {"P-506", "A-507"} : ExecuteClose(c, r, actor)
      BY <2>1, <2>3
    <3> QED
      BY <3>1, ExecuteStep, ExecuteCompletedStep, ExecuteTimeoutStep, ExecuteRevertStep,
         CompleteRefundStep, GatewayCancelStep, ExecuteCloseStep
  <2> QED
    BY <2>2, <2>3
<1>5. CASE Time
  BY <1>5, GatewayCancelLateStep, WindowStep, ForgetStep DEF Time
<1>6. CASE Crash
  BY <1>6, CrashStep
<1>7. CASE UNCHANGED vars
  <2>1. UNCHANGED <<status, restocked, settled, refund, call, wire, answer, payouts, old>>
    BY <1>7 DEF vars, bookVars, pgVars
  <2>2. RowsInv' /\ OrderInv'
    BY <2>1 DEF RefundInv, RowsInv, OrderInv, RestockedOnce, RefundedIsFinal
  <2> QED
    BY <2>1, <2>2, GatewayKept DEF RefundInv, pgVars
<1> QED
  BY <1>1, <1>2, <1>3, <1>4, <1>5, <1>6, <1>7 DEF Next

\* What the gateway answered, what callers heard and what the rows say agree in
\* every reachable state.
THEOREM RefundInductive == Spec => []RefundInv
<1>1. RefundInv /\ [Next]_vars => RefundInv'
  BY RefundStep
<1> QED
  BY RefundInit, <1>1, PTL DEF Spec

\* A refund is paid once, whoever sends it and however often, and never after
\* its reservation was given back (executeRefund, executeAndSettle).
THEOREM PaidOnceSafe == Spec => []PaidOnce
<1>1. RefundInv => PaidOnce
  BY DEF RefundInv, GatewayInv
<1> QED
  BY RefundInductive, <1>1, PTL

\* The stock of a cancelled order comes back once, whichever of its three ways
\* it was cancelled by (CancelOrder, closeRefundedOrder).
THEOREM RestockedOnceSafe == Spec => []RestockedOnce
<1>1. RefundInv => RestockedOnce
  BY DEF RefundInv, OrderInv
<1> QED
  BY RefundInductive, <1>1, PTL

\* Nothing is open, or can be opened, on an order closed as refunded
\* (refundCloseTarget, RequestRefund).
THEOREM RefundedIsFinalSafe == Spec => []RefundedIsFinal
<1>1. RefundInv => RefundedIsFinal
  BY DEF RefundInv, OrderInv
<1> QED
  BY RefundInductive, <1>1, PTL

-----------------------------------------------------------------------------
(* The books: reservations and units as sums over the refunds not rejected   *)

Reserved    == SumFunctionOnSet([r \in Refunds |-> refund[r].amount], Live)
UnitsOf(i)  == SumFunctionOnSet([r \in Refunds |-> refund[r].lines[i]], Live)
RefundRows  == [Refunds -> [state : RefundStates, amount : Nat, lines : Lines \cup {NoLines}]]
Books ==
    /\ \A i \in Items : settled[i] \in 0..Quantity[i]
    /\ refunded \in 0..Approved
    /\ refund \in RefundRows
    /\ crashes \in 0..MaxCrashes
    /\ refunded = Reserved
    /\ \A i \in Items : UnitsOf(i) <= settled[i]

\* What every order costs is a number, and lines are counts of units.
LEMMA Numbers ==
    /\ Approved \in Nat
    /\ \A l \in Lines \cup {NoLines}, i \in Items : l[i] \in Nat
    /\ \A i \in Items : NoLines[i] = 0 /\ Quantity[i] \in Nat
<1>1. SumFunctionOnSet(Net, Items) \in Nat
  BY RefundAssumption, SumNat
<1>2. ASSUME NEW l \in Lines, NEW i \in Items PROVE l[i] \in Nat
  <2>1. PICK m : l \in [Items -> 0..m]
    BY DEF Lines
  <2> QED
    BY <2>1
<1> QED
  BY <1>1, <1>2, RefundAssumption DEF Approved, NoLines

\* One refund changes the sums by what it brings, takes away or alters.
LEMMA OneRefundChanges ==
    ASSUME Books, NEW r \in Refunds, refund' \in RefundRows,
           \A q \in Refunds : q # r => refund'[q] = refund[q]
    PROVE  /\ Reserved \in Nat /\ Reserved' \in Int
           /\ Reserved' - (IF r \in Live' THEN refund'[r].amount ELSE 0)
                = Reserved - (IF r \in Live THEN refund[r].amount ELSE 0)
           /\ r \in Live => refund[r].amount <= Reserved
           /\ \A i \in Items :
                /\ UnitsOf(i) \in Nat /\ UnitsOf(i)' \in Int
                /\ UnitsOf(i)' - (IF r \in Live' THEN refund'[r].lines[i] ELSE 0)
                     = UnitsOf(i) - (IF r \in Live THEN refund[r].lines[i] ELSE 0)
                /\ r \in Live => refund[r].lines[i] <= UnitsOf(i)
<1>1. /\ IsFiniteSet(Live) /\ Live \subseteq Refunds /\ Live' \subseteq Refunds
      /\ \A q : q # r => (q \in Live <=> q \in Live')
  BY RefundAssumption, FS_Subset DEF Live
<1>2. \A q \in Refunds : refund[q].amount \in Nat /\ refund'[q].amount \in Nat
  BY DEF Books, RefundRows
<1>3. \A q \in Refunds, i \in Items : refund[q].lines[i] \in Nat /\ refund'[q].lines[i] \in Nat
  BY Numbers DEF Books, RefundRows
<1>4. /\ Reserved \in Nat /\ Reserved' \in Int
      /\ Reserved' - (IF r \in Live' THEN refund'[r].amount ELSE 0)
                = Reserved - (IF r \in Live THEN refund[r].amount ELSE 0)
      /\ r \in Live => refund[r].amount <= Reserved
  <2> DEFINE f == [q \in Refunds |-> refund[q].amount]
             h == [q \in Refunds |-> refund'[q].amount]
  <2>1. /\ \A q \in Refunds : f[q] \in Nat /\ h[q] \in Nat /\ (q # r => f[q] = h[q])
        /\ f[r] = refund[r].amount /\ h[r] = refund'[r].amount
    BY <1>2
  <2>2. Reserved = SumFunctionOnSet(f, Live) /\ Reserved' = SumFunctionOnSet(h, Live')
    BY DEF Reserved
  <2> HIDE DEF f, h
  <2>3. /\ \A q \in Live : f[q] \in Int /\ f[q] \in Nat
        /\ \A q \in Live' : h[q] \in Int
        /\ \A q \in Live : q # r => f[q] = h[q]
    BY <1>1, <2>1
  <2>4. /\ SumFunctionOnSet(f, Live) \in Int /\ SumFunctionOnSet(h, Live') \in Int
        /\ SumFunctionOnSet(h, Live') - (IF r \in Live' THEN h[r] ELSE 0)
             = SumFunctionOnSet(f, Live) - (IF r \in Live THEN f[r] ELSE 0)
    BY <1>1, <2>3, SumChange, SMTT(30)
  <2>5. SumFunctionOnSet(f, Live) \in Nat /\ (r \in Live => f[r] <= SumFunctionOnSet(f, Live))
    BY <1>1, <2>3, SumNat
  <2> QED
    BY <2>1, <2>2, <2>4, <2>5
<1>5. ASSUME NEW i \in Items
      PROVE  /\ UnitsOf(i) \in Nat /\ UnitsOf(i)' \in Int
             /\ UnitsOf(i)' - (IF r \in Live' THEN refund'[r].lines[i] ELSE 0)
                  = UnitsOf(i) - (IF r \in Live THEN refund[r].lines[i] ELSE 0)
             /\ r \in Live => refund[r].lines[i] <= UnitsOf(i)
  <2> DEFINE f == [q \in Refunds |-> refund[q].lines[i]]
             h == [q \in Refunds |-> refund'[q].lines[i]]
  <2>1. /\ \A q \in Refunds : f[q] \in Nat /\ h[q] \in Nat /\ (q # r => f[q] = h[q])
        /\ f[r] = refund[r].lines[i] /\ h[r] = refund'[r].lines[i]
    BY <1>3
  <2>2. UnitsOf(i) = SumFunctionOnSet(f, Live) /\ UnitsOf(i)' = SumFunctionOnSet(h, Live')
    BY DEF UnitsOf
  <2> HIDE DEF f, h
  <2>3. /\ \A q \in Live : f[q] \in Int /\ f[q] \in Nat
        /\ \A q \in Live' : h[q] \in Int
        /\ \A q \in Live : q # r => f[q] = h[q]
    BY <1>1, <2>1
  <2>4. /\ SumFunctionOnSet(f, Live) \in Int /\ SumFunctionOnSet(h, Live') \in Int
        /\ SumFunctionOnSet(h, Live') - (IF r \in Live' THEN h[r] ELSE 0)
             = SumFunctionOnSet(f, Live) - (IF r \in Live THEN f[r] ELSE 0)
    BY <1>1, <2>3, SumChange
  <2>5. SumFunctionOnSet(f, Live) \in Nat /\ (r \in Live => f[r] <= SumFunctionOnSet(f, Live))
    BY <1>1, <2>3, SumNat
  <2> QED
    BY <2>1, <2>2, <2>4, <2>5
<1> QED
  BY <1>4, <1>5

\* Steps of the order, the gateway, time and restarts leave the books alone.
LEMMA BooksKept ==
    ASSUME Books, UNCHANGED bookVars, crashes' \in 0..MaxCrashes
    PROVE  Books'
BY DEF Books, Reserved, UnitsOf, Live, bookVars, RefundRows

\* A refund that is sent, refused or complete stays live.
LEMMA BooksSent ==
    ASSUME Books, NEW r \in Refunds, NEW x \in {"requested", "approved", "completed"},
           r \in Live, SetRefund(r, x), UNCHANGED <<settled, refunded, crashes>>
    PROVE  Books'
<1>1. /\ refund' \in RefundRows
      /\ \A q \in Refunds : q # r => refund'[q] = refund[q]
      /\ refund'[r].amount = refund[r].amount /\ refund'[r].lines = refund[r].lines
      /\ r \in Live'
  BY DEF Books, RefundRows, SetRefund, RefundStates, Live
<1>2. Reserved' = Reserved /\ \A i \in Items : UnitsOf(i)' = UnitsOf(i)
  <2>1. refund[r].amount \in Nat /\ \A i \in Items : refund[r].lines[i] \in Nat
    BY Numbers DEF Books, RefundRows
  <2> QED
    BY <1>1, <2>1, OneRefundChanges
<1> QED
  BY <1>1, <1>2 DEF Books

\* A close settles whatever is left.
LEMMA BooksClosed ==
    ASSUME Books, SettleAllOrderItems, UNCHANGED <<refunded, refund, crashes>>
    PROVE  Books'
<1>1. Reserved' = Reserved /\ \A i \in Items : UnitsOf(i)' = UnitsOf(i)
  BY DEF Reserved, UnitsOf, Live
<1>2. \A i \in Items : UnitsOf(i) \in Int
  <2> SUFFICES ASSUME NEW i \in Items PROVE UnitsOf(i) \in Int
    OBVIOUS
  <2>1. IsFiniteSet(Live) /\ Live \subseteq Refunds
    BY RefundAssumption, FS_Subset DEF Live
  <2> DEFINE f == [q \in Refunds |-> refund[q].lines[i]]
  <2>2. \A q \in Live : f[q] \in Int
    BY <2>1, Numbers DEF Books, RefundRows
  <2> QED
    BY <2>1, <2>2, SumInt DEF UnitsOf
<1>3. \A i \in Items : UnitsOf(i)' <= settled'[i] /\ settled'[i] \in 0..Quantity[i]
  BY <1>1, <1>2, Numbers DEF Books, SettleAllOrderItems
<1> QED
  BY <1>1, <1>3 DEF Books

\* A request reserves its share and takes its units.
LEMMA BooksRequested ==
    ASSUME Books, NEW r \in Refunds, NEW lines \in Lines, RequestRefund(r, lines)
    PROVE  Books'
<1>1. PICK amount : /\ amount > 0 /\ ReserveRefundAmount(amount) /\ NewRefund(r, amount, lines)
                    /\ amount \in Int
  <2> DEFINE f == [i \in Items |-> RefundableAmount(Net[i], Quantity[i], settled[i], lines[i])]
  <2>1. \A i \in Items : f[i] \in Int
    BY Numbers, RefundAssumption DEF Books, RefundableAmount, share
  <2>2. SumFunctionOnSet(f, Items) \in Int
    <3> HIDE DEF f
    <3> QED
      BY <2>1, RefundAssumption, SumInt
  <2>3. SumFunction(f) = SumFunctionOnSet(f, Items)
    BY DEF SumFunction
  <2> QED
    BY <2>2, <2>3 DEF RequestRefund
<1>2. /\ settled' = [i \in Items |-> settled[i] + lines[i]] /\ UNCHANGED crashes
      /\ \A i \in Items : lines[i] <= Quantity[i] - settled[i]
  BY DEF RequestRefund, SettleOrderItem, LockOrderItemForRefund
<1>3. /\ refund' \in RefundRows /\ refund[r].state = "none"
      /\ \A q \in Refunds : q # r => refund'[q] = refund[q]
      /\ refund'[r] = [state |-> "requested", amount |-> amount, lines |-> lines]
  BY <1>1 DEF NewRefund, RefundKeyTaken, Books, RefundRows, RefundStates
<1>4. r \notin Live /\ r \in Live'
  BY <1>3 DEF Live
<1>5. Reserved' = Reserved + amount
  BY <1>1, <1>3, <1>4, OneRefundChanges
<1>6. \A i \in Items : UnitsOf(i)' = UnitsOf(i) + lines[i] /\ UnitsOf(i) \in Nat
  BY <1>3, <1>4, OneRefundChanges, Numbers
<1>7. refunded' = Reserved' /\ refunded' \in 0..Approved
  BY <1>1, <1>5, Numbers DEF Books, ReserveRefundAmount
<1>8. \A i \in Items : settled'[i] \in 0..Quantity[i] /\ UnitsOf(i)' <= settled'[i]
  BY <1>2, <1>6, Numbers DEF Books
<1> QED
  BY <1>2, <1>3, <1>7, <1>8 DEF Books

\* A rejection gives back what the request took, and no more.
LEMMA BooksRejected ==
    ASSUME Books, NEW r \in Refunds, RejectRefund(r)
    PROVE  Books'
<1>1. /\ refund' \in RefundRows /\ refund[r].state = "requested"
      /\ \A q \in Refunds : q # r => refund'[q] = refund[q]
      /\ refund'[r].state = "rejected"
  BY DEF RejectRefund, SetRefund, Books, RefundRows, RefundStates
<1>2. r \in Live /\ r \notin Live'
  BY <1>1 DEF Live
<1>3. refund[r].amount \in Nat /\ \A i \in Items : refund[r].lines[i] \in Nat
  BY Numbers DEF Books, RefundRows
<1>4. Reserved' = Reserved - refund[r].amount /\ refund[r].amount <= Reserved
  BY <1>1, <1>2, OneRefundChanges
<1>5. \A i \in Items : /\ UnitsOf(i)' = UnitsOf(i) - refund[r].lines[i]
                       /\ refund[r].lines[i] <= UnitsOf(i) /\ UnitsOf(i) \in Nat
  BY <1>1, <1>2, OneRefundChanges
<1>6. refunded' = Reserved' /\ refunded' \in 0..Approved
  BY <1>3, <1>4, Numbers DEF Books, RejectRefund, ReleaseRefundAmount
<1>7. \A i \in Items : settled'[i] \in 0..Quantity[i] /\ UnitsOf(i)' <= settled'[i]
  BY <1>3, <1>5, Numbers DEF Books, RejectRefund, UnsettleRefundItems
<1> QED
  BY <1>1, <1>6, <1>7 DEF Books, RejectRefund

\* A cancellation reserves what is left, for no units.
LEMMA BooksCancelled ==
    ASSUME Books, NEW r \in Refunds, NEW actor, CancelOrder(r, actor)
    PROVE  Books'
<1>1. SettleAllOrderItems /\ UNCHANGED crashes
  BY DEF CancelOrder
<1>2. CASE UNCHANGED <<refunded, refund>>
  BY <1>1, <1>2, BooksClosed
<1>3. CASE ~UNCHANGED <<refunded, refund>>
  <2> DEFINE rest == LockApprovedPayment
  <2>1. rest > 0 /\ ReserveRefundAmount(rest) /\ NewRefund(r, rest, NoLines)
    BY <1>3 DEF CancelOrder
  <2>2. rest \in Nat
    BY <2>1, Numbers DEF LockApprovedPayment, Books
  <2> HIDE DEF rest
  <2>3. /\ refund' \in RefundRows /\ refund[r].state = "none"
        /\ \A q \in Refunds : q # r => refund'[q] = refund[q]
        /\ refund'[r] = [state |-> "requested", amount |-> rest, lines |-> NoLines]
    BY <2>1, <2>2 DEF NewRefund, RefundKeyTaken, Books, RefundRows, RefundStates
  <2>4. r \notin Live /\ r \in Live'
    BY <2>3 DEF Live
  <2>5. Reserved' = Reserved + rest
    BY <2>2, <2>3, <2>4, OneRefundChanges
  <2>6. \A i \in Items : UnitsOf(i)' = UnitsOf(i) /\ UnitsOf(i) \in Nat
    BY <2>3, <2>4, OneRefundChanges, Numbers
  <2>7. refunded' = Reserved' /\ refunded' \in 0..Approved
    BY <2>1, <2>2, <2>5, Numbers DEF Books, ReserveRefundAmount
  <2>8. \A i \in Items : settled'[i] \in 0..Quantity[i] /\ UnitsOf(i)' <= settled'[i]
    BY <1>1, <2>6, Numbers DEF Books, SettleAllOrderItems
  <2> QED
    BY <1>1, <2>3, <2>7, <2>8 DEF Books
<1> QED
  BY <1>2, <1>3

\* What an executor does.
LEMMA BooksExecuted ==
    ASSUME Books, NEW c \in Callers, NEW r \in Refunds,
           \/ ExecuteRefund(c, r) \/ ExecuteRevert(c, r) \/ CompleteRefund(c, r)
           \/ \E actor \in {"P-506", "A-507"} : ExecuteClose(c, r, actor)
    PROVE  Books'
<1>1. CASE ExecuteRefund(c, r)
  <2>1. r \in Live /\ SetRefund(r, "approved") /\ UNCHANGED <<settled, refunded, crashes>>
    BY <1>1 DEF ExecuteRefund, MayExecute, LockRefundForExecute, Live
  <2> QED
    BY <2>1, BooksSent
<1>2. CASE ExecuteRevert(c, r)
  <2>1. UNCHANGED <<settled, refunded, crashes>> /\ RevertRefundToRequested(r)
    BY <1>2 DEF ExecuteRevert
  <2>2. CASE refund[r].state = "approved"
    <3>1. r \in Live /\ SetRefund(r, "requested")
      BY <2>1, <2>2 DEF RevertRefundToRequested, Live
    <3> QED
      BY <2>1, <3>1, BooksSent
  <2>3. CASE refund[r].state # "approved"
    <3>1. UNCHANGED refund
      BY <2>1, <2>3 DEF RevertRefundToRequested
    <3> QED
      BY <2>1, <3>1, BooksKept DEF bookVars, Books
  <2> QED
    BY <2>2, <2>3
<1>3. CASE CompleteRefund(c, r)
  <2>1. r \in Live /\ SetRefund(r, "completed") /\ UNCHANGED <<settled, refunded, crashes>>
    BY <1>3 DEF CompleteRefund, CompleteRefundRow, Live
  <2> QED
    BY <2>1, BooksSent
<1>4. CASE \E actor \in {"P-506", "A-507"} : ExecuteClose(c, r, actor)
  <2>1. SettleAllOrderItems /\ UNCHANGED <<refunded, refund, crashes>>
    BY <1>4 DEF ExecuteClose, CloseOrder
  <2> QED
    BY <2>1, BooksClosed
<1> QED
  BY <1>1, <1>2, <1>3, <1>4

\* Everything else an executor does leaves the books alone.
LEMMA BooksUntouched ==
    ASSUME Books,
           \/ OrderTransition \/ orderConfirm \/ Time \/ Crash \/ UNCHANGED vars
           \/ \E c \in Callers :
                 \/ ExecuteError(c)
                 \/ \E r \in Refunds :
                      ExecuteCompleted(c, r) \/ ExecuteTimeout(c, r) \/ GatewayCancel(c, r)
    PROVE  Books'
<1>1. UNCHANGED bookVars
  BY DEF OrderTransition, orderConfirm, TransitionOrder, Time, GatewayCancelLate, PassRetryWindow,
         GatewayForget, Crash, vars, ExecuteError, ExecuteCompleted, ExecuteTimeout, GatewayCancel
<1>2. crashes' \in 0..MaxCrashes
  <2>1. UNCHANGED crashes \/ (crashes < MaxCrashes /\ crashes' = crashes + 1)
    BY DEF OrderTransition, orderConfirm, TransitionOrder, Time, GatewayCancelLate, PassRetryWindow,
           GatewayForget, Crash, vars, ExecuteError, ExecuteCompleted, ExecuteTimeout, GatewayCancel
  <2> QED
    BY <2>1, RefundAssumption DEF Books
<1> QED
  BY <1>1, <1>2, BooksKept

\* Every step keeps the books.
LEMMA BooksStep == ASSUME Books, [Next]_vars PROVE Books'
<1>1. CASE OrderTransition \/ orderConfirm \/ Time \/ Crash \/ UNCHANGED vars
  BY <1>1, BooksUntouched
<1>2. CASE refundRequest
  BY <1>2, BooksRequested DEF refundRequest
<1>3. CASE orderCancel \/ RefundSave
  <2>1. CASE CloseRefundedOrder
    <3>1. SettleAllOrderItems /\ UNCHANGED <<refunded, refund, crashes>>
      BY <2>1 DEF CloseRefundedOrder, CloseOrder
    <3> QED
      BY <3>1, BooksClosed
  <2> QED
    BY <1>3, <2>1, BooksRejected, BooksCancelled DEF orderCancel, RefundSave
<1>4. CASE Execute
  <2>1. PICK c \in Callers :
          \/ ExecuteError(c)
          \/ \E r \in Refunds :
                \/ ExecuteRefund(c, r) \/ ExecuteCompleted(c, r) \/ ExecuteTimeout(c, r)
                \/ ExecuteRevert(c, r) \/ CompleteRefund(c, r) \/ GatewayCancel(c, r)
                \/ \E actor \in {"P-506", "A-507"} : ExecuteClose(c, r, actor)
    BY <1>4 DEF Execute
  <2>2. CASE \/ ExecuteError(c)
             \/ \E r \in Refunds :
                   ExecuteCompleted(c, r) \/ ExecuteTimeout(c, r) \/ GatewayCancel(c, r)
    BY <2>2, BooksUntouched
  <2>3. CASE \E r \in Refunds :
                \/ ExecuteRefund(c, r) \/ ExecuteRevert(c, r) \/ CompleteRefund(c, r)
                \/ \E actor \in {"P-506", "A-507"} : ExecuteClose(c, r, actor)
    BY <2>3, BooksExecuted
  <2> QED
    BY <2>1, <2>2, <2>3
<1> QED
  BY <1>1, <1>2, <1>3, <1>4 DEF Next

\* The books of an order without refunds agree.
LEMMA BooksInit == Init => Books
<1> SUFFICES ASSUME Init PROVE Books
  OBVIOUS
<1>1. Live = {} /\ refund \in RefundRows
  BY DEF Init, Live, NoRefund, RefundRows, RefundStates
<1>2. Reserved = 0 /\ \A i \in Items : UnitsOf(i) = 0
  BY <1>1, SumEmpty DEF Reserved, UnitsOf
<1> QED
  BY <1>1, <1>2, Numbers, RefundAssumption DEF Init, Books

\* Reservations and units, kept together: a rejection may give back only what
\* the sums hold.
THEOREM BooksInductive == Spec => []Books
<1>1. Books /\ [Next]_vars => Books'
  BY BooksStep
<1> QED
  BY BooksInit, <1>1, PTL DEF Spec

\* payments.refunded_amount is the sum of the refunds not rejected.
THEOREM ReservationsSafe == Spec => []ReservationsAddUp
<1>1. Books => ReservationsAddUp
  BY DEF Books, ReservationsAddUp, Reserved
<1> QED
  BY BooksInductive, <1>1, PTL

\* Every state has its type, and no unit is in more refunds than it was
\* settled for.
THEOREM UnitsSafe == Spec => []UnitsCounted
<1>1. Books /\ RefundInv => UnitsCounted
  <2> SUFFICES ASSUME Books, RefundInv PROVE UnitsCounted
    OBVIOUS
  <2>1. restocked \in Nat /\ payouts \in [Refunds -> Nat]
    BY DEF RefundInv, OrderInv, RestockedOnce, RowsInv
  <2>2. TypeOK
    BY <2>1 DEF Books, RefundInv, RowsInv, TypeOK, RefundRows
  <2> QED
    BY <2>2 DEF Books, UnitsCounted, UnitsOf
<1> QED
  BY BooksInductive, RefundInductive, <1>1, PTL
================================================================================
