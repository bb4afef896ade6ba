--------------------------- MODULE PaymentProofs ---------------------------
(***************************************************************************)
(* The safety properties of Payment, for every value of its constants, and *)
(* the refinement of OrderPayment.  All follow from the inductive          *)
(* invariant.  First, each action preserves it: one lemma per action, one  *)
(* step per part of the invariant the action can disturb, and a last step  *)
(* for the parts none of whose variables it changes.                       *)
(***************************************************************************)
EXTENDS PaymentInvariant, TLAPS

\* An order passing its authorisation window touches nothing the invariant
\* reads.
LEMMA PassAuthWindowStep ==
  ASSUME Inductive, NEW o \in Orders, PassAuthWindow(o)
  PROVE  Inductive'
<1>1. TypeOK'
  BY DEF Inductive, PassAuthWindow, TypeOK, confirmVars, hookVars, opsVars,
     orderVars, payVars, pgVars
<1>2. UnusedKeys' /\ ForeignKeys' /\ CallsTruthful' /\ LookupsTruthful' /\ DeadRows'
   /\ OneLiveRow' /\ ApprovedRows' /\ PendingRows' /\ PaidOrders' /\ DepositOrders'
   /\ StockReturnedOnce'
  BY DEF Inductive, ApprovedRows, CallsTruthful, DeadRows, DepositOrders,
     ForeignKeys, Live, LookupsTruthful, OneLiveRow, Own, PaidOrders,
     PassAuthWindow, PendingRows, StockReturnedOnce, TookMoney, UnusedKeys,
     confirmVars, hookVars, opsVars, orderVars, payVars, pgVars
<1> QED
  BY <1>1, <1>2 DEF Inductive

\* The gateway handling a confirmation: only an unused key bound to its
\* row's order changes state, and the answer remembered is the one given.
LEMMA GatewayConfirmStep ==
  ASSUME Inductive, NEW k \in Keys, GatewayConfirm(k)
  PROVE  Inductive'
<1>1. TypeOK'
  BY DEF Inductive, Answers, GatewayConfirm, Outcomes, OwnAnswer, TypeOK, clockVars,
     hookVars, opsVars, orderVars, payVars
<1>2. UnusedKeys'
  BY DEF Inductive, GatewayConfirm, UnusedKeys, payVars
<1>3. ForeignKeys'
  BY DEF Inductive, ForeignKeys, GatewayConfirm, Outcomes, Own, OwnAnswer, payVars
<1>4. CallsTruthful'
  BY DEF Inductive, CallsTruthful, GatewayConfirm, Outcomes, OwnAnswer, TypeOK,
     payVars
<1>5. LookupsTruthful'
  BY DEF Inductive, GatewayConfirm, LookupsTruthful, Outcomes, Own, OwnAnswer,
     TookMoney, hookVars, opsVars, payVars
<1>6. DeadRows'
  BY DEF Inductive, DeadRows, GatewayConfirm, Outcomes, Own, OwnAnswer, payVars
<1>7. ApprovedRows'
  BY DEF Inductive, ApprovedRows, GatewayConfirm, Outcomes, Own, OwnAnswer,
     TookMoney, orderVars, payVars
<1>8. OneLiveRow' /\ PendingRows' /\ PaidOrders' /\ DepositOrders' /\
   StockReturnedOnce'
  BY DEF Inductive, DepositOrders, GatewayConfirm, Live, OneLiveRow, PaidOrders,
     PendingRows, StockReturnedOnce, orderVars, payVars
<1> QED
  BY <1>1, <1>2, <1>3, <1>4, <1>5, <1>6, <1>7, <1>8 DEF Inductive

\* A confirmation nobody waits for any more still finds its row live:
\* DeadRows lets no failed row's key be charged.
LEMMA GatewayConfirmLateStep ==
  ASSUME Inductive, NEW k \in Keys, GatewayConfirmLate(k)
  PROVE  Inductive'
<1>1. TypeOK'
  BY DEF Inductive, GatewayConfirmLate, Outcomes, OwnAnswer, TypeOK, clockVars,
     confirmVars, hookVars, opsVars, orderVars, payVars
<1>2. UnusedKeys'
  BY DEF Inductive, GatewayConfirmLate, UnusedKeys, confirmVars, payVars
<1>3. ForeignKeys'
  BY KeysAssumption DEF Inductive, ForeignKeys, GatewayConfirmLate, Outcomes, Own,
     OwnAnswer, UnusedKeys, confirmVars, payVars
<1>4. CallsTruthful'
  BY DEF Inductive, CallsTruthful, GatewayConfirmLate, Outcomes, OwnAnswer,
     confirmVars, payVars
<1>5. LookupsTruthful'
  BY DEF Inductive, GatewayConfirmLate, LookupsTruthful, Outcomes, Own, OwnAnswer,
     TookMoney, hookVars, opsVars, payVars
<1>6. DeadRows'
  BY DEF Inductive, DeadRows, GatewayConfirmLate, Outcomes, Own, OwnAnswer,
     confirmVars, payVars
<1>7. ApprovedRows'
  BY DEF Inductive, ApprovedRows, GatewayConfirmLate, Outcomes, Own, OwnAnswer,
     TookMoney, orderVars, payVars
<1>8. OneLiveRow' /\ PendingRows' /\ PaidOrders' /\ DepositOrders' /\
   StockReturnedOnce'
  BY DEF Inductive, DepositOrders, GatewayConfirmLate, Live, OneLiveRow, PaidOrders,
     PendingRows, StockReturnedOnce, orderVars, payVars
<1> QED
  BY <1>1, <1>2, <1>3, <1>4, <1>5, <1>6, <1>7, <1>8 DEF Inductive

\* A session lapsing turns an unused key into a failed one.
LEMMA GatewayExpireStep ==
  ASSUME Inductive, NEW k \in Keys, GatewayExpire(k)
  PROVE  Inductive'
<1>1. TypeOK'
  BY DEF Inductive, GatewayExpire, TypeOK, clockVars, confirmVars, hookVars,
     opsVars, orderVars, payVars
<1>2. UnusedKeys'
  BY DEF Inductive, GatewayExpire, TypeOK, UnusedKeys, confirmVars, payVars
<1>3. ForeignKeys'
  BY DEF Inductive, ForeignKeys, GatewayExpire, Own, confirmVars, payVars
<1>4. CallsTruthful'
  BY DEF Inductive, CallsTruthful, GatewayExpire, confirmVars, payVars
<1>5. LookupsTruthful'
  BY DEF Inductive, GatewayExpire, LookupsTruthful, Own, TookMoney, hookVars,
     opsVars, payVars
<1>6. DeadRows'
  BY DEF Inductive, DeadRows, GatewayExpire, Own, confirmVars, payVars
<1>7. ApprovedRows'
  BY DEF Inductive, ApprovedRows, GatewayExpire, Own, TookMoney, orderVars, payVars
<1>8. OneLiveRow' /\ PendingRows' /\ PaidOrders' /\ DepositOrders' /\
   StockReturnedOnce'
  BY DEF Inductive, DepositOrders, GatewayExpire, Live, OneLiveRow, PaidOrders,
     PendingRows, StockReturnedOnce, orderVars, payVars
<1> QED
  BY <1>1, <1>2, <1>3, <1>4, <1>5, <1>6, <1>7, <1>8 DEF Inductive

\* A deposit arrives before the due date, so the row of its account is not
\* failed.
LEMMA GatewayDepositStep ==
  ASSUME Inductive, NEW k \in Keys, GatewayDeposit(k)
  PROVE  Inductive'
<1>1. TypeOK'
  BY DEF Inductive, GatewayDeposit, TypeOK, clockVars, confirmVars, hookVars,
     opsVars, orderVars, payVars
<1>2. UnusedKeys'
  BY DEF Inductive, GatewayDeposit, UnusedKeys, confirmVars, payVars
<1>3. ForeignKeys'
  BY DEF Inductive, ForeignKeys, GatewayDeposit, Own, confirmVars, payVars
<1>4. CallsTruthful'
  BY DEF Inductive, CallsTruthful, GatewayDeposit, confirmVars, payVars
<1>5. LookupsTruthful'
  BY DEF Inductive, GatewayDeposit, LookupsTruthful, Own, TookMoney, hookVars,
     opsVars, payVars
<1>6. DeadRows'
  BY DEF Inductive, DeadRows, GatewayDeposit, Own, confirmVars, payVars
<1>7. ApprovedRows'
  BY DEF Inductive, ApprovedRows, GatewayDeposit, Own, TookMoney, orderVars, payVars
<1>8. OneLiveRow' /\ PendingRows' /\ PaidOrders' /\ DepositOrders' /\
   StockReturnedOnce'
  BY DEF Inductive, DepositOrders, GatewayDeposit, Live, OneLiveRow, PaidOrders,
     PendingRows, StockReturnedOnce, orderVars, payVars
<1> QED
  BY <1>1, <1>2, <1>3, <1>4, <1>5, <1>6, <1>7, <1>8 DEF Inductive

\* A due date passing only widens what the expiry may ask about.
LEMMA PassDueDateStep ==
  ASSUME Inductive, NEW k \in Keys, PassDueDate(k)
  PROVE  Inductive'
<1>1. TypeOK'
  BY DEF Inductive, PassDueDate, TypeOK, clockVars, confirmVars, hookVars, opsVars,
     orderVars, payVars
<1>2. LookupsTruthful'
  BY DEF Inductive, LookupsTruthful, Own, PassDueDate, TookMoney, hookVars, opsVars,
     payVars
<1>3. DeadRows'
  BY DEF Inductive, DeadRows, Own, PassDueDate, confirmVars, payVars
<1>4. UnusedKeys' /\ ForeignKeys' /\ CallsTruthful' /\ OneLiveRow' /\ ApprovedRows'
   /\ PendingRows' /\ PaidOrders' /\ DepositOrders' /\ StockReturnedOnce'
  BY DEF Inductive, ApprovedRows, CallsTruthful, DepositOrders, ForeignKeys, Live,
     OneLiveRow, Own, PaidOrders, PassDueDate, PendingRows, StockReturnedOnce,
     TookMoney, UnusedKeys, confirmVars, orderVars, payVars
<1> QED
  BY <1>1, <1>2, <1>3, <1>4 DEF Inductive

\* An account closed after its due date took no money.
LEMMA GatewayCloseAccountStep ==
  ASSUME Inductive, NEW k \in Keys, GatewayCloseAccount(k)
  PROVE  Inductive'
<1>1. TypeOK'
  BY DEF Inductive, Events, GatewayCloseAccount, OrderStates, TypeOK, clockVars,
     confirmVars, hookVars, opsVars, orderVars, payVars
<1>2. UnusedKeys'
  BY DEF Inductive, GatewayCloseAccount, UnusedKeys, confirmVars, payVars
<1>3. ForeignKeys'
  BY DEF Inductive, ForeignKeys, GatewayCloseAccount, Own, confirmVars, payVars
<1>4. CallsTruthful'
  BY DEF Inductive, CallsTruthful, GatewayCloseAccount, confirmVars, payVars
<1>5. LookupsTruthful'
  BY DEF Inductive, GatewayCloseAccount, LookupsTruthful, Own, TookMoney, hookVars,
     opsVars, payVars
<1>6. DeadRows'
  BY DEF Inductive, DeadRows, GatewayCloseAccount, Own, confirmVars, payVars
<1>7. ApprovedRows'
  BY DEF Inductive, ApprovedRows, GatewayCloseAccount, Own, TookMoney, orderVars,
     payVars
<1>8. OneLiveRow' /\ PendingRows' /\ PaidOrders' /\ DepositOrders' /\
   StockReturnedOnce'
  BY DEF Inductive, DepositOrders, GatewayCloseAccount, Live, OneLiveRow,
     PaidOrders, PendingRows, StockReturnedOnce, orderVars, payVars
<1> QED
  BY <1>1, <1>2, <1>3, <1>4, <1>5, <1>6, <1>7, <1>8 DEF Inductive

\* A cancellation at the merchant's console leaves the rows as they are;
\* the money was taken once.
LEMMA ConsoleCancelStep ==
  ASSUME Inductive, NEW k \in Keys, ConsoleCancel(k)
  PROVE  Inductive'
<1>1. TypeOK'
  BY DEF Inductive, ConsoleCancel, TypeOK, clockVars, confirmVars, hookVars,
     opsVars, orderVars, payVars
<1>2. UnusedKeys'
  BY DEF Inductive, ConsoleCancel, UnusedKeys, confirmVars, payVars
<1>3. ForeignKeys'
  BY DEF Inductive, ConsoleCancel, ForeignKeys, Own, confirmVars, payVars
<1>4. CallsTruthful'
  BY DEF Inductive, CallsTruthful, ConsoleCancel, confirmVars, payVars
<1>5. LookupsTruthful'
  BY DEF Inductive, ConsoleCancel, LookupsTruthful, Own, TookMoney, hookVars,
     opsVars, payVars
<1>6. DeadRows'
  BY DEF Inductive, ConsoleCancel, DeadRows, Own, confirmVars, payVars
<1>7. ApprovedRows'
  BY DEF Inductive, ApprovedRows, ConsoleCancel, Own, TookMoney, orderVars, payVars
<1>8. OneLiveRow' /\ PendingRows' /\ PaidOrders' /\ DepositOrders' /\
   StockReturnedOnce'
  BY DEF Inductive, ConsoleCancel, DepositOrders, Live, OneLiveRow, PaidOrders,
     PendingRows, StockReturnedOnce, orderVars, payVars
<1> QED
  BY <1>1, <1>2, <1>3, <1>4, <1>5, <1>6, <1>7, <1>8 DEF Inductive

\* A request arriving at the order's lock holds nothing yet.
LEMMA ConfirmArriveStep ==
  ASSUME Inductive, NEW r \in Requests, ConfirmArrive(r)
  PROVE  Inductive'
<1>1. TypeOK'
  BY DEF Inductive, ConfirmArrive, TypeOK, clockVars, hookVars, opsVars, orderVars,
     payVars, pgVars
<1>2. UnusedKeys' /\ ForeignKeys' /\ CallsTruthful' /\ LookupsTruthful' /\ DeadRows'
   /\ OneLiveRow' /\ ApprovedRows' /\ PendingRows' /\ PaidOrders' /\ DepositOrders'
   /\ StockReturnedOnce'
  BY DEF Inductive, ApprovedRows, CallsTruthful, ConfirmArrive, DeadRows,
     DepositOrders, ForeignKeys, Live, LookupsTruthful, OneLiveRow, Own, PaidOrders,
     PendingRows, StockReturnedOnce, TookMoney, UnusedKeys, hookVars, opsVars,
     orderVars, payVars, pgVars
<1> QED
  BY <1>1, <1>2 DEF Inductive

\* The reserved row is the order's only live one, and its key was never
\* sent.
LEMMA ConfirmReserveStep ==
  ASSUME Inductive, NEW r \in Requests, ConfirmReserve(r)
  PROVE  Inductive'
<1>1. TypeOK'
  BY KeysAssumption DEF Inductive, ConfirmReserve, SetPay, TypeOK, clockVars,
     hookVars, opsVars, orderVars, pgVars
<1>2. UnusedKeys'
  BY KeysAssumption DEF Inductive, ConfirmReserve, SetPay, TypeOK, UnusedKeys,
     pgVars
<1>3. ForeignKeys'
  BY KeysAssumption DEF Inductive, ConfirmReserve, ForeignKeys, HasLive, MayReserve,
     Own, UnusedKeys, pgVars
<1>4. CallsTruthful'
  BY DEF Inductive, CallsTruthful, ConfirmReserve, HasLive, Live, MayReserve,
     UnusedKeys, pgVars
<1>5. LookupsTruthful'
  BY DEF Inductive, ConfirmReserve, Events, HasLive, LookupsTruthful, MayReserve,
     Own, TookMoney, UnusedKeys, hookVars, opsVars, pgVars
<1>6. DeadRows'
  BY DEF Inductive, ConfirmReserve, DeadRows, HasLive, MayReserve, Own, SetPay,
     pgVars
<1>7. OneLiveRow'
  BY DEF Inductive, ConfirmReserve, HasLive, Live, MayReserve, OneLiveRow, SetPay,
     TypeOK
<1>8. ApprovedRows'
  BY DEF Inductive, ApprovedRows, ConfirmReserve, HasLive, MayReserve, Own, SetPay,
     TookMoney, orderVars, pgVars
<1>9. PendingRows'
  BY DEF Inductive, CanTransition, ConfirmReserve, HasLive, MayReserve, Moves,
     PendingRows, SetPay, TypeOK, transitions, orderVars
<1>10. PaidOrders'
  BY DEF Inductive, ConfirmReserve, HasLive, MayReserve, PaidOrders, SetPay,
     orderVars
<1>11. DepositOrders'
  BY DEF Inductive, ConfirmReserve, DepositOrders, HasLive, MayReserve, SetPay,
     orderVars
<1>12. StockReturnedOnce'
  BY DEF Inductive, ConfirmReserve, StockReturnedOnce, orderVars
<1> QED
  BY <1>1, <1>2, <1>3, <1>4, <1>5, <1>6, <1>7, <1>8, <1>9, <1>10, <1>11, <1>12 DEF
     Inductive

\* A refused request changes nothing.
LEMMA ConfirmRefuseStep ==
  ASSUME Inductive, NEW r \in Requests, ConfirmRefuse(r)
  PROVE  Inductive'
<1>1. TypeOK'
  BY DEF Inductive, ConfirmRefuse, TypeOK, clockVars, hookVars, opsVars, orderVars,
     payVars, pgVars
<1>2. UnusedKeys' /\ ForeignKeys' /\ CallsTruthful' /\ LookupsTruthful' /\ DeadRows'
   /\ OneLiveRow' /\ ApprovedRows' /\ PendingRows' /\ PaidOrders' /\ DepositOrders'
   /\ StockReturnedOnce'
  BY DEF Inductive, ApprovedRows, CallsTruthful, ConfirmRefuse, DeadRows,
     DepositOrders, ForeignKeys, Live, LookupsTruthful, OneLiveRow, Own, PaidOrders,
     PendingRows, StockReturnedOnce, TookMoney, UnusedKeys, hookVars, opsVars,
     orderVars, payVars, pgVars
<1> QED
  BY <1>1, <1>2 DEF Inductive

\* A call whose answer was lost is unknown, and may still be on the wire.
LEMMA ConfirmTimeoutStep ==
  ASSUME Inductive, NEW k \in Keys, ConfirmTimeout(k)
  PROVE  Inductive'
<1>1. TypeOK'
  BY DEF Inductive, ConfirmTimeout, TypeOK, clockVars, hookVars, opsVars, orderVars,
     payVars
<1>2. UnusedKeys'
  BY DEF Inductive, ConfirmTimeout, UnusedKeys, payVars
<1>3. ForeignKeys'
  BY DEF Inductive, ConfirmTimeout, ForeignKeys, Own, payVars
<1>4. CallsTruthful'
  BY DEF Inductive, CallsTruthful, ConfirmTimeout, TypeOK, payVars
<1>5. DeadRows'
  BY DEF Inductive, ConfirmTimeout, DeadRows, Own, payVars
<1>6. LookupsTruthful' /\ OneLiveRow' /\ ApprovedRows' /\ PendingRows' /\
   PaidOrders' /\ DepositOrders' /\ StockReturnedOnce'
  BY DEF Inductive, ApprovedRows, ConfirmTimeout, DepositOrders, Live,
     LookupsTruthful, OneLiveRow, Own, PaidOrders, PendingRows, StockReturnedOnce,
     TookMoney, hookVars, opsVars, orderVars, payVars
<1> QED
  BY <1>1, <1>2, <1>3, <1>4, <1>5, <1>6 DEF Inductive

\* The lookup that follows an unknown result remembers the gateway's own
\* answer.
LEMMA ConfirmLookupStep ==
  ASSUME Inductive, NEW k \in Keys, ConfirmLookup(k)
  PROVE  Inductive'
<1>1. TypeOK'
  BY DEF Inductive, Answers, ConfirmLookup, TypeOK, tossStatus, clockVars, hookVars,
     opsVars, orderVars, payVars, pgVars
<1>2. UnusedKeys'
  BY DEF Inductive, ConfirmLookup, TypeOK, UnusedKeys, tossStatus, payVars, pgVars
<1>3. ForeignKeys'
  BY DEF Inductive, ConfirmLookup, ForeignKeys, Own, OwnAnswer, TypeOK, tossStatus,
     payVars, pgVars
<1>4. CallsTruthful'
  BY DEF Inductive, CallsTruthful, ConfirmLookup, TypeOK, tossStatus, payVars,
     pgVars
<1>5. DeadRows'
  BY DEF Inductive, ConfirmLookup, DeadRows, Own, TypeOK, tossStatus, payVars,
     pgVars
<1>6. LookupsTruthful' /\ OneLiveRow' /\ ApprovedRows' /\ PendingRows' /\
   PaidOrders' /\ DepositOrders' /\ StockReturnedOnce'
  BY DEF Inductive, ApprovedRows, ConfirmLookup, DepositOrders, Live,
     LookupsTruthful, OneLiveRow, Own, PaidOrders, PendingRows, StockReturnedOnce,
     TookMoney, hookVars, opsVars, orderVars, payVars, pgVars
<1> QED
  BY <1>1, <1>2, <1>3, <1>4, <1>5, <1>6 DEF Inductive

\* A definite refusal closes the row: its key can no longer be charged.
LEMMA ConfirmFailStep ==
  ASSUME Inductive, NEW k \in Keys, ConfirmFail(k)
  PROVE  Inductive'
<1>1. TypeOK'
  BY DEF Inductive, ConfirmFail, SetPay, TypeOK, clockVars, hookVars, opsVars,
     orderVars, pgVars
<1>2. UnusedKeys'
  BY DEF Inductive, ConfirmFail, SetPay, UnusedKeys, pgVars
<1>3. ForeignKeys'
  BY DEF Inductive, ConfirmFail, ForeignKeys, Own, UnusedKeys, pgVars
<1>4. CallsTruthful'
  BY DEF Inductive, CallsTruthful, ConfirmFail, TypeOK, pgVars
<1>5. DeadRows'
  BY DEF Inductive, CallsTruthful, ConfirmFail, DeadRows, Own, SetPay, pgVars
<1>6. OneLiveRow'
  BY DEF Inductive, ConfirmFail, Live, OneLiveRow, SetPay
<1>7. ApprovedRows'
  BY DEF Inductive, ApprovedRows, ConfirmFail, Own, SetPay, TookMoney, orderVars,
     pgVars
<1>8. PendingRows'
  BY DEF Inductive, ConfirmFail, PendingRows, SetPay, orderVars
<1>9. PaidOrders'
  BY DEF Inductive, ApprovedRows, CallsTruthful, ConfirmFail, Own, PaidOrders,
     SetPay, TookMoney, orderVars
<1>10. DepositOrders'
  BY DEF Inductive, CallsTruthful, ConfirmFail, DepositOrders, SetPay, orderVars
<1>11. LookupsTruthful' /\ StockReturnedOnce'
  BY DEF Inductive, ConfirmFail, LookupsTruthful, Own, StockReturnedOnce, TookMoney,
     hookVars, opsVars, orderVars, pgVars
<1> QED
  BY <1>1, <1>2, <1>3, <1>4, <1>5, <1>6, <1>7, <1>8, <1>9, <1>10, <1>11 DEF
     Inductive

\* The answer recorded in the second transaction: an approval pays the
\* order with money taken, an issued account opens it for the deposit.
LEMMA ConfirmRecordStep ==
  ASSUME Inductive, NEW k \in Keys, ConfirmRecord(k)
  PROVE  Inductive'
<1>1. TypeOK'
  BY DEF Inductive, CanTransition, ConfirmRecord, Moves, OrderStates, SetPay,
     TypeOK, UnusedKeys, moveOrder, transitions, clockVars, hookVars, opsVars,
     pgVars
<1>2. UnusedKeys'
  BY DEF Inductive, ConfirmRecord, SetPay, UnusedKeys, pgVars
<1>3. ForeignKeys'
  BY DEF Inductive, ConfirmRecord, ForeignKeys, Own, UnusedKeys, pgVars
<1>4. CallsTruthful'
  BY DEF Inductive, CallsTruthful, ConfirmRecord, TypeOK, pgVars
<1>5. DeadRows'
  BY DEF Inductive, ConfirmRecord, DeadRows, Own, SetPay, pgVars
<1>6. OneLiveRow'
  BY DEF Inductive, ConfirmRecord, Live, OneLiveRow, SetPay
<1>7. ApprovedRows'
  <2>1. pay[k] # "none" /\ Own(k)
    BY DEF Inductive, UnusedKeys, ForeignKeys, ConfirmRecord
  <2>2. \A j \in Keys \ {k} : pay[j] # "approved" \/ payOrder[j] # payOrder[k]
    BY DEF ConfirmRecord, Live
  <2>3. payOrder[k] \in Orders
    BY <2>1 DEF Inductive, TypeOK, UnusedKeys
  <2>4. \A j \in Keys : payOrder[j] # payOrder[k] => order'[payOrder[j]] = order[payOrder[j]]
    BY <2>3 DEF ConfirmRecord, moveOrder, Inductive, TypeOK
  <2>5. order'[payOrder[k]] = IF confirm[k] = "approved" THEN "Paid" ELSE "DepositPending"
    BY <2>3 DEF ConfirmRecord, moveOrder, Inductive, TypeOK
  <2>6. /\ pay' = [pay EXCEPT ![k] = confirm[k]] /\ UNCHANGED <<payOrder, pg>>
        /\ k \in FullKeys /\ confirm[k] \in {"approved", "pending"}
    BY DEF ConfirmRecord, SetPay, pgVars
  <2>7. confirm[k] = "approved" => TookMoney(k)
    BY DEF Inductive, CallsTruthful, TookMoney
  <2> QED
    BY <2>1, <2>2, <2>4, <2>5, <2>6, <2>7 DEF Inductive, TypeOK, ApprovedRows, Own, TookMoney
<1>8. PendingRows'
  BY DEF Inductive, ConfirmRecord, Live, PendingRows, SetPay, TypeOK, moveOrder
<1>9. PaidOrders'
  BY DEF Inductive, ConfirmRecord, PaidOrders, SetPay, TypeOK, moveOrder
<1>10. DepositOrders'
  BY DEF Inductive, ConfirmRecord, DepositOrders, SetPay, TypeOK, moveOrder
<1>11. StockReturnedOnce'
  BY DEF Inductive, ConfirmRecord, StockReturnedOnce, moveOrder
<1>12. LookupsTruthful'
  BY DEF Inductive, ConfirmRecord, LookupsTruthful, Own, TookMoney, hookVars,
     opsVars, pgVars
<1> QED
  BY <1>1, <1>2, <1>3, <1>4, <1>5, <1>6, <1>7, <1>8, <1>9, <1>10, <1>11, <1>12 DEF
     Inductive

\* A definite answer of failure closes the row.
LEMMA ConfirmDeclineStep ==
  ASSUME Inductive, NEW k \in Keys, ConfirmDecline(k)
  PROVE  Inductive'
<1>1. TypeOK'
  BY DEF Inductive, ConfirmDecline, SetPay, TypeOK, clockVars, hookVars, opsVars,
     orderVars, pgVars
<1>2. UnusedKeys'
  BY DEF Inductive, ConfirmDecline, SetPay, UnusedKeys, pgVars
<1>3. ForeignKeys'
  BY DEF Inductive, ConfirmDecline, ForeignKeys, Own, UnusedKeys, pgVars
<1>4. CallsTruthful'
  BY DEF Inductive, CallsTruthful, ConfirmDecline, pgVars
<1>5. DeadRows'
  BY DEF Inductive, CallsTruthful, ConfirmDecline, DeadRows, Own, SetPay, pgVars
<1>6. OneLiveRow'
  BY DEF Inductive, ConfirmDecline, Live, OneLiveRow, SetPay
<1>7. ApprovedRows'
  BY DEF Inductive, ApprovedRows, ConfirmDecline, Own, SetPay, TookMoney, orderVars,
     pgVars
<1>8. PendingRows'
  BY DEF Inductive, ConfirmDecline, PendingRows, SetPay, orderVars
<1>9. PaidOrders'
  BY DEF Inductive, ApprovedRows, CallsTruthful, ConfirmDecline, Own, PaidOrders,
     SetPay, TookMoney, orderVars
<1>10. DepositOrders'
  BY DEF Inductive, CallsTruthful, ConfirmDecline, DepositOrders, SetPay, orderVars
<1>11. LookupsTruthful' /\ StockReturnedOnce'
  BY DEF Inductive, ConfirmDecline, LookupsTruthful, Own, StockReturnedOnce,
     TookMoney, hookVars, opsVars, orderVars, pgVars
<1> QED
  BY <1>1, <1>2, <1>3, <1>4, <1>5, <1>6, <1>7, <1>8, <1>9, <1>10, <1>11 DEF
     Inductive

\* A second transaction that does not commit forgets the answer and keeps
\* the row.
LEMMA ConfirmRollbackStep ==
  ASSUME Inductive, NEW k \in Keys, ConfirmRollback(k)
  PROVE  Inductive'
<1>1. TypeOK'
  BY DEF Inductive, ConfirmRollback, TypeOK, clockVars, hookVars, opsVars,
     orderVars, payVars, pgVars
<1>2. UnusedKeys'
  BY DEF Inductive, ConfirmRollback, UnusedKeys, payVars, pgVars
<1>3. ForeignKeys'
  BY DEF Inductive, ConfirmRollback, ForeignKeys, Own, payVars, pgVars
<1>4. CallsTruthful'
  BY DEF Inductive, CallsTruthful, ConfirmRollback, payVars, pgVars
<1>5. DeadRows'
  BY DEF Inductive, ConfirmRollback, DeadRows, Own, payVars, pgVars
<1>6. LookupsTruthful' /\ OneLiveRow' /\ ApprovedRows' /\ PendingRows' /\
   PaidOrders' /\ DepositOrders' /\ StockReturnedOnce'
  BY DEF Inductive, ApprovedRows, ConfirmRollback, DepositOrders, Live,
     LookupsTruthful, OneLiveRow, Own, PaidOrders, PendingRows, StockReturnedOnce,
     TookMoney, hookVars, opsVars, orderVars, payVars, pgVars
<1> QED
  BY <1>1, <1>2, <1>3, <1>4, <1>5, <1>6 DEF Inductive

\* A notification received is not yet believed.
LEMMA HookReceiveStep ==
  ASSUME Inductive, NEW e \in Events, HookReceive(e)
  PROVE  Inductive'
<1>1. TypeOK'
  BY DEF Inductive, HookReceive, Matches, TypeOK, clockVars, confirmVars, opsVars,
     orderVars, payVars, pgVars
<1>2. LookupsTruthful'
  BY DEF Inductive, HookReceive, LookupsTruthful, Matches, OrderStates, Own,
     TookMoney, opsVars, payVars, pgVars
<1>3. UnusedKeys' /\ ForeignKeys' /\ CallsTruthful' /\ DeadRows' /\ OneLiveRow' /\
   ApprovedRows' /\ PendingRows' /\ PaidOrders' /\ DepositOrders' /\
   StockReturnedOnce'
  BY DEF Inductive, ApprovedRows, CallsTruthful, DeadRows, DepositOrders,
     ForeignKeys, HookReceive, Live, OneLiveRow, Own, PaidOrders, PendingRows,
     StockReturnedOnce, TookMoney, UnusedKeys, confirmVars, orderVars, payVars,
     pgVars
<1> QED
  BY <1>1, <1>2, <1>3 DEF Inductive

\* What the webhook's goroutine carries to its transaction is backed by the
\* gateway's approval.
LEMMA HookReadStep ==
  ASSUME Inductive, NEW e \in Events, HookRead(e)
  PROVE  Inductive'
<1>1. TypeOK'
  BY KeysAssumption DEF Inductive, HookMatches, HookRead, Matches, TypeOK,
     tossStatus, clockVars, confirmVars, opsVars, orderVars, payVars, pgVars
<1>2. LookupsTruthful'
  BY DEF Inductive, HookMatches, HookRead, Live, LookupsTruthful, Matches, Own,
     TookMoney, UnusedKeys, tossStatus, opsVars, payVars, pgVars
<1>3. UnusedKeys' /\ ForeignKeys' /\ CallsTruthful' /\ DeadRows' /\ OneLiveRow' /\
   ApprovedRows' /\ PendingRows' /\ PaidOrders' /\ DepositOrders' /\
   StockReturnedOnce'
  BY KeysAssumption DEF Inductive, ApprovedRows, CallsTruthful, DeadRows,
     DepositOrders, ForeignKeys, HookRead, Live, OneLiveRow, Own, PaidOrders,
     PendingRows, StockReturnedOnce, TookMoney, UnusedKeys, confirmVars, orderVars,
     payVars, pgVars
<1> QED
  BY <1>1, <1>2, <1>3 DEF Inductive

\* A notification with nothing to do closes its event only.
LEMMA HookDoneStep ==
  ASSUME Inductive, NEW e \in Events, HookDone(e)
  PROVE  Inductive'
<1>1. TypeOK'
  BY DEF Inductive, FinishWebhook, HookDone, HookMatches, Matches, TypeOK,
     tossStatus, clockVars, confirmVars, opsVars, orderVars, payVars, pgVars
<1>2. LookupsTruthful'
  BY DEF Inductive, FinishWebhook, HookDone, HookMatches, LookupsTruthful, Matches,
     OrderStates, Own, TookMoney, tossStatus, opsVars, payVars, pgVars
<1>3. UnusedKeys' /\ ForeignKeys' /\ CallsTruthful' /\ DeadRows' /\ OneLiveRow' /\
   ApprovedRows' /\ PendingRows' /\ PaidOrders' /\ DepositOrders' /\
   StockReturnedOnce'
  BY DEF Inductive, ApprovedRows, CallsTruthful, DeadRows, DepositOrders,
     ForeignKeys, HookDone, Live, OneLiveRow, Own, PaidOrders, PendingRows,
     StockReturnedOnce, TookMoney, UnusedKeys, confirmVars, orderVars, payVars,
     pgVars
<1> QED
  BY <1>1, <1>2, <1>3 DEF Inductive

\* The webhook pays an order whose status is still the one it read, with
\* its own pending row.
LEMMA HookApplyStep ==
  ASSUME Inductive, NEW e \in Events, HookApply(e)
  PROVE  Inductive'
<1>1. TypeOK'
  BY DEF Inductive, Events, FinishWebhook, HookApply, LookupsTruthful, OrderStates,
     Own, SetPay, TookMoney, TypeOK, UnusedKeys, moveOrder, clockVars, confirmVars,
     opsVars, pgVars
<1>2. UnusedKeys'
  BY DEF Inductive, HookApply, MayApply, SetPay, UnusedKeys, confirmVars, pgVars
<1>3. ForeignKeys'
  BY DEF Inductive, ForeignKeys, HookApply, MayApply, Own, SetPay, moveOrder,
     confirmVars, pgVars
<1>4. LookupsTruthful'
  BY DEF Inductive, FinishWebhook, HookApply, LookupsTruthful, Own, TookMoney,
     opsVars, pgVars
<1>5. DeadRows'
  BY DEF Inductive, DeadRows, HookApply, Own, SetPay, confirmVars, pgVars
<1>6. OneLiveRow'
  BY DEF Inductive, HookApply, Live, MayApply, OneLiveRow, SetPay
<1>7. ApprovedRows'
  BY DEF Inductive, ApprovedRows, HookApply, LookupsTruthful, Own, SetPay,
     TookMoney, TypeOK, UnusedKeys, moveOrder, pgVars
<1>8. PendingRows'
  BY DEF Inductive, Events, HookApply, Live, LookupsTruthful, MayApply, OneLiveRow,
     Own, PendingRows, SetPay, TookMoney, TypeOK, moveOrder
<1>9. PaidOrders'
  BY DEF Inductive, Events, HookApply, LookupsTruthful, Own, PaidOrders, SetPay,
     TookMoney, TypeOK, moveOrder
<1>10. DepositOrders'
  BY DEF Inductive, DepositOrders, HookApply, LookupsTruthful, Own, SetPay,
     TookMoney, TypeOK, moveOrder
<1>11. StockReturnedOnce'
  BY DEF Inductive, CanTransition, FinishWebhook, HookApply, Moves,
     StockReturnedOnce, moveOrder, transitions
<1>12. CallsTruthful'
  BY DEF Inductive, CallsTruthful, HookApply, confirmVars, pgVars
<1> QED
  BY <1>1, <1>2, <1>3, <1>4, <1>5, <1>6, <1>7, <1>8, <1>9, <1>10, <1>11, <1>12 DEF
     Inductive

\* A notification that fails closes its event only.
LEMMA HookFailStep ==
  ASSUME Inductive, NEW e \in Events, HookFail(e)
  PROVE  Inductive'
<1>1. TypeOK'
  BY DEF Inductive, FinishWebhook, HookFail, TypeOK, clockVars, confirmVars,
     opsVars, orderVars, payVars, pgVars
<1>2. LookupsTruthful'
  BY DEF Inductive, FinishWebhook, HookFail, LookupsTruthful, OrderStates, Own,
     TookMoney, opsVars, payVars, pgVars
<1>3. UnusedKeys' /\ ForeignKeys' /\ CallsTruthful' /\ DeadRows' /\ OneLiveRow' /\
   ApprovedRows' /\ PendingRows' /\ PaidOrders' /\ DepositOrders' /\
   StockReturnedOnce'
  BY DEF Inductive, ApprovedRows, CallsTruthful, DeadRows, DepositOrders,
     ForeignKeys, HookFail, Live, OneLiveRow, Own, PaidOrders, PendingRows,
     StockReturnedOnce, TookMoney, UnusedKeys, confirmVars, orderVars, payVars,
     pgVars
<1> QED
  BY <1>1, <1>2, <1>3 DEF Inductive

\* What A-508 carries to its transaction is the gateway's own answer for
\* that order.
LEMMA ResolveAskStep ==
  ASSUME Inductive, NEW k \in Keys, ResolveAsk(k)
  PROVE  Inductive'
<1>1. TypeOK'
  BY DEF Inductive, ResolveAsk, TypeOK, tossStatus, clockVars, confirmVars,
     hookVars, orderVars, payVars, pgVars
<1>2. LookupsTruthful'
  BY DEF Inductive, LookupsTruthful, Own, OwnAnswer, ResolveAsk, TookMoney,
     tossStatus, hookVars, payVars, pgVars
<1>3. UnusedKeys' /\ ForeignKeys' /\ CallsTruthful' /\ DeadRows' /\ OneLiveRow' /\
   ApprovedRows' /\ PendingRows' /\ PaidOrders' /\ DepositOrders' /\
   StockReturnedOnce'
  BY DEF Inductive, ApprovedRows, CallsTruthful, DeadRows, DepositOrders,
     ForeignKeys, Live, OneLiveRow, Own, PaidOrders, PendingRows, ResolveAsk,
     StockReturnedOnce, TookMoney, UnusedKeys, confirmVars, orderVars, payVars,
     pgVars
<1> QED
  BY <1>1, <1>2, <1>3 DEF Inductive

\* A-508 pays the order of a row it found pending again under the locks.
LEMMA ResolveApproveStep ==
  ASSUME Inductive, NEW k \in Keys, ResolveApprove(k)
  PROVE  Inductive'
<1>1. TypeOK'
  BY DEF Inductive, OrderStates, ResolveApprove, SetPay, TypeOK, UnusedKeys,
     moveOrder, clockVars, confirmVars, hookVars, pgVars
<1>2. UnusedKeys'
  BY DEF Inductive, ResolveApprove, SetPay, UnusedKeys, confirmVars, pgVars
<1>3. ForeignKeys'
  BY DEF Inductive, ForeignKeys, Own, ResolveApprove, SetPay, confirmVars, pgVars
<1>4. LookupsTruthful'
  BY DEF Inductive, LookupsTruthful, Own, ResolveApprove, TookMoney, hookVars,
     pgVars
<1>5. DeadRows'
  BY DEF Inductive, DeadRows, Own, ResolveApprove, SetPay, confirmVars, pgVars
<1>6. OneLiveRow'
  BY DEF Inductive, Live, OneLiveRow, ResolveApprove, SetPay
<1>7. ApprovedRows'
  BY DEF Inductive, ApprovedRows, LookupsTruthful, Own, ResolveApprove, SetPay,
     TookMoney, TypeOK, UnusedKeys, moveOrder, pgVars
<1>8. PendingRows'
  BY DEF Inductive, Live, OneLiveRow, PendingRows, ResolveApprove, SetPay, TypeOK,
     moveOrder
<1>9. PaidOrders'
  BY DEF Inductive, PaidOrders, ResolveApprove, SetPay, TypeOK, moveOrder
<1>10. DepositOrders'
  BY DEF Inductive, DepositOrders, ResolveApprove, SetPay, TypeOK, moveOrder
<1>11. StockReturnedOnce'
  BY DEF Inductive, CanTransition, Moves, ResolveApprove, StockReturnedOnce,
     moveOrder, transitions
<1>12. CallsTruthful'
  BY DEF Inductive, CallsTruthful, ResolveApprove, confirmVars, pgVars
<1> QED
  BY <1>1, <1>2, <1>3, <1>4, <1>5, <1>6, <1>7, <1>8, <1>9, <1>10, <1>11, <1>12 DEF
     Inductive

\* A-508 closes a failed row and releases the order that waited for its
\* deposit.
LEMMA ResolveFailStep ==
  ASSUME Inductive, NEW k \in Keys, ResolveFail(k)
  PROVE  Inductive'
<1>1. TypeOK'
  BY DEF Inductive, OrderStates, ResolveFail, SetPay, TypeOK, moveOrder,
     releaseUnpaid, clockVars, confirmVars, hookVars, orderVars, pgVars
<1>2. UnusedKeys'
  BY DEF Inductive, ResolveFail, SetPay, UnusedKeys, confirmVars, pgVars
<1>3. ForeignKeys'
  BY DEF Inductive, ForeignKeys, Own, ResolveFail, SetPay, confirmVars, pgVars
<1>4. LookupsTruthful'
  BY DEF Inductive, LookupsTruthful, Own, ResolveFail, TookMoney, UnusedKeys,
     hookVars, pgVars
<1>5. DeadRows'
  BY KeysAssumption DEF Inductive, DeadRows, LookupsTruthful, Own, ResolveFail,
     SetPay, TookMoney, confirmVars, pgVars
<1>6. OneLiveRow'
  BY DEF Inductive, Live, OneLiveRow, ResolveFail, SetPay, UnusedKeys
<1>7. ApprovedRows'
  BY KeysAssumption DEF Inductive, ApprovedRows, Own, ResolveFail, SetPay,
     TookMoney, TypeOK, UnusedKeys, moveOrder, releaseUnpaid, orderVars, pgVars
<1>8. PendingRows'
  BY DEF Inductive, Live, OneLiveRow, PendingRows, ResolveFail, SetPay, TypeOK,
     UnusedKeys, moveOrder, releaseUnpaid, orderVars
<1>9. PaidOrders'
  BY DEF Inductive, PaidOrders, ResolveFail, SetPay, TypeOK, moveOrder,
     releaseUnpaid, orderVars
<1>10. DepositOrders'
  BY DEF Inductive, DepositOrders, ResolveFail, SetPay, TypeOK, moveOrder,
     releaseUnpaid, orderVars
<1>11. StockReturnedOnce'
  BY DEF Inductive, ResolveFail, StockReturnedOnce, TypeOK, moveOrder,
     releaseUnpaid, orderVars
<1>12. CallsTruthful'
  BY DEF Inductive, CallsTruthful, ResolveFail, confirmVars, pgVars
<1> QED
  BY <1>1, <1>2, <1>3, <1>4, <1>5, <1>6, <1>7, <1>8, <1>9, <1>10, <1>11, <1>12 DEF
     Inductive

\* A-508 giving up changes nothing.
LEMMA ResolveDropStep ==
  ASSUME Inductive, NEW x \in Keys \X {"approved", "failed"}, ResolveDrop(x)
  PROVE  Inductive'
<1>1. TypeOK'
  BY KeysAssumption DEF Inductive, ResolveDrop, TypeOK, clockVars, confirmVars,
     hookVars, orderVars, payVars, pgVars
<1>2. LookupsTruthful'
  BY DEF Inductive, LookupsTruthful, Own, ResolveDrop, TookMoney, hookVars, payVars,
     pgVars
<1>3. UnusedKeys' /\ ForeignKeys' /\ CallsTruthful' /\ DeadRows' /\ OneLiveRow' /\
   ApprovedRows' /\ PendingRows' /\ PaidOrders' /\ DepositOrders' /\
   StockReturnedOnce'
  BY DEF Inductive, ApprovedRows, CallsTruthful, DeadRows, DepositOrders,
     ForeignKeys, Live, OneLiveRow, Own, PaidOrders, PendingRows, ResolveDrop,
     StockReturnedOnce, TookMoney, UnusedKeys, confirmVars, orderVars, payVars,
     pgVars
<1> QED
  BY <1>1, <1>2, <1>3 DEF Inductive

\* Listing changes no row.
LEMMA ExpireListStep ==
  ASSUME Inductive, ExpireList
  PROVE  Inductive'
<1>1. TypeOK'
  BY DEF Inductive, Events, Expirable, ExpireList, TypeOK, clockVars, confirmVars,
     hookVars, orderVars, payVars, pgVars
<1>2. UnusedKeys' /\ ForeignKeys' /\ CallsTruthful' /\ LookupsTruthful' /\ DeadRows'
   /\ OneLiveRow' /\ ApprovedRows' /\ PendingRows' /\ PaidOrders' /\ DepositOrders'
   /\ StockReturnedOnce'
  BY DEF Inductive, ApprovedRows, CallsTruthful, DeadRows, DepositOrders,
     ExpireList, ForeignKeys, Live, LookupsTruthful, OneLiveRow, Own, PaidOrders,
     PendingRows, StockReturnedOnce, TookMoney, UnusedKeys, confirmVars, hookVars,
     orderVars, payVars, pgVars
<1> QED
  BY <1>1, <1>2 DEF Inductive

\* The expiry releases an order without a pending row: nothing of its keys
\* is live.
LEMMA ExpireOneStep ==
  ASSUME Inductive, NEW o \in Orders, ExpireOne(o)
  PROVE  Inductive'
<1>1. TypeOK'
  BY DEF Inductive, ExpireOne, OrderStates, TypeOK, moveOrder, releaseUnpaid,
     clockVars, confirmVars, hookVars, payVars, pgVars
<1>2. ApprovedRows'
  BY DEF Inductive, ApprovedRows, ExpireOne, Own, TookMoney, moveOrder,
     releaseUnpaid, payVars, pgVars
<1>3. PendingRows'
  BY DEF Inductive, ExpireOne, HasPending, MayExpire, PendingRows, moveOrder,
     releaseUnpaid, payVars
<1>4. PaidOrders'
  BY DEF Inductive, CanTransition, ExpireOne, Moves, PaidOrders, moveOrder,
     releaseUnpaid, transitions, payVars
<1>5. DepositOrders'
  BY DEF Inductive, DepositOrders, ExpireOne, TypeOK, moveOrder, releaseUnpaid,
     payVars
<1>6. StockReturnedOnce'
  BY DEF Inductive, ExpireOne, StockReturnedOnce, TypeOK, moveOrder, releaseUnpaid
<1>7. UnusedKeys' /\ ForeignKeys' /\ CallsTruthful' /\ LookupsTruthful' /\ DeadRows'
   /\ OneLiveRow'
  BY DEF Inductive, CallsTruthful, DeadRows, ExpireOne, ForeignKeys, Live,
     LookupsTruthful, OneLiveRow, Own, TookMoney, UnusedKeys, confirmVars, hookVars,
     payVars, pgVars
<1> QED
  BY <1>1, <1>2, <1>3, <1>4, <1>5, <1>6, <1>7 DEF Inductive

\* The expiry skipping an order changes no row.
LEMMA ExpireSkipStep ==
  ASSUME Inductive, NEW o \in Orders, ExpireSkip(o)
  PROVE  Inductive'
<1>1. TypeOK'
  BY DEF Inductive, ExpireSkip, TypeOK, clockVars, confirmVars, hookVars, orderVars,
     payVars, pgVars
<1>2. UnusedKeys' /\ ForeignKeys' /\ CallsTruthful' /\ LookupsTruthful' /\ DeadRows'
   /\ OneLiveRow' /\ ApprovedRows' /\ PendingRows' /\ PaidOrders' /\ DepositOrders'
   /\ StockReturnedOnce'
  BY DEF Inductive, ApprovedRows, CallsTruthful, DeadRows, DepositOrders,
     ExpireSkip, ForeignKeys, Live, LookupsTruthful, OneLiveRow, Own, PaidOrders,
     PendingRows, StockReturnedOnce, TookMoney, UnusedKeys, confirmVars, hookVars,
     orderVars, payVars, pgVars
<1> QED
  BY <1>1, <1>2 DEF Inductive

\* A deposit asked about is due and was not approved: no deposit can arrive
\* any more.
LEMMA DepositAskStep ==
  ASSUME Inductive, NEW k \in Keys, DepositAsk(k)
  PROVE  Inductive'
<1>1. TypeOK'
  BY DEF Inductive, DepositAsk, TypeOK, tossStatus, clockVars, confirmVars,
     hookVars, orderVars, payVars, pgVars
<1>2. LookupsTruthful'
  BY DEF Inductive, CallsTruthful, DepositAsk, LookupsTruthful, Own, TookMoney,
     TypeOK, tossStatus, hookVars, payVars, pgVars
<1>3. UnusedKeys' /\ ForeignKeys' /\ CallsTruthful' /\ DeadRows' /\ OneLiveRow' /\
   ApprovedRows' /\ PendingRows' /\ PaidOrders' /\ DepositOrders' /\
   StockReturnedOnce'
  BY DEF Inductive, ApprovedRows, CallsTruthful, DeadRows, DepositAsk,
     DepositOrders, ForeignKeys, Live, OneLiveRow, Own, PaidOrders, PendingRows,
     StockReturnedOnce, TookMoney, UnusedKeys, confirmVars, orderVars, payVars,
     pgVars
<1> QED
  BY <1>1, <1>2, <1>3 DEF Inductive

\* The deposit expiry closes row and order together.
LEMMA DepositExpireStep ==
  ASSUME Inductive, NEW k \in Keys, DepositExpire(k)
  PROVE  Inductive'
<1>1. TypeOK'
  BY DEF Inductive, DepositExpire, MayExpireDeposit, OrderStates, SetPay, TypeOK,
     UnusedKeys, moveOrder, releaseUnpaid, clockVars, confirmVars, hookVars, pgVars
<1>2. UnusedKeys'
  BY DEF Inductive, DepositExpire, MayExpireDeposit, SetPay, UnusedKeys,
     confirmVars, pgVars
<1>3. ForeignKeys'
  BY DEF Inductive, DepositExpire, ForeignKeys, MayExpireDeposit, Own, SetPay,
     confirmVars, pgVars
<1>4. LookupsTruthful'
  BY DEF Inductive, DepositExpire, LookupsTruthful, Own, TookMoney, hookVars, pgVars
<1>5. DeadRows'
  BY DEF Inductive, DeadRows, DepositExpire, LookupsTruthful, Own, SetPay,
     TookMoney, confirmVars, pgVars
<1>6. OneLiveRow'
  BY DEF Inductive, DepositExpire, Live, OneLiveRow, SetPay
<1>7. ApprovedRows'
  BY DEF Inductive, ApprovedRows, DepositExpire, Own, SetPay, TookMoney, moveOrder,
     releaseUnpaid, pgVars
<1>8. PendingRows'
  BY DEF Inductive, DepositExpire, Live, MayExpireDeposit, OneLiveRow, PendingRows,
     SetPay, TypeOK, moveOrder, releaseUnpaid
<1>9. PaidOrders'
  BY DEF Inductive, DepositExpire, PaidOrders, SetPay, moveOrder, releaseUnpaid
<1>10. DepositOrders'
  BY DEF Inductive, DepositExpire, DepositOrders, SetPay, TypeOK, moveOrder,
     releaseUnpaid
<1>11. StockReturnedOnce'
  BY DEF Inductive, DepositExpire, StockReturnedOnce, TypeOK, moveOrder,
     releaseUnpaid
<1>12. CallsTruthful'
  BY DEF Inductive, CallsTruthful, DepositExpire, confirmVars, pgVars
<1> QED
  BY <1>1, <1>2, <1>3, <1>4, <1>5, <1>6, <1>7, <1>8, <1>9, <1>10, <1>11, <1>12 DEF
     Inductive

\* The deposit expiry skipping a row changes no row.
LEMMA DepositSkipStep ==
  ASSUME Inductive, NEW k \in Keys, DepositSkip(k)
  PROVE  Inductive'
<1>1. TypeOK'
  BY DEF Inductive, DepositSkip, TypeOK, clockVars, confirmVars, hookVars,
     orderVars, payVars, pgVars
<1>2. LookupsTruthful'
  BY DEF Inductive, DepositSkip, LookupsTruthful, MayExpireDeposit, Own, TookMoney,
     hookVars, payVars, pgVars
<1>3. UnusedKeys' /\ ForeignKeys' /\ CallsTruthful' /\ DeadRows' /\ OneLiveRow' /\
   ApprovedRows' /\ PendingRows' /\ PaidOrders' /\ DepositOrders' /\
   StockReturnedOnce'
  BY DEF Inductive, ApprovedRows, CallsTruthful, DeadRows, DepositOrders,
     DepositSkip, ForeignKeys, Live, OneLiveRow, Own, PaidOrders, PendingRows,
     StockReturnedOnce, TookMoney, UnusedKeys, confirmVars, orderVars, payVars,
     pgVars
<1> QED
  BY <1>1, <1>2, <1>3 DEF Inductive

\* A stranded order has no live row to lose.
LEMMA ReleaseStrandedStep ==
  ASSUME Inductive, NEW o \in Orders, ReleaseStranded(o)
  PROVE  Inductive'
<1>1. TypeOK'
  BY DEF Inductive, HasLive, OrderStates, ReleaseStranded, TypeOK, moveOrder,
     releaseUnpaid, clockVars, confirmVars, hookVars, opsVars, payVars, pgVars
<1>2. ApprovedRows'
  BY DEF Inductive, ApprovedRows, Own, ReleaseStranded, TookMoney, moveOrder,
     releaseUnpaid, payVars, pgVars
<1>3. PendingRows'
  BY DEF Inductive, HasLive, Live, PendingRows, ReleaseStranded, moveOrder,
     releaseUnpaid, payVars
<1>4. PaidOrders'
  BY DEF Inductive, PaidOrders, ReleaseStranded, moveOrder, releaseUnpaid, payVars
<1>5. DepositOrders'
  BY DEF Inductive, DepositOrders, ReleaseStranded, moveOrder, releaseUnpaid,
     payVars
<1>6. StockReturnedOnce'
  BY DEF Inductive, ReleaseStranded, StockReturnedOnce, TypeOK, moveOrder,
     releaseUnpaid
<1>7. UnusedKeys' /\ ForeignKeys' /\ CallsTruthful' /\ LookupsTruthful' /\ DeadRows'
   /\ OneLiveRow'
  BY DEF Inductive, CallsTruthful, DeadRows, ForeignKeys, Live, LookupsTruthful,
     OneLiveRow, Own, ReleaseStranded, TookMoney, UnusedKeys, confirmVars, hookVars,
     opsVars, payVars, pgVars
<1> QED
  BY <1>1, <1>2, <1>3, <1>4, <1>5, <1>6, <1>7 DEF Inductive

\* A crash forgets what the handlers carried and leaves their calls on the
\* wire.
LEMMA CrashStep ==
  ASSUME Inductive, Crash
  PROVE  Inductive'
<1>1. TypeOK'
  BY KeysAssumption DEF Inductive, Crash, TypeOK, orderVars, payVars
<1>2. UnusedKeys'
  BY DEF Inductive, Crash, UnusedKeys, payVars
<1>3. ForeignKeys'
  BY DEF Inductive, Crash, ForeignKeys, Own, payVars
<1>4. CallsTruthful'
  BY DEF Inductive, CallsTruthful, Crash, payVars
<1>5. LookupsTruthful'
  BY DEF Inductive, Crash, LookupsTruthful, OrderStates, payVars
<1>6. DeadRows'
  BY DEF Inductive, Crash, DeadRows, Own, payVars
<1>7. OneLiveRow' /\ ApprovedRows' /\ PendingRows' /\ PaidOrders' /\ DepositOrders'
   /\ StockReturnedOnce'
  BY DEF Inductive, ApprovedRows, Crash, DepositOrders, Live, OneLiveRow, Own,
     PaidOrders, PendingRows, StockReturnedOnce, TookMoney, orderVars, payVars
<1> QED
  BY <1>1, <1>2, <1>3, <1>4, <1>5, <1>6, <1>7 DEF Inductive

\* A step that changes no variable preserves everything.
LEMMA StutterStep == ASSUME Inductive, UNCHANGED vars PROVE Inductive'
<1> USE DEF vars, orderVars, payVars, confirmVars, hookVars, opsVars, pgVars, clockVars
<1>1. TypeOK' /\ UnusedKeys' /\ ForeignKeys'
  BY DEF Inductive, TypeOK, UnusedKeys, ForeignKeys, Own
<1>2. CallsTruthful' /\ LookupsTruthful'
  BY DEF Inductive, CallsTruthful, LookupsTruthful, Own, TookMoney
<1>3. DeadRows' /\ OneLiveRow' /\ ApprovedRows' /\ PendingRows'
  BY DEF Inductive, DeadRows, OneLiveRow, Live, ApprovedRows, PendingRows, Own, TookMoney
<1>4. PaidOrders' /\ DepositOrders' /\ StockReturnedOnce'
  BY DEF Inductive, PaidOrders, DepositOrders, StockReturnedOnce
<1> QED
  BY <1>1, <1>2, <1>3, <1>4 DEF Inductive

\* Every step of the specification preserves the invariant.
LEMMA InductiveStep == ASSUME Inductive, [Next]_vars PROVE Inductive'
<1>1. CASE Gateway
  BY <1>1, PassAuthWindowStep, GatewayConfirmStep, GatewayConfirmLateStep,
     GatewayExpireStep, GatewayDepositStep, PassDueDateStep,
     GatewayCloseAccountStep, ConsoleCancelStep DEF Gateway
<1>2. CASE ConfirmPayment
  BY <1>2, ConfirmArriveStep, ConfirmReserveStep, ConfirmRefuseStep,
     ConfirmTimeoutStep, ConfirmLookupStep, ConfirmFailStep, ConfirmRecordStep,
     ConfirmDeclineStep, ConfirmRollbackStep DEF ConfirmPayment
<1>3. CASE Webhook
  BY <1>3, HookReceiveStep, HookReadStep, HookDoneStep, HookApplyStep, HookFailStep
     DEF Webhook
<1>4. CASE ResolvePendingPayment
  BY <1>4, ResolveAskStep, ResolveApproveStep, ResolveFailStep, ResolveDropStep DEF
     ResolvePendingPayment
<1>5. CASE Expiry
  BY <1>5, ExpireListStep, ExpireOneStep, ExpireSkipStep, DepositAskStep,
     DepositExpireStep, DepositSkipStep, ReleaseStrandedStep DEF Expiry
<1>6. CASE Crash \/ UNCHANGED vars
  BY <1>6, CrashStep, StutterStep
<1> QED
  BY <1>1, <1>2, <1>3, <1>4, <1>5, <1>6 DEF Next

---------------------------------------------------------------------------

\* The initial states satisfy the invariant.
LEMMA InitInductive == Init => Inductive
<1> SUFFICES ASSUME Init PROVE Inductive
  OBVIOUS
<1>1. TypeOK
  BY KeysAssumption DEF Init, TypeOK, OrderStates
<1>2. UnusedKeys /\ ForeignKeys /\ CallsTruthful
  BY DEF Init, UnusedKeys, ForeignKeys, CallsTruthful
<1>3. LookupsTruthful
  BY DEF Init, LookupsTruthful, OrderStates
<1>4. DeadRows /\ OneLiveRow
  BY DEF Init, DeadRows, OneLiveRow, Live
<1>5. ApprovedRows /\ PendingRows /\ PaidOrders /\ DepositOrders
  BY DEF Init, ApprovedRows, PendingRows, PaidOrders, DepositOrders
<1>6. StockReturnedOnce
  BY DEF Init, StockReturnedOnce
<1> QED
  BY <1>1, <1>2, <1>3, <1>4, <1>5, <1>6 DEF Inductive

\* The invariant of PaymentInvariant holds in every reachable state, for every
\* number of orders, keys, requests and crashes.
THEOREM PaymentInductive == Spec => []Inductive
BY InitInductive, InductiveStep, PTL DEF Spec

\* Every variable keeps to the values its column or memory can hold.
THEOREM PaymentTyped == Spec => []TypeOK
<1>1. Inductive => TypeOK
  BY DEF Inductive
<1> QED
  BY PaymentInductive, <1>1, PTL

\* A paid order has one approved payment, of its own key and full amount, whose
\* money the gateway took: P-408, P-905 and A-508 all check order and amount
\* before moving an order to Paid.
THEOREM PaidOrdersSafe == Spec => []PaidOrdersHaveTheirMoney
<1>1. Inductive => PaidOrdersHaveTheirMoney
  BY DEF Inductive, PaidOrdersHaveTheirMoney, PaidOrders, ApprovedRows, Own, Taken, TookMoney
<1> QED
  BY PaymentInductive, <1>1, PTL

\* No key of a given-up order holds the buyer's money: a key without a row was
\* never sent, a key of another order never leaves the gateway's door, and the
\* row of a failed order can only be a failed one (expireOne, expireDeposit).
THEOREM FailedOrdersSafe == Spec => []FailedOrdersTookNoMoney
<1>1. ASSUME Inductive PROVE FailedOrdersTookNoMoney
  <2> SUFFICES ASSUME NEW o \in Orders, order[o] = "PaymentFailed",
                      NEW k \in Keys, KeyOrder[k] = o
               PROVE  pg[k] # "done"
    BY DEF FailedOrdersTookNoMoney
  <2>1. CASE pay[k] = "none"
    BY <1>1, <2>1 DEF Inductive, UnusedKeys
  <2>2. CASE pay[k] # "none" /\ payOrder[k] # o
    BY <1>1, <2>2 DEF Inductive, ForeignKeys, Own
  <2>3. CASE pay[k] # "none" /\ payOrder[k] = o
    <3>1. pay[k] = "failed"
      BY <1>1, <2>3 DEF Inductive, TypeOK, ApprovedRows, PendingRows
    <3> QED
      BY <1>1, <3>1 DEF Inductive, DeadRows
  <2> QED
    BY <2>1, <2>2, <2>3
<1> QED
  BY PaymentInductive, <1>1, PTL

\* A key whose money the gateway holds has the live row of its order.
LEMMA HeldMoney ==
  ASSUME Inductive, NEW k \in Keys, pg[k] = "done"
  PROVE  Live(k, KeyOrder[k])
<1>1. pay[k] # "none"
  BY DEF Inductive, UnusedKeys
<1>2. pay[k] # "failed"
  BY DEF Inductive, DeadRows
<1>3. payOrder[k] = KeyOrder[k]
  BY <1>1 DEF Inductive, ForeignKeys, Own
<1> QED
  BY <1>1, <1>2, <1>3 DEF Inductive, TypeOK, Live

\* Money is never held twice for one order: both keys would have the live row
\* the partial unique index allows once.
THEOREM ChargedOnce == Spec => []NoSecondCharge
<1>1. ASSUME Inductive PROVE NoSecondCharge
  <2> SUFFICES ASSUME NEW j \in Keys, NEW k \in Keys, KeyOrder[j] = KeyOrder[k],
                      pg[j] = "done", pg[k] = "done"
               PROVE  j = k
    BY DEF NoSecondCharge
  <2>1. Live(j, KeyOrder[j]) /\ Live(k, KeyOrder[j])
    BY <1>1, HeldMoney
  <2>2. KeyOrder[j] \in Orders
    BY KeysAssumption
  <2> QED
    BY <1>1, <2>1, <2>2 DEF Inductive, OneLiveRow
<1> QED
  BY PaymentInductive, <1>1, PTL

\* The stock of an order goes back once, when it fails, and never otherwise.
THEOREM StockSafe == Spec => []StockReturnedOnce
<1>1. Inductive => StockReturnedOnce
  BY DEF Inductive
<1> QED
  BY PaymentInductive, <1>1, PTL

\* Payment rows and orders never disagree about what is paid, open or waiting.
THEOREM LedgerSafe == Spec => []LedgerAgrees
<1>1. Inductive => LedgerAgrees
  BY DEF Inductive, LedgerAgrees, ApprovedRows, PendingRows, DepositOrders, HasPending, TypeOK
<1> QED
  BY PaymentInductive, <1>1, PTL

\* No step moves a paid or failed order, or takes an approval back: every write
\* is a compare-and-swap from an open status, and the unconditional UPDATEs of
\* payments.status follow calls whose answer excludes an approved row.
THEOREM SettledSafe == Spec => SettledStays
<1> DEFINE Stays == /\ \A o \in Orders : order[o] \in {"Paid", "PaymentFailed"} => order'[o] = order[o]
                    /\ \A k \in Keys : pay[k] = "approved" => pay'[k] = "approved"
<1>1. ASSUME Inductive, [Next]_vars PROVE Stays
  <2>a. TypeOK
    BY <1>1 DEF Inductive
  <2> USE <2>a DEF TypeOK, Stays
  <2>1. CASE Gateway
    BY <2>1, Zenon DEF Gateway, PassAuthWindow, GatewayConfirm, GatewayConfirmLate, GatewayExpire,
       GatewayDeposit, PassDueDate, GatewayCloseAccount, ConsoleCancel, orderVars, payVars
  <2>2. CASE ConfirmPayment
    <3>1. CASE \E r \in Requests : ConfirmArrive(r) \/ ConfirmRefuse(r)
      BY <3>1 DEF ConfirmArrive, ConfirmRefuse, orderVars, payVars
    <3>2. ASSUME NEW r \in Requests, ConfirmReserve(r) PROVE Stays
      BY <3>2, KeysAssumption DEF ConfirmReserve, MayReserve, SetPay, orderVars
    <3>3. CASE \E k \in Keys : ConfirmTimeout(k) \/ ConfirmLookup(k) \/ ConfirmRollback(k)
      BY <3>3 DEF ConfirmTimeout, ConfirmLookup, ConfirmRollback, orderVars, payVars
    <3>4. ASSUME NEW k \in Keys, ConfirmFail(k) \/ ConfirmDecline(k) PROVE Stays
      <4>1. pay[k] # "approved"
        BY <1>1, <3>4 DEF Inductive, CallsTruthful, ApprovedRows, TookMoney, ConfirmFail, ConfirmDecline
      <4> QED
        BY <3>4, <4>1 DEF ConfirmFail, ConfirmDecline, SetPay, orderVars
    <3>5. ASSUME NEW k \in Keys, ConfirmRecord(k) PROVE Stays
      <4>1. order[payOrder[k]] = "PaymentPending"
        BY <3>5 DEF ConfirmRecord, moveOrder
      <4>2. pay[k] # "approved"
        BY <1>1, <4>1 DEF Inductive, ApprovedRows
      <4> QED
        BY <3>5, <4>1, <4>2 DEF ConfirmRecord, moveOrder, SetPay
    <3> QED
      BY <2>2, <3>1, <3>2, <3>3, <3>4, <3>5 DEF ConfirmPayment
  <2>3. CASE Webhook
    <3>1. CASE \E e \in Events : HookReceive(e) \/ HookRead(e) \/ HookDone(e) \/ HookFail(e)
      BY <3>1 DEF HookReceive, HookRead, HookDone, HookFail, FinishWebhook, orderVars, payVars
    <3>2. ASSUME NEW e \in Events, HookApply(e) PROVE Stays
      BY <3>2 DEF HookApply, MayApply, moveOrder, SetPay, CanTransition, transitions, Moves
    <3> QED
      BY <2>3, <3>1, <3>2 DEF Webhook
  <2>4. CASE ResolvePendingPayment
    <3>1. CASE \/ \E k \in Keys : ResolveAsk(k)
               \/ \E x \in Keys \X {"approved", "failed"} : ResolveDrop(x)
      BY <3>1 DEF ResolveAsk, ResolveDrop, orderVars, payVars
    <3>2. ASSUME NEW k \in Keys, ResolveApprove(k) PROVE Stays
      BY <1>1, <3>2 DEF ResolveApprove, moveOrder, SetPay, Inductive, PendingRows
    <3>3. ASSUME NEW k \in Keys, ResolveFail(k) PROVE Stays
      BY <3>3 DEF ResolveFail, releaseUnpaid, moveOrder, SetPay, orderVars
    <3> QED
      BY <2>4, <3>1, <3>2, <3>3 DEF ResolvePendingPayment
  <2>5. CASE Expiry
    <3>1. CASE \/ ExpireList \/ \E o \in Orders : ExpireSkip(o)
               \/ \E k \in Keys : DepositAsk(k) \/ DepositSkip(k)
      BY <3>1 DEF ExpireList, ExpireSkip, DepositAsk, DepositSkip, orderVars, payVars
    <3>2. ASSUME NEW o \in Orders, ExpireOne(o) \/ ReleaseStranded(o) PROVE Stays
      BY <3>2 DEF ExpireOne, ReleaseStranded, releaseUnpaid, moveOrder, payVars
    <3>3. ASSUME NEW k \in Keys, DepositExpire(k) PROVE Stays
      BY <3>3 DEF DepositExpire, MayExpireDeposit, releaseUnpaid, moveOrder, SetPay
    <3> QED
      BY <2>5, <3>1, <3>2, <3>3 DEF Expiry
  <2>6. CASE Crash
    BY <2>6 DEF Crash, orderVars, payVars
  <2>7. CASE UNCHANGED vars
    BY <2>7 DEF vars, orderVars, payVars
  <2> QED
    BY <1>1, <2>1, <2>2, <2>3, <2>4, <2>5, <2>6, <2>7 DEF Next
<1>2. ASSUME Inductive, [Next]_vars PROVE [Stays]_vars
  BY <1>1, <1>2
<1> QED
  BY PaymentInductive, <1>2, PTL DEF Spec, SettledStays

-----------------------------------------------------------------------------
(* The refinement.  Without cancellations at the gateway's console, every      *)
(* step is a step of OrderPayment or none.                                    *)

\* No key was ever cancelled.
NoneCancelled == \A k \in Keys : pg[k] # "cancelled"

\* A key that becomes paid is the abstract Take of its order: the order is open,
\* and no other key holds its money.
LEMMA OneTakes ==
  ASSUME TypeOK, TypeOK', NoneCancelled, PaidOrdersHaveTheirMoney,
         FailedOrdersTookNoMoney', NoSecondCharge',
         NEW k \in Keys, pg[k] # "done", pg' = [pg EXCEPT ![k] = "done"],
         UNCHANGED <<order, restocked>>
  PROVE  Abstract!Take(KeyOrder[k], k)
<1> DEFINE o == KeyOrder[k]
<1>0. o \in Orders /\ DOMAIN pg = Keys
  BY KeysAssumption DEF TypeOK
<1>1. pg'[k] = "done" /\ \A j \in Keys \ {k} : pg'[j] = pg[j]
  BY <1>0
<1>2. order[o] # "PaymentFailed"
  BY <1>0, <1>1 DEF FailedOrdersTookNoMoney
<1>3. HeldFor(o) = {}
  BY <1>0, <1>1 DEF NoSecondCharge, HeldFor
<1>4. order[o] # "Paid"
  BY <1>0, <1>3 DEF PaidOrdersHaveTheirMoney, HeldFor, Taken, NoneCancelled
<1>5. \A p \in Orders : HeldFor(p)' = IF p = o THEN {k} ELSE HeldFor(p)
  BY <1>1, <1>3 DEF HeldFor
<1>6. \A p \in Orders : Outcome(p)' = Outcome(p)
  BY DEF Outcome
<1> QED
  BY <1>0, <1>2, <1>3, <1>4, <1>5, <1>6 DEF Abstract!Take, Outcome

\* An open order that becomes Paid is the abstract Pay: its money is held.
LEMMA OnePays ==
  ASSUME TypeOK, NoneCancelled, PaidOrdersHaveTheirMoney',
         NEW o \in Orders, order[o] \in {"PaymentPending", "DepositPending"},
         order' = [order EXCEPT ![o] = "Paid"], UNCHANGED <<restocked, pg>>
  PROVE  Abstract!Pay(o)
<1>1. order'[o] = "Paid" /\ \A p \in Orders \ {o} : order'[p] = order[p]
  BY DEF TypeOK
<1>2. HeldFor(o) # {}
  BY <1>1 DEF PaidOrdersHaveTheirMoney, HeldFor, Taken, NoneCancelled
<1>3. \A p \in Orders : HeldFor(p)' = HeldFor(p)
  BY DEF HeldFor
<1>4. \A p \in Orders : Outcome(p)' = IF p = o THEN "paid" ELSE Outcome(p)
  BY <1>1 DEF Outcome
<1> QED
  BY <1>2, <1>3, <1>4 DEF Abstract!Pay, Outcome

\* An open order that fails, its stock returned, is the abstract GiveUp: no
\* money is held for it.
LEMMA OneGivenUp ==
  ASSUME TypeOK, FailedOrdersTookNoMoney',
         NEW o \in Orders, order[o] \in {"PaymentPending", "DepositPending"},
         order' = [order EXCEPT ![o] = "PaymentFailed"],
         restocked' = [restocked EXCEPT ![o] = @ + 1], UNCHANGED pg
  PROVE  Abstract!GiveUp(o)
<1>1. order'[o] = "PaymentFailed" /\ \A p \in Orders \ {o} : order'[p] = order[p]
  BY DEF TypeOK
<1>2. HeldFor(o) = {}
  BY <1>1 DEF FailedOrdersTookNoMoney, HeldFor
<1>3. \A p \in Orders : HeldFor(p)' = HeldFor(p)
  BY DEF HeldFor
<1>4. \A p \in Orders : Outcome(p)' = IF p = o THEN "failed" ELSE Outcome(p)
  BY <1>1 DEF Outcome
<1> QED
  BY <1>2, <1>3, <1>4 DEF Abstract!GiveUp, Outcome

\* A step that changes neither outcomes, returns nor held money stutters.
LEMMA NothingShows ==
  ASSUME TypeOK, TypeOK', UNCHANGED restocked,
         \A o \in Orders : Outcome(o)' = Outcome(o),
         \A k \in Keys : pg'[k] = "done" <=> pg[k] = "done"
  PROVE  UNCHANGED Abstract!vars
BY DEF Abstract!vars, HeldFor

\* Initial states map to the abstract initial state.
LEMMA InitAbstract == Init => Abstract!Init
BY KeysAssumption DEF Init, Abstract!Init, Outcome, HeldFor

\* Only the console cancels a payment of an unsettled order.
LEMMA NoneCancelledStep ==
  ASSUME ~ConsoleCancels, TypeOK, NoneCancelled, [Next]_vars PROVE NoneCancelled'
<1>0. DOMAIN pg = Keys
  BY DEF TypeOK
<1>1. CASE UNCHANGED pg
  BY <1>1 DEF NoneCancelled
<1>2. ASSUME NEW k \in Keys, NEW s, s # "cancelled", pg' = [pg EXCEPT ![k] = s]
      PROVE  NoneCancelled'
  BY <1>0, <1>2 DEF NoneCancelled
<1>3. CASE Gateway
  <2>1. CASE \/ \E o \in Orders : PassAuthWindow(o)
             \/ \E k \in Keys : PassDueDate(k)
    BY <1>1, <2>1 DEF PassAuthWindow, PassDueDate, pgVars
  <2>2. ASSUME NEW k \in Keys, GatewayConfirm(k) \/ GatewayConfirmLate(k)
        PROVE  NoneCancelled'
    <3>1. \A x \in Outcomes(k) \cup {<<pg[k], "refused">>} : x[1] # "cancelled"
      BY DEF Outcomes, NoneCancelled
    <3> QED
      BY <1>2, <2>2, <3>1 DEF GatewayConfirm, GatewayConfirmLate
  <2>3. ASSUME NEW k \in Keys, GatewayExpire(k) \/ GatewayDeposit(k) \/ GatewayCloseAccount(k)
        PROVE  NoneCancelled'
    BY <1>2, <2>3 DEF GatewayExpire, GatewayDeposit, GatewayCloseAccount
  <2> QED
    BY <1>3, <2>1, <2>2, <2>3 DEF Gateway, ConsoleCancel
<1>4. CASE ~Gateway
  <2>1. UNCHANGED pg
    BY <1>4 DEF Next, vars, pgVars, ConfirmPayment, Webhook, ResolvePendingPayment, Expiry, Crash,
       ConfirmArrive, ConfirmReserve, ConfirmRefuse, ConfirmTimeout, ConfirmLookup, ConfirmFail,
       ConfirmRecord, ConfirmDecline, ConfirmRollback, HookReceive, HookRead, HookDone, HookApply,
       HookFail, ResolveAsk, ResolveApprove, ResolveFail, ResolveDrop, ExpireList, ExpireOne,
       ExpireSkip, DepositAsk, DepositExpire, DepositSkip, ReleaseStranded
  <2> QED
    BY <1>1, <2>1
<1> QED
  BY <1>3, <1>4

\* Every step maps to an abstract step or a stutter.
LEMMA StepAbstract ==
  ASSUME ~ConsoleCancels, Inductive, Inductive', NoneCancelled, NoneCancelled',
         PaidOrdersHaveTheirMoney, PaidOrdersHaveTheirMoney', FailedOrdersTookNoMoney', NoSecondCharge', [Next]_vars
  PROVE  [Abstract!Next]_(Abstract!vars)
<1> DEFINE Quiet == UNCHANGED <<order, restocked>>
<1>t. TypeOK /\ TypeOK'
  BY DEF Inductive
<1>d. DOMAIN pg = Keys /\ DOMAIN order = Orders
  BY <1>t DEF TypeOK
<1>1. ASSUME NEW k \in Keys, NEW s, pg' = [pg EXCEPT ![k] = s], Quiet,
             pg[k] = "done" => s = "done"
      PROVE  [Abstract!Next]_(Abstract!vars)
  <2>1. CASE pg[k] # "done" /\ s = "done"
    <3>1. Abstract!Take(KeyOrder[k], k)
      BY <1>1, <1>t, <2>1, OneTakes
    <3>2. KeyOrder[k] \in Orders
      BY KeysAssumption
    <3> QED
      BY <3>1, <3>2 DEF Abstract!Next
  <2>2. CASE ~(pg[k] # "done" /\ s = "done")
    <3>1. \A j \in Keys : pg'[j] = "done" <=> pg[j] = "done"
      BY <1>1, <1>d, <2>2
    <3>2. \A o \in Orders : Outcome(o)' = Outcome(o)
      BY <1>1 DEF Outcome
    <3> QED
      BY <1>1, <1>t, <3>1, <3>2, NothingShows
  <2> QED
    BY <2>1, <2>2
<1>2. ASSUME Quiet, UNCHANGED pg PROVE [Abstract!Next]_(Abstract!vars)
  BY <1>2 DEF Abstract!vars, HeldFor, Outcome
<1>3. ASSUME NEW o \in Orders, NEW from, NEW to, NEW actor, moveOrder(o, from, to, actor),
             to \in {"Paid", "DepositPending"}, UNCHANGED <<restocked, pg>>
      PROVE  [Abstract!Next]_(Abstract!vars)
  <2>1. order[o] \in {"PaymentPending", "DepositPending"} /\ order' = [order EXCEPT ![o] = to]
    BY <1>3, <1>t DEF moveOrder, CanTransition, transitions, Moves, TypeOK, OrderStates
  <2>2. CASE to = "Paid"
    <3>1. Abstract!Pay(o)
      BY <1>3, <1>t, <2>1, <2>2, OnePays
    <3> QED
      BY <3>1 DEF Abstract!Next
  <2>3. CASE to = "DepositPending"
    <3>1. \A p \in Orders : Outcome(p)' = Outcome(p)
      BY <1>d, <2>1, <2>3 DEF Outcome
    <3> QED
      BY <1>3, <1>t, <3>1, NothingShows
  <2> QED
    BY <1>3, <2>2, <2>3
<1>4. ASSUME NEW o \in Orders, NEW from, releaseUnpaid(o, from), UNCHANGED pg
      PROVE  [Abstract!Next]_(Abstract!vars)
  <2>1. /\ order[o] \in {"PaymentPending", "DepositPending"}
        /\ order' = [order EXCEPT ![o] = "PaymentFailed"]
        /\ restocked' = [restocked EXCEPT ![o] = @ + 1]
    BY <1>4, <1>t DEF releaseUnpaid, moveOrder, CanTransition, transitions, Moves, TypeOK, OrderStates
  <2>2. Abstract!GiveUp(o)
    BY <1>4, <1>t, <2>1, OneGivenUp
  <2> QED
    BY <2>2 DEF Abstract!Next
<1>5. CASE Gateway
  <2>1. CASE \/ \E o \in Orders : PassAuthWindow(o)
             \/ \E k \in Keys : PassDueDate(k)
    BY <1>2, <2>1 DEF PassAuthWindow, PassDueDate, pgVars, orderVars
  <2>2. ASSUME NEW k \in Keys, GatewayConfirm(k) \/ GatewayConfirmLate(k)
        PROVE  [Abstract!Next]_(Abstract!vars)
    <3>1. PICK x \in Outcomes(k) \cup {<<pg[k], "refused">>} : pg' = [pg EXCEPT ![k] = x[1]]
      BY <2>2 DEF GatewayConfirm, GatewayConfirmLate
    <3>2. pg[k] = "done" => x[1] = "done"
      BY <3>1 DEF Outcomes
    <3>3. Quiet
      BY <2>2 DEF GatewayConfirm, GatewayConfirmLate, orderVars
    <3> QED
      BY <1>1, <3>1, <3>2, <3>3
  <2>3. ASSUME NEW k \in Keys, GatewayExpire(k) \/ GatewayDeposit(k) \/ GatewayCloseAccount(k)
        PROVE  [Abstract!Next]_(Abstract!vars)
    BY <1>1, <2>3 DEF GatewayExpire, GatewayDeposit, GatewayCloseAccount, orderVars
  <2> QED
    BY <1>5, <2>1, <2>2, <2>3 DEF Gateway, ConsoleCancel
<1>6. CASE ConfirmPayment
  <2>1. ASSUME NEW k \in Keys, ConfirmRecord(k) PROVE [Abstract!Next]_(Abstract!vars)
    <3>1. payOrder[k] \in Orders
      <4>1. pay[k] # "none"
        BY <2>1 DEF Inductive, UnusedKeys, ConfirmRecord
      <4> QED
        BY <4>1, <1>t DEF Inductive, UnusedKeys, TypeOK
    <3> QED
      BY <1>3, <2>1, <3>1 DEF ConfirmRecord, pgVars
  <2>2. CASE ~\E k \in Keys : ConfirmRecord(k)
    BY <1>2, <1>6, <2>2 DEF ConfirmPayment, ConfirmArrive, ConfirmReserve, ConfirmRefuse,
       ConfirmTimeout, ConfirmLookup, ConfirmFail, ConfirmDecline, ConfirmRollback, orderVars, pgVars
  <2> QED
    BY <2>1, <2>2
<1>7. CASE Webhook
  <2>1. ASSUME NEW e \in Events, HookApply(e) PROVE [Abstract!Next]_(Abstract!vars)
    <3>1. KeyOrder[e[2]] \in Orders
      BY KeysAssumption DEF Events
    <3> QED
      BY <1>3, <2>1, <3>1 DEF HookApply, pgVars
  <2>2. CASE ~\E e \in Events : HookApply(e)
    BY <1>2, <1>7, <2>2 DEF Webhook, HookReceive, HookRead, HookDone, HookFail, orderVars, pgVars
  <2> QED
    BY <2>1, <2>2
<1>8. CASE ResolvePendingPayment
  <2>1. ASSUME NEW k \in Keys, ResolveApprove(k) \/ ResolveFail(k)
        PROVE  [Abstract!Next]_(Abstract!vars)
    <3>1. payOrder[k] \in Orders
      BY <2>1, <1>t DEF Inductive, UnusedKeys, TypeOK, ResolveApprove, ResolveFail
    <3>2. CASE ResolveApprove(k)
      BY <1>3, <3>1, <3>2 DEF ResolveApprove, pgVars
    <3>3. CASE ResolveFail(k)
      BY <1>2, <1>4, <3>1, <3>3 DEF ResolveFail, pgVars, orderVars
    <3> QED
      BY <2>1, <3>2, <3>3
  <2>2. CASE \/ \E k \in Keys : ResolveAsk(k)
             \/ \E x \in Keys \X {"approved", "failed"} : ResolveDrop(x)
    BY <1>2, <2>2 DEF ResolveAsk, ResolveDrop, orderVars, pgVars
  <2> QED
    BY <1>8, <2>1, <2>2 DEF ResolvePendingPayment
<1>9. CASE Expiry
  <2>1. ASSUME NEW o \in Orders, ExpireOne(o) \/ ReleaseStranded(o)
        PROVE  [Abstract!Next]_(Abstract!vars)
    BY <1>4, <2>1 DEF ExpireOne, ReleaseStranded, pgVars
  <2>2. ASSUME NEW k \in Keys, DepositExpire(k) PROVE [Abstract!Next]_(Abstract!vars)
    <3>1. payOrder[k] \in Orders
      BY <2>2, <1>t DEF Inductive, UnusedKeys, TypeOK, DepositExpire, MayExpireDeposit
    <3> QED
      BY <1>4, <2>2, <3>1 DEF DepositExpire, pgVars
  <2>3. CASE \/ ExpireList \/ \E o \in Orders : ExpireSkip(o)
             \/ \E k \in Keys : DepositAsk(k) \/ DepositSkip(k)
    BY <1>2, <2>3 DEF ExpireList, ExpireSkip, DepositAsk, DepositSkip, orderVars, pgVars
  <2> QED
    BY <1>9, <2>1, <2>2, <2>3 DEF Expiry
<1>10. CASE Crash \/ UNCHANGED vars
  BY <1>2, <1>10 DEF Crash, vars, orderVars, pgVars
<1> QED
  BY <1>5, <1>6, <1>7, <1>8, <1>9, <1>10 DEF Next

\* The five actors of internal/commerce, however they interleave and crash,
\* implement OrderPayment: each order is charged at most once, is paid only with
\* its money held, is given up only with none, and is settled once.
THEOREM PaymentRefines == ASSUME ~ConsoleCancels PROVE Spec => ImplementsOrderPayment
<1> DEFINE Facts == /\ Inductive /\ NoneCancelled /\ PaidOrdersHaveTheirMoney
                    /\ FailedOrdersTookNoMoney /\ NoSecondCharge
<1>1. Init => NoneCancelled
  BY DEF Init, NoneCancelled
<1>2. Inductive /\ NoneCancelled /\ [Next]_vars => NoneCancelled'
  BY NoneCancelledStep DEF Inductive
<1>3. Spec => []NoneCancelled
  BY PaymentInductive, <1>1, <1>2, PTL DEF Spec
<1>4. Facts /\ Facts' /\ [Next]_vars => [Abstract!Next]_(Abstract!vars)
  BY StepAbstract
<1> QED
  BY PaymentInductive, PaidOrdersSafe, FailedOrdersSafe, ChargedOnce, <1>3, <1>4, InitAbstract, PTL
     DEF Spec, ImplementsOrderPayment, Abstract!Spec

=============================================================================
