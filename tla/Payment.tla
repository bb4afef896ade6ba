------------------------------- MODULE Payment -------------------------------
(***************************************************************************)
(* How an unpaid order is paid or given up (internal/commerce: payment.go, *)
(* webhook.go and the expiry half of order.go).                            *)
(*                                                                         *)
(* An order starts in PaymentPending with its stock already taken.  Five   *)
(* actors then work on it without a common lock over the payment gateway's *)
(* round trip: the buyer's confirmation (P-408), the gateway's webhook     *)
(* (P-905), the administrator's "apply the gateway's answer" (A-508), the  *)
(* minute-by-minute expiry of unpaid and of undeposited orders.  Each      *)
(* action below is one database transaction or one gateway call; what a    *)
(* handler keeps in memory between two of them is in a variable, and       *)
(* Crash forgets all of it.                                                *)
(*                                                                         *)
(* A row of `payments` is identified by its payment key: the unique index  *)
(* on (pg, payment_key) lets a key be recorded once, for one order.        *)
(***************************************************************************)
EXTENDS Naturals, OrderStatus

CONSTANTS
    Orders,          \* orders, all created and unpaid
    Keys,            \* payment keys the gateway issued to a browser
    KeyOrder,        \* the order the gateway bound each key to
    FullKeys,        \* keys whose amount at the gateway is that order's total
    Requests,        \* the P-408 requests browsers may send
    EventTypes,      \* kinds of webhook notification
    Stranded,        \* orders an earlier revision left in DepositPending, unpaid
    NoOrder,         \* the order of a key that was never recorded
    MaxWaiting,      \* bound: P-408 requests waiting for a lock at once
    MaxCrashes,      \* bound: process restarts
    ConsoleCancels   \* may the merchant cancel at the gateway's own console?

ASSUME KeysAssumption ==
    /\ KeyOrder \in [Keys -> Orders]
    /\ FullKeys \subseteq Keys
    /\ Requests \subseteq [order : Orders, key : Keys, amount : {"total", "other"}]
    /\ Stranded \subseteq Orders
    /\ NoOrder \notin Orders
    /\ MaxWaiting \in Nat /\ MaxCrashes \in Nat
    /\ ConsoleCancels \in BOOLEAN

VARIABLES
    order,      \* orders.status
    restocked,  \* how often each order's items went back on the shelf
    pay,        \* payments.status by key; "none" is "no row"
    payOrder,   \* payments.order_id by key
    recorded,   \* keys whose confirmation answer (secret, due date) is stored
    arrived,    \* P-408 requests past the window check, waiting for the order lock
    confirm,    \* what P-408 knows of the call it made for a key
    inbox,      \* webhook_events.status by event
    hook,       \* what the goroutine processing an event has read
    resolve,    \* A-508 requests holding a gateway answer
    listed,     \* the unpaid orders the expiry loop picked
    asked,      \* the deposit payments the expiry loop asked about
    pg,         \* the gateway's state of each key
    late,       \* confirmations still on the wire after the caller gave up
    due,        \* virtual accounts past their due date
    aged,       \* orders older than AuthWindow
    crashes

orderVars   == <<order, restocked>>
payVars     == <<pay, payOrder, recorded>>
confirmVars == <<arrived, confirm>>
hookVars    == <<inbox, hook>>
opsVars     == <<resolve, listed, asked>>
pgVars      == <<pg, late, due>>
clockVars   == <<aged, crashes>>
vars == <<orderVars, payVars, confirmVars, hookVars, opsVars, pgVars, clockVars>>

OrderStates == {"PaymentPending", "DepositPending", "Paid", "PaymentFailed"}
Events  == EventTypes \X Keys
Answers == {"approved", "pending", "failed"}

TypeOK ==
    /\ order \in [Orders -> OrderStates]
    /\ restocked \in [Orders -> Nat]
    /\ pay \in [Keys -> {"none", "pending", "approved", "failed"}]
    /\ payOrder \in [Keys -> Orders \cup {NoOrder}]
    /\ recorded \subseteq Keys
    /\ arrived \subseteq Requests
    /\ confirm \in [Keys -> {"idle", "calling", "unknown", "refused"} \cup Answers]
    /\ inbox \in [Events -> {"none", "received", "processed", "failed"}]
    /\ hook \in [Events -> {"none", "plain", "signed"} \cup OrderStates]
    /\ resolve \subseteq Keys \X {"approved", "failed"}
    /\ listed \subseteq Orders
    /\ asked \subseteq Keys
    /\ pg \in [Keys -> {"ready", "waiting", "done", "failed", "cancelled"}]
    /\ late \subseteq Keys
    /\ due \subseteq Keys
    /\ aged \subseteq Orders
    /\ crashes \in 0..MaxCrashes

Init ==
    /\ order = [o \in Orders |-> IF o \in Stranded THEN "DepositPending"
                                                   ELSE "PaymentPending"]
    /\ restocked = [o \in Orders |-> 0]
    /\ pay = [k \in Keys |-> "none"]
    /\ payOrder = [k \in Keys |-> NoOrder]
    /\ recorded = {}
    /\ arrived = {}
    /\ confirm = [k \in Keys |-> "idle"]
    /\ inbox = [e \in Events |-> "none"]
    /\ hook = [e \in Events |-> "none"]
    /\ resolve = {}
    /\ listed = {}
    /\ asked = {}
    /\ pg = [k \in Keys |-> "ready"]
    /\ late = {}
    /\ due = {}
    /\ aged = {}
    /\ crashes = 0

-----------------------------------------------------------------------------
(* Queries and updates shared by the handlers.  The definitions commented    *)
(* "Mutant" are used by no other: each is a plausible bug of the definition  *)
(* that follows it, which the model checker must notice.                     *)

\* The order's row that is not failed: LivePayment, and what the partial
\* unique index lets exist at most once.
Live(k, o)    == payOrder[k] = o /\ pay[k] \in {"pending", "approved"}
\* Mutant: the query counts approved payments only.
HasLiveApproved(o) == \E k \in Keys : payOrder[k] = o /\ pay[k] = "approved"
HasLive(o)    == \E k \in Keys : Live(k, o)
HasPending(o) == \E k \in Keys : payOrder[k] = o /\ pay[k] = "pending"

\* Mutant: the UPDATE without its condition on the status read before.
moveOrderBlind(o, from, to, actor) ==
    /\ CanTransition(from, to, actor)
    /\ order' = [order EXCEPT ![o] = to]
\* The compare-and-swap on orders.status.
moveOrder(o, from, to, actor) ==
    /\ CanTransition(from, to, actor)
    /\ order[o] = from
    /\ order' = [order EXCEPT ![o] = to]

\* Mutant: the order closed, its stock forgotten.
releaseUnpaidSilently(o, from) ==
    /\ moveOrder(o, from, "PaymentFailed", "system")
    /\ UNCHANGED restocked
releaseUnpaid(o, from) ==
    /\ moveOrder(o, from, "PaymentFailed", "system")
    /\ restocked' = [restocked EXCEPT ![o] = @ + 1]

SetPay(k, status) == pay' = [pay EXCEPT ![k] = status]

\* Mutant: an issued account counts as paid.
tossStatusEager(s) == CASE s \in {"done", "waiting"} -> "approved"
                        [] s = "failed"            -> "failed"
                        [] s = "cancelled"         -> "cancelled"
                        [] OTHER                   -> "pending"
\* Mutant: a lapsed session is not recognised as a failure.
tossStatusPartial(s) == CASE s = "done"      -> "approved"
                          [] s = "cancelled" -> "cancelled"
                          [] OTHER           -> "pending"
\* tossStatus folds the gateway's states into ours.
tossStatus(s) == CASE s = "done"      -> "approved"
                   [] s = "failed"    -> "failed"
                   [] s = "cancelled" -> "cancelled"
                   [] OTHER           -> "pending"

\* Mutant: the lookup's order is not compared.
OwnAnswerAny(k) == payOrder[k] \in Orders
\* A lookup of k answers for the order the row of k names.
OwnAnswer(k) == KeyOrder[k] = payOrder[k]

-----------------------------------------------------------------------------
(* The gateway (external) and the clock. *)

PassAuthWindow(o) ==
    /\ o \notin aged
    /\ aged' = aged \cup {o}
    /\ UNCHANGED <<orderVars, payVars, confirmVars, hookVars, opsVars, pgVars, crashes>>

\* What a confirmation that reaches the gateway does to its key, and answers.
\* "refused" is a definite 4xx; "failed" is a 200 whose status is a failure.
Outcomes(k) ==
    IF pg[k] = "ready" /\ OwnAnswer(k)
    THEN {<<"done", "approved">>, <<"waiting", "pending">>, <<"failed", "failed">>,
          <<"failed", "refused">>, <<"ready", "refused">>}
    ELSE {<<pg[k], "refused">>}

\* The gateway handles the call and its answer comes back.
GatewayConfirm(k) ==
    /\ confirm[k] = "calling"
    /\ \E x \in Outcomes(k) :
         /\ pg' = [pg EXCEPT ![k] = x[1]]
         /\ confirm' = [confirm EXCEPT ![k] = x[2]]
    /\ UNCHANGED <<orderVars, payVars, arrived, hookVars, opsVars, late, due, clockVars>>

\* A call whose answer nobody waits for is handled, or never arrives.
GatewayConfirmLate(k) ==
    /\ k \in late
    /\ late' = late \ {k}
    /\ \E x \in Outcomes(k) \cup {<<pg[k], "refused">>} :
         pg' = [pg EXCEPT ![k] = x[1]]
    /\ UNCHANGED <<orderVars, payVars, confirmVars, hookVars, opsVars, due, clockVars>>

\* A session nobody confirms lapses.
GatewayExpire(k) ==
    /\ pg[k] = "ready" /\ pay[k] # "none"
    /\ pg' = [pg EXCEPT ![k] = "failed"]
    /\ UNCHANGED <<orderVars, payVars, confirmVars, hookVars, opsVars, late, due, clockVars>>

\* A virtual account takes a deposit until its due date and none after it.
GatewayDeposit(k) ==
    /\ pg[k] = "waiting" /\ k \notin due
    /\ pg' = [pg EXCEPT ![k] = "done"]
    /\ UNCHANGED <<orderVars, payVars, confirmVars, hookVars, opsVars, late, due, clockVars>>

\* The date stands in the answer to the confirmation, whatever happens to the
\* account afterwards.
PassDueDate(k) ==
    /\ k \notin due
    /\ pg[k] = "waiting" \/ (k \in recorded /\ pay[k] = "pending")
    /\ due' = due \cup {k}
    /\ UNCHANGED <<orderVars, payVars, confirmVars, hookVars, opsVars, pg, late, clockVars>>

GatewayCloseAccount(k) ==
    /\ pg[k] = "waiting" /\ k \in due
    /\ pg' = [pg EXCEPT ![k] = "failed"]
    /\ UNCHANGED <<orderVars, payVars, confirmVars, hookVars, opsVars, late, due, clockVars>>

\* The merchant, seeing money taken for a payment we still call pending,
\* gives it back at the gateway's console.
ConsoleCancel(k) ==
    /\ ConsoleCancels
    /\ pg[k] = "done" /\ pay[k] = "pending" /\ confirm[k] = "idle"
    /\ pg' = [pg EXCEPT ![k] = "cancelled"]
    /\ UNCHANGED <<orderVars, payVars, confirmVars, hookVars, opsVars, late, due, clockVars>>

-----------------------------------------------------------------------------
(* P-408 ConfirmPayment. *)

\* The request reads its clock before it waits for the order's row.
ConfirmArrive(r) ==
    /\ r.order \notin aged
    /\ r \notin arrived /\ Cardinality(arrived) < MaxWaiting
    /\ arrived' = arrived \cup {r}
    /\ UNCHANGED <<orderVars, payVars, confirm, hookVars, opsVars, pgVars, clockVars>>

\* Mutant: the status read under the lock is not checked.
MayReserveStale(r) ==
    /\ r.amount = "total"
    /\ ~HasLive(r.order)
    /\ pay[r.key] = "none"

MayReserve(r) ==
    /\ r.amount = "total"
    /\ ~HasLive(r.order)
    /\ pay[r.key] = "none"
    /\ CanTransition(order[r.order], "Paid", "P-408")

\* First transaction: reserve the payment row under the order's lock.
ConfirmReserve(r) ==
    /\ r \in arrived
    /\ MayReserve(r)
    /\ arrived' = arrived \ {r}
    /\ SetPay(r.key, "pending")
    /\ payOrder' = [payOrder EXCEPT ![r.key] = r.order]
    /\ confirm' = [confirm EXCEPT ![r.key] = "calling"]
    /\ UNCHANGED <<orderVars, recorded, hookVars, opsVars, pgVars, clockVars>>

ConfirmRefuse(r) ==
    /\ r \in arrived
    /\ ~MayReserve(r)
    /\ arrived' = arrived \ {r}
    /\ UNCHANGED <<orderVars, payVars, confirm, hookVars, opsVars, pgVars, clockVars>>

\* No answer in time: the call may have been handled, be on the wire, or lost.
ConfirmTimeout(k) ==
    /\ confirm[k] = "calling"
    /\ confirm' = [confirm EXCEPT ![k] = "unknown"]
    /\ late' = late \cup {k}
    /\ UNCHANGED <<orderVars, payVars, arrived, hookVars, opsVars, pg, due, clockVars>>

\* One lookup after an unknown result; only approval and failure count.
ConfirmLookup(k) ==
    /\ confirm[k] = "unknown"
    /\ \/ confirm' = [confirm EXCEPT ![k] = "idle"]
       \/ /\ OwnAnswer(k)
          /\ tossStatus(pg[k]) \in {"approved", "failed"}
          /\ confirm' = [confirm EXCEPT ![k] = tossStatus(pg[k])]
    /\ UNCHANGED <<orderVars, payVars, arrived, hookVars, opsVars, pgVars, clockVars>>

\* A definite refusal: FailPaymentByID.
ConfirmFail(k) ==
    /\ confirm[k] = "refused"
    /\ SetPay(k, "failed")
    /\ confirm' = [confirm EXCEPT ![k] = "idle"]
    /\ UNCHANGED <<orderVars, payOrder, recorded, arrived, hookVars, opsVars, pgVars, clockVars>>

\* Second transaction.  Its status write has no condition of its own, but the
\* partial unique index still refuses a second live row.
ConfirmRecord(k) ==
    LET o  == payOrder[k]
        to == IF confirm[k] = "approved" THEN "Paid" ELSE "DepositPending"
        by == IF confirm[k] = "approved" THEN "P-408" ELSE "system"
    IN
    /\ confirm[k] \in {"approved", "pending"}
    /\ k \in FullKeys
    /\ moveOrder(o, "PaymentPending", to, by)
    /\ \A j \in Keys \ {k} : ~Live(j, o)
    /\ SetPay(k, confirm[k])
    /\ recorded' = recorded \cup {k}
    /\ confirm' = [confirm EXCEPT ![k] = "idle"]
    /\ UNCHANGED <<restocked, payOrder, arrived, hookVars, opsVars, pgVars, clockVars>>

\* A 200 that is not an approval: DeclinePayment.
ConfirmDecline(k) ==
    /\ confirm[k] = "failed"
    /\ k \in FullKeys
    /\ SetPay(k, "failed")
    /\ confirm' = [confirm EXCEPT ![k] = "idle"]
    /\ UNCHANGED <<orderVars, payOrder, recorded, arrived, hookVars, opsVars, pgVars, clockVars>>

\* The second transaction does not commit: the amounts differ, the order has
\* moved, or the database failed.  The payment row stays as it was.
ConfirmRollback(k) ==
    /\ confirm[k] \in Answers \cup {"refused"}
    /\ confirm' = [confirm EXCEPT ![k] = "idle"]
    /\ UNCHANGED <<orderVars, payVars, arrived, hookVars, opsVars, pgVars, clockVars>>

-----------------------------------------------------------------------------
(* P-905 RecordWebhook and ProcessWebhook.  A notification <<type, key>>     *)
(* names the order of its key.  The endpoint is public, so delivery is not   *)
(* tied to what the gateway did; a deposit notification always carries a     *)
(* secret, a status notification may come without ("plain").                 *)

\* matchWebhook: the secrets agree, which before the confirmation's answer is
\* stored means that neither side has one.
Matches(e, secret) ==
    LET k == e[2] IN
    /\ Live(k, KeyOrder[k])
    /\ secret = "plain" => e[1] # "deposit"
    /\ (secret = "signed") <=> (k \in recorded)

\* The INSERT happens once: the event id is unique.
HookReceive(e) ==
    /\ inbox[e] = "none"
    /\ \E secret \in {"plain", "signed"} :
          /\ Matches(e, secret)
          /\ hook' = [hook EXCEPT ![e] = secret]
    /\ inbox' = [inbox EXCEPT ![e] = "received"]
    /\ UNCHANGED <<orderVars, payVars, confirmVars, opsVars, pgVars, clockVars>>

FinishWebhook(e, result) ==
    /\ inbox' = [inbox EXCEPT ![e] = result]
    /\ hook' = [hook EXCEPT ![e] = "none"]

\* What the goroutine reads first still matches.
HookMatches(e) == hook[e] \in {"plain", "signed"} /\ Matches(e, hook[e])

\* Reads order and payment without a lock and asks the gateway; on approval
\* it goes on to the transaction with the order status it has read.
HookRead(e) ==
    LET k == e[2] IN
    /\ HookMatches(e)
    /\ pay[k] = "pending"
    /\ tossStatus(pg[k]) = "approved"
    /\ k \in FullKeys
    /\ hook' = [hook EXCEPT ![e] = order[KeyOrder[k]]]
    /\ UNCHANGED <<orderVars, payVars, confirmVars, inbox, opsVars, pgVars, clockVars>>

\* Nothing to do: already closed, or the gateway does not say approved.
HookDone(e) ==
    /\ HookMatches(e)
    /\ pay[e[2]] = "pending" => tossStatus(pg[e[2]]) # "approved"
    /\ FinishWebhook(e, "processed")
    /\ UNCHANGED <<orderVars, payVars, confirmVars, opsVars, pgVars, clockVars>>

MayApply(e) ==
    LET k == e[2]  o == KeyOrder[k] IN
    /\ CanTransition(hook[e], "Paid", "P-905")
    /\ order[o] = hook[e]
    /\ pay[k] = "pending"

HookApply(e) ==
    LET k == e[2]  o == KeyOrder[k] IN
    /\ hook[e] \in OrderStates
    /\ MayApply(e)
    /\ moveOrder(o, hook[e], "Paid", "P-905")
    /\ SetPay(k, "approved")
    /\ FinishWebhook(e, "processed")
    /\ UNCHANGED <<restocked, payOrder, recorded, confirmVars, opsVars, pgVars, clockVars>>

\* No live payment, a failed lookup, another amount, or a lost race: the
\* event ends as failed and nobody processes it again.
HookFail(e) ==
    /\ hook[e] # "none"
    /\ FinishWebhook(e, "failed")
    /\ UNCHANGED <<orderVars, payVars, confirmVars, opsVars, pgVars, clockVars>>

-----------------------------------------------------------------------------
(* A-508 ResolvePendingPayment. *)

\* Reads the row without a lock, asks the gateway, keeps the answer.
ResolveAsk(k) ==
    /\ pay[k] = "pending"
    /\ OwnAnswer(k)
    /\ tossStatus(pg[k]) \in {"approved", "failed"}
    /\ <<k, tossStatus(pg[k])>> \notin resolve
    /\ resolve' = resolve \cup {<<k, tossStatus(pg[k])>>}
    /\ UNCHANGED <<orderVars, payVars, confirmVars, hookVars, listed, asked, pgVars, clockVars>>

\* Under the order's and the payment's locks, the row is read again.
ResolveApprove(k) ==
    LET o == payOrder[k] IN
    /\ <<k, "approved">> \in resolve
    /\ pay[k] = "pending"
    /\ k \in FullKeys
    /\ moveOrder(o, order[o], "Paid", "A-508")
    /\ SetPay(k, "approved")
    /\ resolve' = resolve \ {<<k, "approved">>}
    /\ UNCHANGED <<restocked, payOrder, recorded, confirmVars, hookVars, listed, asked,
                   pgVars, clockVars>>

\* A failed payment of an order that waits for a deposit releases the order;
\* one still in PaymentPending is left to the expiry.
ResolveFail(k) ==
    LET o == payOrder[k] IN
    /\ <<k, "failed">> \in resolve
    /\ pay[k] = "pending"
    /\ SetPay(k, "failed")
    /\ IF order[o] = "DepositPending" THEN releaseUnpaid(o, "DepositPending")
                                      ELSE UNCHANGED orderVars
    /\ resolve' = resolve \ {<<k, "failed">>}
    /\ UNCHANGED <<payOrder, recorded, confirmVars, hookVars, listed, asked, pgVars, clockVars>>

\* Closed in the meantime, another amount, a move the table refuses, or a
\* database error.
ResolveDrop(x) ==
    /\ x \in resolve
    /\ resolve' = resolve \ {x}
    /\ UNCHANGED <<orderVars, payVars, confirmVars, hookVars, listed, asked, pgVars, clockVars>>

-----------------------------------------------------------------------------
(* The expiry goroutine: ExpirePendingOrders, then ExpireDepositOrders. *)

Expirable(o) == order[o] = "PaymentPending" /\ o \in aged /\ ~HasPending(o)

\* The list is read outside any transaction.
ExpireList ==
    /\ listed = {}
    /\ \E o \in Orders : Expirable(o)
    /\ listed' = {o \in Orders : Expirable(o)}
    /\ UNCHANGED <<orderVars, payVars, confirmVars, hookVars, resolve, asked, pgVars, clockVars>>

\* Mutant: pending payments are looked at when listing only.
MayExpireCharging(o) == order[o] = "PaymentPending"
\* Mutant: a refused payment keeps the order as a pending one does.
MayExpireFresh(o) == order[o] = "PaymentPending" /\ \A k \in Keys : payOrder[k] # o
\* expireOne checks again under the order's lock.
MayExpire(o) == order[o] = "PaymentPending" /\ ~HasPending(o)

ExpireOne(o) ==
    /\ o \in listed
    /\ MayExpire(o)
    /\ releaseUnpaid(o, "PaymentPending")
    /\ listed' = listed \ {o}
    /\ UNCHANGED <<payVars, confirmVars, hookVars, resolve, asked, pgVars, clockVars>>

ExpireSkip(o) ==
    /\ o \in listed
    /\ ~MayExpire(o)
    /\ listed' = listed \ {o}
    /\ UNCHANGED <<orderVars, payVars, confirmVars, hookVars, resolve, asked, pgVars, clockVars>>

\* DueDepositOrders and the lookup: everything but an approval gives it up.
DepositAsk(k) ==
    /\ k \notin asked
    /\ pay[k] = "pending" /\ order[payOrder[k]] = "DepositPending"
    /\ k \in recorded /\ k \in due
    /\ OwnAnswer(k)
    /\ tossStatus(pg[k]) # "approved"
    /\ asked' = asked \cup {k}
    /\ UNCHANGED <<orderVars, payVars, confirmVars, hookVars, resolve, listed, pgVars, clockVars>>

MayExpireDeposit(k) == order[payOrder[k]] = "DepositPending" /\ pay[k] = "pending"

DepositExpire(k) ==
    /\ k \in asked
    /\ MayExpireDeposit(k)
    /\ SetPay(k, "failed")
    /\ releaseUnpaid(payOrder[k], "DepositPending")
    /\ asked' = asked \ {k}
    /\ UNCHANGED <<payOrder, recorded, confirmVars, hookVars, resolve, listed, pgVars, clockVars>>

DepositSkip(k) ==
    /\ k \in asked
    /\ ~MayExpireDeposit(k)
    /\ asked' = asked \ {k}
    /\ UNCHANGED <<orderVars, payVars, confirmVars, hookVars, resolve, listed, pgVars, clockVars>>

\* An order in DepositPending that no live payment can close.
ReleaseStranded(o) ==
    /\ order[o] = "DepositPending"
    /\ ~HasLive(o)
    /\ releaseUnpaid(o, "DepositPending")
    /\ UNCHANGED <<payVars, confirmVars, hookVars, opsVars, pgVars, clockVars>>

-----------------------------------------------------------------------------
\* The process restarts: every request and every loop forgets what it held.
\* Confirmations that were being called stay on the wire; an event whose
\* goroutine died stays "received", and nothing processes it again.
Crash ==
    /\ crashes < MaxCrashes
    /\ crashes' = crashes + 1
    /\ arrived' = {}
    /\ late' = late \cup {k \in Keys : confirm[k] = "calling"}
    /\ confirm' = [k \in Keys |-> "idle"]
    /\ hook' = [e \in Events |-> "none"]
    /\ resolve' = {} /\ listed' = {} /\ asked' = {}
    /\ UNCHANGED <<orderVars, payVars, inbox, pg, due, aged>>

Gateway ==
    \/ \E o \in Orders : PassAuthWindow(o)
    \/ \E k \in Keys : \/ GatewayConfirm(k) \/ GatewayConfirmLate(k)
                       \/ GatewayExpire(k) \/ GatewayDeposit(k)
                       \/ PassDueDate(k) \/ GatewayCloseAccount(k)
                       \/ ConsoleCancel(k)

ConfirmPayment ==
    \/ \E r \in Requests : ConfirmArrive(r) \/ ConfirmReserve(r) \/ ConfirmRefuse(r)
    \/ \E k \in Keys : \/ ConfirmTimeout(k) \/ ConfirmLookup(k) \/ ConfirmFail(k)
                       \/ ConfirmRecord(k) \/ ConfirmDecline(k) \/ ConfirmRollback(k)

Webhook == \E e \in Events : \/ HookReceive(e) \/ HookRead(e) \/ HookDone(e)
                             \/ HookApply(e) \/ HookFail(e)

ResolvePendingPayment ==
    \/ \E k \in Keys : ResolveAsk(k) \/ ResolveApprove(k) \/ ResolveFail(k)
    \/ \E x \in Keys \X {"approved", "failed"} : ResolveDrop(x)

Expiry ==
    \/ ExpireList
    \/ \E o \in Orders : ExpireOne(o) \/ ExpireSkip(o) \/ ReleaseStranded(o)
    \/ \E k \in Keys : DepositAsk(k) \/ DepositExpire(k) \/ DepositSkip(k)

Next == Gateway \/ ConfirmPayment \/ Webhook \/ ResolvePendingPayment \/ Expiry \/ Crash

Spec == Init /\ [][Next]_vars

-----------------------------------------------------------------------------
(* Fairness.  The clock runs; the gateway ends every session and account and *)
(* handles or drops what is on the wire; a request that started runs to its  *)
(* end (moneyCtx detaches it from the browser); the loop ticks every minute. *)
GatewayFairness ==
    /\ \A o \in Orders : WF_vars(PassAuthWindow(o))
    /\ \A k \in Keys : /\ WF_vars(GatewayConfirmLate(k))
                       /\ WF_vars(GatewayExpire(k))
                       /\ WF_vars(PassDueDate(k))
                       /\ WF_vars(GatewayCloseAccount(k))

ConfirmStep(k) == \/ GatewayConfirm(k) \/ ConfirmTimeout(k) \/ ConfirmLookup(k)
                  \/ ConfirmFail(k) \/ ConfirmRecord(k) \/ ConfirmDecline(k)
                  \/ ConfirmRollback(k)

LoopFairness ==
    /\ \A k \in Keys : WF_vars(ConfirmStep(k))
    /\ WF_vars(ExpireList)
    /\ \A o \in Orders : WF_vars(ExpireOne(o) \/ ExpireSkip(o)) /\ WF_vars(ReleaseStranded(o))
    /\ \A k \in Keys : WF_vars(DepositAsk(k)) /\ WF_vars(DepositExpire(k) \/ DepositSkip(k))

\* The administrator works the A-508 list: asks about every payment left
\* pending, and tries again when the database refused.
OperatorFairness ==
    \A k \in Keys : /\ WF_vars(ResolveAsk(k))
                   /\ SF_vars(ResolveApprove(k)) /\ SF_vars(ResolveFail(k))

LoopSpec == Spec /\ GatewayFairness /\ LoopFairness

-----------------------------------------------------------------------------
(* Properties. *)

Taken(k) == pg[k] \in {"done", "cancelled"}

\* A paid order has one approved payment, made with a key the gateway bound to
\* that very order, for its full amount, whose money the gateway took.  This is
\* why an unknown result, a lookup or a webhook is checked against the order
\* and the amount before anything moves to Paid.
PaidOrdersHaveTheirMoney ==
    \A o \in Orders : order[o] = "Paid" =>
        \E k \in Keys : /\ payOrder[k] = o /\ pay[k] = "approved"
                        /\ KeyOrder[k] = o /\ k \in FullKeys /\ Taken(k)

\* Nobody's money is taken for an order that was given up: the expiry never
\* releases an order a confirmation may still charge, and a confirmation that
\* waited for the lock past the expiry never reaches the gateway.
FailedOrdersTookNoMoney ==
    \A o \in Orders : order[o] = "PaymentFailed" =>
        \A k \in Keys : KeyOrder[k] = o => pg[k] # "done"

\* The gateway never holds the buyer's money twice for one order: an unknown
\* confirmation keeps its row, so no second key can be confirmed beside it.
NoSecondCharge ==
    \A j, k \in Keys :
        KeyOrder[j] = KeyOrder[k] /\ pg[j] = "done" /\ pg[k] = "done" => j = k

\* The items of an order go back on the shelf exactly when it fails, once,
\* whichever of the three expiries and A-508 get there together.
StockReturnedOnce ==
    \A o \in Orders : restocked[o] = IF order[o] = "PaymentFailed" THEN 1 ELSE 0

\* Payment rows and orders tell the same story: an approved row belongs to a
\* paid order, a pending row to an order still open, and an order waiting for
\* a deposit has the pending row the deposit would close (releaseUnpaid in
\* A-508 exists because an order without one is picked up by no expiry).
LedgerAgrees ==
    /\ \A k \in Keys : /\ pay[k] = "approved" => order[payOrder[k]] = "Paid"
                       /\ pay[k] = "pending" =>
                            order[payOrder[k]] \in {"PaymentPending", "DepositPending"}
    /\ \A o \in Orders \ Stranded : order[o] = "DepositPending" => HasPending(o)

\* A paid or failed order is never moved by a handler that read its status
\* before it was settled (the compare-and-swap of moveOrder), and an approval
\* is never taken back by one of the unconditional writes to payments.status.
SettledStays ==
    [][/\ \A o \in Orders : order[o] \in {"Paid", "PaymentFailed"} => order'[o] = order[o]
       /\ \A k \in Keys : pay[k] = "approved" => pay'[k] = "approved"]_vars

\* Seen through its orders' outcomes and the money held for them, the whole
\* system is the abstract OrderPayment: however the five actors interleave,
\* each order is charged at most once and settled once (with ConsoleCancels
\* FALSE: the money then stays where the gateway took it).
HeldFor(o) == {k \in Keys : KeyOrder[k] = o /\ pg[k] = "done"}
Outcome(o) == IF order[o] = "Paid" THEN "paid"
              ELSE IF order[o] = "PaymentFailed" THEN "failed" ELSE "open"
Abstract == INSTANCE OrderPayment WITH
    outcome  <- [o \in Orders |-> Outcome(o)],
    taken    <- [o \in Orders |-> HeldFor(o)],
    returned <- restocked
ImplementsOrderPayment == Abstract!Spec

\* An order nobody is confirming, past its window or past its deposit date, is
\* given up by the loop alone, without an administrator.
UnpaidOrdersReleased ==
    \A o \in Orders :
        /\ (Expirable(o) ~> (order[o] # "PaymentPending" \/ HasPending(o)))
        /\ (order[o] = "DepositPending" /\ (\A k \in Keys : pg[k] # "done")
              ~> (order[o] # "DepositPending" \/ \E k \in Keys : pg[k] = "done"))

\* No order keeps its stock for ever unpaid: with an administrator who works
\* the A-508 list, each one ends paid or released (while nobody cancels a
\* payment we call pending at the gateway's console).
EveryOrderCloses ==
    OperatorFairness => \A o \in Orders : <>(order[o] \in {"Paid", "PaymentFailed"})

\* order.go:617: a payment left pending is closed by hand through A-508.
PendingPaymentsClose ==
    OperatorFairness => \A k \in Keys : pay[k] = "pending" ~> pay[k] # "pending"

=============================================================================
