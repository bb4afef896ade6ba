--------------------------- MODULE PaymentInvariant ---------------------------
(***************************************************************************)
(* The inductive invariant behind the safety properties of Payment: what   *)
(* each piece of remembered state (a row, a call's answer, an event being  *)
(* processed, a lookup's answer) still says about the gateway when it is   *)
(* used.                                                                   *)
(***************************************************************************)
EXTENDS Payment

Own(k) == payOrder[k] = KeyOrder[k]
TookMoney(k) == pg[k] \in {"done", "cancelled"}

\* A key without a row has never been sent to the gateway.
UnusedKeys ==
    \A k \in Keys :
        /\ pay[k] = "none" <=> payOrder[k] = NoOrder
        /\ pay[k] = "none" =>
             pg[k] = "ready" /\ confirm[k] = "idle" /\ k \notin late /\ k \notin recorded

\* A key bound to another order than its row's never gets anywhere.
ForeignKeys ==
    \A k \in Keys : pay[k] # "none" /\ ~Own(k) =>
        /\ pg[k] \in {"ready", "failed"}
        /\ confirm[k] \in {"idle", "calling", "unknown", "refused"}

\* What P-408 remembers of its call.
CallsTruthful ==
    \A k \in Keys :
        /\ confirm[k] = "calling"  => k \notin late /\ pg[k] \in {"ready", "failed"}
        /\ confirm[k] = "refused"  => k \notin late /\ pg[k] \in {"ready", "failed"}
        /\ confirm[k] = "approved" => pg[k] = "done"
        /\ confirm[k] = "pending"  => pg[k] \in {"waiting", "done", "failed"}
        /\ confirm[k] = "failed"   => pg[k] = "failed"
        /\ k \in recorded => confirm[k] = "idle" /\ pg[k] # "ready"

\* What the webhook, A-508 and the deposit expiry remember of their lookups.
LookupsTruthful ==
    /\ \A e \in Events : hook[e] \in OrderStates =>
         Own(e[2]) /\ e[2] \in FullKeys /\ TookMoney(e[2])
    /\ \A k \in Keys : <<k, "approved">> \in resolve => Own(k) /\ TookMoney(k)
    /\ \A k \in Keys : <<k, "failed">> \in resolve => Own(k) /\ pg[k] = "failed"
    /\ \A k \in asked : k \in due /\ pg[k] \in {"waiting", "failed", "cancelled"}

\* A row is failed only when its key can no longer be charged.
DeadRows ==
    \A k \in Keys : pay[k] = "failed" =>
        /\ pg[k] # "done"
        /\ pg[k] = "ready" /\ Own(k) => k \notin late /\ confirm[k] # "calling"
        /\ pg[k] = "waiting" => k \in due

\* The partial unique index.
OneLiveRow ==
    \A o \in Orders : \A j, k \in Keys : Live(j, o) /\ Live(k, o) => j = k

\* An approved row is backed by money; rows and orders agree.
ApprovedRows ==
    \A k \in Keys : pay[k] = "approved" =>
        Own(k) /\ k \in FullKeys /\ TookMoney(k) /\ order[payOrder[k]] = "Paid"
PendingRows ==
    \A k \in Keys : pay[k] = "pending" =>
        order[payOrder[k]] \in {"PaymentPending", "DepositPending"}
PaidOrders ==
    \A o \in Orders : order[o] = "Paid" =>
        \E k \in Keys : payOrder[k] = o /\ pay[k] = "approved"
DepositOrders ==
    \A o \in Orders \ Stranded : order[o] = "DepositPending" =>
        \E k \in recorded : payOrder[k] = o /\ pay[k] = "pending"

\* All of it: true in every reachable state and preserved by every step.
Inductive ==
    /\ TypeOK
    /\ UnusedKeys /\ ForeignKeys
    /\ CallsTruthful /\ LookupsTruthful
    /\ DeadRows /\ OneLiveRow
    /\ ApprovedRows /\ PendingRows /\ PaidOrders /\ DepositOrders
    /\ StockReturnedOnce
===============================================================================
