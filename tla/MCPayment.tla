------------------------------ MODULE MCPayment ------------------------------
EXTENDS PaymentInvariant, TLC
CONSTANTS o1, o2, o3, k1, k2

Request(o, k, a) == [order |-> o, key |-> k, amount |-> a]

\* One order and two keys of its own: the buyer pays again after a refusal.
OneOrder == k1 :> o1 @@ k2 :> o1
OneOrderKeys == Permutations({k1, k2})   \* interchangeable, for SYMMETRY
OneOrderRequests == [order : {o1}, key : {k1, k2}, amount : {"total"}]
\* One key, beside an order an earlier revision left without a payment.
OneKey == k1 :> o1
OneKeyRequests == {Request(o1, k1, "total")}
\* Two orders, and a browser that presents one order's key for the other.
TwoOrders == k1 :> o1 @@ k2 :> o2
TwoOrdersRequests == {Request(o1, k1, "total"), Request(o1, k2, "total"),
                      Request(o2, k2, "total"), Request(o2, k2, "other")}
==============================================================================
