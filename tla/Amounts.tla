-------------------------------- MODULE Amounts --------------------------------
(***************************************************************************)
(* What refunding units of one order line is worth                         *)
(* (internal/commerce/discount.go).  net is the line's amount after its    *)
(* part of the discount, quantity the units ordered, settled the units     *)
(* refunded or returned so far.                                            *)
(***************************************************************************)
EXTENDS Integers, FiniteSetsExt

share(net, n, quantity) == (net * n) \div quantity

RefundableAmount(net, quantity, settled, qty) ==
    share(net, settled + qty, quantity) - share(net, settled, quantity)

\* What cheaper exchanges gave back comes off the end of what is left.
capByExchangeCredit(part, net, quantity, settled, credit) ==
    IF credit <= 0 THEN part
    ELSE Max({0, Min({part, net - share(net, settled, quantity) - credit})})
===============================================================================
