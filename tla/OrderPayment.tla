----------------------------- MODULE OrderPayment -----------------------------
(***************************************************************************)
(* What paying for an order promises, whoever asks and however often: an   *)
(* order is open until it is paid or given up, once and for good; it is    *)
(* paid only with money that was taken for it, with one key; it is given   *)
(* up, and its stock put back, only while no money is held for it.         *)
(* Payment.tla implements this while the merchant does not cancel at the   *)
(* gateway behind the program's back.                                      *)
(***************************************************************************)
EXTENDS Naturals
CONSTANTS Orders, Keys

VARIABLES
    outcome,   \* "open", "paid" or "failed", by order
    taken,     \* the keys whose money the gateway holds, by order
    returned   \* how often the order's stock was put back

vars == <<outcome, taken, returned>>

Init ==
    /\ outcome = [o \in Orders |-> "open"]
    /\ taken = [o \in Orders |-> {}]
    /\ returned = [o \in Orders |-> 0]

Take(o, k) ==
    /\ outcome[o] = "open" /\ taken[o] = {}
    /\ taken' = [taken EXCEPT ![o] = {k}]
    /\ UNCHANGED <<outcome, returned>>

Pay(o) ==
    /\ outcome[o] = "open" /\ taken[o] # {}
    /\ outcome' = [outcome EXCEPT ![o] = "paid"]
    /\ UNCHANGED <<taken, returned>>

GiveUp(o) ==
    /\ outcome[o] = "open" /\ taken[o] = {}
    /\ outcome' = [outcome EXCEPT ![o] = "failed"]
    /\ returned' = [returned EXCEPT ![o] = @ + 1]
    /\ UNCHANGED taken

Next == \E o \in Orders : Pay(o) \/ GiveUp(o) \/ \E k \in Keys : Take(o, k)

Spec == Init /\ [][Next]_vars
===============================================================================
