----------------------------- MODULE OrderStatus -----------------------------
(***************************************************************************)
(* The order state machine of internal/commerce/state.go: which status an  *)
(* order may move to, and which screen (or the system) may move it there.  *)
(* Statuses keep the Go constant names without the "Status" prefix; actors *)
(* are the screen ids of the table ("P-408", "A-507", ...) and "system".   *)
(***************************************************************************)
EXTENDS FiniteSets

\* The allowed moves, one triple per arrow and per actor of the Go table.
Moves(from, to, actors) == {from} \X {to} \X actors

transitions == UNION {
    Moves("PaymentPending",  "Paid",             {"P-408", "A-508"}),
    Moves("PaymentPending",  "PaymentFailed",    {"system"}),
    Moves("PaymentPending",  "DepositPending",   {"system"}),
    Moves("DepositPending",  "Paid",             {"P-905", "A-508"}),
    Moves("DepositPending",  "PaymentFailed",    {"system"}),
    Moves("Paid",            "Preparing",        {"A-506"}),
    Moves("Paid",            "Cancelled",        {"P-506", "A-507"}),
    Moves("Preparing",       "Shipping",         {"A-506"}),
    Moves("Preparing",       "Cancelled",        {"P-506", "A-507"}),
    Moves("Shipping",        "Delivered",        {"A-506"}),
    Moves("Shipping",        "Refunded",         {"A-507"}),
    Moves("Delivered",       "Confirmed",        {"P-510", "system"}),
    Moves("Delivered",       "Refunded",         {"A-507"}),
    Moves("Delivered",       "ReturnOpen",       {"P-511"}),
    Moves("Delivered",       "ExchangeOpen",     {"P-512"}),
    Moves("ReturnOpen",      "ReturnPickedUp",   {"A-511"}),
    Moves("ReturnOpen",      "Delivered",        {"A-511"}),
    Moves("ReturnPickedUp",  "Refunded",         {"A-511"}),
    Moves("ReturnPickedUp",  "Delivered",        {"A-511"}),
    Moves("ExchangeOpen",    "ExchangePicked",   {"A-511"}),
    Moves("ExchangeOpen",    "Delivered",        {"A-511"}),
    Moves("ExchangePicked",  "ExchangeShipped",  {"A-511"}),
    Moves("ExchangePicked",  "ExchangeDiffDue",  {"A-511"}),
    Moves("ExchangeDiffDue", "ExchangeShipped",  {"P-514"}),
    Moves("ExchangeShipped", "Delivered",        {"system"}) }

Status == {"PaymentPending", "DepositPending", "Paid", "PaymentFailed",
           "Preparing", "Shipping", "Delivered", "Confirmed", "Cancelled",
           "Refunded", "ReturnOpen", "ReturnPickedUp", "ExchangeOpen",
           "ExchangePicked", "ExchangeDiffDue", "ExchangeShipped"}

\* CanTransition checks the pair and the actor together.
CanTransition(from, to, actor) == <<from, to, actor>> \in transitions

\* Next lists what one actor may pick; Terminal is "nothing leaves s".
NextStatuses(s, actor) == {to \in Status : CanTransition(s, to, actor)}
Terminal(s) == s \in Status /\ \A t \in transitions : t[1] # s
==============================================================================
