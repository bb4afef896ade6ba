# ondolith: a TLA+ model

ondolith is a CMS with a shop in one Go process over one PostgreSQL database
(READ COMMITTED; the SQL is in `internal/*/queries`), with Toss Payments as its
payment gateway. This directory models what the program does to the rows, files
and memory its requests share: how an order's money and goods move while calls to
the gateway are slow, lost or answered late; who may get into an account and what
an operator may become; what is written by two requests at once; and what is left
when the process dies between any two steps.

Contents: [inventory](#inventory) · [modules](#modules) · [runs](#runs) ·
[proofs](#proofs) · [disagreements](#disagreements-between-code-and-comments) ·
[limits](#limits) · [plan](#plan)

## Inventory

| part | state | operations | what is hard | what must hold |
|---|---|---|---|---|
| order status (`commerce/state.go`) | none: a table | `CanTransition`, `Next`, `Terminal` | each arrow names its actors | nobody takes an arrow that is not his |
| payment (`payment.go`, `webhook.go`, `order.go` 616-810) | `orders.status`, `payments`, `webhook_events`, variant stock | P-408 `ConfirmPayment`, P-905 webhook, A-508 `ResolvePendingPayment`, the minute loop `ExpirePendingOrders` and `ExpireDepositOrders` | no lock across the gateway call; unknown results; late, repeated, early notifications; crashes | paid exactly if money was taken, once; given up only without money; stock returned once; every order ends |
| refunds (`refund.go`, `discount.go`, A-507) | `refunds`, `refund_items`, `payments.refunded_amount`, `order_items.settled_quantity` | request, reject, cancel, execute, retry, close | two executors, retries with an idempotency key, rejection against execution, rounding, closing an order | the reservation is the sum of the refunds; each is paid at most once; closed orders are final |
| gateway client (`toss.go`) | none | `Confirm`, `Cancel`, `Get`, `VerifyWebhook` | which errors mean "unknown" | an unknown result is never read as a failure |
| returns and exchanges (`returns.go`) | `returns`, `return_items`, exchange payments | open, pick up, settle, reject, complete, pay the difference | shares the refund ceiling and the stock; the order moves with the return | no unit refunded twice, no return stuck, nothing shipped unpaid |
| cart, checkout, stock (`cart.go`, `order.go` 1-225, `stock.go`, `store.go`, `scan.go`, `product_admin.go`, `terms.go`) | carts, variants' stock and its ledger, products, terms in force | add, update, log in, create order, receive, count, edit, hide, delete | unlocked reads before absolute writes; a form that shows what was | stock accounted for, nothing ordered that is gone, an order is what was locked and agreed to |
| lock order | row locks | every transaction above | order, items, payment, variants | no cycle of waits |
| accounts and sessions (`auth/store.go`, `login.go`, `token.go`, `reset.go`, `social.go`, `app/middleware_auth.go`) | users, the session cutoff, sessions, mailed links, social links | sign up, log in, change, reset, revoke, link, unlink, deactivate, leave | bcrypt between read and write; a session opened after what should end it | no session outlives the event that should end it, nothing stale sets a credential |
| permissions (`auth/permission.go`, `escalation.go`) | roles and grants | `CanOn`, R1 to R6, assignment, grants, the last superuser | who may hand on what, judged on what was read before | nobody gains by granting; a superuser remains |
| rate limiter (`auth/ratelimit.go`) | buckets in memory | `Allow`, `Forget`, the sweep | refill arithmetic | no more than the burst |
| content (`content/`, `app/tree.go`) | boards, posts, comments, cached counts, buffered views | write, hide, delete, list | a count read before a write and stored after it; an edit of what was removed | no stale count stays; what is removed stays so |
| attachments and storage (`content/attachment.go`, `files.go`, `s3store`) | rows, local files, bucket objects | save, delete, move, read | a crash between row and file; a bucket that refuses | no row without its file |
| pages, menus, categories (`content/store.go`, `menu.go`, `commerce/category.go`) | trees kept as rows that name a parent | create, move, publish, delete with the menu entries | a cycle no constraint sees; a cascade | trees stay trees; nothing unrelated is deleted |
| installation, trees, settings (`install/`, `cmd/ondolith/main.go`, `app/app.go`, `config/`) | the config file, the live handler tree, `settings` | install, boot, rebuild, shut down | a swap during a shutdown; two submissions | each tree is released once; one installation |
| themes (`theme/`, `admin/handlers_theme.go`), pictures (`content/media.go`) | directories, `theme.active`, screens, rows and files | activate, upload, save a screen, upload a picture | renames without a transaction | no theme is destroyed; every shown picture is served |
| backups (`backup/`, `admin/backup.go`) | the backup directory, the scheduler of each tree | save, prune, download | two schedulers around a rebuild; uploads meanwhile | no backup is lost to one that failed; an archive is whole |
| screens, mail, configuration parsing | | | input and output | |

Interaction: handlers and loops share little in memory; they meet in the
database. `moveOrder` is a compare-and-swap on `orders.status`; a partial unique
index lets one payment row of an order be anything but failed; `FOR UPDATE` on
the order serialises most, not all, of the writers. Between a handler's
transactions stands the gateway, bcrypt, the storage or the file system, and what
was read before is used after it. `PROJECT.json` lists every place where that can
go wrong, with the property that watches it.

## Modules

| module | models | in the code |
|---|---|---|
| `OrderStatus` | the transition table with its actors | `state.go` |
| `Payment` | one action per transaction or gateway call of P-408, P-905, A-508 and the two expiries, for any set of orders and payment keys | `payment.go`, `webhook.go`, `order.go`, their queries |
| `OrderPayment` | the promise: open, then paid with money of one key, or given up without money, once | abstract |
| `PaymentInvariant`, `PaymentProofs` | the inductive invariant of `Payment`; one lemma per action, the theorems and the refinement | |
| `Amounts` | what units of an item are worth, and what an exchange credit takes off | `discount.go` 108-147 |
| `Sums` | facts about finite sums, for the proofs below | |
| `Refund`, `RefundProofs` | requests, rejections, cancellation, execution under an idempotency key, closing, for one order; the proofs about them | `refund.go`, A-507, P-506, P-507 |
| `Returns`, `ReturnsProofs` | returns and exchanges of a delivered order, its refunds on the same items and ceiling, and the payment of a price difference; the proofs about them | `returns.go`, `refund.go`, P-511, P-512, P-514, A-511 |
| `Checkout`, `CheckoutProofs` | carts, the order form with its terms, `CreateOrder`, and everything that moves stock or takes goods off sale; the proofs about them | `cart.go`, `order.go` 1-225, `stock.go`, `store.go`, `scan.go`, `product_admin.go`, `terms.go`, P-4xx, A-501 to A-504, A-512 |
| `Accounts`, `AccountsProofs` | passwords, social links, mailed links and sessions of an account; the proofs about them | `auth/`, `middleware_auth.go`, P-101 to P-114, A-401, A-402 |
| `Roles` | permissions, R1 to R6, assignment, grants, the last superuser (its names are its own, `asked`, `Calls`, `RolesSpec`: `SiteProofs` extends it next to `Site`) | `permission.go`, `escalation.go`, `store.go`, A-403, A-404 |
| `Content`, `ContentProofs` | one board: posts, the remembered count, comments, attachments, their files and the bucket; the proofs about it, and about `Navigation` | `content/`, P-2xx, A-305 to A-310, A-210 |
| `Site`, `SiteProofs` | boot, wizard, trees and their replacement, shutdown, themes, theme screens, pictures, backups; the proofs about them, and about `Roles` | `main.go`, `install/`, `app.go` `New`, `theme/`, `backup/`, `media.go`, A-201 to A-203, A-212, A-604 |
| `Navigation` | pages, menu entries, categories, products' categories (its names are its own, `edit`, `Edits`, `NavigationSpec`: `ContentProofs` extends it next to `Content`) | `content/store.go`, `menu.go`, `commerce/store.go`, `category.go`, A-301 to A-304, A-509 |
| `MC...` | values for the runs | |

**How they meet.** `Payment`, `Refund` and `Returns` use `OrderStatus`. `Payment`
and `Refund` meet in an order that is Paid, which is the only state in which
`Refund` begins, and share no row before it. `Returns` begins where the order is
Delivered and composes both halves: it takes `Amounts` and the refunds' book
(`settled`, `refunded`, `refund`) as part of its own state, and confirms payments
of kind "exchange difference" the way `Payment` confirms orders. `Refund` is the
detailed account of one execution (keys, retries, the gateway's answers); in
`Returns` an execution starts and ends, and the refunds of a return and of the
A-507 form meet over the same units. `Checkout` ends where `Payment` begins: its
`releaseUnpaid` is what `Payment`'s expiries call. The others share no row with
these, nor with each other, but for `users` (sessions in `Accounts`, roles in
`Roles`): deactivation and deletion are in both, each with the part that concerns it.

**How state corresponds.** A payment row is identified by its payment key (unique
over `(pg, payment_key)`), so `pay`, `payOrder` and `recorded` are the columns of
`payments` by key; `inbox` is `webhook_events.status`, whose unique id is
`<<type, key>>`. What a handler carries between two transactions is a variable of
its own: `arrived` (P-408 past its clock, waiting for the order's lock), `confirm`
(the call's answer), `hook` (the status P-905 read), `resolve` (the answer A-508
got), `listed` and `asked` (what the expiry picked). `Crash` forgets them all and
leaves the calls on the wire (`late`). In `Returns`, `request` is the phase of each
P-514 request (read, calling, answered), `closing` the A-511 requests that still
have to close the order, `ret[r].open` is `return_items.is_open`.

The other modules keep what a request carries in one function, `req`: a record per
request, with the step it is at (`op`) and what it read before. A request that only
reads, or one whose writes are one transaction under one lock, is one step; one
that reads, computes and writes later is as many steps as it has places where
others may come between. Where the code's queries are separate functions, so are
the definitions: `InsertOrder`, `LockVariantOfProduct`, `BurnRow`, `CategoryParents`
are what one statement does, the actions are the handlers that call it. Handlers
are grouped in `Next` by the screen they belong to (`RefundSave`, `ReturnAction`, ...).

Statuses are named in English:

| `OrderStatus` | code | | `OrderStatus` | code |
|---|---|---|---|---|
| PaymentPending | 결제대기 | | Confirmed | 구매확정 |
| DepositPending | 입금대기 | | Cancelled | 취소 |
| Paid | 결제완료 | | PaymentFailed | 결제실패 |
| Preparing | 배송준비 | | Refunded | 환불 |
| Shipping | 배송중 | | ReturnOpen, ReturnPickedUp | 반품접수, 반품수거 |
| Delivered | 배송완료 | | ExchangeOpen, ExchangePicked | 교환접수, 교환수거 |
| ExchangeDiffDue | 차액결제대기 | | ExchangeShipped | 교환발송 |

**What is external.** The gateway is modelled from what `toss.go` relies on: a key is
bound to one order; a confirmation takes the money, opens a virtual account or
fails, and a repeated key gets its first answer (the program sends the payment key
as the idempotency key; `docs/50-commerce.md` names the fifteen days); a call whose
caller gave up may still be handled, or not; an account takes a deposit until its
due date. Anything else (which calls time out, what the lookup sees, in which
order notifications arrive) is nondeterministic. The merchant's own cancellation
at the gateway's console is an action the constant `ConsoleCancels` allows. The
bucket of `Content` may refuse any call; a social provider answers with one of its
identities; `os.Rename` of a directory onto one that is there fails.

**Failure.** A database error is a rollback: `ConfirmRollback`, `HookFail`,
`ResolveDrop`, `ExecuteError` and the `Fails` actions may always be taken where a
statement may fail, so no property relies on a commit. `Crash` and `Exit` end every
request at once and keep rows and files. Definitions whose comment begins "Mutant"
are plausible bugs the model does not use; they are kept to show that each property
can fail.

## Runs

All bounds are constants of the configuration. Deadlock is not checked: requests
and orders that are over, with every key and event used up, really are at rest. The
type invariant of each module is a conjunct of one of its invariants (it is named in
the module), so that its run checks it as well.

| run | instance | states | shows |
|---|---|---|---|
| `payment` | one order, two keys of its own, both notifications, one restart | 735,914 | the safety properties, `SettledStays`, and that `Payment` implements `OrderPayment`. Two keys are what a second charge needs; a third repeats the second. |
| `payment_two` | two orders, a key presented for the other's order, one of another amount, console cancellations | 496,968 | `Inductive`, the invariant of the proofs, on an instance with every kind of key; no order is paid with another's money |
| `payment_loop` | one order and one an earlier revision stranded, one restart, fairness | 6,664 | unpaid orders are released without an administrator; with one, every order closes |
| `payment_console` | as `payment`, with console cancellations | | a pending payment that nobody can close (below) |
| `refund` | one item of two units at an odd price, no fee, two refunds, two executors, one restart | 592,006 | reservations, units, single payout, restocking, finality, and that a fully refunded order leaves the dispatch queue |
| `returns` | one item of two units worth 4 after discount and a shipping fee of 2, two returns or exchanges, three refunds, two payment keys, price differences of -1 and 1 per unit | 163,183 | the order follows its return; no unit is paid back twice; the exchange's stock is held exactly; no dearer exchange ships unpaid; a card pays a difference once; a picked-up return can be settled; goods pay back no more than they cost |
| `checkout` | a session that is a guest, then the member; two requests in flight; two orders; one clerk; one combination of which one is in stock; lines of at most two | 2,427,695 | units are on the shelf, in an order or accounted for; an ordered combination is never gone; a count or an edit books what the screen showed; an order is the lines, and the terms, that were locked |
| `accounts` | one account, the owner's browser and another, one administrator, two passwords, one social identity, two mailed links, sessions ended twice | 866,462 | no session is accepted that is older than what ended it; nothing that was let through before that sets a password or a link |
| `roles` | a superuser, an operator and an accomplice, two requests in flight | 371,634 | an active superuser remains; no operator comes to more than was given |
| `content` | one board with one post, a comment and a reply, two file names, two requests, a bucket | 1,993,551 | every row's file can be read; the remembered count is the board's unless a write is under way; what is removed is not edited back |
| `site` | two requests, a theme in place and one to be, two addresses for the wizard, one minute | 2,098,435 | trees are released, once; themes and pictures are whole; one installation; no backup is lost |
| `navigation` | three requests, three pages, entries nested two deep that point at two of them, two roots and a child, one product | 465,334 | categories stay a forest; deleting a page spares the entries that hung under its own |

Why the bounds suffice.

* *Payment.* Orders share no row but through a key presented for the wrong one,
  which two orders show; a restart forgets everything at once, so a second one
  starts from a state the first could leave.
* *Refund, Returns.* Two executors of a refund are what "twice at once" means, and
  the third is refused or behaves like the second; two units at an odd price are
  the smallest case in which the shares differ. In `returns`, two units let a
  return and a refund, or two returns, or an exchange and a return of the exchanged
  unit, meet on one item; restarts are not bounded, since they only forget. A second
  item, tried at 1.3 million states, showed nothing that two units of one do not,
  and one exception: an item of price 0 needs no refund, so the order may be closed
  as refunded while its picked-up return is still in progress (`OrderFollowsReturn`
  holds for positive prices). Prices per unit are whole in `returns`, and the other
  variant is cheaper by no more than a unit's price; `MCReturns` has the values for
  which `PickedUpSettles` and `GoodsNeverOverpaid` fail (below).
* *Checkout.* Two requests are what a stale read needs. A line reaches two by two
  additions, so `MaxQuantity` is met; an instance with quantities 1 and 2 at once
  (7,259,867 states) passed as well.
* *Accounts.* A second browser is the one that must not stay in; the cutoff moves
  twice, so a session may lie before, between and after.
* *Roles.* The accomplice is whom an operator would raise to raise himself; the
  grants entered contain one that lends each power the rules are about.
* *Content.* Two saves that overlap need two names; one post suffices for a stale
  count, and for a limit of one file per post. An instance with two posts (8.1
  million states, before the board's settings were added) passed.
* *Site.* Two requests make two trees besides the one of the boot, or two uploads of
  one theme. Smaller earlier versions with three requests and no backups (169,161
  states) and with two requests, days of two minutes and three minutes (7.4 million)
  passed.
* *Navigation.* Entries of two pages, one under the other, let two deletions overlap
  while the third request moves an entry; a loop of categories needs two moves.

Fairness. `LoopSpec`: the clock passes `AuthWindow` and due dates, the gateway
ends sessions and accounts and handles or drops what is on the wire, a started
confirmation runs to its end (`moneyCtx` detaches it from the browser), the loop
ticks every minute and goes through its lists (`app.go`). None of it asks that a
commit succeed. `OperatorFairness`, a premise of `EveryOrderCloses` and
`PendingPaymentsClose`, is the administrator working the A-508 list: asking about
each pending payment and trying again after a refused commit, hence strong
fairness. `FairSpec` of `Refund`: the administrator presses "close" when A-507
offers it; the program closes the order itself unless it is interrupted, and the
button is there for that case. The other modules state safety only: nothing in
their code runs again by itself, so nothing is promised to happen.

## Proofs

**Payment.** `PaymentProofs` proves that each action preserves `Inductive` of
`PaymentInvariant`, and then, for all orders, keys, requests and bounds that satisfy
`KeysAssumption`:

* `PaymentInductive`: `Spec => []Inductive`, and from it `PaymentTyped`,
  `PaidOrdersSafe`, `FailedOrdersSafe`, `ChargedOnce`, `StockSafe`, `LedgerSafe`;
* `SettledSafe`: a settled order and an approved payment are never moved again;
* `PaymentRefines`: without console cancellations `Payment` implements
  `OrderPayment`.

The argument. The safety properties speak of orders and money; what makes them
true is what each remembered value still says of the gateway when it is used.
Hence the parts of `Inductive`:

* a key without a row was never sent (`UnusedKeys`); a key bound to another order
  never gets anywhere (`ForeignKeys`);
* what P-408 remembers of its call is true of the gateway (`CallsTruthful`), and
  so is what the webhook, A-508 and the deposit expiry remember of their lookups
  (`LookupsTruthful`): the money does not go away between lookup and use;
* a row is failed only when its key can no longer be charged (`DeadRows`): the
  gateway refused it, or nothing is on the wire, or the account is past its date;
* at most one live row per order (`OneLiveRow`), approved rows backed by money and
  a paid order, pending rows by an open one, and the converses (`ApprovedRows`,
  `PendingRows`, `PaidOrders`, `DepositOrders`).

`FailedOrdersTookNoMoney` then follows because a failed order has failed rows only;
`NoSecondCharge` because held money makes its row live. Each action has a lemma
with one step per part it can disturb. The refinement maps an order to its outcome
and to the keys whose money is held: a step in which the gateway takes money is
`Take`, one that moves an order to Paid is `Pay`, a release is `GiveUp`, and all
others leave the three alone; the invariants supply the abstract guards.

**Roles.** The last part of `SiteProofs`, for all users, calls, roles, permissions,
scopes and grants that satisfy `RolesAssumption` (one of the founders is a superuser,
nobody holds what everyone has by name): `SuperuserSafe` (`RolesSpec =>
[]SuperuserRemains`) and `EscalationSafe` (`RolesSpec => []NoEscalation`).

The argument. Both properties are about writes that come after the judgement that
allowed them, so `RolesInv` says what of the judgement is still true at the write,
whatever the others wrote in between:

* a permission is *covered* when a superuser gave it, or operators held it at first,
  for its scope or globally; the history `endowed` only grows. What any role gives
  that everyone has, or that someone has who is no superuser, is covered
  (`SpreadCovered`), and so is what an operator was let through to hand out
  (`AssignsCovered`, `GrantsCovered`). R2 and R4 ask for a permission the operator
  holds globally, hence one covered for every scope (`OperatorCovered`): a grant
  added to the role after the judgement is covered too, which is why the pair of a
  judged assignment and a later grant gives nothing away;
* whoever is a superuser was made one by a superuser (`Crowned`), by R3 and R5;
* at most one request is past the last-superuser guard (`OneLeaves`: the lock), and
  another active superuser than its target stays (`OneStays`): until it writes,
  others may add superusers or reactivate them, and nobody else may leave.

`GivenStep` and `KeptStep` prove the two halves separately, since an action that
gives something away touches no account and one that ends an account gives nothing.

**Accounts.** `AccountsProofs`, for all users, browsers, administrators, passwords,
identities and links that satisfy `AccountsAssumption`, and any number of times the
sessions are ended: `EndedSafe` (`Spec => []EndedStaysOut`) and `CredentialsInTime`
(`Spec => NoLateCredential`).

The argument. The cutoff of an account moves exactly when something ends its
sessions (`CutoffCounts`), and what a session or a request remembers of it was read
at the same moment as the credential, or taken from a session (`SessionsDated`,
`RequestsDated`): it may be behind, never ahead. So the gate, `SetPassword` and
`LinkSocialInSession`, which ask only that it is not behind, find it equal: nothing
ended the sessions since. The types carry one fact of their own: a mailed link
that a transaction is burning stays a row until that transaction is over.

**Sums.** `SumFunctionOnSet` of the community modules is a recursive function, which
in TLA+ is a CHOOSE: nothing is known of it before such a function is shown to
exist. `Sums` shows that, by taking the least set on which it would fail, and gives
the facts the books need: a sum grows by what is added, does not change when what is
added is zero, is the sum of the rest and of any element taken out first.

**Refund.** `RefundProofs`, for all items, prices, refunds, executors and restarts
that satisfy `RefundAssumption`: `PaidOnceSafe` (`Spec => []PaidOnce`),
`RestockedOnceSafe`, `RefundedIsFinalSafe`, `ReservationsSafe`
(`Spec => []ReservationsAddUp`) and `UnitsSafe` (`Spec => []UnitsCounted`).

The argument. `PaidOnce` alone is not inductive, because the answer that tells
whether a refund was paid comes long after it was sent. `RefundInv` adds that the
gateway's answer tells what it paid, and an executor what was answered
(`AnswerTells`); that whoever may still reach the gateway finds the refund sent, or
already refused (`AskedIsSent`); and that a payment whose answer the gateway has
forgotten is out of everybody's reach (`ForgottenIsOver`): the retry window is
shorter than the gateway's memory, and a refund older than the window is sent only
as a requested one, that is if it was never sent or was refused. `RestockedOnce` and
`RefundedIsFinal` follow from the transition table, which leaves no closed order, and
from the locks: a request needs a unit that is left, a rejection a refund that is open.

`Books` is the invariant of the other two: the amount reserved is the sum of the
refunds that are not rejected, and each item counts at least the units of theirs: a
cancellation or a close may settle more than any refund names. It is inductive by
itself, since a rejection takes back exactly what its request added.

**Returns.** `ReturnsProofs`, for all items, returns, refunds, keys, fees, price
differences and stock that satisfy `ReturnsAssumption` (no return is called `None`, the
NULL of `refunds.return_id`). Five invariants, each inductive on top of the ones
before it:

* `ReturnsInv`, the order and its returns: a row's status is one of its kind, one
  return is open at a time, and the order shows its status unless it was closed over
  a return that was picked up;
* `PayInv`, the payment of a difference: who has asked the gateway has a pending row
  and knows what became of it, a failed row took nothing of a card, one row of an
  exchange is live. From it `ShippedMeansPaidSafe` and `CardChargedOnceSafe`;
* `BooksInv`, units and money as sums over refunds and returns. From it
  `UnitsAccountedSafe` and `ExchangeStockHeldSafe`;
* `MoneyInv`, what a picked-up return is worth: with prices that are whole per unit
  (`WholePrices`), units are worth their price whatever else is settled, the amount
  reserved is at most the price of what went back, and a fee that passed at the
  pickup stays smaller than the price. From it `OrderFollowsReturnSafe`,
  `PickedUpSettlesSafe`, and `GoodsNotOverpaidSafe`: goods pay back no more than they
  cost up to the exchange that gives a credit;
* `OverpaidInv`, what the difference of a cheaper exchange leaves. There is one such
  credit, since an exchange that shipped is the order's last return, and it is within
  the price of its units (`DiffCovered`). `itemRefundable` counts the whole credit
  against every item the exchange was in, but only at the item's last units, so which
  refunds are worth less depends on their order, and any of them may be rejected
  later. The invariant says nothing of the order: the credit can be shared out over
  the items (`KeptFor`: for each a part within its credit, together at least the whole)
  such that every subset of the other refunds fits in the room this leaves, which per
  item is the lesser of the price of the units gone and the net price less the item's
  part. A rejection takes one subset to another, a request adds what
  `capByExchangeCredit` lets through to each (`WorthFits`). From it
  `GoodsNeverOverpaidSafe` (`Spec => []GoodsNeverOverpaid`), before and after the credit.

`WholePrices` is a hypothesis of these four theorems, not an assumption of the
module: each item costs a whole amount per unit after its discount, and is not free
while shipping is free too. Both halves are needed. Shares that are rounded break
`PickedUpSettles` and `GoodsNeverOverpaid` (below); and when an item is worth nothing
and shipping is free, everything may be paid back while that item's return is in
progress, so that an execution still on its way closes the order over it.
`GoodsNeverOverpaidSafe` has a second one, `CheaperByAUnit`: no exchange is cheaper by
more than the discounted price of a unit. The code does not see to that either (below,
a credit larger than the item).

**Content.** `ContentProofs`, for all posts, comments, threads, file names and
requests that satisfy `ContentAssumption`: `FilesReachableSafe`
(`Spec => []FilesReachable`), `CountsCurrentSafe` and `RemovedStaysRemovedSafe`.

The argument. A list of files is read long before what it names is removed, the row
of a file is written long after the file, and the bucket has its object before the
local copy goes. `ContentInv` says what stays true of each meanwhile:

* a file with a name is its upload's until its row is there (`Owns`), one upload's at
  most, and no list, download or deletion in flight names such a file (`Carries`);
* a file is *wanted* when it has a row or an owner; what is not wanted never is again,
  since a name is given out once and only the owner writes the row. So what a request
  is about to remove, which had neither when the request came to it (`Dropped`), can
  be removed at any later time;
* a file its request sent to the bucket, or looks for there, is there while it is
  wanted (`Sound`): that is why the local copy may go;
* replies are on the post of their comment, those being written too (`Threads`):
  without it a post's deletion would leave replies without their comment's row;
* a count that was read and is still fresh is the board's, or a reset is to come
  (`CountsInv`): what remains to be shown of `put`.

`Onward` is what all steps have in common, and `SoundStays` that everything a request
in flight relies on survives it: each of the steps is then shown to be onward and
to leave its own request sound. TLC checked `ContentInv` on the run's instance first.

**Checkout.** `CheckoutProofs`, for all products and their combinations, carts,
browsers, clerks, orders and requests that satisfy `CheckoutAssumption`:
`StockAddsUpSafe` and `OrderedGoodsExistSafe` (`Spec => []...`), `ShownIsBookedSafe`
and `OrderedAsLockedSafe` (the action properties, `Spec => ...`).

The argument. `CheckoutInv` has three parts, of which the first is what makes the
orders right:

* `CartInv`: an order in flight has rows locked, those rows are in its cart exactly as
  it read them, and no other order in flight has that cart (`Locks`). Every writer of a
  cart is therefore shown either to leave a locked row alone or to wait for it; a
  login changes only which cart a browser sees;
* `GoodsInv`: a combination's stock and what the open orders hold of it add up to what
  was supplied, counted and corrected (`AddsUp`, a sum over the orders), what is held was not
  deleted, and what is on sale exists;
* `ScreensInv`: what forms and counting screens were drawn with.

`OrderedAsLocked` then speaks of the step that makes the order, where `CartInv` says
what the cart holds; `ShownIsBooked` follows from the guard that `StocktakeAdjust` has
under the row's lock, once every other way to change `supplied` is seen not to be a
clerk's booking. TLC checked `CheckoutInv` on the run's instance first.

**Site.** `SiteProofs`, for all requests, themes, addresses, schedules and numbers of
backups to keep that satisfy `SiteAssumption`: `TreesReleasedSafe` and `ThemesWholeSafe`
(`Spec => []...`), `ConfigOnceSafe` and `BackupsKeptSafe` (`Spec => ...`).

The argument. `SiteInv` has one part per thing that is read in one step and used in a
later one:

* `TreesInv`: an open tree serves, or is in the hands of the request that assembled it,
  of the one that replaced it, or of the shutdown (`Released`). A tree that has served
  never serves again (`Served`), so a request that closes the tree it replaced cannot
  close the one that serves. The shutdown sets its flag before it loads the tree, and
  every swap looks at the flag after it: whichever comes second closes the tree;
* `WizardInv`: a request past the wizard's lock has the mutex, and there is no config
  before it wrote one; whoever could still submit finds the config missing or the flag
  set. An account without verified addresses can only be the one of an earlier site;
* `ThemesInv`: an upload whose directory is moved aside knows where it stands until it
  cleans up, which it does only after a rename onto the free name (`Exchange`). What
  was moved aside and not put back stays there when the process dies (`Stands`);
* `PicturesInv`: files come before rows, rows before the forms that name them, and
  nothing removes a file whose row was written (`Carries`);
* `BackupsInv`: the rows of a dump are a subset of the rows now, hence of the files that
  the archive takes later. `BackupsKept` then needs a fact about `Newest`
  (`NewestHolds`): of the backups outside it the last one has enough newer ones, and
  those are all inside.

Where a request can go is stated once (`Hands`), and so is what each step leaves alone
(`Leaves`); the steps that have no part in an invariant are dispatched by those two
lemmas. TLC checked `SiteInv` on the run's instance first.

**Navigation.** The last part of `ContentProofs`, for all requests, pages, entries,
categories and products, and whatever there is at first that is a forest and of which
the keys hold (`NavigationAssumption`): `CategoriesAcyclicSafe` (`NavigationSpec =>
[]CategoriesAcyclic`) and `DeletionSparesSafe` (`NavigationSpec =>
DeletionSparesMenus`). Trees are read without recursion: what hangs under some rows is
the least set closed under "names a parent in it" (`Under`), and a forest is a tree
that hangs, whole, under the top; equivalently, of any of its rows one has its parent
outside of them (`Rooted`), which is what the steps preserve.

* A move past its check holds the advisory lock (`MovesAlone`), and there is a set of
  categories, closed downward, that has the moved one and not its new parent
  (`MovesSound`): the check found one. Creating a category may have to extend it,
  deleting one leaves it, and no other move comes between. A loop that the move closed
  would have to leave this set and could then not come back.
* Of one page there is one deletion past its start (`OneDeletes`), and what it lifted,
  and the entries it lifted it to, are there until it ends (`LiftsHeld`), as row locks
  and foreign keys see to: so what the deletion sees of the menu is a menu, and what
  remains without the cascade is one too (`WithoutTyped`).

Only model-checked: liveness, that is `UnpaidOrdersReleased`, `EveryOrderCloses` and
`FullyRefundedCloses`, which rest on fairness.

## Disagreements between code and comments

Shown by a run:

* **A payment cancelled at the console stays pending** (`payment_console`).
  `order.go:619-620` leaves an order with a pending payment to A-508, "by a person's
  hand"; A-508 (`webhook.go:392`) refuses any answer that is neither approved nor
  failed. Payment, order and stock stay as they are.

Found by TLC with other values for the run `returns`, which `MCReturns` keeps:

* **Refunding units in any order** (`GoodsNeverOverpaid` with `Net <- UnevenNet`).
  `discount.go:106-107` says the sum never differs by a single won; with a rejection
  in between it does, because the share depends on how many units are settled at the
  time: of two units worth 3, refund one (1) and the other (2), reject the first and
  refund it again (2).
* **A fee that passed at the pickup** (`PickedUpSettles`, same values).
  `returns.go:365-368`: pickup and settlement use one function, so that a fee which
  passed cannot exceed at the settlement, where the order would stop for ever. The
  function is one, its result is not: the rejection of a refund of the other unit
  shifts the rounding, and a share of 2 becomes 1. Another request for that unit
  shifts it back.
* **A credit larger than the item** (`GoodsNeverOverpaid` with `Quantity <-
  SingleQuantity`, `Net <- DiscountedNet`, `Deltas <- BigDelta`).
  `docs/50-commerce.md:251`, `docs/19-screen-io.md:3548`: one item pays back no more
  than its discounted amount. The difference of a cheaper variant is taken from list
  prices (`returns.go:299-301`) and bounded by the whole payment only.

Met while modelling; the models have the steps, the properties claim nothing of them:

* **Rejecting the refund of a cancellation.** `refund.go:239-240` names the state in
  which the amount is returned without the units as the one to avoid; a
  cancellation's refund has no `refund_items` (`refund.go:325-342`), and A-507 lets
  it be rejected.
* **A virtual account for an exchange difference.** `returns.go:994` fails the
  payment's row on the answer "waiting for deposit"; the account stays open at the
  gateway, and 978-979 name the consequence of failing a row too early: a second
  payment of the same difference. (P-514's screen does not yet open the payment
  window, `docs/85-gaps.md` BUG-01; this is about `ConfirmExchangeDiff` once it is
  called.)
* **A return closes the order over an open refund.** `SettleReturn`
  (`returns.go:615`) decides by the units settled; `refund.go:429-430` gives the
  reason why `refundCloseTarget` does not: the refund may be rejected afterwards.
* **Carts are merged at login**, say `docs/50-commerce.md:234`,
  `docs/12-screens-public.md:235` and `docs/19-screen-io.md:992`; nothing calls
  `MergeCarts`. In `Checkout` a login shows the member's cart and leaves the guest's.
* **Locks in a fixed order.** `order.go` says that its order of locks rules out
  deadlocks; `DeleteProduct` takes the product before its variants, `CreateOrder` the
  variants before the foreign-key lock on the product.
* **The menu.** `handlers_rbac.go:95-99` refuses an entry under itself because the
  menu could not be built any more, but judges the tree it read without a lock: two
  moves at once close the loop. Categories take an advisory lock for this
  (`commerce/store.go:341`). `CreateCategory` does not check `MaxCategoryDepth`, and
  a category made between a move's check and its write makes the tree deeper.
* **Deleting a page.** `LiftMenuChildren` lifts an entry by one level; when the entry
  above points at the page as well, both go and the third is deleted with them. So
  is an entry another editor puts under a deleted one between the two statements.
* **Themes.** "The active theme is not overwritten" (`handlers_rbac.go`): the upload
  reads `theme.active`, then unpacks; an activation in between is not seen.
  Activation writes the setting and then tells the renderer of the tree the request
  came through: two at once may leave setting and renderer apart, and one beside a
  rebuild may tell the old tree. A crash, or a restore that fails, between the two
  renames leaves the theme under a name nothing looks for. Of two saves of one
  theme screen the later one restores what the first replaced.
* **Two rebuilds at once** (`main.go` `startOperating`) assemble from settings read in
  one order and go live in the other: the tree that serves may be of the settings
  before. After a rebuild two schedulers may each list the day's backups before
  either makes one, and two are made.
* **Settings.** `PutSettings` writes its keys in the random order of a Go map, so two
  saves of the same screen may deadlock; the database refuses one of them.
* **The open-orders check** of A-201 counts without a lock (`docs/85-gaps.md` GAP-10
  says so). A-210 checks the bucket with a combination that need not be the one
  stored when two saves overlap.
* **An INSERT whose answer is lost** after its commit (`attachment.go:86`) is taken
  for a refusal: the file of a row that stands is removed.

## Limits

* Trusted, not modelled: that a repeated idempotency key is answered with its first
  answer, refusals included, and that an account takes no deposit past its date.
* Notifications the webhook ignores, body decoding, signatures, and the list
  A-508 shows are left out; so is how coupons make the amounts.
* Returns: the deadline, and the checks on the variant asked for (same product,
  visible), only forbid a request and are left out; all exchanges ask for one
  variant, and its price differs from that of every item by the same amount. The
  arrow from ExchangeShipped back to Delivered is in the table but no code takes it
  (`docs/85-gaps.md` GAP-32), so no action does.
* Checkout: one kind of terms, whose next version comes into force at once (one
  dated later is added on its day); an id of a product is used again only when
  nothing names it any more; prices, images and coupons are left out.
* Accounts: a browser has one request in flight (the session store would let the
  later of two saves win); whether unverified accounts may log in is a constant;
  asking for another verification mail (P-113) is left out; tokens are not guessed.
* Roles: how a form's keys are read, and the grants a new board or theme brings.
* Content: one flag stands for the board's two settings about comments and
  attachments; bodies, lists, search, custom fields and the view-count buffer are
  left out; a bucket stays in the settings once it is there.
* Site: each request arrives once; a transaction of `PutSettings` is one step; the
  refusal while orders are open is one of the failures; the schedule of backups is
  constant; what a template draws, what an archive may hold beyond "whole, with
  base.html", the version a theme requires, and the directories a crash leaves behind
  under temporary names are not looked at.
* Navigation: names, order and visibility are left out, as is the deletion of a
  board with its entries, which takes the same two statements.
* `PROJECT.json` lists at most the forty hazards that seemed worst.
* Everything marked `not_modelled` there.

## Plan

1. done: `OrderStatus`, `Payment` with `OrderPayment` and their proofs; `Refund`;
   `Amounts` and `Returns`; `Checkout`; `Accounts`; `Roles`; `Content`; `Site`;
   `Navigation`.
2. `LockOrder`: each transaction as its sequence of row locks; no cycle of waits but
   the one listed above.
3. `Content`: the buffer of view counts, flushed by a loop and at shutdown, put back
   when the flush fails; `Checkout`: prices and the totals of `amount.go`.
