-------------------------------- MODULE Checkout --------------------------------
(***************************************************************************)
(* Carts, the order that is made of one, and everything that moves the     *)
(* stock of a product's combinations (internal/commerce/cart.go, stock.go, *)
(* store.go, scan.go, product_admin.go and CreateOrder of order.go, with   *)
(* the shop and administration screens that call them).                    *)
(*                                                                         *)
(* PostgreSQL runs each transaction at READ COMMITTED.  A request that     *)
(* reads before it locks is two or three steps here: what it read is in    *)
(* its record of `req`, and what it holds locked can be told from the      *)
(* step it is at.  Stock is changed by one statement, or under the lock of *)
(* the combination's row until the commit, so a transaction's changes of   *)
(* stock are one step.                                                     *)
(*                                                                         *)
(* The payment of an order is in Payment; here an unpaid order may be      *)
(* given up, which gives its units back.                                   *)
(***************************************************************************)
EXTENDS Integers, FiniteSets, FiniteSetsExt

CONSTANTS
    Browsers,     \* sessions; each starts as a guest or as the member
    Members,      \* those of Browsers that start logged in, as the one member
    Products, Variants, ProductOf,
    Requests,     \* bound: requests in flight
    Orders,       \* bound: rows of `orders`
    Clerks,       \* product.manage sessions
    Initial,      \* stock of every combination at the start
    Quantities,   \* quantities a shopper asks for
    Adjustments,  \* stock changes a clerk enters
    MaxQuantity,  \* largest quantity of one line
    MaxStock,     \* bound: stock beyond which nothing is received
    MaxRows,      \* bound: rows ever inserted into `cart_items`
    MaxTerms      \* bound: versions of the terms

ASSUME CheckoutAssumption ==
    /\ Members \subseteq Browsers
    /\ ProductOf \in [Variants -> Products]
    /\ IsFiniteSet(Variants) /\ IsFiniteSet(Orders)
    /\ Initial \in Nat /\ MaxQuantity \in Nat \ {0}
    /\ MaxStock \in Nat /\ MaxRows \in Nat /\ MaxTerms \in Nat
    /\ Quantities \subseteq Int /\ Adjustments \subseteq Int

VARIABLES
    session,   \* whose cart each browser sees: "guest" (the key in its session) or "member"
    cart,      \* cart_items: cart[c][v] = [row, qty], row 0 if there is none
    rows,      \* rows inserted into cart_items so far: their ids
    req,       \* what each request in flight is doing
    stock,     \* product_variants.stock
    live,      \* combinations that exist
    onSale,    \* those that are visible (product_variants.is_visible)
    catalog,   \* products that exist
    listed,    \* those that are visible (products.is_visible)
    terms,     \* the one kind of terms: [version in force, whether required]
    form,      \* the version of the terms each browser's order form shows, or NotDrawn
    shown,     \* the stock each clerk's screen shows (NotDrawn: not there), or Unread
    order,     \* orders by id
    supplied   \* history: units received and adjusted, less those counted away

cartVars  == <<session, cart, rows>>
goodsVars == <<live, onSale, catalog, listed>>
stockVars == <<stock, goodsVars, supplied>>
termsVars == <<terms, form>>
vars == <<cartVars, req, stockVars, termsVars, shown, order>>

Carts  == {"guest", "member"}
NoRow  == [row |-> 0, qty |-> 0]
Idle   == [op |-> "idle"]
NoLines == [v \in Variants |-> 0]
NoOrder == [state |-> "none", lines |-> NoLines, agreed |-> 0]
Unread  == <<>>
NotDrawn == -1
Row     == [row : 0..MaxRows, qty : Nat]
Request ==
    {Idle}
    \cup [op : {"add"}, c : Carts, v : Variants, qty : Quantities, upTo : 0..MaxQuantity]
    \cup [op : {"put"}, c : Carts, v : Variants, qty : 1..MaxQuantity]
    \cup [op : {"set"}, c : Carts, v : Variants, row : 1..MaxRows, qty : 1..MaxQuantity]
    \cup [op : {"order"}, c : Carts, lines : [Variants -> Row], agreed : 0..MaxTerms]

TypeOK ==
    /\ session \in [Browsers -> Carts]
    /\ cart \in [Carts -> [Variants -> Row]]
    /\ \A c \in Carts, v \in Variants :
          IF cart[c][v].row = 0 THEN cart[c][v].qty = 0 ELSE cart[c][v].qty \in 1..MaxQuantity
    /\ rows \in 0..MaxRows
    /\ req \in [Requests -> Request]
    /\ stock \in [Variants -> Nat]
    /\ live \subseteq {v \in Variants : ProductOf[v] \in catalog} /\ onSale \subseteq live
    /\ catalog \subseteq Products /\ listed \subseteq catalog
    /\ terms \in [version : 0..MaxTerms, required : BOOLEAN]
    /\ form \in [Browsers -> {NotDrawn} \cup 0..MaxTerms]
    /\ shown \in [Clerks -> {Unread} \cup [Variants -> Nat \cup {NotDrawn}]]
    /\ order \in [Orders -> [state : {"none", "open", "released"},
                             lines : [Variants -> 0..MaxQuantity], agreed : 0..MaxTerms]]
    /\ supplied \in [Variants -> Int]

Init ==
    /\ session = [b \in Browsers |-> IF b \in Members THEN "member" ELSE "guest"]
    /\ cart = [c \in Carts |-> [v \in Variants |-> NoRow]]
    /\ rows = 0
    /\ req = [r \in Requests |-> Idle]
    /\ stock = [v \in Variants |-> Initial]
    /\ live = Variants /\ onSale = Variants /\ catalog = Products /\ listed = Products
    /\ terms = [version |-> 0, required |-> FALSE] /\ form = [b \in Browsers |-> NotDrawn]
    /\ shown = [k \in Clerks |-> Unread]
    /\ order = [o \in Orders |-> NoOrder]
    /\ supplied = stock

-----------------------------------------------------------------------------
(* Rules and rows.  Definitions commented "Mutant" are used by no other:     *)
(* each is a plausible bug of the one that follows it.                       *)

owner(b) == session[b]

\* The row a request reads of a combination, and how much of it may be taken.
Sellable(v) == [product |-> ProductOf[v] \in listed, variant |-> v \in onSale,
                stock   |-> stock[v]]
VariantForPurchase(v) ==
    LET row == Sellable(v)
    IN  IF row.product /\ row.variant
        THEN (IF row.stock < MaxQuantity THEN row.stock ELSE MaxQuantity) ELSE 0
\* Sellable.CheckAvailable, on what was read.
CheckAvailable(upTo, want) == want \in 1..upTo

\* LockCartForOrder ... FOR UPDATE OF ci: held until CreateOrder ends.
\* Mutant: the cart is read without locking it.
RowLockedNever(c, v) == c # c
RowLocked(c, v) ==
    \E r \in Requests : /\ req[r].op = "order" /\ req[r].c = c
                        /\ req[r].lines[v].row # 0
                        /\ req[r].lines[v].row = cart[c][v].row
\* The cart's own row, which cartID's upsert keeps locked until the commit.
CartLocked(c) == \E r \in Requests : req[r].op = "put" /\ req[r].c = c

CartItemQuantity(c, v) == cart[c][v].qty
CartItemVariant(c, v)  == cart[c][v].row # 0
UpsertCartItem(c, v, n) ==
    IF cart[c][v].row # 0
    THEN cart' = [cart EXCEPT ![c][v].qty = n] /\ UNCHANGED rows
    ELSE /\ rows < MaxRows
         /\ rows' = rows + 1
         /\ cart' = [cart EXCEPT ![c][v] = [row |-> rows + 1, qty |-> n]]
SetCartItemQuantity(c, v, n) == cart' = [cart EXCEPT ![c][v].qty = n]
DeleteCartItem(c, v)         == cart' = [cart EXCEPT ![c][v] = NoRow]
ClearCart(c)                 == cart' = [cart EXCEPT ![c] = [v \in Variants |-> NoRow]]

\* stock = stock + delta, under CHECK (stock >= 0); `of` is the deltas by
\* combination.
Covers(of) == \A v \in Variants : stock[v] + of[v] >= 0
AddVariantStock(of) == stock' = [v \in Variants |-> stock[v] + of[v]]
AdjustStock(of) ==
    /\ \A v \in Variants : of[v] # 0 => v \in live
    /\ Covers(of)
    /\ AddVariantStock(of)
Supply(of) == supplied' = [v \in Variants |-> supplied[v] + of[v]]
Only(v, n) == [w \in Variants |-> IF w = v THEN n ELSE 0]

Done(r) == req' = [req EXCEPT ![r] = Idle]

-----------------------------------------------------------------------------
(* Carts: P-101, P-401, P-403, P-404                                         *)

\* A login changes whose cart the browser sees, and nothing else: MergeCarts
\* (cart.go:190) is called by nobody.
login(b) ==
    /\ session[b] = "guest"
    /\ session' = [session EXCEPT ![b] = "member"]
    /\ UNCHANGED <<cart, rows, req, stockVars, termsVars, shown, order>>

\* P-401.  The combination is read before the transaction.
cartAdd(r, b, v, q) ==
    /\ req[r] = Idle
    /\ v \in live
    /\ req' = [req EXCEPT ![r] = [op |-> "add", c |-> owner(b), v |-> v, qty |-> q,
                                  upTo |-> VariantForPurchase(v)]]
    /\ UNCHANGED <<cartVars, stockVars, termsVars, shown, order>>

\* The transaction's first half: the cart's row is locked, the quantity read.
AddToCart(r) ==
    /\ req[r].op = "add" /\ ~CartLocked(req[r].c)
    /\ LET total == CartItemQuantity(req[r].c, req[r].v) + req[r].qty
       IN  IF CheckAvailable(req[r].upTo, total)
           THEN req' = [req EXCEPT ![r] = [op |-> "put", c |-> req[r].c, v |-> req[r].v,
                                           qty |-> total]]
           ELSE Done(r)
    /\ UNCHANGED <<cartVars, stockVars, termsVars, shown, order>>

\* Its second half.  A combination deleted meanwhile violates the foreign key.
AddToCartCommit(r) ==
    /\ req[r].op = "put"
    /\ ~RowLocked(req[r].c, req[r].v)
    /\ IF req[r].v \in live THEN UpsertCartItem(req[r].c, req[r].v, req[r].qty)
       ELSE UNCHANGED <<cart, rows>>
    /\ Done(r)
    /\ UNCHANGED <<session, stockVars, termsVars, shown, order>>

\* P-403, reads and checks.
cartUpdate(r, b, v, q) ==
    /\ req[r] = Idle
    /\ CartItemVariant(owner(b), v)
    /\ CheckAvailable(VariantForPurchase(v), q)
    /\ req' = [req EXCEPT ![r] = [op |-> "set", c |-> owner(b), v |-> v,
                                  row |-> cart[owner(b)][v].row, qty |-> q]]
    /\ UNCHANGED <<cartVars, stockVars, termsVars, shown, order>>

\* P-403, the statement: the row is named by its id, so a row that came after
\* it is not touched.
UpdateCartItem(r) ==
    /\ req[r].op = "set"
    /\ LET c == req[r].c v == req[r].v
       IN  /\ ~RowLocked(c, v)
           /\ IF cart[c][v].row = req[r].row THEN SetCartItemQuantity(c, v, req[r].qty)
              ELSE UNCHANGED cart
    /\ Done(r)
    /\ UNCHANGED <<session, rows, stockVars, termsVars, shown, order>>

\* P-404.
cartDelete(b, v) ==
    /\ cart[owner(b)][v].row # 0 /\ ~RowLocked(owner(b), v)
    /\ DeleteCartItem(owner(b), v)
    /\ UNCHANGED <<session, rows, req, stockVars, termsVars, shown, order>>

-----------------------------------------------------------------------------
(* Orders: P-406 and what gives an unpaid one up                             *)

Lines(c) == {v \in Variants : cart[c][v].row # 0}

\* P-405: the cart, all of it sellable, and the terms in force.
CartItems(c)     == [v \in Lines(c) |-> CheckAvailable(VariantForPurchase(v), cart[c][v].qty)]
hasUnsellable(c) == \E v \in Lines(c) : ~CartItems(c)[v]
TermsInForce     == terms.version
checkoutForm(b) ==
    /\ Lines(owner(b)) # {} /\ ~hasUnsellable(owner(b))
    /\ form' = [form EXCEPT ![b] = TermsInForce]
    /\ UNCHANGED <<cartVars, req, stockVars, terms, shown, order>>

\* A-207: versions are added, never changed.  One dated later is added here on
\* its day.
AddTerms(required) ==
    /\ terms.version < MaxTerms
    /\ terms' = [version |-> terms.version + 1, required |-> required]
TermsAdd(required) ==
    /\ AddTerms(required)
    /\ UNCHANGED <<cartVars, req, stockVars, form, shown, order>>

\* The cart is read and its rows locked; every line must be available.
LockCartForOrder(r, c, agreed) ==
    /\ Lines(c) # {}
    /\ \A v \in Lines(c) : /\ ~RowLocked(c, v)
                           /\ CheckAvailable(VariantForPurchase(v), cart[c][v].qty)
    /\ req' = [req EXCEPT ![r] = [op |-> "order", c |-> c, lines |-> cart[c],
                                  agreed |-> agreed]]
\* The form may be an old one, and the version it shows left unticked.
checkoutCreate(r, b, ticked) ==
    /\ req[r] = Idle /\ form[b] # NotDrawn
    /\ LockCartForOrder(r, owner(b), IF ticked THEN form[b] ELSE 0)
    /\ UNCHANGED <<cartVars, stockVars, termsVars, shown, order>>

Ordered(r) == [v \in Variants |-> req[r].lines[v].qty]
Taken(r)   == [v \in Variants |-> 0 - req[r].lines[v].qty]

RequiredTermIDs == IF terms.required THEN {terms.version} ELSE {}
InsertOrder(o, lines, agreed) ==
    /\ order[o] = NoOrder
    /\ order' = [order EXCEPT ![o] = [state |-> "open", lines |-> lines, agreed |-> agreed]]

\* The rest of the transaction: stock, the terms, order, lines, agreements, and
\* the whole cart emptied.
CreateOrder(r, o) ==
    /\ req[r].op = "order"
    /\ AdjustStock(Taken(r))
    /\ RequiredTermIDs \subseteq {req[r].agreed}
    /\ InsertOrder(o, Ordered(r), req[r].agreed)
    /\ ClearCart(req[r].c)
    /\ Done(r)
    /\ UNCHANGED <<session, rows, goodsVars, supplied, termsVars, shown>>

\* Stock taken meanwhile, terms not agreed to, an amount out of range, or the
\* process died: nothing is left of the order.
CreateOrderRolledBack(r) ==
    /\ req[r].op = "order"
    /\ Done(r)
    /\ UNCHANGED <<cartVars, stockVars, termsVars, shown, order>>

\* A failed, expired or declined payment (see Payment).
\* Mutant: the order's status is not asked.
releaseUnpaidTwice(o) ==
    /\ order[o].state # "none" /\ \A v \in Variants : stock[v] + order[o].lines[v] <= MaxStock
    /\ AdjustStock(order[o].lines)
    /\ order' = [order EXCEPT ![o].state = "released"]
    /\ UNCHANGED <<cartVars, req, goodsVars, supplied, termsVars, shown>>
releaseUnpaid(o) ==
    /\ order[o].state = "open"
    /\ AdjustStock(order[o].lines)
    /\ order' = [order EXCEPT ![o].state = "released"]
    /\ UNCHANGED <<cartVars, req, goodsVars, supplied, termsVars, shown>>

-----------------------------------------------------------------------------
(* Stock and products: A-502, A-503, A-514, A-515, A-517                     *)

\* A-503 and A-517 draw every combination with its stock, which the form sends
\* back (VariantEdit.Version, the hidden ledger value).
VariantsOf(p) == {v \in live : ProductOf[v] = p}
renderVariants(k) ==
    /\ shown' = [shown EXCEPT ![k] = [v \in Variants |->
                    IF v \in VariantsOf(ProductOf[v]) THEN stock[v] ELSE NotDrawn]]
    /\ UNCHANGED <<cartVars, req, stockVars, termsVars, order>>

\* A-514: one statement.
ReceiveStockRow(v, q) == v \in live /\ AddVariantStock(Only(v, q))
ReceiveStock(v, q) ==
    /\ q \in 1..10000
    /\ ReceiveStockRow(v, q) /\ Supply(Only(v, q))
StockReceive(v, q) ==
    /\ stock[v] + q <= MaxStock
    /\ ReceiveStock(v, q)
    /\ UNCHANGED <<cartVars, req, goodsVars, termsVars, shown, order>>

\* A-515: SET stock = stock + delta WHERE stock = ledger; without a difference
\* only the ledger is compared.
\* Mutant: the difference is booked whatever the ledger is now.
StocktakeAdjustAnyway(v, delta, ledger) ==
    /\ ledger \in Nat /\ Covers(Only(v, delta))
    /\ AddVariantStock(Only(v, delta))
StocktakeAdjust(v, delta, ledger) ==
    /\ stock[v] = ledger /\ Covers(Only(v, delta))
    /\ AddVariantStock(Only(v, delta))
Stocktake(v, counted, ledger) ==
    /\ v \in live
    /\ StocktakeAdjust(v, counted - ledger, ledger)
    /\ Supply(Only(v, counted - ledger))
StocktakeSave(k, v, counted) ==
    /\ shown[k] # Unread
    /\ Stocktake(v, counted, shown[k][v])
    /\ shown' = [shown EXCEPT ![k] = Unread]
    /\ UNCHANGED <<cartVars, req, goodsVars, termsVars, order>>

\* A-503: the combinations of one form, all or none of them.
LockVariantOfProduct(p, v, version) == v \in VariantsOf(p) /\ stock[v] = version
EditVariant(of, edited, hidden) ==
    /\ Covers(of) /\ AddVariantStock(of)
    /\ onSale' = (onSale \cup edited) \ hidden
EditVariants(p, edited, delta, version, hidden) ==
    LET of == [v \in Variants |-> IF v \in edited THEN delta[v] ELSE 0]
    IN  /\ \A v \in edited : LockVariantOfProduct(p, v, version[v])
        /\ EditVariant(of, edited, hidden) /\ Supply(of)
VariantSave(k, p, delta, hidden) ==
    /\ shown[k] # Unread
    /\ LET edited == {v \in Variants : ProductOf[v] = p /\ shown[k][v] # NotDrawn}
       IN  /\ edited # {} /\ hidden \subseteq edited
           /\ \A v \in edited : stock[v] + delta[v] <= MaxStock
           /\ EditVariants(p, edited, delta, shown[k], hidden)
    /\ shown' = [shown EXCEPT ![k] = Unread]
    /\ UNCHANGED <<cartVars, req, live, catalog, listed, termsVars, order>>

\* A-503, options: combinations outside the product of the options are hidden,
\* missing ones are made, with no stock; nothing is removed.  The product is
\* never empty, but it may hold none of Variants.
HideVariants(stale)                   == onSale \ stale
InsertVariantIfMissing(combinations)  == live' = live \cup combinations
SetOptions(p, combinations) ==
    LET stale == {v \in onSale : ProductOf[v] = p /\ v \notin combinations}
    IN  /\ InsertVariantIfMissing(combinations)
        /\ onSale' = HideVariants(stale) \cup (combinations \ live)
OptionsSave(p, combinations) ==
    /\ p \in catalog /\ \A v \in combinations : ProductOf[v] = p
    /\ SetOptions(p, combinations)
    /\ UNCHANGED <<cartVars, req, stock, catalog, listed, supplied, termsVars, shown, order>>

\* A-502, 「공개」.
UpdateProductRow(p, visible) ==
    listed' = IF visible THEN listed \cup {p} ELSE listed \ {p}
UpdateProduct(p, visible) ==
    p \in catalog /\ UpdateProductRow(p, visible) /\ UNCHANGED catalog
\* A new product has a new id: one is used again only when nothing names it.
CreateProductRow(p, visible) == catalog' = catalog \cup {p} /\ UpdateProductRow(p, visible)
CreateProduct(p, visible) ==
    /\ p \notin catalog
    /\ \A r \in Requests : req[r].op \in {"add", "put", "set"} => ProductOf[req[r].v] # p
    /\ \A k \in Clerks : shown[k] = Unread
    /\ CreateProductRow(p, visible)
ProductSave(p, visible) ==
    /\ UpdateProduct(p, visible) \/ CreateProduct(p, visible)
    /\ UNCHANGED <<cartVars, req, stock, live, onSale, supplied, termsVars, shown, order>>

\* A-502, deletion: order items hold the product back, of orders given up too.
\* Mutant: the code counts the orders that are open.
NeverOrderedOpen(p) ==
    \A o \in Orders, v \in Variants :
        order[o].state = "open" /\ order[o].lines[v] > 0 => ProductOf[v] # p
NeverOrdered(p) ==
    \A o \in Orders, v \in Variants : order[o].lines[v] > 0 => ProductOf[v] # p
\* Its combinations and the cart items of these go with it, once no order has
\* their rows locked.
DeleteProduct(p, gone) ==
    /\ p \in catalog /\ NeverOrdered(p)
    /\ \A c \in Carts, v \in gone : ~RowLocked(c, v)
    /\ catalog' = catalog \ {p} /\ listed' = listed \ {p}
    /\ live' = live \ gone /\ onSale' = onSale \ gone
    /\ cart' = [c \in Carts |-> [v \in Variants |-> IF v \in gone THEN NoRow ELSE cart[c][v]]]
ProductDelete(p) ==
    LET gone == VariantsOf(p)
    IN  /\ DeleteProduct(p, gone)
        /\ stock' = [v \in Variants |-> IF v \in gone THEN 0 ELSE stock[v]]
        /\ supplied' = [v \in Variants |-> IF v \in gone THEN 0 ELSE supplied[v]]
        /\ UNCHANGED <<session, rows, req, termsVars, shown, order>>

-----------------------------------------------------------------------------
Next ==
    \/ \E b \in Browsers :
          \/ login(b) \/ checkoutForm(b)
          \/ \E v \in Variants : cartDelete(b, v)
          \/ \E r \in Requests :
                \/ \E ticked \in BOOLEAN : checkoutCreate(r, b, ticked)
                \/ \E v \in Variants, q \in Quantities : cartAdd(r, b, v, q) \/ cartUpdate(r, b, v, q)
    \/ \E r \in Requests :
          \/ AddToCart(r) \/ AddToCartCommit(r) \/ UpdateCartItem(r)
          \/ CreateOrderRolledBack(r)
          \/ \E o \in Orders : CreateOrder(r, o)
    \/ \E o \in Orders : releaseUnpaid(o)
    \/ \E required \in BOOLEAN : TermsAdd(required)
    \/ \E v \in Variants, q \in Adjustments : StockReceive(v, q)
    \/ \E k \in Clerks :
          \/ renderVariants(k)
          \/ \E v \in Variants, n \in 0..MaxStock : StocktakeSave(k, v, n)
          \/ \E p \in Products, delta \in [Variants -> Adjustments], hidden \in SUBSET Variants :
                VariantSave(k, p, delta, hidden)
    \/ \E p \in Products :
          \/ ProductDelete(p)
          \/ \E visible \in BOOLEAN : ProductSave(p, visible)
          \/ \E combinations \in SUBSET Variants : OptionsSave(p, combinations)

Spec == Init /\ [][Next]_vars

-----------------------------------------------------------------------------
(* What must hold                                                            *)

\* Every unit is on the shelf or in one order that was not given up, whoever
\* receives, counts, adjusts, orders and releases at the same time
\* (store.go:219, scan.go:172).
OpenOrders == {o \in Orders : order[o].state = "open"}
StockAddsUp ==
    /\ TypeOK
    /\ \A v \in Variants :
        stock[v] + SumFunctionOnSet([o \in Orders |-> order[o].lines[v]], OpenOrders) = supplied[v]

\* A count or an adjustment is booked only on the stock its screen showed: what
\* is on the shelf afterwards is what the clerk saw, plus what the clerk
\* entered (ErrStockLedger, ErrStockVersion).
ShownIsBooked ==
    [][\A k \in Clerks, v \in Variants :
          shown[k] # Unread /\ shown'[k] = Unread /\ supplied'[v] # supplied[v]
          => stock'[v] = shown[k][v] + (supplied'[v] - supplied[v])]_vars

\* When an order is made, the cart still holds each of its lines, in the row
\* and the quantity that were ordered: nobody changed them in between, and no
\* other order took them (order.go:61, "잠그지 않으면 ...").  The terms required
\* by then are those the order records, however old the form was (FR-619).
OrderedAsLocked ==
    [][\A r \in Requests :
          req[r].op = "order" /\ order' # order /\ req'[r] = Idle
          => /\ \A v \in Variants : req[r].lines[v].row # 0 => cart[req[r].c][v] = req[r].lines[v]
             /\ terms.required => \E o \in Orders : order[o] = NoOrder
                                                  /\ order'[o].agreed = terms.version]_vars

\* The combinations an order was made of still exist, to be shipped and to take
\* the units back (DeleteProduct, and the foreign keys it relies on).
OrderedGoodsExist ==
    \A o \in Orders, v \in Variants : order[o].lines[v] > 0 => v \in live
================================================================================
