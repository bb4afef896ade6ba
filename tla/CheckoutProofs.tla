----------------------------- MODULE CheckoutProofs -----------------------------
(***************************************************************************)
(* The properties of Checkout, for every value of its constants.  A cart   *)
(* whose rows an order has locked keeps them as they were read; the books  *)
(* of a combination are a sum over the orders that were not given up.      *)
(***************************************************************************)
EXTENDS Checkout, Sums, TLAPS

\* Carts and requests: what an order has locked is still in the cart, and no other
\* order has the cart.
CartTyped ==
    /\ cart \in [Carts -> [Variants -> Row]]
    /\ \A c \in Carts, v \in Variants :
          IF cart[c][v].row = 0 THEN cart[c][v].qty = 0 ELSE cart[c][v].qty \in 1..MaxQuantity
Locks(q) ==
    /\ \A v \in Variants : IF q.lines[v].row = 0 THEN q.lines[v].qty = 0 ELSE cart[q.c][v] = q.lines[v]
    /\ \E v \in Variants : q.lines[v].row # 0
Ordering(r) == req[r].op = "order"
CartInv ==
    /\ session \in [Browsers -> Carts]
    /\ CartTyped
    /\ rows \in 0..MaxRows
    /\ req \in [Requests -> Request]
    /\ \A r \in Requests : Ordering(r) => Locks(req[r])
    /\ \A r, s \in Requests : Ordering(r) /\ Ordering(s) /\ req[r].c = req[s].c => r = s

\* Goods and orders: each unit is on the shelf or in one order that holds it.
Orderable == [Variants -> 0..MaxQuantity]
OrderRow == [state : {"none", "open", "released"}, lines : Orderable, agreed : 0..MaxTerms]
GoodsTyped ==
    /\ stock \in [Variants -> Nat] /\ supplied \in [Variants -> Int]
    /\ live \subseteq {v \in Variants : ProductOf[v] \in catalog} /\ onSale \subseteq live
    /\ catalog \subseteq Products /\ listed \subseteq catalog
    /\ order \in [Orders -> OrderRow]
HeldBy(o, v) == IF order[o].state = "open" THEN order[o].lines[v] ELSE 0
HeldOf(v) == SumFunctionOnSet([o \in Orders |-> order[o].lines[v]], OpenOrders)
AddsUp    == \A v \in Variants : stock[v] + HeldOf(v) = supplied[v]
GoodsInv  == GoodsTyped /\ OrderedGoodsExist /\ AddsUp

\* What the screens were drawn with.
ScreensInv ==
    /\ terms \in [version : 0..MaxTerms, required : BOOLEAN]
    /\ form \in [Browsers -> {NotDrawn} \cup 0..MaxTerms]
    /\ shown \in [Clerks -> {Unread} \cup [Variants -> Nat \cup {NotDrawn}]]

CheckoutInv == CartInv /\ GoodsInv /\ ScreensInv

LEMMA InvTyped == CheckoutInv => TypeOK /\ StockAddsUp /\ OrderedGoodsExist
BY DEF CheckoutInv, CartInv, CartTyped, GoodsInv, GoodsTyped, Orderable, OrderRow, AddsUp, HeldOf, ScreensInv,
       TypeOK, StockAddsUp

-----------------------------------------------------------------------------
(* Carts and requests                                                        *)

LEMMA RequestFields ==
    ASSUME NEW q \in Request
    PROVE  /\ q.op \in {"add", "put", "set", "order"} => q.c \in Carts
           /\ q.op \in {"add", "put", "set"} => q.v \in Variants
           /\ q.op = "add" => q.qty \in Quantities /\ q.upTo \in 0..MaxQuantity
           /\ q.op \in {"put", "set"} => q.qty \in 1..MaxQuantity
           /\ q.op = "set" => q.row \in 1..MaxRows
           /\ q.op = "order" => q.lines \in [Variants -> Row] /\ q.agreed \in 0..MaxTerms
<1>1. CASE q = Idle
  BY <1>1 DEF Idle
<1>2. CASE q \in [op : {"add"}, c : Carts, v : Variants, qty : Quantities, upTo : 0..MaxQuantity]
  BY <1>2
<1>3. CASE q \in [op : {"put"}, c : Carts, v : Variants, qty : 1..MaxQuantity]
  BY <1>3
<1>4. CASE q \in [op : {"set"}, c : Carts, v : Variants, row : 1..MaxRows, qty : 1..MaxQuantity]
  BY <1>4
<1>5. CASE q \in [op : {"order"}, c : Carts, lines : [Variants -> Row], agreed : 0..MaxTerms]
  BY <1>5
<1> QED
  BY <1>1, <1>2, <1>3, <1>4, <1>5 DEF Request

LEMMA IdleRequest == Idle \in Request /\ Idle.op = "idle"
BY DEF Idle, Request

\* A locked row is found so by everybody who would write it.
LEMMA LockHolds ==
    ASSUME CartInv, NEW r \in Requests, Ordering(r), NEW v \in Variants, req[r].lines[v].row # 0
    PROVE  RowLocked(req[r].c, v) /\ cart[req[r].c][v] = req[r].lines[v]
BY DEF CartInv, Locks, Ordering, RowLocked

\* Writes that leave the locked rows alone, and no new order.
LEMMA CartsMove ==
    ASSUME CartInv, session' \in [Browsers -> Carts], CartTyped', rows' \in 0..MaxRows,
           req' \in [Requests -> Request],
           \A r \in Requests : req'[r] = req[r] \/ req'[r].op # "order",
           \A c \in Carts, v \in Variants : RowLocked(c, v) => cart'[c][v] = cart[c][v]
    PROVE  CartInv'
<1>1. \A r \in Requests : Ordering(r)' => Ordering(r) /\ req'[r] = req[r]
  BY DEF Ordering
<1>2. ASSUME NEW r \in Requests, Ordering(r)' PROVE Locks(req[r])'
  <2>1. Ordering(r) /\ req'[r] = req[r] /\ Locks(req[r]) /\ req[r] \in Request
    BY <1>1, <1>2 DEF CartInv
  <2>2. req[r].c \in Carts
    BY <2>1, RequestFields DEF Ordering
  <2>3. ASSUME NEW v \in Variants, req[r].lines[v].row # 0
        PROVE  cart'[req[r].c][v] = req[r].lines[v]
    BY <2>1, <2>2, <2>3, LockHolds
  <2> QED
    BY <2>1, <2>3 DEF Locks
<1>3. \A r, s \in Requests : Ordering(r)' /\ Ordering(s)' /\ req'[r].c = req'[s].c => r = s
  BY <1>1 DEF CartInv
<1> QED
  BY <1>2, <1>3 DEF CartInv

\* Nothing but a request that is no order.
LEMMA RequestMoves ==
    ASSUME CartInv, NEW r \in Requests, NEW q \in Request, q.op # "order",
           req' = [req EXCEPT ![r] = q], UNCHANGED cartVars
    PROVE  CartInv'
<1>1. /\ CartTyped' /\ session' \in [Browsers -> Carts] /\ rows' \in 0..MaxRows
      /\ req' \in [Requests -> Request]
      /\ \A s \in Requests : req'[s] = req[s] \/ req'[s].op # "order"
      /\ \A c \in Carts, v \in Variants : cart'[c][v] = cart[c][v]
  BY DEF CartInv, CartTyped, cartVars
<1> QED
  BY <1>1, CartsMove

LEMMA RowMade ==
    ASSUME NEW i \in 0..MaxRows, NEW n \in Nat
    PROVE  \E x \in Row : x = [row |-> i, qty |-> n] /\ x.row = i /\ x.qty = n
<1>1. [row |-> i, qty |-> n] \in Row
  BY DEF Row
<1>2. [row |-> i, qty |-> n].row = i /\ [row |-> i, qty |-> n].qty = n
  OBVIOUS
<1> QED
  BY <1>1, <1>2

LEMMA NoRowMade == \E x \in Row : x = NoRow /\ x.row = 0 /\ x.qty = 0
BY RowMade, CheckoutAssumption DEF NoRow

\* One row of one cart is written.
Writes(c, v, x) == cart' = [cart EXCEPT ![c][v] = x]
LEMMA RowWrite ==
    ASSUME CartTyped, NEW c \in Carts, NEW v \in Variants, NEW x \in Row,
           IF x.row = 0 THEN x.qty = 0 ELSE x.qty \in 1..MaxQuantity,
           Writes(c, v, x)
    PROVE  /\ CartTyped'
           /\ \A d \in Carts, w \in Variants : d # c \/ w # v => cart'[d][w] = cart[d][w]
<1>1. cart \in [Carts -> [Variants -> Row]]
  BY DEF CartTyped
<1>2. PICK items \in [Variants -> Row] : /\ items = [cart[c] EXCEPT ![v] = x]
                                        /\ \A w \in Variants : items[w] = IF w = v THEN x ELSE cart[c][w]
  <2>1. [cart[c] EXCEPT ![v] = x] \in [Variants -> Row]
    BY <1>1
  <2>2. \A w \in Variants : [cart[c] EXCEPT ![v] = x][w] = IF w = v THEN x ELSE cart[c][w]
    BY <1>1
  <2> QED
    BY <2>1, <2>2
<1>3. cart' = [cart EXCEPT ![c] = items]
  BY <1>2 DEF Writes
<1>4. cart' \in [Carts -> [Variants -> Row]]
  BY <1>1, <1>3
<1>5. \A d \in Carts, w \in Variants : cart'[d][w] = IF d = c /\ w = v THEN x ELSE cart[d][w]
  BY <1>1, <1>2, <1>3
<1>6. ASSUME NEW d \in Carts, NEW w \in Variants
      PROVE  IF cart'[d][w].row = 0 THEN cart'[d][w].qty = 0 ELSE cart'[d][w].qty \in 1..MaxQuantity
  <2>1. CASE d = c /\ w = v
    BY <1>5, <2>1
  <2>2. CASE ~(d = c /\ w = v)
    BY <1>5, <2>2 DEF CartTyped
  <2> QED
    BY <2>1, <2>2
<1> QED
  BY <1>4, <1>5, <1>6 DEF CartTyped

LEMMA QuantityWrite ==
    ASSUME CartTyped, NEW c \in Carts, NEW v \in Variants, NEW n \in 1..MaxQuantity,
           cart[c][v].row # 0, SetCartItemQuantity(c, v, n)
    PROVE  /\ CartTyped'
           /\ \A d \in Carts, w \in Variants : d # c \/ w # v => cart'[d][w] = cart[d][w]
<1>1. cart[c][v] \in Row /\ MaxQuantity \in Nat
  BY CheckoutAssumption DEF CartTyped
<1>2. PICK y \in Row : y = cart[c][v]
  BY <1>1
<1>3. PICK i \in 0..MaxRows, m \in Nat : y = [row |-> i, qty |-> m]
  BY DEF Row
<1>4. PICK x \in Row : x = [row |-> i, qty |-> n]
  BY <1>1, RowMade
<1>5. x = [y EXCEPT !.qty = n] /\ x.row = y.row /\ x.qty = n
  BY <1>3, <1>4
<1>6. Writes(c, v, x)
  BY <1>2, <1>5 DEF Writes, SetCartItemQuantity
<1>7. IF x.row = 0 THEN x.qty = 0 ELSE x.qty \in 1..MaxQuantity
  BY <1>2, <1>5
<1> QED
  BY <1>6, <1>7, RowWrite

-----------------------------------------------------------------------------
LEMMA CartsKept ==
    ASSUME CartInv, UNCHANGED <<cartVars, req>>
    PROVE  CartInv'
BY DEF CartInv, CartTyped, Ordering, Locks, cartVars

LEMMA CartsStep ==
    ASSUME CheckoutInv, Next
    PROVE  CartInv'
<1>0. CartInv /\ GoodsTyped /\ ScreensInv /\ req \in [Requests -> Request]
  BY DEF CheckoutInv, CartInv, GoodsInv
<1>1. ASSUME NEW b \in Browsers, login(b) PROVE CartInv'
  <2>1. /\ session' \in [Browsers -> Carts] /\ UNCHANGED <<cart, rows, req>>
    BY <1>0, <1>1 DEF CartInv, login, Carts
  <2> QED
    BY <1>0, <2>1 DEF CartInv, CartTyped, Ordering, Locks
<1>2. ASSUME NEW b \in Browsers, NEW v \in Variants, cartDelete(b, v) PROVE CartInv'
  <2>1. owner(b) \in Carts
    BY <1>0 DEF CartInv, owner
  <2>2. PICK x \in Row : x = NoRow /\ x.row = 0 /\ x.qty = 0
    BY NoRowMade
  <2>3. Writes(owner(b), v, x) /\ UNCHANGED <<session, rows, req>>
    BY <1>2, <2>2 DEF cartDelete, DeleteCartItem, Writes
  <2>4. /\ CartTyped'
        /\ \A d \in Carts, w \in Variants : d # owner(b) \/ w # v => cart'[d][w] = cart[d][w]
    BY <1>0, <2>1, <2>2, <2>3, RowWrite DEF CartInv
  <2>5. \A d \in Carts, w \in Variants : RowLocked(d, w) => cart'[d][w] = cart[d][w]
    BY <1>2, <2>4 DEF cartDelete
  <2> QED
    BY <1>0, <2>3, <2>4, <2>5, CartsMove DEF CartInv
<1>3. ASSUME NEW r \in Requests, NEW b \in Browsers, NEW v \in Variants, NEW q \in Quantities,
             cartAdd(r, b, v, q)
      PROVE  CartInv'
  <2>1. owner(b) \in Carts /\ VariantForPurchase(v) \in 0..MaxQuantity
    BY <1>0, CheckoutAssumption DEF CartInv, owner, VariantForPurchase, Sellable, GoodsTyped
  <2>2. PICK x \in Request : /\ x.op # "order" /\ req' = [req EXCEPT ![r] = x]
    <3>1. PICK x \in Request : x = [op |-> "add", c |-> owner(b), v |-> v, qty |-> q,
                                    upTo |-> VariantForPurchase(v)]
      BY <2>1 DEF Request
    <3> QED
      BY <1>3, <3>1 DEF cartAdd
  <2> QED
    BY <1>0, <1>3, <2>2, RequestMoves DEF cartAdd
<1>4. ASSUME NEW r \in Requests, NEW b \in Browsers, NEW v \in Variants, NEW q \in Quantities,
             cartUpdate(r, b, v, q)
      PROVE  CartInv'
  <2>1. /\ owner(b) \in Carts /\ cart[owner(b)][v].row \in 1..MaxRows
        /\ VariantForPurchase(v) \in 0..MaxQuantity
    BY <1>0, <1>4, CheckoutAssumption DEF CartInv, CartTyped, Row, owner, VariantForPurchase, Sellable,
       GoodsTyped, cartUpdate, CartItemVariant
  <2>2. q \in 1..MaxQuantity
    BY <1>4, <2>1, CheckoutAssumption DEF cartUpdate, CheckAvailable
  <2>3. PICK x \in Request : x.op # "order" /\ req' = [req EXCEPT ![r] = x]
    <3>1. PICK x \in Request : x = [op |-> "set", c |-> owner(b), v |-> v,
                                    row |-> cart[owner(b)][v].row, qty |-> q]
      BY <2>1, <2>2 DEF Request
    <3> QED
      BY <1>4, <3>1 DEF cartUpdate
  <2> QED
    BY <1>0, <1>4, <2>3, RequestMoves DEF cartUpdate
<1>5. ASSUME NEW r \in Requests, AddToCart(r) PROVE CartInv'
  <2>1. /\ req[r].op = "add" /\ req[r] \in Request /\ UNCHANGED cartVars
    BY <1>0, <1>5 DEF AddToCart
  <2>2. req[r].c \in Carts /\ req[r].v \in Variants /\ req[r].upTo \in 0..MaxQuantity
    BY <2>1, RequestFields
  <2>3. PICK total : total = CartItemQuantity(req[r].c, req[r].v) + req[r].qty
    OBVIOUS
  <2>4. CASE CheckAvailable(req[r].upTo, total)
    <3>1. total \in 1..MaxQuantity
      BY <2>2, <2>4, CheckoutAssumption DEF CheckAvailable
    <3>2. PICK x \in Request : x = [op |-> "put", c |-> req[r].c, v |-> req[r].v, qty |-> total]
      BY <2>2, <3>1 DEF Request
    <3>3. req' = [req EXCEPT ![r] = x] /\ x.op # "order"
      BY <1>5, <2>3, <2>4, <3>2 DEF AddToCart
    <3> QED
      BY <1>0, <2>1, <3>3, RequestMoves
  <2>5. CASE ~CheckAvailable(req[r].upTo, total)
    BY <1>0, <1>5, <2>1, <2>3, <2>5, RequestMoves, IdleRequest DEF AddToCart, Done
  <2> QED
    BY <2>4, <2>5
<1>6. ASSUME NEW r \in Requests, AddToCartCommit(r) PROVE CartInv'
  <2>1. /\ req[r].op = "put" /\ req[r] \in Request /\ UNCHANGED session
        /\ req' = [req EXCEPT ![r] = Idle] /\ ~RowLocked(req[r].c, req[r].v)
    BY <1>0, <1>6 DEF AddToCartCommit, Done
  <2>2. PICK c \in Carts, v \in Variants, n \in 1..MaxQuantity :
           c = req[r].c /\ v = req[r].v /\ n = req[r].qty
    BY <2>1, RequestFields
  <2>3. CASE UNCHANGED <<cart, rows>>
    BY <1>0, <2>1, <2>3, RequestMoves, IdleRequest DEF cartVars
  <2>4. CASE UpsertCartItem(c, v, n)
    <3>1. /\ CartTyped' /\ rows' \in 0..MaxRows
          /\ \A d \in Carts, w \in Variants : d # c \/ w # v => cart'[d][w] = cart[d][w]
      <4>1. CASE cart[c][v].row # 0
        BY <1>0, <2>2, <2>4, <4>1, QuantityWrite DEF UpsertCartItem, SetCartItemQuantity, CartInv
      <4>2. CASE cart[c][v].row = 0
        <5>1. rows' \in 0..MaxRows /\ rows + 1 \in 1..MaxRows
          BY <1>0, <2>4, <4>2, CheckoutAssumption DEF UpsertCartItem, CartInv
        <5>2. PICK x \in Row : x = [row |-> rows + 1, qty |-> n] /\ x.row # 0 /\ x.qty = n
          <6>1. n \in Nat /\ rows + 1 \in 0..MaxRows /\ rows + 1 # 0
            BY <1>0, <5>1, CheckoutAssumption DEF CartInv
          <6>2. PICK i \in 0..MaxRows : i = rows + 1
            BY <6>1
          <6>3. PICK x \in Row : x = [row |-> i, qty |-> n] /\ x.row = i /\ x.qty = n
            BY <6>1, RowMade
          <6> QED
            BY <6>1, <6>2, <6>3
        <5>3. Writes(c, v, x)
          BY <2>4, <4>2, <5>2 DEF UpsertCartItem, Writes
        <5> QED
          BY <1>0, <2>2, <5>1, <5>2, <5>3, RowWrite DEF CartInv
      <4> QED
        BY <4>1, <4>2
    <3>2. \A d \in Carts, w \in Variants : RowLocked(d, w) => cart'[d][w] = cart[d][w]
      BY <2>1, <2>2, <3>1
    <3> QED
      BY <1>0, <2>1, <3>1, <3>2, CartsMove, IdleRequest DEF CartInv
  <2> QED
    BY <1>6, <2>2, <2>3, <2>4 DEF AddToCartCommit
<1>7. ASSUME NEW r \in Requests, UpdateCartItem(r) PROVE CartInv'
  <2>1. /\ req[r].op = "set" /\ req[r] \in Request /\ UNCHANGED <<session, rows>>
        /\ req' = [req EXCEPT ![r] = Idle] /\ ~RowLocked(req[r].c, req[r].v)
    BY <1>0, <1>7 DEF UpdateCartItem, Done
  <2>2. PICK c \in Carts, v \in Variants, n \in 1..MaxQuantity :
           c = req[r].c /\ v = req[r].v /\ n = req[r].qty
    BY <2>1, RequestFields
  <2>3. CASE UNCHANGED cart
    BY <1>0, <2>1, <2>3, RequestMoves, IdleRequest DEF cartVars
  <2>4. CASE cart[c][v].row = req[r].row /\ SetCartItemQuantity(c, v, n)
    <3>1. cart[c][v].row # 0
      BY <2>1, <2>4, RequestFields, CheckoutAssumption
    <3>2. /\ CartTyped'
          /\ \A d \in Carts, w \in Variants : d # c \/ w # v => cart'[d][w] = cart[d][w]
      BY <1>0, <2>4, <3>1, QuantityWrite DEF CartInv
    <3>3. \A d \in Carts, w \in Variants : RowLocked(d, w) => cart'[d][w] = cart[d][w]
      BY <2>1, <2>2, <3>2
    <3> QED
      BY <1>0, <2>1, <3>2, <3>3, CartsMove, IdleRequest DEF CartInv
  <2> QED
    BY <1>7, <2>2, <2>3, <2>4 DEF UpdateCartItem
<1>8. ASSUME NEW r \in Requests, NEW b \in Browsers, NEW ticked \in BOOLEAN, checkoutCreate(r, b, ticked)
      PROVE  CartInv'
  <2>1. PICK c \in Carts : c = owner(b)
    BY <1>0 DEF CartInv, owner
  <2>2. PICK agreed \in 0..MaxTerms : agreed = IF ticked THEN form[b] ELSE 0
    BY <1>0, <1>8, CheckoutAssumption DEF checkoutCreate, ScreensInv
  <2>3. /\ Lines(c) # {} /\ (\A v \in Lines(c) : ~RowLocked(c, v)) /\ UNCHANGED cartVars
        /\ req' = [req EXCEPT ![r] = [op |-> "order", c |-> c, lines |-> cart[c], agreed |-> agreed]]
    BY <1>8, <2>1, <2>2 DEF checkoutCreate, LockCartForOrder
  <2>4. PICK x \in Request : x = [op |-> "order", c |-> c, lines |-> cart[c], agreed |-> agreed]
    BY <1>0 DEF CartInv, CartTyped, Request
  <2>5. x.op = "order" /\ x.c = c /\ x.lines = cart[c]
    BY <2>4
  <2>6. req' = [req EXCEPT ![r] = x]
    BY <2>3, <2>4
  <2>7. UNCHANGED <<session, cart, rows>>
    BY <2>3 DEF cartVars
  <2>8. Locks(x)
    BY <1>0, <2>3, <2>5 DEF Locks, CartInv, CartTyped, Lines
  <2>9. ASSUME NEW s \in Requests, Ordering(s), req[s].c = c PROVE FALSE
    <3>1. PICK v \in Variants : req[s].lines[v].row # 0
      BY <1>0, <2>9 DEF CartInv, Locks
    <3>2. RowLocked(c, v) /\ cart[c][v] = req[s].lines[v]
      BY <1>0, <2>9, <3>1, LockHolds
    <3> QED
      BY <2>3, <3>1, <3>2 DEF Lines
  <2>10. \A s \in Requests : Ordering(s)' => Locks(req[s])'
    BY <1>0, <2>5, <2>6, <2>7, <2>8 DEF CartInv, Ordering, Locks
  <2>11. \A s, t \in Requests : Ordering(s)' /\ Ordering(t)' /\ req'[s].c = req'[t].c => s = t
    BY <1>0, <2>5, <2>6, <2>9 DEF CartInv, Ordering
  <2> QED
    BY <1>0, <2>6, <2>7, <2>10, <2>11 DEF CartInv, CartTyped
<1>9. ASSUME NEW r \in Requests, CreateOrderRolledBack(r) PROVE CartInv'
  BY <1>0, <1>9, RequestMoves, IdleRequest DEF CreateOrderRolledBack, Done
<1>10. ASSUME NEW r \in Requests, NEW o \in Orders, CreateOrder(r, o) PROVE CartInv'
  <2>1. /\ Ordering(r) /\ req[r] \in Request /\ req' = [req EXCEPT ![r] = Idle]
        /\ UNCHANGED <<session, rows>>
    BY <1>0, <1>10 DEF CreateOrder, Done, Ordering
  <2>2. PICK c \in Carts : c = req[r].c /\ cart' = [cart EXCEPT ![c] = [v \in Variants |-> NoRow]]
    BY <1>10, <2>1, RequestFields DEF CreateOrder, ClearCart, Ordering
  <2>3. NoRow \in Row /\ NoRow.row = 0 /\ NoRow.qty = 0
    BY CheckoutAssumption DEF NoRow, Row
  <2>4. /\ cart' \in [Carts -> [Variants -> Row]]
        /\ \A d \in Carts, w \in Variants : cart'[d][w] = IF d = c THEN NoRow ELSE cart[d][w]
    BY <1>0, <2>2, <2>3 DEF CartInv, CartTyped
  <2>5. CartTyped'
    <3>1. ASSUME NEW d \in Carts, NEW w \in Variants
          PROVE  IF cart'[d][w].row = 0 THEN cart'[d][w].qty = 0 ELSE cart'[d][w].qty \in 1..MaxQuantity
      <4>1. CASE d = c
        BY <2>3, <2>4, <4>1
      <4>2. CASE d # c
        BY <1>0, <2>4, <4>2 DEF CartInv, CartTyped
      <4> QED
        BY <4>1, <4>2
    <3> QED
      BY <2>4, <3>1 DEF CartTyped
  <2>6. \A s \in Requests : Ordering(s)' => s # r /\ Ordering(s) /\ req'[s] = req[s]
    BY <1>0, <2>1, IdleRequest DEF Ordering
  <2>7. ASSUME NEW s \in Requests, Ordering(s)' PROVE Locks(req[s])'
    <3>1. s # r /\ Ordering(s) /\ req'[s] = req[s] /\ Locks(req[s]) /\ req[s].c # c
      BY <1>0, <2>1, <2>2, <2>6, <2>7 DEF CartInv
    <3>2. req[s].c \in Carts
      BY <1>0, <3>1, RequestFields DEF Ordering
    <3>3. \A v \in Variants : cart'[req[s].c][v] = cart[req[s].c][v]
      BY <2>4, <3>1, <3>2
    <3> QED
      BY <3>1, <3>3 DEF Locks
  <2>8. \A s, t \in Requests : Ordering(s)' /\ Ordering(t)' /\ req'[s].c = req'[t].c => s = t
    BY <1>0, <2>6 DEF CartInv
  <2> QED
    BY <1>0, <2>1, <2>5, <2>7, <2>8, IdleRequest DEF CartInv
<1>11. ASSUME NEW p \in Products, ProductDelete(p) PROVE CartInv'
  <2>1. /\ UNCHANGED <<session, rows, req>>
        /\ \A c \in Carts, v \in VariantsOf(p) : ~RowLocked(c, v)
        /\ cart' = [c \in Carts |-> [v \in Variants |->
                       IF v \in VariantsOf(p) THEN NoRow ELSE cart[c][v]]]
    BY <1>11 DEF ProductDelete, DeleteProduct
  <2>2. NoRow \in Row /\ NoRow.row = 0 /\ NoRow.qty = 0
    BY CheckoutAssumption DEF NoRow, Row
  <2>3. /\ cart' \in [Carts -> [Variants -> Row]]
        /\ \A d \in Carts, w \in Variants :
              cart'[d][w] = IF w \in VariantsOf(p) THEN NoRow ELSE cart[d][w]
    BY <1>0, <2>1, <2>2 DEF CartInv, CartTyped
  <2>4. CartTyped'
    BY <1>0, <2>2, <2>3 DEF CartInv, CartTyped
  <2>5. \A d \in Carts, w \in Variants : RowLocked(d, w) => cart'[d][w] = cart[d][w]
    BY <2>1, <2>3
  <2> QED
    BY <1>0, <2>1, <2>4, <2>5, CartsMove DEF CartInv
<1>12. CASE UNCHANGED <<cartVars, req>>
  BY <1>0, <1>12, CartsKept
<1> QED
  BY <1>1, <1>2, <1>3, <1>4, <1>5, <1>6, <1>7, <1>8, <1>9, <1>10, <1>11, <1>12
  DEF Next, checkoutForm, releaseUnpaid, TermsAdd, StockReceive, renderVariants, StocktakeSave,
      VariantSave, ProductSave, OptionsSave

-----------------------------------------------------------------------------
(* Goods and orders                                                          *)

\* One order changes the units held by what it takes or gives back.
LEMMA OneOrderChanges ==
    ASSUME GoodsTyped, GoodsTyped', NEW o \in Orders, NEW v \in Variants,
           \A p \in Orders : p # o => order'[p] = order[p]
    PROVE  /\ HeldOf(v) \in Nat /\ HeldOf(v)' \in Nat
           /\ HeldOf(v)' - HeldBy(o, v)'
                = HeldOf(v) - HeldBy(o, v)
<1> DEFINE f == [p \in Orders |-> order[p].lines[v]]
           h == [p \in Orders |-> order'[p].lines[v]]
<1>1. /\ HeldOf(v) = SumFunctionOnSet(f, OpenOrders)
      /\ HeldOf(v)' = SumFunctionOnSet(h, OpenOrders')
  BY DEF HeldOf
<1>2. \A p \in Orders : f[p] \in Nat /\ h[p] \in Nat
  BY CheckoutAssumption DEF GoodsTyped, Orderable, OrderRow
<1>3. f[o] = order[o].lines[v] /\ h[o] = order'[o].lines[v]
  OBVIOUS
<1>4. OpenOrders \in SUBSET Orders /\ OpenOrders' \in SUBSET Orders
  BY DEF OpenOrders
<1>5. /\ o \in OpenOrders <=> order[o].state = "open"
      /\ o \in OpenOrders' <=> order'[o].state = "open"
  BY DEF OpenOrders
<1>6. \A p \in Orders : p # o => f[p] = h[p] /\ (p \in OpenOrders <=> p \in OpenOrders')
  BY DEF OpenOrders
<1>7. IsFiniteSet(Orders)
  BY CheckoutAssumption
<1> HIDE DEF f, h
<1>8. RowChanges(f, OpenOrders, h, OpenOrders', o)
  BY <1>2, <1>4, <1>6, <1>7, SumRowChanges
<1> QED
  BY <1>1, <1>3, <1>5, <1>8 DEF RowChanges, HeldBy

LEMMA HeldTyped ==
    ASSUME GoodsTyped, NEW v \in Variants
    PROVE  HeldOf(v) \in Int
<1> DEFINE f == [p \in Orders |-> order[p].lines[v]]
<1>1. \A p \in OpenOrders : f[p] \in Int
  BY CheckoutAssumption DEF GoodsTyped, Orderable, OrderRow, OpenOrders
<1>2. IsFiniteSet(OpenOrders)
  BY CheckoutAssumption, FS_Subset DEF OpenOrders
<1>3. HeldOf(v) = SumFunctionOnSet(f, OpenOrders)
  BY DEF HeldOf
<1> HIDE DEF f
<1> QED
  BY <1>1, <1>2, <1>3, SumInt

LEMMA HeldSame ==
    ASSUME UNCHANGED order
    PROVE  \A v \in Variants : HeldOf(v)' = HeldOf(v)
BY DEF HeldOf, OpenOrders

\* Stock and supply change by the same.
LEMMA SupplyKeeps ==
    ASSUME GoodsInv, NEW of, \A v \in Variants : of[v] \in Int, Covers(of),
           AddVariantStock(of), Supply(of), UNCHANGED <<live, catalog, listed, order>>, onSale' \subseteq live
    PROVE  GoodsInv'
<1>1. GoodsTyped'
  BY DEF GoodsInv, GoodsTyped, Covers, AddVariantStock, Supply
<1>2. OrderedGoodsExist'
  BY DEF GoodsInv, OrderedGoodsExist
<1>3. AddsUp'
  <2>1. \A v \in Variants : HeldOf(v) \in Int
    BY HeldTyped DEF GoodsInv
  <2>2. \A v \in Variants : HeldOf(v)' = HeldOf(v)
    BY HeldSame
  <2>3. \A v \in Variants : stock'[v] = stock[v] + of[v] /\ supplied'[v] = supplied[v] + of[v]
    BY DEF AddVariantStock, Supply
  <2> QED
    BY <2>1, <2>2, <2>3 DEF AddsUp, GoodsInv, GoodsTyped
<1> QED
  BY <1>1, <1>2, <1>3 DEF GoodsInv

LEMMA OnlyTyped ==
    ASSUME NEW v, NEW n \in Int
    PROVE  \A w \in Variants : Only(v, n)[w] \in Int
BY DEF Only

\* An order takes its units off the shelf, or gives them back.
LEMMA OrderKeeps ==
    ASSUME GoodsInv, NEW o \in Orders, NEW of, \A v \in Variants : of[v] \in Int,
           AdjustStock(of), UNCHANGED <<goodsVars, supplied>>,
           order' \in [Orders -> OrderRow],
           \A p \in Orders : p # o => order'[p] = order[p],
           \A v \in Variants : order'[o].lines[v] > 0 => v \in live,
           \A v \in Variants :
              of[v] = HeldBy(o, v) - HeldBy(o, v)'
    PROVE  GoodsInv'
<1>1. GoodsTyped'
  BY DEF GoodsInv, GoodsTyped, AdjustStock, Covers, AddVariantStock, goodsVars
<1>2. OrderedGoodsExist'
  BY DEF GoodsInv, OrderedGoodsExist, goodsVars
<1>3. AddsUp'
  <2> SUFFICES ASSUME NEW v \in Variants PROVE (stock[v] + HeldOf(v) = supplied[v])'
    BY DEF AddsUp
  <2>1. /\ HeldOf(v) \in Nat /\ HeldOf(v)' \in Nat
        /\ HeldOf(v)' - HeldBy(o, v)'
             = HeldOf(v) - HeldBy(o, v)
    BY <1>1, OneOrderChanges DEF GoodsInv
  <2>2. stock'[v] = stock[v] + of[v] /\ stock[v] + HeldOf(v) = supplied[v] /\ supplied'[v] = supplied[v]
    BY DEF AdjustStock, AddVariantStock, GoodsInv, AddsUp
  <2>3. stock[v] \in Nat /\ order[o].lines[v] \in Int /\ order'[o].lines[v] \in Int
    BY <1>1, CheckoutAssumption DEF GoodsInv, GoodsTyped, Orderable, OrderRow
  <2> QED
    BY <2>1, <2>2, <2>3 DEF HeldBy
<1> QED
  BY <1>1, <1>2, <1>3 DEF GoodsInv

LEMMA GoodsKept ==
    ASSUME GoodsInv, UNCHANGED <<stockVars, order>>
    PROVE  GoodsInv'
BY HeldSame DEF GoodsInv, GoodsTyped, OrderedGoodsExist, AddsUp, stockVars, goodsVars

\* What is sold and shown may change, as long as nothing that was ordered goes.
LEMMA CatalogKeeps ==
    ASSUME GoodsInv, UNCHANGED <<stock, supplied, order>>, live \subseteq live',
           live' \subseteq {v \in Variants : ProductOf[v] \in catalog'}, onSale' \subseteq live',
           catalog' \subseteq Products, listed' \subseteq catalog'
    PROVE  GoodsInv'
<1>1. \A v \in Variants : HeldOf(v)' = HeldOf(v)
  BY HeldSame
<1>2. GoodsTyped'
  BY DEF GoodsInv, GoodsTyped
<1> QED
  BY <1>1, <1>2 DEF GoodsInv, OrderedGoodsExist, AddsUp

LEMMA GoodsStep ==
    ASSUME CheckoutInv, Next
    PROVE  GoodsInv'
<1>0. /\ GoodsInv /\ GoodsTyped /\ CartInv /\ ScreensInv
      /\ MaxQuantity \in Nat /\ Adjustments \subseteq Int /\ MaxStock \in Nat
  BY CheckoutAssumption DEF CheckoutInv, GoodsInv
<1>1. ASSUME NEW r \in Requests, NEW o \in Orders, CreateOrder(r, o) PROVE GoodsInv'
  <2>1. /\ Ordering(r) /\ AdjustStock(Taken(r)) /\ order[o] = NoOrder
        /\ order' = [order EXCEPT ![o] = [state |-> "open", lines |-> Ordered(r), agreed |-> req[r].agreed]]
        /\ UNCHANGED <<goodsVars, supplied>>
    BY <1>1 DEF CreateOrder, InsertOrder, Ordering
  <2>2. /\ req[r].lines \in [Variants -> Row] /\ req[r].agreed \in 0..MaxTerms /\ req[r].c \in Carts
        /\ Locks(req[r])
    BY <1>0, <2>1, RequestFields DEF CartInv, Ordering
  <2>3. \A v \in Variants : req[r].lines[v].qty \in 0..MaxQuantity
    BY <1>0, <2>2 DEF CartInv, CartTyped, Locks
  <2>4. Ordered(r) \in Orderable /\ \A v \in Variants : Ordered(r)[v] = req[r].lines[v].qty
    BY <2>3 DEF Ordered, Orderable, OrderRow
  <2>5. PICK x \in OrderRow :
           x = [state |-> "open", lines |-> Ordered(r), agreed |-> req[r].agreed]
    BY <2>2, <2>4 DEF OrderRow
  <2>6. x.state = "open" /\ x.lines = Ordered(r)
    BY <2>5
  <2>7. /\ order' \in [Orders -> OrderRow]
        /\ order'[o] = x /\ \A p \in Orders : p # o => order'[p] = order[p]
    BY <1>0, <2>1, <2>5 DEF GoodsTyped
  <2>8. order[o].state # "open"
    BY <2>1 DEF NoOrder
  <2>9. PICK of : of = Taken(r)
    OBVIOUS
  <2>10. \A v \in Variants : of[v] = 0 - req[r].lines[v].qty /\ of[v] \in Int
    BY <2>3, <2>9 DEF Taken
  <2>11. \A v \in Variants : order'[o].lines[v] > 0 => v \in live
    BY <2>1, <2>3, <2>4, <2>6, <2>7, <2>9, <2>10 DEF AdjustStock
  <2>12. \A v \in Variants :
            of[v] = HeldBy(o, v) - HeldBy(o, v)'
    BY <2>4, <2>6, <2>7, <2>8, <2>10 DEF HeldBy
  <2> QED
    BY <1>0, <2>1, <2>7, <2>9, <2>10, <2>11, <2>12, OrderKeeps
<1>2. ASSUME NEW o \in Orders, releaseUnpaid(o) PROVE GoodsInv'
  <2>1. /\ order[o].state = "open" /\ AdjustStock(order[o].lines)
        /\ order' = [order EXCEPT ![o].state = "released"]
        /\ UNCHANGED <<goodsVars, supplied>>
    BY <1>2 DEF releaseUnpaid
  <2>2. /\ order' \in [Orders -> OrderRow]
        /\ order'[o].state = "released" /\ order'[o].lines = order[o].lines
        /\ \A p \in Orders : p # o => order'[p] = order[p]
    BY <1>0, <2>1 DEF GoodsTyped, OrderRow
  <2>3. PICK of : of = order[o].lines
    OBVIOUS
  <2>4. \A v \in Variants : of[v] \in Int /\ of[v] = order[o].lines[v]
    BY <1>0, <2>3 DEF GoodsTyped, Orderable, OrderRow
  <2>5. \A v \in Variants : order'[o].lines[v] > 0 => v \in live
    BY <1>0, <2>2 DEF GoodsInv, OrderedGoodsExist
  <2>6. \A v \in Variants :
           of[v] = HeldBy(o, v) - HeldBy(o, v)'
    BY <2>1, <2>2, <2>4 DEF HeldBy
  <2>7. AdjustStock(of) /\ UNCHANGED <<goodsVars, supplied>>
    BY <2>1, <2>3
  <2> QED
    BY <1>0, <2>2, <2>4, <2>5, <2>6, <2>7, OrderKeeps
<1>3. ASSUME NEW v \in Variants, NEW q \in Adjustments, StockReceive(v, q) PROVE GoodsInv'
  <2>1. PICK of : of = Only(v, q)
    OBVIOUS
  <2>2. q \in 1..10000 /\ AddVariantStock(of) /\ Supply(of) /\ UNCHANGED <<live, onSale, catalog, listed, order>>
    <3>1. /\ q \in 1..10000 /\ AddVariantStock(Only(v, q)) /\ Supply(Only(v, q))
          /\ UNCHANGED <<goodsVars, order>>
      BY <1>3 DEF StockReceive, ReceiveStock, ReceiveStockRow
    <3>2. UNCHANGED <<live, onSale, catalog, listed, order>>
      BY <3>1 DEF goodsVars
    <3> QED
      BY <2>1, <3>1, <3>2
  <2>3. \A w \in Variants : of[w] \in Int /\ of[w] >= 0
    <3>1. q \in Int /\ q >= 0
      BY <2>2
    <3>2. \A w \in Variants : of[w] = q \/ of[w] = 0
      BY <2>1 DEF Only
    <3> QED
      BY <3>1, <3>2
  <2>4. Covers(of)
    BY <1>0, <2>3 DEF Covers, GoodsTyped
  <2>5. onSale' \subseteq live
    BY <1>0, <2>2 DEF GoodsTyped
  <2> QED
    BY <1>0, <2>2, <2>3, <2>4, <2>5, SupplyKeeps
<1>4. ASSUME NEW k \in Clerks, NEW v \in Variants, NEW n \in 0..MaxStock, StocktakeSave(k, v, n)
      PROVE  GoodsInv'
  <2>1. PICK of : of = Only(v, n - shown[k][v])
    OBVIOUS
  <2>2. /\ stock[v] = shown[k][v] /\ Covers(of) /\ AddVariantStock(of) /\ Supply(of)
        /\ UNCHANGED <<live, onSale, catalog, listed, order>>
    BY <1>4, <2>1 DEF StocktakeSave, Stocktake, StocktakeAdjust, goodsVars
  <2>3. n - shown[k][v] \in Int
    BY <1>0, <2>2 DEF GoodsTyped
  <2>4. \A w \in Variants : of[w] \in Int
    BY <2>1, <2>3, OnlyTyped
  <2>5. onSale' \subseteq live
    BY <1>0, <2>2 DEF GoodsTyped
  <2> QED
    BY <1>0, <2>2, <2>4, <2>5, SupplyKeeps
<1>5. ASSUME NEW k \in Clerks, NEW p \in Products, NEW delta \in [Variants -> Adjustments],
             NEW hidden \in SUBSET Variants, VariantSave(k, p, delta, hidden)
      PROVE  GoodsInv'
  <2>1. PICK edited : edited = {v \in Variants : ProductOf[v] = p /\ shown[k][v] # NotDrawn}
    OBVIOUS
  <2>2. PICK of : of = [v \in Variants |-> IF v \in edited THEN delta[v] ELSE 0]
    OBVIOUS
  <2>3. EditVariants(p, edited, delta, shown[k], hidden) /\ UNCHANGED <<live, catalog, listed, order>>
    BY <1>5, <2>1 DEF VariantSave
  <2>4. /\ \A v \in edited : v \in live
        /\ Covers(of) /\ AddVariantStock(of) /\ Supply(of) /\ onSale' = (onSale \cup edited) \ hidden
    BY <2>2, <2>3 DEF EditVariants, EditVariant, LockVariantOfProduct, VariantsOf
  <2>5. \A v \in Variants : of[v] \in Int
    <3>1. \A v \in Variants : delta[v] \in Int
      BY <1>0
    <3>2. \A v \in Variants : of[v] = delta[v] \/ of[v] = 0
      BY <2>2
    <3> QED
      BY <3>1, <3>2
  <2>6. onSale' \subseteq live
    BY <1>0, <2>4 DEF GoodsTyped
  <2> QED
    BY <1>0, <2>3, <2>4, <2>5, <2>6, SupplyKeeps
<1>6. ASSUME NEW p \in Products, ProductDelete(p) PROVE GoodsInv'
  <2>1. PICK gone : gone = VariantsOf(p)
    OBVIOUS
  <2>2. /\ NeverOrdered(p) /\ catalog' = catalog \ {p} /\ listed' = listed \ {p}
        /\ live' = live \ gone /\ onSale' = onSale \ gone
        /\ stock' = [v \in Variants |-> IF v \in gone THEN 0 ELSE stock[v]]
        /\ supplied' = [v \in Variants |-> IF v \in gone THEN 0 ELSE supplied[v]]
        /\ UNCHANGED order
    BY <1>6, <2>1 DEF ProductDelete, DeleteProduct
  <2>3. \A v \in gone : ProductOf[v] = p /\ v \in live
    BY <2>1 DEF VariantsOf
  <2>4. \A v \in live \ gone : ProductOf[v] # p
    BY <2>1 DEF VariantsOf
  <2>5. GoodsTyped'
    BY <1>0, <2>2, <2>4 DEF GoodsTyped
  <2>6. \A o \in Orders, v \in Variants : order[o].lines[v] \in Nat
    BY <1>0 DEF GoodsTyped, Orderable, OrderRow
  <2>7. \A o \in Orders, v \in gone : v \in Variants => order[o].lines[v] = 0
    BY <2>2, <2>3, <2>6 DEF NeverOrdered
  <2>8. OrderedGoodsExist'
    BY <1>0, <2>2, <2>6, <2>7 DEF GoodsInv, OrderedGoodsExist
  <2>9. AddsUp'
    <3> SUFFICES ASSUME NEW v \in Variants PROVE (stock[v] + HeldOf(v) = supplied[v])'
      BY DEF AddsUp
    <3>1. HeldOf(v)' = HeldOf(v) /\ stock[v] + HeldOf(v) = supplied[v]
      BY <1>0, <2>2, HeldSame DEF GoodsInv, AddsUp
    <3>2. CASE v \in gone
      <4>1. \A o \in OpenOrders : [q \in Orders |-> order[q].lines[v]][o] = 0
        BY <2>7, <3>2 DEF OpenOrders
      <4>2. IsFiniteSet(OpenOrders)
        BY CheckoutAssumption, FS_Subset DEF OpenOrders
      <4>3. HeldOf(v) = 0
        BY <4>1, <4>2, SumZero DEF HeldOf
      <4> QED
        BY <2>2, <3>1, <3>2, <4>3
    <3>3. CASE v \notin gone
      BY <2>2, <3>1, <3>3
    <3> QED
      BY <3>2, <3>3
  <2> QED
    BY <2>5, <2>8, <2>9 DEF GoodsInv
<1>7. ASSUME NEW p \in Products, NEW visible \in BOOLEAN, ProductSave(p, visible) PROVE GoodsInv'
  <2>1. /\ UNCHANGED <<stock, supplied, order, live, onSale>> /\ catalog \subseteq catalog'
        /\ catalog' \subseteq Products /\ listed' \subseteq catalog'
    BY <1>0, <1>7 DEF ProductSave, UpdateProduct, CreateProduct, CreateProductRow, UpdateProductRow, GoodsTyped
  <2> QED
    BY <1>0, <2>1, CatalogKeeps DEF GoodsTyped
<1>8. ASSUME NEW p \in Products, NEW combinations \in SUBSET Variants, OptionsSave(p, combinations)
      PROVE  GoodsInv'
  <2>1. /\ p \in catalog /\ (\A v \in combinations : ProductOf[v] = p)
        /\ live' = live \cup combinations /\ onSale' \subseteq onSale \cup combinations
        /\ UNCHANGED <<stock, supplied, order, catalog, listed>>
    BY <1>8 DEF OptionsSave, SetOptions, InsertVariantIfMissing, HideVariants
  <2> QED
    BY <1>0, <2>1, CatalogKeeps DEF GoodsTyped
<1>9. CASE UNCHANGED <<stockVars, order>>
  BY <1>0, <1>9, GoodsKept
<1> QED
  BY <1>1, <1>2, <1>3, <1>4, <1>5, <1>6, <1>7, <1>8, <1>9
  DEF Next, login, checkoutForm, cartDelete, checkoutCreate, cartAdd, cartUpdate, AddToCart,
      AddToCartCommit, UpdateCartItem, CreateOrderRolledBack, TermsAdd, renderVariants

-----------------------------------------------------------------------------
(* Screens, and the beginning                                                *)

LEMMA ScreensStep ==
    ASSUME CheckoutInv, Next
    PROVE  ScreensInv'
<1>0. ScreensInv /\ GoodsTyped /\ MaxTerms \in Nat
  BY CheckoutAssumption DEF CheckoutInv, GoodsInv
<1>1. ASSUME NEW b \in Browsers, checkoutForm(b) PROVE ScreensInv'
  <2>1. terms.version \in 0..MaxTerms
    BY <1>0 DEF ScreensInv
  <2> QED
    BY <1>0, <1>1, <2>1 DEF ScreensInv, checkoutForm, TermsInForce
<1>2. ASSUME NEW required \in BOOLEAN, TermsAdd(required) PROVE ScreensInv'
  <2>1. /\ terms.version < MaxTerms /\ terms' = [version |-> terms.version + 1, required |-> required]
        /\ UNCHANGED <<form, shown>>
    BY <1>2 DEF TermsAdd, AddTerms
  <2>2. terms.version + 1 \in 0..MaxTerms
    BY <1>0, <2>1 DEF ScreensInv
  <2> QED
    BY <1>0, <2>1, <2>2 DEF ScreensInv
<1>3. ASSUME NEW k \in Clerks, renderVariants(k) PROVE ScreensInv'
  <2>1. PICK drawn : drawn = [v \in Variants |->
                        IF v \in VariantsOf(ProductOf[v]) THEN stock[v] ELSE NotDrawn]
    OBVIOUS
  <2>2. drawn \in [Variants -> Nat \cup {NotDrawn}]
    BY <1>0, <2>1 DEF GoodsTyped
  <2>3. shown' = [shown EXCEPT ![k] = drawn] /\ UNCHANGED <<terms, form>>
    BY <1>3, <2>1 DEF renderVariants, termsVars
  <2> QED
    BY <1>0, <2>2, <2>3 DEF ScreensInv
<1>4. ASSUME NEW k \in Clerks, NEW v \in Variants, NEW n \in 0..MaxStock, StocktakeSave(k, v, n)
      PROVE  ScreensInv'
  BY <1>0, <1>4 DEF ScreensInv, StocktakeSave, termsVars
<1>5. ASSUME NEW k \in Clerks, NEW p \in Products, NEW delta \in [Variants -> Adjustments],
             NEW hidden \in SUBSET Variants, VariantSave(k, p, delta, hidden)
      PROVE  ScreensInv'
  BY <1>0, <1>5 DEF ScreensInv, VariantSave, termsVars
<1>6. CASE UNCHANGED <<termsVars, shown>>
  BY <1>0, <1>6 DEF ScreensInv, termsVars
<1> QED
  BY <1>1, <1>2, <1>3, <1>4, <1>5, <1>6
  DEF Next, login, cartDelete, checkoutCreate, cartAdd, cartUpdate, AddToCart, AddToCartCommit,
      UpdateCartItem, CreateOrderRolledBack, CreateOrder, releaseUnpaid, StockReceive, ProductDelete,
      ProductSave, OptionsSave

LEMMA InitHolds == Init => CheckoutInv
<1> SUFFICES ASSUME Init PROVE CheckoutInv
  OBVIOUS
<1>1. CartInv
  <2>1. NoRow \in Row /\ NoRow.row = 0 /\ NoRow.qty = 0
    BY NoRowMade
  <2>2. CartTyped
    BY <2>1 DEF Init, CartTyped
  <2>3. \A r \in Requests : ~Ordering(r)
    BY IdleRequest DEF Init, Ordering
  <2> QED
    BY <2>2, <2>3, IdleRequest, CheckoutAssumption DEF Init, CartInv, Carts
<1>2. GoodsInv
  <2>1. /\ NoLines \in Orderable /\ (\A v \in Variants : NoLines[v] = 0)
        /\ NoOrder \in OrderRow
        /\ NoOrder.state = "none" /\ NoOrder.lines = NoLines
    BY CheckoutAssumption DEF NoLines, NoOrder, Orderable, OrderRow
  <2>2. GoodsTyped
    BY <2>1, CheckoutAssumption DEF Init, GoodsTyped
  <2>3. OrderedGoodsExist
    BY DEF Init, OrderedGoodsExist
  <2>4. OpenOrders = {}
    BY <2>1 DEF Init, OpenOrders
  <2>5. AddsUp
    BY <2>4, SumEmpty, CheckoutAssumption DEF Init, AddsUp, HeldOf
  <2> QED
    BY <2>2, <2>3, <2>5 DEF GoodsInv
<1>3. ScreensInv
  BY CheckoutAssumption DEF Init, ScreensInv
<1> QED
  BY <1>1, <1>2, <1>3 DEF CheckoutInv

-----------------------------------------------------------------------------

\* What every cart, request, shelf, order and screen keeps through every step.
THEOREM CheckoutInductive == Spec => []CheckoutInv
<1>1. CheckoutInv /\ [Next]_vars => CheckoutInv'
  <2> SUFFICES ASSUME CheckoutInv, [Next]_vars PROVE CheckoutInv'
    OBVIOUS
  <2>1. CASE Next
    BY <2>1, CartsStep, GoodsStep, ScreensStep DEF CheckoutInv
  <2>2. CASE UNCHANGED vars
    <3>1. UNCHANGED <<cartVars, req>> /\ UNCHANGED <<stockVars, order>> /\ UNCHANGED <<terms, form, shown>>
      BY <2>2 DEF vars, termsVars
    <3>2. CartInv'
      BY <3>1, CartsKept DEF CheckoutInv
    <3>3. GoodsInv'
      BY <3>1, GoodsKept DEF CheckoutInv
    <3>4. ScreensInv'
      BY <3>1 DEF CheckoutInv, ScreensInv
    <3> QED
      BY <3>2, <3>3, <3>4 DEF CheckoutInv
  <2> QED
    BY <2>1, <2>2
<1> QED
  BY <1>1, InitHolds, PTL DEF Spec

\* Every unit is on the shelf or in one order that was not given up (CreateOrder,
\* releaseUnpaid, ReceiveStock, Stocktake, EditVariants).
THEOREM StockAddsUpSafe == Spec => []StockAddsUp
BY CheckoutInductive, InvTyped, PTL

\* What an order was made of is not deleted (DeleteProduct and its foreign key).
THEOREM OrderedGoodsExistSafe == Spec => []OrderedGoodsExist
BY CheckoutInductive, InvTyped, PTL

\* A count or an adjustment is booked only on the stock its screen showed
\* (StocktakeAdjust, LockVariantOfProduct).
THEOREM ShownIsBookedSafe == Spec => ShownIsBooked
<1> DEFINE Booked == \A k \in Clerks, v \in Variants :
                        shown[k] # Unread /\ shown'[k] = Unread /\ supplied'[v] # supplied[v]
                        => stock'[v] = shown[k][v] + (supplied'[v] - supplied[v])
<1>1. CheckoutInv /\ [Next]_vars => [Booked]_vars
  <2> SUFFICES ASSUME CheckoutInv, Next PROVE Booked
    OBVIOUS
  <2>0. GoodsTyped /\ shown \in [Clerks -> {Unread} \cup [Variants -> Nat \cup {NotDrawn}]]
    BY DEF CheckoutInv, GoodsInv, ScreensInv
  <2>1. CASE UNCHANGED supplied
    BY <2>1
  <2>2. CASE UNCHANGED shown
    BY <2>2
  <2>3. ASSUME NEW c \in Clerks, NEW w \in Variants, NEW n \in 0..MaxStock, StocktakeSave(c, w, n)
        PROVE  Booked
    <3> SUFFICES ASSUME NEW k \in Clerks, NEW v \in Variants,
                        shown[k] # Unread, shown'[k] = Unread, supplied'[v] # supplied[v]
                 PROVE  stock'[v] = shown[k][v] + (supplied'[v] - supplied[v])
      OBVIOUS
    <3>1. PICK of : of = Only(w, n - shown[c][w])
      OBVIOUS
    <3>2. /\ stock[w] = shown[c][w] /\ AddVariantStock(of) /\ Supply(of)
          /\ shown' = [shown EXCEPT ![c] = Unread]
      BY <2>3, <3>1 DEF StocktakeSave, Stocktake, StocktakeAdjust
    <3>3. k = c
      BY <2>0, <3>2
    <3>4. supplied'[v] = supplied[v] + of[v] /\ stock'[v] = stock[v] + of[v]
      BY <3>2 DEF AddVariantStock, Supply
    <3>5. v = w
      BY <2>0, <3>1, <3>4 DEF Only, GoodsTyped
    <3>6. of[v] \in Int
      BY <2>0, <3>1, <3>2, OnlyTyped DEF GoodsTyped
    <3> QED
      BY <2>0, <3>2, <3>3, <3>4, <3>5, <3>6 DEF GoodsTyped
  <2>4. ASSUME NEW c \in Clerks, NEW p \in Products, NEW delta \in [Variants -> Adjustments],
               NEW hidden \in SUBSET Variants, VariantSave(c, p, delta, hidden)
        PROVE  Booked
    <3> SUFFICES ASSUME NEW k \in Clerks, NEW v \in Variants,
                        shown[k] # Unread, shown'[k] = Unread, supplied'[v] # supplied[v]
                 PROVE  stock'[v] = shown[k][v] + (supplied'[v] - supplied[v])
      OBVIOUS
    <3>1. PICK edited : edited = {x \in Variants : ProductOf[x] = p /\ shown[c][x] # NotDrawn}
      OBVIOUS
    <3>2. PICK of : of = [x \in Variants |-> IF x \in edited THEN delta[x] ELSE 0]
      OBVIOUS
    <3>3. EditVariants(p, edited, delta, shown[c], hidden) /\ shown' = [shown EXCEPT ![c] = Unread]
      BY <2>4, <3>1 DEF VariantSave
    <3>4. /\ \A x \in edited : stock[x] = shown[c][x]
          /\ AddVariantStock(of) /\ Supply(of)
      BY <3>2, <3>3 DEF EditVariants, EditVariant, LockVariantOfProduct
    <3>5. k = c
      BY <2>0, <3>3
    <3>6. supplied'[v] = supplied[v] + of[v] /\ stock'[v] = stock[v] + of[v]
      BY <3>4 DEF AddVariantStock, Supply
    <3>7. v \in edited
      BY <2>0, <3>2, <3>6 DEF GoodsTyped
    <3>8. of[v] \in Int
      BY <3>2, <3>7, CheckoutAssumption
    <3> QED
      BY <2>0, <3>4, <3>5, <3>6, <3>7, <3>8 DEF GoodsTyped
  <2> QED
    BY <2>1, <2>2, <2>3, <2>4, ZenonT(60)
    DEF Next, login, checkoutForm, cartDelete, checkoutCreate, cartAdd, cartUpdate, AddToCart,
        AddToCartCommit, UpdateCartItem, CreateOrderRolledBack, CreateOrder, releaseUnpaid, TermsAdd,
        StockReceive, renderVariants, ProductDelete, ProductSave, OptionsSave, stockVars
<1> QED
  BY <1>1, CheckoutInductive, PTL DEF Spec, ShownIsBooked

\* An order is made of what its cart still holds, and records the terms required by
\* then (LockCartForOrder, CreateOrder).
THEOREM OrderedAsLockedSafe == Spec => OrderedAsLocked
<1> DEFINE AsLocked == \A r \in Requests :
              req[r].op = "order" /\ order' # order /\ req'[r] = Idle
              => /\ \A v \in Variants : req[r].lines[v].row # 0 => cart[req[r].c][v] = req[r].lines[v]
                 /\ terms.required => \E o \in Orders : order[o] = NoOrder
                                                      /\ order'[o].agreed = terms.version
<1>1. CheckoutInv /\ [Next]_vars => [AsLocked]_vars
  <2> SUFFICES ASSUME CheckoutInv, Next, NEW r \in Requests,
                      req[r].op = "order", order' # order, req'[r] = Idle
               PROVE  /\ \A v \in Variants : req[r].lines[v].row # 0 => cart[req[r].c][v] = req[r].lines[v]
                      /\ terms.required => \E o \in Orders : order[o] = NoOrder
                                                           /\ order'[o].agreed = terms.version
    OBVIOUS
  <2>1. /\ req \in [Requests -> Request] /\ GoodsTyped
        /\ req'[r] # req[r]
    BY IdleRequest DEF CheckoutInv, CartInv, GoodsInv
  <2>2. PICK o \in Orders : CreateOrder(r, o)
    <3>1. ASSUME NEW s \in Requests, NEW o \in Orders, CreateOrder(s, o) PROVE s = r
      BY <2>1, <3>1 DEF CreateOrder, Done
    <3>2. \/ \E s \in Requests, o \in Orders : CreateOrder(s, o)
          \/ UNCHANGED order \/ UNCHANGED req
      BY ZenonT(60) DEF Next, login, checkoutForm, cartDelete, checkoutCreate, cartAdd, cartUpdate, AddToCart,
             AddToCartCommit, UpdateCartItem, CreateOrderRolledBack, releaseUnpaid, TermsAdd,
             StockReceive, renderVariants, StocktakeSave, VariantSave, ProductDelete, ProductSave,
             OptionsSave
    <3> QED
      BY <2>1, <3>1, <3>2
  <2>3. \A v \in Variants : req[r].lines[v].row # 0 => cart[req[r].c][v] = req[r].lines[v]
    BY DEF CheckoutInv, CartInv, Locks, Ordering
  <2>4. ASSUME terms.required PROVE order[o] = NoOrder /\ order'[o].agreed = terms.version
    <3>1. /\ RequiredTermIDs \subseteq {req[r].agreed} /\ order[o] = NoOrder
          /\ order' = [order EXCEPT ![o] = [state |-> "open", lines |-> Ordered(r), agreed |-> req[r].agreed]]
      BY <2>2 DEF CreateOrder, InsertOrder
    <3>2. req[r].agreed = terms.version
      BY <2>4, <3>1 DEF RequiredTermIDs
    <3> QED
      BY <2>1, <3>1, <3>2 DEF GoodsTyped
  <2> QED
    BY <2>3, <2>4
<1> QED
  BY <1>1, CheckoutInductive, PTL DEF Spec, OrderedAsLocked
================================================================================
