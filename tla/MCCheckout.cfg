\* One session that is a guest and then the member, two requests in flight, one combination.
SPECIFICATION Spec
CONSTANTS
  b1 = b1
  p1 = p1
  v1 = v1
  r1 = r1
  r2 = r2
  o1 = o1
  o2 = o2
  k1 = k1
  Browsers = {b1}
  Members = {}
  Products = {p1}
  Variants = {v1}
  ProductOf <- OneProduct
  Requests = {r1, r2}
  Orders = {o1, o2}
  Clerks = {k1}
  Initial = 1
  Quantities = {1}
  Adjustments <- PlusMinus
  MaxQuantity = 2
  MaxStock = 2
  MaxRows = 2
  MaxTerms = 1
INVARIANTS StockAddsUp OrderedGoodsExist
PROPERTIES ShownIsBooked OrderedAsLocked
SYMMETRY Symmetry
CHECK_DEADLOCK FALSE
