\* A post, a comment with a reply, two files, two requests in flight.
SPECIFICATION Spec
CONSTANTS
  p1 = p1
  c1 = c1
  c2 = c2
  f1 = f1
  f2 = f2
  r1 = r1
  r2 = r2
  None = None
  Posts = {p1}
  Comments = {c1, c2}
  On <- CommentsOn
  Parent <- Parents
  Files = {f1, f2}
  Requests = {r1, r2}
  MaxPerPost = 1
INVARIANTS  CountsCurrent
PROPERTIES RemovedStaysRemoved
SYMMETRY Symmetry
CHECK_DEADLOCK FALSE
