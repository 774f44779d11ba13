CONSTANTS
  Tasks = {t1, t2}
  Messages = {m1, m2}
  Zeros = Zeros
  MaxSize = 2
  MaxWait = 1
  MaxPosts = 2
SPECIFICATION Spec
SYMMETRY Symmetry
INVARIANT FetchBringsPosted
CHECK_DEADLOCK FALSE
