CONSTANTS
  Tasks = {t1, t2}
  Messages = {m1}
  Zeros = Zeros
  MaxSize = 2
  MaxWait = 1
  MaxPosts = 3
SPECIFICATION FairSpec
INVARIANT ItemsAccounted
PROPERTY ImplementsCounting
PROPERTY CallsReturn
CHECK_DEADLOCK FALSE
