SPECIFICATION Spec
CONSTANTS
  Authors <- Names
  PerPageCap = 2
  Asked = {1, 3}
  U32 = 16
  MaxWritten = 5
  TimelineLength = 2
  Targets = {t1, t2}
  MaxPosts = 6
INVARIANTS
  TypeOK
  PostsAreAccountedFor
  WalksMissNothing
  GapsAreNoticed
\* Nobody may write any more.
CHECK_DEADLOCK FALSE
