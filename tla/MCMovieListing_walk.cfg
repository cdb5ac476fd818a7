SPECIFICATION Spec
CONSTANTS
  MaxId = 4
  Early = {1, 2, 3}
  Wanted = {1, 3, 4}
  Orders <- SameDirection
  Take = 2
  MaxLikes = 1
  MaxWrites = 2
  HeedsHasNext = FALSE
  NoCursor = NoCursor
CHECK_DEADLOCK FALSE
INVARIANTS EveryMovieOnce
PROPERTIES PagesInOrder WalkEnds
