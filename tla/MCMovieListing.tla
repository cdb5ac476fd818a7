--------------------------- MODULE MCMovieListing ---------------------------
\* Small instances of MovieListing for TLC.
EXTENDS MovieListing

By(c, d) == [col |-> c, dir |-> d]

\* One direction throughout: the page's own order, its reverse, and the like counts.
SameDirection == {<<By("id", "DESC")>>, <<By("id", "ASC")>>,
                  <<By("likeCount", "DESC"), By("id", "DESC")>>,
                  <<By("likeCount", "ASC"), By("id", "ASC")>>}
=============================================================================
