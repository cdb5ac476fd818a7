----------------------------- MODULE MovieLike -----------------------------
(***************************************************************************)
(* POST /movie/:id/like and /dislike: MovieService.toggleMovieLike, the    *)
(* page that calls it (frontend MovieDetail.tsx) and the deletions that    *)
(* run beside it.                                                          *)
(*                                                                         *)
(* The handler runs in no transaction: each of its statements commits on   *)
(* its own and other requests run between any two of them, so one action   *)
(* below is one statement and pc[t] is the next statement of the request   *)
(* tab t waits for.  Every statement names its movie by id, so the module  *)
(* follows the row of one movie.                                           *)
(***************************************************************************)
EXTENDS Integers, FiniteSets

CONSTANTS
  Users,      \* user ids
  Tabs,       \* open MovieDetail pages; a page reloaded mid-click is a new tab
  UserOf,     \* who is logged in at each tab
  Leavers,    \* users DELETE /user/:id may remove
  Breakable,  \* tabs whose request an error or a process exit may cut short
  MaxClicks   \* bound on the clicks of one tab

ASSUME ConstantsAssumption ==
  /\ IsFiniteSet(Users)
  /\ UserOf \in [Tabs -> Users]
  /\ Leavers \subseteq Users
  /\ Breakable \subseteq Tabs
  /\ MaxClicks \in Nat

Sides    == {"like", "dislike"}       \* isLike = true, false
Opinions == Sides \cup {"none"}       \* "none": no movie_user_like row
Other(s) == IF s = "like" THEN "dislike" ELSE "like"

VARIABLES
  movieRow,  \* the movie's row exists
  userRows,  \* user rows that exist
  count,     \* likeCount and dislikeCount of the movie row
  record,    \* movie_user_like, one row per user at most
  pc,        \* next statement of the tab's request; "idle": actionLoading is false
  want,      \* the side clicked (isLike)
  seen,      \* likeRecord as read at line 1085
  loaded,    \* the row as save() itself read it
  updated,   \* the counts as read at line 1160
  answer,    \* isLike of the response, or "error"
  shown,     \* likeStatus in the page's state
  clicks     \* clicks made (bounded by MaxClicks)

db   == <<movieRow, userRows, count, record>>
page == <<shown, clicks>>
vars == <<db, pc, want, seen, loaded, updated, answer, page>>

Stages == {"idle", "findMovie", "findUser", "readRecord", "drop", "add", "write",
           "save", "readResult", "readCounts", "fix", "answered"}

TypeOK ==
  /\ movieRow \in BOOLEAN
  /\ userRows \in SUBSET Users
  /\ count    \in [Sides -> Int]
  /\ record   \in [Users -> Opinions]
  /\ pc       \in [Tabs -> Stages]
  /\ want     \in [Tabs -> Sides]
  /\ seen     \in [Tabs -> Opinions]
  /\ loaded   \in [Tabs -> Opinions]
  /\ updated  \in [Tabs -> [Sides -> Int]]
  /\ answer   \in [Tabs -> Opinions \cup {"error"}]
  /\ shown    \in [Tabs -> Opinions \cup {"no movie"}]
  /\ clicks   \in [Tabs -> 0 .. MaxClicks]

\* calculateMovieLikeCount and calculateMovieDislikeCount: the rows of a side.
RowTally(s) == Cardinality({u \in Users : record[u] = s})

Init ==
  /\ movieRow = TRUE
  /\ userRows = Users
  /\ record  \in [Users -> Opinions]
  /\ count    = [s \in Sides |-> RowTally(s)]
  /\ pc       = [t \in Tabs |-> "idle"]
  /\ want     = [t \in Tabs |-> "like"]
  /\ seen     = [t \in Tabs |-> "none"]
  /\ loaded   = [t \in Tabs |-> "none"]
  /\ updated  = [t \in Tabs |-> [s \in Sides |-> 0]]
  /\ answer   = [t \in Tabs |-> "none"]
  /\ shown    = [t \in Tabs |-> record[UserOf[t]]]
  /\ clicks   = [t \in Tabs |-> 0]

Goto(t, from, to) ==
  /\ pc[t] = from
  /\ pc' = [pc EXCEPT ![t] = to]

\* The row as tab t's user has it now, and what a toggle makes of an opinion.
Row(t)         == record[UserOf[t]]
Toggled(op, s) == IF op = s THEN "none" ELSE s
SetRow(t, op)  == record' = [record EXCEPT ![UserOf[t]] = op]

(***************************************************************************)
(* The page.                                                               *)
(***************************************************************************)

\* The page is loaded again: getMovie answers 404 or the user's own row.
Reload(t) ==
  /\ pc[t] = "idle"
  /\ shown' = [shown EXCEPT ![t] = IF movieRow THEN Row(t) ELSE "no movie"]
  /\ UNCHANGED <<db, pc, want, seen, loaded, updated, answer, clicks>>

\* handleLike / handleDislike: nothing without a movie or while actionLoading.
Click(t, s) ==
  /\ clicks[t] < MaxClicks /\ shown[t] # "no movie"
  /\ Goto(t, "idle", "findMovie")
  /\ want'   = [want EXCEPT ![t] = s]
  /\ clicks' = [clicks EXCEPT ![t] = @ + 1]
  /\ UNCHANGED <<db, seen, loaded, updated, answer, shown>>

\* What the page shows after a response: its own copy flipped; an error leaves it.
\* Mutants: the response is shown as it is; a cancelled like is never unshown.
ShownAfterCopy(t)     == answer[t]
ShownAfterNoCancel(t) == IF answer[t] = "error" THEN shown[t] ELSE want[t]
ShownAfter(t) ==
  IF answer[t] = "error" THEN shown[t] ELSE Toggled(shown[t], want[t])

\* The response arrives; the handler's locals are gone.
Receive(t) ==
  /\ Goto(t, "answered", "idle")
  /\ shown'   = [shown EXCEPT ![t] = ShownAfter(t)]
  /\ seen'    = [seen EXCEPT ![t] = "none"]
  /\ loaded'  = [loaded EXCEPT ![t] = "none"]
  /\ updated' = [updated EXCEPT ![t] = [s \in Sides |-> 0]]
  /\ answer'  = [answer EXCEPT ![t] = "none"]
  /\ UNCHANGED <<db, want, clicks>>

(***************************************************************************)
(* The handler, statement by statement.                                    *)
(***************************************************************************)

\* The handler throws (or dies) at the statement it stands at.
\* Mutant: the error is never sent.
ThrowSilently(t, from) == FALSE
Throw(t, from) ==
  /\ Goto(t, from, "answered")
  /\ answer' = [answer EXCEPT ![t] = "error"]
  /\ UNCHANGED <<db, want, seen, loaded, updated, page>>

MovieFound == movieRow

FindMovie(t) ==
  \/ ~MovieFound /\ Throw(t, "findMovie")
  \/ /\ MovieFound
     /\ Goto(t, "findMovie", "findUser")
     /\ UNCHANGED <<db, want, seen, loaded, updated, answer, page>>

FindUser(t) ==
  \/ UserOf[t] \notin userRows /\ Throw(t, "findUser")
  \/ /\ UserOf[t] \in userRows
     /\ Goto(t, "findUser", "readRecord")
     /\ UNCHANGED <<db, want, seen, loaded, updated, answer, page>>

\* Mutant: getLikedRecord finds likes only.
LikedRecordLikes(t) == IF Row(t) = "like" THEN "like" ELSE "none"
LikedRecord(t)      == Row(t)

\* likeRecord decides the branch: a record is first taken off its counter.
ReadRecord(t) ==
  /\ Goto(t, "readRecord", IF LikedRecord(t) = "none" THEN "add" ELSE "drop")
  /\ seen' = [seen EXCEPT ![t] = LikedRecord(t)]
  /\ UNCHANGED <<db, want, loaded, updated, answer, page>>

\* increment and decrement are one UPDATE each; on a deleted movie they match no row.
Bump(s, n) == count' = IF movieRow THEN [count EXCEPT ![s] = @ + n] ELSE count

\* Mutants: the counter of the side clicked is the one taken down; a switch adds to
\* the counter it has just taken down.
DroppedWanted(t)   == want[t]
Dropped(t)         == seen[t]
AddedToDropped(t)  == IF seen[t] = "none" THEN want[t] ELSE seen[t]
Added(t)           == want[t]

DropOld(t) ==
  /\ Goto(t, "drop", IF seen[t] = want[t] THEN "write" ELSE "add")
  /\ Bump(Dropped(t), -1)
  /\ UNCHANGED <<movieRow, userRows, record, want, seen, loaded, updated, answer, page>>

AddNew(t) ==
  /\ Goto(t, "add", "write")
  /\ Bump(Added(t), 1)
  /\ UNCHANGED <<movieRow, userRows, record, want, seen, loaded, updated, answer, page>>

\* movieUserLikeRepository.delete({movie, user})
DeleteRow(t) ==
  /\ seen[t] = want[t]
  /\ Goto(t, "write", "readResult")
  /\ SetRow(t, "none")
  /\ UNCHANGED <<movieRow, userRows, count, want, seen, loaded, updated, answer, page>>

\* An UPDATE of the row sets isLike, or matches no row.
\* Mutant: the old isLike is written back.
SwitchedStale(t) == Row(t)
Switched(t)      == IF Row(t) = "none" THEN "none" ELSE want[t]

\* movieUserLikeRepository.update({movie, user}, {isLike})
UpdateRow(t) ==
  /\ seen[t] = Other(want[t])
  /\ Goto(t, "write", "readResult")
  /\ SetRow(t, Switched(t))
  /\ UNCHANGED <<movieRow, userRows, count, want, seen, loaded, updated, answer, page>>

\* movieUserLikeRepository.save(...): TypeORM selects the row first ...
LoadRow(t) ==
  /\ seen[t] = "none"
  /\ Goto(t, "write", "save")
  /\ loaded' = [loaded EXCEPT ![t] = Row(t)]
  /\ UNCHANGED <<db, want, seen, updated, answer, page>>

\* ... and then inserts it, unless the key is taken or a parent row is gone,
\* or updates it if it found one that differs.
SaveRow(t) ==
  LET insertable == Row(t) = "none" /\ movieRow /\ UserOf[t] \in userRows
  IN  \/ loaded[t] = "none" /\ ~insertable /\ Throw(t, "save")
      \/ /\ loaded[t] # "none" \/ insertable
         /\ Goto(t, "save", "readResult")
         /\ SetRow(t, CASE loaded[t] = "none"  -> want[t]
                        [] loaded[t] = want[t] -> Row(t)
                        [] OTHER -> Switched(t))
         /\ UNCHANGED <<movieRow, userRows, count, want, seen, loaded, updated, answer, page>>

\* Mutant: the response echoes isLike.
ResultEcho(t) == want[t]
Result(t)     == Row(t)

ReadResult(t) ==
  /\ Goto(t, "readResult", "readCounts")
  /\ answer' = [answer EXCEPT ![t] = Result(t)]
  /\ UNCHANGED <<db, want, seen, loaded, updated, page>>

Negative(c) == \E s \in Sides : c[s] < 0

\* Mutant: only likeCount is looked at.
NeedsFixLikes == movieRow /\ count["like"] < 0
NeedsFix      == movieRow /\ Negative(count)

\* `updated` is kept only where it is used again.
ReadCounts(t) ==
  /\ IF NeedsFix
     THEN Goto(t, "readCounts", "fix") /\ updated' = [updated EXCEPT ![t] = count]
     ELSE Goto(t, "readCounts", "answered") /\ UNCHANGED updated
  /\ UNCHANGED <<db, want, seen, loaded, answer, page>>

\* Math.max(0, n).
Corrected(n) == IF n < 0 THEN 0 ELSE n

\* The correction writes both counters from the values read before.
Fix(t) ==
  /\ Goto(t, "fix", "answered")
  /\ count' = IF movieRow THEN [s \in Sides |-> Corrected(updated[t][s])] ELSE count
  /\ UNCHANGED <<movieRow, userRows, record, want, seen, loaded, updated, answer, page>>

\* A lost connection, a failed statement or a process exit, at any statement.
Break(t) ==
  /\ t \in Breakable
  /\ pc[t] \notin {"idle", "answered"}
  /\ Throw(t, pc[t])

(***************************************************************************)
(* Other handlers on the same rows.                                        *)
(***************************************************************************)

\* DELETE /movie/:id; ON DELETE CASCADE takes the likes with it.
RemoveMovie ==
  /\ movieRow
  /\ movieRow' = FALSE
  /\ record' = [u \in Users |-> "none"]
  /\ count'  = [s \in Sides |-> 0]
  /\ UNCHANGED <<userRows, pc, want, seen, loaded, updated, answer, page>>

\* DELETE /user/:id; the cascade removes the row and leaves the counters.
RemoveUser(u) ==
  /\ u \in Leavers \cap userRows
  /\ userRows' = userRows \ {u}
  /\ record'   = [record EXCEPT ![u] = "none"]
  /\ UNCHANGED <<movieRow, count, pc, want, seen, loaded, updated, answer, page>>

Handle(t) ==
  \/ FindMovie(t)  \/ FindUser(t)
  \/ ReadRecord(t) \/ DropOld(t)    \/ AddNew(t)
  \/ DeleteRow(t)  \/ UpdateRow(t)  \/ LoadRow(t) \/ SaveRow(t)
  \/ ReadResult(t) \/ ReadCounts(t) \/ Fix(t)

Next ==
  \/ \E t \in Tabs : \/ Reload(t) \/ Receive(t) \/ Handle(t) \/ Break(t)
                     \/ \E s \in Sides : Click(t, s)
  \/ RemoveMovie
  \/ \E u \in Users : RemoveUser(u)

Safe == Init /\ [][Next]_vars

\* A started request runs on to its answer; nobody has to click or delete.
Spec == Safe /\ \A t \in Tabs : WF_vars(Handle(t)) /\ WF_vars(Receive(t))

(***************************************************************************)
(* Properties.                                                             *)
(***************************************************************************)

\* The movie and every user are still there.
Intact == movieRow /\ userRows = Users

\* Each user toggles from one page at a time.
OneTabEach == \A t1, t2 \in Tabs : UserOf[t1] = UserOf[t2] => t1 = t2

\* Users whose opinion the counter of side s stands for: between the counter's
\* statement and the row's, the opinion being written, otherwise the row.
Moving(t, u)  == UserOf[t] = u /\ pc[t] \in {"add", "write", "save"}
Ahead(t, u, s) == /\ UserOf[t] = u /\ pc[t] \in {"write", "save"}
                  /\ want[t] = s /\ seen[t] # s
Counted(s) == {u \in Users : \/ \E t \in Tabs : Ahead(t, u, s)
                             \/ record[u] = s /\ \A t \in Tabs : ~Moving(t, u)}

\* While every user has one page open, each counter is exactly the number of
\* opinions it stands for, at every await of every handler (toggleMovieLike keeps
\* two tables in step without a transaction).
LedgerExact ==
  Intact => \A s \in Sides : count[s] = Cardinality(Counted(s))

\* The same, as the SQL of task.service.ts counts it, once no request is running.
AtRest == \A t \in Tabs : pc[t] \in {"idle", "answered"}
CountsMatchAtRest ==
  Intact /\ AtRest => \A s \in Sides : count[s] = RowTally(s)

\* Deleting users can only leave counters too high: no cascade takes an opinion
\* away from under a counter that a running toggle then decrements twice.
NeverUndercounts ==
  movieRow => \A s \in Sides : count[s] >= Cardinality(Counted(s))

\* With one page per user, the response says what the click made of the opinion
\* the handler found, and that is still the user's row when it arrives.
AnswerIsToggle ==
  \A t \in Tabs :
    pc[t] = "answered" /\ answer[t] # "error" /\ movieRow /\ UserOf[t] \in userRows
      => answer[t] = Toggled(seen[t], want[t]) /\ Row(t) = answer[t]

\* With one page per user, a toggle only fails because the movie or the user is
\* gone: the insert of save() never meets a row that was not there before.
ErrorOnlyWhenGone ==
  \A t \in Tabs : pc[t] = "answered" /\ answer[t] = "error"
                    => ~movieRow \/ UserOf[t] \notin userRows

\* The likeStatus the page works out by itself (MovieDetail.tsx 38-49) is the
\* user's row whenever the page waits for nothing.
ShownMatchesRow ==
  \A t \in Tabs :
    pc[t] = "idle" /\ shown[t] # "no movie" /\ movieRow /\ UserOf[t] \in userRows
      => shown[t] = Row(t)

\* Requests that will still read the counters and cannot fail before they do.
WillCorrect(t) == \/ pc[t] \in {"add", "write", "readResult", "readCounts"} /\ seen[t] # "none"
                  \/ pc[t] = "fix"

\* However toggles overlap, a counter is below zero only while a request that
\* will write it back is under way (movie.service.ts 1159).
NegativeIsBeingCorrected ==
  Negative(count) => \E t \in Tabs : WillCorrect(t)

\* Every click is answered, the row free or taken, the movie there or not.
EveryClickAnswered == \A t \in Tabs : pc[t] = "findMovie" ~> pc[t] = "idle"

\* Even if requests die half way, a user's row only ever moves from the opinion
\* the handler read to what the click makes of it, once per click.
RowMovesAsClicked ==
  [][\A t \in Tabs :
       Row(t)' # Row(t) /\ movieRow' /\ UserOf[t] \in userRows'
         => pc'[t] = "readResult" /\ Row(t) = seen[t] /\ Row(t)' = Toggled(seen[t], want[t])]_vars

(***************************************************************************)
(* With one page per user the handler implements LikeLedger: a click is    *)
(* applied by the statement that writes the row, and a tally is the        *)
(* counter without what running requests have added to it in advance.      *)
(***************************************************************************)
LedgerOpinion == [u \in Users |-> IF Intact THEN record[u] ELSE "none"]
LedgerTally   == [s \in Sides |->
                    IF Intact THEN count[s] - (Cardinality(Counted(s)) - RowTally(s)) ELSE 0]
LedgerAsked   == [t \in Tabs |->
                    IF pc[t] \in {"idle", "readResult", "readCounts", "fix", "answered"}
                    THEN "nothing" ELSE want[t]]

Ledger == INSTANCE LikeLedger WITH
  open <- Intact, opinion <- LedgerOpinion, tally <- LedgerTally, asked <- LedgerAsked

\* The statements of overlapping requests of different users add up to the atomic
\* toggles of LikeLedger, each click applied once.
ImplementsLedger == Ledger!Spec
=============================================================================
