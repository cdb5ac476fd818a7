-------------------------- MODULE MovieLike_proofs --------------------------
(***************************************************************************)
(* Theorems about MovieLike: its type invariant, the correction of         *)
(* negative counters under overlapping toggles and, when every user has    *)
(* one page open, that the counters are exact, that a row only moves as    *)
(* clicked, that no counter is too low after deletions, and that the       *)
(* handler implements LikeLedger.                                          *)
(***************************************************************************)
EXTENDS MovieLike, FiniteSetTheorems, TLAPS

(***************************************************************************)
(* Type correctness.                                                       *)
(***************************************************************************)

\* The names the type invariant needs, so that the sets themselves stay folded.
LEMMA Names ==
  /\ "none" \in Opinions /\ Sides \subseteq Opinions
  /\ "like" \in Sides /\ "dislike" \in Sides
  /\ "idle" \in Stages       /\ "findMovie" \in Stages  /\ "findUser" \in Stages
  /\ "readRecord" \in Stages /\ "drop" \in Stages       /\ "add" \in Stages
  /\ "write" \in Stages      /\ "save" \in Stages       /\ "readResult" \in Stages
  /\ "readCounts" \in Stages /\ "fix" \in Stages        /\ "answered" \in Stages
BY DEF Sides, Opinions, Stages

LEMMA TallyType == ASSUME NEW s PROVE RowTally(s) \in Nat
<1>1. {u \in Users : record[u] = s} \in SUBSET Users
  OBVIOUS
<1> QED BY <1>1, ConstantsAssumption, FS_Subset, FS_CardinalityType DEF RowTally

\* Typing facts about counters, apart from every other hypothesis.
LEMMA ZeroCounts == [s \in Sides |-> 0] \in [Sides -> Int]
OBVIOUS

LEMMA BumpType ==
  ASSUME count \in [Sides -> Int], NEW s, NEW n \in Int, Bump(s, n)
  PROVE  count' \in [Sides -> Int]
<1>1. [count EXCEPT ![s] = @ + n] \in [Sides -> Int]
  <2>1. CASE s \in Sides
    BY <2>1
  <2>2. CASE s \notin Sides
    BY <2>2
  <2> QED BY <2>1, <2>2
<1> QED BY <1>1 DEF Bump

LEMMA CorrectedType ==
  ASSUME NEW c \in [Sides -> Int]
  PROVE  [s \in Sides |-> Corrected(c[s])] \in [Sides -> Int]
<1>1. \A n \in Int : Corrected(n) \in Int
  BY DEF Corrected
<1> QED BY <1>1

LEMMA TypeInit == Init => TypeOK
<1> SUFFICES ASSUME Init PROVE TypeOK
  OBVIOUS
<1>1. movieRow \in BOOLEAN /\ userRows \in SUBSET Users
  BY DEF Init
<1>2. count \in [Sides -> Int]
  <2>1. count = [s \in Sides |-> RowTally(s)]
    BY DEF Init
  <2>2. ASSUME NEW s \in Sides PROVE RowTally(s) \in Int
    <3>1. RowTally(s) \in Nat
      BY TallyType
    <3> QED BY <3>1
  <2> QED BY <2>1, <2>2
<1>3. record \in [Users -> Opinions] /\ shown \in [Tabs -> Opinions \cup {"no movie"}]
  BY ConstantsAssumption DEF Init
<1>4. pc \in [Tabs -> Stages] /\ want \in [Tabs -> Sides]
  BY Names DEF Init
<1>5. seen \in [Tabs -> Opinions] /\ loaded \in [Tabs -> Opinions]
      /\ answer \in [Tabs -> Opinions \cup {"error"}]
  BY Names DEF Init
<1>6. updated \in [Tabs -> [Sides -> Int]]
  BY ZeroCounts DEF Init
<1>7. clicks \in [Tabs -> 0 .. MaxClicks]
  BY ConstantsAssumption DEF Init
<1> QED BY <1>1, <1>2, <1>3, <1>4, <1>5, <1>6, <1>7 DEF TypeOK

LEMMA TypeStep == TypeOK /\ [Next]_vars => TypeOK'
<1> SUFFICES ASSUME TypeOK, [Next]_vars PROVE TypeOK'
  OBVIOUS
<1> USE Names DEF TypeOK, db, page, Goto
<1>1. ASSUME NEW t \in Tabs, Reload(t) PROVE TypeOK'
  BY <1>1, ConstantsAssumption DEF Reload, Row
<1>2. ASSUME NEW t \in Tabs, NEW s \in Sides, Click(t, s) PROVE TypeOK'
  <2>1. clicks' \in [Tabs -> 0 .. MaxClicks]
    <3>1. clicks[t] + 1 \in 0 .. MaxClicks
      <4>1. clicks[t] \in 0 .. MaxClicks
        OBVIOUS
      <4>2. clicks[t] < MaxClicks
        BY <1>2 DEF Click
      <4>3. MaxClicks \in Nat
        BY ConstantsAssumption
      <4> QED BY ONLY <4>1, <4>2, <4>3
    <3> QED BY <1>2, <3>1 DEF Click
  <2> QED BY <1>2, <2>1 DEF Click
<1>3. ASSUME NEW t \in Tabs, Receive(t) PROVE TypeOK'
  <2>1. ShownAfter(t) \in Opinions \cup {"no movie"}
    BY DEF ShownAfter, Toggled
  <2> QED BY <1>3, <2>1, ZeroCounts DEF Receive
<1>4. ASSUME NEW t \in Tabs, NEW from, Throw(t, from) PROVE TypeOK'
  BY <1>4 DEF Throw
<1>5. ASSUME NEW t \in Tabs, FindMovie(t) PROVE TypeOK'
  BY <1>4, <1>5 DEF FindMovie
<1>6. ASSUME NEW t \in Tabs, FindUser(t) PROVE TypeOK'
  BY <1>4, <1>6 DEF FindUser
<1>7. ASSUME NEW t \in Tabs, ReadRecord(t) PROVE TypeOK'
  BY <1>7, ConstantsAssumption DEF ReadRecord, LikedRecord, Row
<1>8. count \in [Sides -> Int]
  BY DEF TypeOK
<1>9. ASSUME NEW t \in Tabs, DropOld(t) PROVE TypeOK'
  <2>1. count' \in [Sides -> Int]
    <3>1. Bump(Dropped(t), -1)
      BY <1>9 DEF DropOld
    <3>2. -1 \in Int
      BY ONLY TRUE
    <3> QED BY <1>8, <3>1, <3>2, BumpType
  <2> QED BY <1>9, <2>1 DEF DropOld
<1>10. ASSUME NEW t \in Tabs, AddNew(t) PROVE TypeOK'
  <2>1. count' \in [Sides -> Int]
    <3>1. Bump(Added(t), 1)
      BY <1>10 DEF AddNew
    <3>2. 1 \in Int
      BY ONLY TRUE
    <3> QED BY <1>8, <3>1, <3>2, BumpType
  <2> QED BY <1>10, <2>1 DEF AddNew
<1>11. ASSUME NEW t \in Tabs, DeleteRow(t) PROVE TypeOK'
  BY <1>11, ConstantsAssumption DEF DeleteRow, SetRow
<1>12. ASSUME NEW t \in Tabs, UpdateRow(t) PROVE TypeOK'
  BY <1>12, ConstantsAssumption DEF UpdateRow, SetRow, Switched
<1>13. ASSUME NEW t \in Tabs, LoadRow(t) PROVE TypeOK'
  BY <1>13, ConstantsAssumption DEF LoadRow, Row
<1>14. ASSUME NEW t \in Tabs, SaveRow(t) PROVE TypeOK'
  <2>1. CASE Throw(t, "save")
    BY <1>4, <2>1
  <2>2. CASE ~Throw(t, "save")
    <3>1. PICK op \in Opinions : SetRow(t, op)
      BY <1>14, <2>2, ConstantsAssumption DEF SaveRow, Switched, Row
    <3>2. record' \in [Users -> Opinions]
      BY <3>1, ConstantsAssumption DEF SetRow
    <3>3. Goto(t, "save", "readResult") /\ UNCHANGED <<movieRow, userRows, count, want,
                                                      seen, loaded, updated, answer, page>>
      BY <1>14, <2>2 DEF SaveRow
    <3> QED BY <3>2, <3>3
  <2> QED BY <2>1, <2>2
<1>15. ASSUME NEW t \in Tabs, ReadResult(t) PROVE TypeOK'
  BY <1>15, ConstantsAssumption DEF ReadResult, Result, Row
<1>16. ASSUME NEW t \in Tabs, ReadCounts(t) PROVE TypeOK'
  <2>1. updated' \in [Tabs -> [Sides -> Int]] /\ pc' \in [Tabs -> Stages]
    <3>1. updated' \in {updated, [updated EXCEPT ![t] = count]}
      BY <1>16 DEF ReadCounts
    <3>2. updated' \in [Tabs -> [Sides -> Int]]
      BY <1>8, <3>1
    <3>3. pc' \in {[pc EXCEPT ![t] = "fix"], [pc EXCEPT ![t] = "answered"]}
      BY <1>16 DEF ReadCounts, Goto
    <3>4. pc' \in [Tabs -> Stages]
      BY <3>3
    <3> QED BY <3>2, <3>4
  <2> QED BY <1>16, <2>1 DEF ReadCounts
<1>17. ASSUME NEW t \in Tabs, Fix(t) PROVE TypeOK'
  <2>1. [s \in Sides |-> Corrected(updated[t][s])] \in [Sides -> Int]
    BY CorrectedType
  <2> QED BY <1>17, <2>1 DEF Fix
<1>18. ASSUME NEW t \in Tabs, Break(t) PROVE TypeOK'
  BY <1>4, <1>18 DEF Break
<1>19. CASE RemoveMovie
  BY <1>19, ZeroCounts DEF RemoveMovie
<1>20. ASSUME NEW u \in Users, RemoveUser(u) PROVE TypeOK'
  BY <1>20 DEF RemoveUser
<1>21. CASE UNCHANGED vars
  BY <1>21 DEF vars
<1> QED
  BY <1>1, <1>2, <1>3, <1>5, <1>6, <1>7, <1>9, <1>10, <1>11, <1>12, <1>13, <1>14,
     <1>15, <1>16, <1>17, <1>18, <1>19, <1>20, <1>21 DEF Next, Handle

\* In every behaviour of the handlers the rows, counters and locals keep their types.
THEOREM TypeCorrect == Spec => []TypeOK
BY TypeInit, TypeStep, PTL DEF Spec, Safe

(***************************************************************************)
(* Negative counters are being corrected, whatever overlaps.               *)
(*                                                                         *)
(* Only a decrement makes a counter negative, and the request that made it *)
(* found a row, so it neither fails on the way to line 1160 nor leaves     *)
(* there with a negative counter behind it.                                *)
(***************************************************************************)
CorrectionInv ==
  /\ NegativeIsBeingCorrected
  /\ ~movieRow => ~Negative(count)
  /\ \A t \in Tabs : pc[t] = "drop" => seen[t] # "none"

LEMMA CorrectionInit == Init => CorrectionInv
<1> SUFFICES ASSUME Init PROVE CorrectionInv
  OBVIOUS
<1>1. ASSUME NEW s \in Sides PROVE ~(count[s] < 0)
  <2>1. count[s] = RowTally(s)
    BY DEF Init
  <2>2. RowTally(s) \in Nat
    BY TallyType
  <2> QED BY <2>1, <2>2
<1>2. ~Negative(count)
  BY <1>1 DEF Negative
<1>3. \A t \in Tabs : pc[t] # "drop"
  BY DEF Init
<1> QED BY <1>2, <1>3 DEF CorrectionInv, NegativeIsBeingCorrected

\* A step of one tab that leaves the counters alone keeps the invariant if it does
\* not take the tab out of the correcting stages while a counter is negative.
LEMMA CorrectionFrame ==
  ASSUME CorrectionInv, TypeOK, NEW t \in Tabs, UNCHANGED <<count, movieRow>>,
         \A r \in Tabs \ {t} : pc'[r] = pc[r] /\ seen'[r] = seen[r],
         Negative(count) /\ WillCorrect(t) => WillCorrect(t)',
         pc'[t] = "drop" => seen'[t] # "none"
  PROVE  CorrectionInv'
<1>1. \A r \in Tabs \ {t} : WillCorrect(r) => WillCorrect(r)'
  BY DEF WillCorrect
<1>2. NegativeIsBeingCorrected'
  <2> SUFFICES ASSUME Negative(count)' PROVE \E r \in Tabs : WillCorrect(r)'
    BY DEF NegativeIsBeingCorrected
  <2>1. Negative(count)
    BY DEF Negative
  <2>2. PICK r \in Tabs : WillCorrect(r)
    BY <2>1 DEF CorrectionInv, NegativeIsBeingCorrected
  <2> QED BY <1>1, <2>1, <2>2
<1>3. (~movieRow => ~Negative(count))'
  BY DEF CorrectionInv, Negative
<1>4. (\A r \in Tabs : pc[r] = "drop" => seen[r] # "none")'
  BY DEF CorrectionInv
<1> QED BY <1>2, <1>3, <1>4 DEF CorrectionInv

LEMMA CorrectionStep ==
  ASSUME Breakable = {}, CorrectionInv, TypeOK, TypeOK', [Next]_vars
  PROVE  CorrectionInv'
<1> USE DEF Goto, db, page
<1>1. ASSUME NEW t \in Tabs, Reload(t) PROVE CorrectionInv'
  BY <1>1, CorrectionFrame DEF Reload, WillCorrect, CorrectionInv
<1>2. ASSUME NEW t \in Tabs, NEW s \in Sides, Click(t, s) PROVE CorrectionInv'
  <2>1. pc[t] = "idle" /\ pc'[t] = "findMovie"
    BY <1>2 DEF Click, TypeOK
  <2> QED BY <1>2, <2>1, CorrectionFrame DEF Click, WillCorrect, TypeOK
<1>3. ASSUME NEW t \in Tabs, Receive(t) PROVE CorrectionInv'
  <2>1. pc[t] = "answered" /\ pc'[t] = "idle"
    BY <1>3 DEF Receive, TypeOK
  <2> QED BY <1>3, <2>1, CorrectionFrame DEF Receive, WillCorrect, TypeOK
<1>4. ASSUME NEW t \in Tabs, NEW from \in {"findMovie", "findUser", "save"}, Throw(t, from)
      PROVE  CorrectionInv'
  <2>1. pc[t] = from /\ pc'[t] = "answered"
    BY <1>4 DEF Throw, TypeOK
  <2> QED BY <1>4, <2>1, CorrectionFrame DEF Throw, WillCorrect, TypeOK
<1>5. ASSUME NEW t \in Tabs, FindMovie(t) PROVE CorrectionInv'
  <2>1. CASE Throw(t, "findMovie")
    BY <1>4, <2>1
  <2>2. CASE ~Throw(t, "findMovie")
    <3>1. pc[t] = "findMovie" /\ pc'[t] = "findUser"
      BY <1>5, <2>2 DEF FindMovie, TypeOK
    <3> QED BY <1>5, <2>2, <3>1, CorrectionFrame DEF FindMovie, WillCorrect, TypeOK
  <2> QED BY <2>1, <2>2
<1>6. ASSUME NEW t \in Tabs, FindUser(t) PROVE CorrectionInv'
  <2>1. CASE Throw(t, "findUser")
    BY <1>4, <2>1
  <2>2. CASE ~Throw(t, "findUser")
    <3>1. pc[t] = "findUser" /\ pc'[t] = "readRecord"
      BY <1>6, <2>2 DEF FindUser, TypeOK
    <3> QED BY <1>6, <2>2, <3>1, CorrectionFrame DEF FindUser, WillCorrect, TypeOK
  <2> QED BY <2>1, <2>2
<1>7. ASSUME NEW t \in Tabs, ReadRecord(t) PROVE CorrectionInv'
  <2>1. pc[t] = "readRecord" /\ (pc'[t] = "drop" => seen'[t] # "none")
    BY <1>7 DEF ReadRecord, TypeOK
  <2> QED BY <1>7, <2>1, CorrectionFrame DEF ReadRecord, WillCorrect, TypeOK
<1>8. ASSUME NEW t \in Tabs, DropOld(t) PROVE CorrectionInv'
  <2>1. seen[t] # "none" /\ seen'[t] = seen[t]
    BY <1>8 DEF DropOld, CorrectionInv
  <2>2. pc'[t] \in {"add", "write"}
    BY <1>8 DEF DropOld, TypeOK
  <2>3. WillCorrect(t)'
    BY <2>1, <2>2 DEF WillCorrect
  <2>4. NegativeIsBeingCorrected'
    BY <2>3 DEF NegativeIsBeingCorrected
  <2>5. (~movieRow => ~Negative(count))'
    BY <1>8 DEF DropOld, Bump, CorrectionInv, Negative
  <2>6. (\A r \in Tabs : pc[r] = "drop" => seen[r] # "none")'
    BY <1>8, <2>2 DEF DropOld, CorrectionInv, TypeOK
  <2> QED BY <2>4, <2>5, <2>6 DEF CorrectionInv
<1>9. ASSUME NEW t \in Tabs, AddNew(t) PROVE CorrectionInv'
  <2>1. pc[t] = "add" /\ pc'[t] = "write" /\ UNCHANGED <<seen, movieRow>>
        /\ \A r \in Tabs \ {t} : pc'[r] = pc[r]
    BY <1>9 DEF AddNew, TypeOK
  <2>2. \A r \in Tabs : WillCorrect(r) => WillCorrect(r)'
    BY <2>1 DEF WillCorrect
  <2>3. Negative(count)' => Negative(count)
    <3>1. CASE ~movieRow
      BY <1>9, <3>1 DEF AddNew, Bump, Negative
    <3>2. CASE movieRow
      <4>1. count' = [count EXCEPT ![want[t]] = @ + 1] /\ want[t] \in Sides
        BY <1>9, <3>2 DEF AddNew, Bump, Added, TypeOK
      <4>2. \A s \in Sides : count[s] \in Int /\ (count'[s] = count[s] \/ count'[s] = count[s] + 1)
        BY <4>1 DEF TypeOK
      <4> QED BY ONLY <4>2 DEF Negative
    <3> QED BY <3>1, <3>2
  <2>4. NegativeIsBeingCorrected'
    BY <2>2, <2>3 DEF NegativeIsBeingCorrected, CorrectionInv
  <2>5. (~movieRow => ~Negative(count))'
    BY <2>1, <2>3 DEF CorrectionInv
  <2>6. (\A r \in Tabs : pc[r] = "drop" => seen[r] # "none")'
    BY <2>1 DEF CorrectionInv
  <2> QED BY <2>4, <2>5, <2>6 DEF CorrectionInv
<1>10. ASSUME NEW t \in Tabs, DeleteRow(t) PROVE CorrectionInv'
  <2>1. pc[t] = "write" /\ pc'[t] = "readResult"
    BY <1>10 DEF DeleteRow, TypeOK
  <2> QED BY <1>10, <2>1, CorrectionFrame DEF DeleteRow, WillCorrect, TypeOK
<1>11. ASSUME NEW t \in Tabs, UpdateRow(t) PROVE CorrectionInv'
  <2>1. pc[t] = "write" /\ pc'[t] = "readResult"
    BY <1>11 DEF UpdateRow, TypeOK
  <2> QED BY <1>11, <2>1, CorrectionFrame DEF UpdateRow, WillCorrect, TypeOK
<1>12. ASSUME NEW t \in Tabs, LoadRow(t) PROVE CorrectionInv'
  <2>1. pc[t] = "write" /\ pc'[t] = "save" /\ seen[t] = "none"
    BY <1>12 DEF LoadRow, TypeOK
  <2> QED BY <1>12, <2>1, CorrectionFrame DEF LoadRow, WillCorrect, TypeOK
<1>13. ASSUME NEW t \in Tabs, SaveRow(t) PROVE CorrectionInv'
  <2>1. CASE Throw(t, "save")
    BY <1>4, <2>1
  <2>2. CASE ~Throw(t, "save")
    <3>1. /\ pc[t] = "save" /\ pc' = [pc EXCEPT ![t] = "readResult"]
          /\ UNCHANGED <<movieRow, count, seen>>
      BY <1>13, <2>2 DEF SaveRow
    <3> QED BY <3>1, CorrectionFrame DEF WillCorrect, TypeOK
  <2> QED BY <2>1, <2>2
<1>14. ASSUME NEW t \in Tabs, ReadResult(t) PROVE CorrectionInv'
  <2>1. pc[t] = "readResult" /\ pc'[t] = "readCounts"
    BY <1>14 DEF ReadResult, TypeOK
  <2> QED BY <1>14, <2>1, CorrectionFrame DEF ReadResult, WillCorrect, TypeOK
<1>15. ASSUME NEW t \in Tabs, ReadCounts(t) PROVE CorrectionInv'
  <2>1. CASE NeedsFix
    <3>1. pc'[t] = "fix"
      BY <1>15, <2>1 DEF ReadCounts, TypeOK
    <3> QED BY <1>15, <2>1, <3>1, CorrectionFrame DEF ReadCounts, WillCorrect, TypeOK
  <2>2. CASE ~NeedsFix
    <3>1. ~Negative(count)
      BY <2>2 DEF NeedsFix, CorrectionInv
    <3>2. pc'[t] = "answered"
      BY <1>15, <2>2 DEF ReadCounts, TypeOK
    <3> QED BY <1>15, <2>2, <3>1, <3>2, CorrectionFrame DEF ReadCounts, TypeOK
  <2> QED BY <2>1, <2>2
<1>16. ASSUME NEW t \in Tabs, Fix(t) PROVE CorrectionInv'
  <2>1. ~Negative(count)'
    <3>1. CASE ~movieRow
      BY <1>16, <3>1 DEF Fix, CorrectionInv, Negative
    <3>2. CASE movieRow
      <4>1. \A n \in Int : ~(Corrected(n) < 0)
        BY DEF Corrected
      <4>2. \A s \in Sides : updated[t][s] \in Int
        BY DEF TypeOK
      <4>3. \A s \in Sides : count'[s] = Corrected(updated[t][s])
        BY <1>16, <3>2 DEF Fix
      <4> QED BY <4>1, <4>2, <4>3 DEF Negative
    <3> QED BY <3>1, <3>2
  <2>2. (\A r \in Tabs : pc[r] = "drop" => seen[r] # "none")'
    BY <1>16 DEF Fix, CorrectionInv, TypeOK
  <2> QED BY <2>1, <2>2 DEF CorrectionInv, NegativeIsBeingCorrected
<1>17. ASSUME NEW t \in Tabs, Break(t) PROVE CorrectionInv'
  BY <1>17 DEF Break
<1>18. CASE RemoveMovie
  <2>1. ~Negative(count)'
    BY <1>18 DEF RemoveMovie, Negative
  <2> QED BY <1>18, <2>1 DEF RemoveMovie, CorrectionInv, NegativeIsBeingCorrected
<1>19. ASSUME UNCHANGED <<movieRow, count, pc, seen>> PROVE CorrectionInv'
  BY <1>19 DEF CorrectionInv, NegativeIsBeingCorrected, Negative, WillCorrect
<1>20. ASSUME NEW u \in Users, RemoveUser(u) PROVE CorrectionInv'
  BY <1>19, <1>20 DEF RemoveUser
<1>21. CASE UNCHANGED vars
  BY <1>19, <1>21 DEF vars
<1> QED
  BY <1>1, <1>2, <1>3, <1>5, <1>6, <1>7, <1>8, <1>9, <1>10, <1>11, <1>12, <1>13, <1>14,
     <1>15, <1>16, <1>17, <1>18, <1>20, <1>21 DEF Next, Handle

\* However many pages toggle at once: while no request is broken off, a counter is
\* below zero only while some request is still going to write it back.
THEOREM NegativeCorrected ==
  ASSUME Breakable = {}
  PROVE  Spec => []NegativeIsBeingCorrected
<1>1. Init => CorrectionInv
  BY CorrectionInit
<1>2. CorrectionInv /\ TypeOK /\ TypeOK' /\ [Next]_vars => CorrectionInv'
  BY CorrectionStep
<1>3. CorrectionInv => NegativeIsBeingCorrected
  BY DEF CorrectionInv
<1> QED BY <1>1, <1>2, <1>3, TypeCorrect, PTL DEF Spec, Safe

\* ... so no counter is negative once every request has been answered.
COROLLARY NeverNegativeAtRest ==
  ASSUME Breakable = {}
  PROVE  Spec => [](AtRest => ~Negative(count))
<1>1. NegativeIsBeingCorrected => (AtRest => ~Negative(count))
  BY DEF NegativeIsBeingCorrected, AtRest, WillCorrect
<1> QED BY <1>1, NegativeCorrected, PTL

(***************************************************************************)
(* Every user has one page open and no request is broken off: what a       *)
(* handler has read of its user's row is still true when it writes it, so  *)
(* answers and pages are right and the counters are exact.                 *)
(***************************************************************************)

(***************************************************************************)
(* The snapshot invariant: how the locals of tab t relate to its user's    *)
(* row, as long as the movie and the user exist.                           *)
(***************************************************************************)
Present(t) == movieRow /\ UserOf[t] \in userRows

Unread  == {"idle", "findMovie", "findUser", "readRecord"}
Counting == {"drop", "add", "write", "save"}
Written == {"readResult", "readCounts", "fix", "answered"}

Snap(t) ==
  /\ pc[t] # "idle" => shown[t] # "no movie"
  /\ Present(t) =>
       /\ pc[t] \in Unread /\ shown[t] # "no movie" => shown[t] = Row(t)
       /\ pc[t] \in Counting \cup Written => shown[t] = seen[t]
       /\ pc[t] \in Counting => seen[t] = Row(t)
       /\ pc[t] = "drop" => seen[t] # "none"
       /\ pc[t] = "add"  => seen[t] # want[t]
       /\ pc[t] = "save" => seen[t] = "none" /\ loaded[t] = "none"
       /\ pc[t] \in Written => Row(t) = Toggled(seen[t], want[t])
       /\ pc[t] \in Written \ {"readResult"} => answer[t] = Row(t)

SnapInv == \A t \in Tabs : Snap(t)

\* What a step of tab t leaves alone: parent rows, other tabs, other users' rows.
StepOf(t) ==
  /\ UNCHANGED <<movieRow, userRows>>
  /\ \A r \in Tabs \ {t} :
       /\ pc'[r] = pc[r] /\ want'[r] = want[r] /\ seen'[r] = seen[r]
       /\ loaded'[r] = loaded[r] /\ answer'[r] = answer[r] /\ shown'[r] = shown[r]
  /\ \A u \in Users \ {UserOf[t]} : record'[u] = record[u]

LEMMA TabStep ==
  ASSUME TypeOK, NEW t \in Tabs,
         Reload(t) \/ Receive(t) \/ Handle(t) \/ \E s \in Sides : Click(t, s)
  PROVE  StepOf(t)
<1> USE DEF TypeOK, StepOf, Goto, db, page
<1>1. CASE Reload(t)
  BY <1>1 DEF Reload
<1>2. CASE Receive(t)
  BY <1>2 DEF Receive
<1>3. ASSUME NEW from, Throw(t, from) PROVE StepOf(t)
  BY <1>3 DEF Throw
<1>4. CASE FindMovie(t)
  BY <1>3, <1>4 DEF FindMovie
<1>5. CASE FindUser(t)
  BY <1>3, <1>5 DEF FindUser
<1>6. CASE ReadRecord(t)
  BY <1>6 DEF ReadRecord
<1>7. CASE DropOld(t)
  BY <1>7 DEF DropOld
<1>8. CASE AddNew(t)
  BY <1>8 DEF AddNew
<1>9. CASE DeleteRow(t)
  BY <1>9 DEF DeleteRow, SetRow
<1>10. CASE UpdateRow(t)
  BY <1>10 DEF UpdateRow, SetRow
<1>11. CASE LoadRow(t)
  BY <1>11 DEF LoadRow
<1>12. CASE SaveRow(t)
  <2>1. CASE Throw(t, "save")
    BY <1>3, <2>1
  <2>2. CASE ~Throw(t, "save")
    <3>1. PICK op : SetRow(t, op)
      BY <1>12, <2>2 DEF SaveRow
    <3>2. Goto(t, "save", "readResult")
          /\ UNCHANGED <<movieRow, userRows, want, seen, loaded, answer, page>>
      BY <1>12, <2>2 DEF SaveRow
    <3> QED BY <3>1, <3>2 DEF SetRow
  <2> QED BY <2>1, <2>2
<1>13. CASE ReadResult(t)
  BY <1>13 DEF ReadResult
<1>14. CASE ReadCounts(t)
  BY <1>14 DEF ReadCounts
<1>15. CASE Fix(t)
  BY <1>15 DEF Fix
<1>16. CASE \E s \in Sides : Click(t, s)
  BY <1>16 DEF Click
<1> QED
  BY <1>1, <1>2, <1>4, <1>5, <1>6, <1>7, <1>8, <1>9, <1>10, <1>11, <1>12, <1>13,
     <1>14, <1>15, <1>16 DEF Handle

\* The snapshots of the other tabs survive: their users' rows are not this tab's.
LEMMA SnapOthers ==
  ASSUME OneTabEach, NEW t \in Tabs, StepOf(t), NEW r \in Tabs \ {t}, Snap(r)
  PROVE  Snap(r)'
<1>1. UserOf[r] \in Users \ {UserOf[t]}
  BY ConstantsAssumption DEF OneTabEach
<1>2. Row(r)' = Row(r)
  BY <1>1 DEF StepOf, Row
<1> QED BY <1>2 DEF StepOf, Snap, Present, Toggled

LEMMA SnapInit == Init => SnapInv
<1> SUFFICES ASSUME Init, NEW t \in Tabs PROVE Snap(t)
  BY DEF SnapInv
<1>1. pc[t] = "idle" /\ shown[t] = Row(t)
  BY DEF Init, Row
<1> QED BY <1>1 DEF Snap, Unread, Counting, Written

\* Each step of a tab keeps its own snapshot.
LEMMA SnapOwn ==
  ASSUME Breakable = {}, TypeOK, NEW t \in Tabs, Snap(t), StepOf(t),
         Reload(t) \/ Receive(t) \/ Handle(t) \/ \E s \in Sides : Click(t, s)
  PROVE  Snap(t)'
<1> USE ConstantsAssumption DEF TypeOK, Goto, db, page, Snap, Present, Unread, Counting, Written
<1>1. CASE Reload(t)
  BY <1>1 DEF Reload, Row
<1>2. CASE Receive(t)
  <2>1. /\ pc[t] = "answered" /\ pc'[t] = "idle" /\ shown'[t] = ShownAfter(t)
        /\ UNCHANGED <<movieRow, userRows, record>>
    BY <1>2 DEF Receive
  <2>2. Row(t)' = Row(t) /\ Row(t) \in Opinions
    BY <2>1 DEF Row
  <2>3. Present(t) => answer[t] = Row(t) /\ Row(t) = Toggled(shown[t], want[t])
    BY <2>1
  <2>4. Present(t) => shown'[t] = Row(t)
    BY <2>1, <2>2, <2>3 DEF ShownAfter, Opinions, Sides
  <2> QED BY ONLY <2>1, <2>2, <2>4 DEF Snap, Present, Unread, Counting, Written
<1>3. CASE FindMovie(t)
  <2>1. CASE movieRow
    <3>1. pc[t] = "findMovie" /\ pc'[t] = "findUser"
          /\ UNCHANGED <<record, shown>>
      BY <1>3, <2>1 DEF FindMovie, MovieFound
    <3> QED BY <3>1 DEF StepOf, Row
  <2>2. CASE ~movieRow
    <3>1. UNCHANGED <<movieRow, shown>> /\ pc[t] = "findMovie"
      BY <1>3, <2>2 DEF FindMovie, MovieFound, Throw
    <3> QED BY <2>2, <3>1
  <2> QED BY <2>1, <2>2
<1>4. CASE FindUser(t)
  <2>1. CASE UserOf[t] \in userRows
    <3>1. pc[t] = "findUser" /\ pc'[t] = "readRecord"
          /\ UNCHANGED <<record, shown>>
      BY <1>4, <2>1 DEF FindUser
    <3> QED BY <3>1 DEF StepOf, Row
  <2>2. CASE UserOf[t] \notin userRows
    <3>1. UNCHANGED <<userRows, shown>> /\ pc[t] = "findUser"
      BY <1>4, <2>2 DEF FindUser, Throw
    <3> QED BY <2>2, <3>1
  <2> QED BY <2>1, <2>2
<1>5. CASE ReadRecord(t)
  BY <1>5, Names DEF ReadRecord, LikedRecord, Row, Sides
<1>6. CASE DropOld(t)
  BY <1>6 DEF DropOld, Row
<1>7. CASE AddNew(t)
  BY <1>7 DEF AddNew, Row
<1>8. CASE DeleteRow(t)
  BY <1>8 DEF DeleteRow, SetRow, Row, Toggled
<1>9. CASE UpdateRow(t)
  BY <1>9 DEF UpdateRow, SetRow, Switched, Row, Toggled, Other, Sides
<1>10. CASE LoadRow(t)
  BY <1>10 DEF LoadRow, Row
<1>11. CASE SaveRow(t)
  <2>1. CASE Throw(t, "save")
    BY <1>11, <2>1 DEF SaveRow, Throw, Row
  <2>2. CASE ~Throw(t, "save")
    <3>1. /\ pc[t] = "save" /\ pc'[t] = "readResult"
          /\ UNCHANGED <<movieRow, userRows, want, seen, shown>>
      BY <1>11, <2>2 DEF SaveRow
    <3>2. Present(t) => Row(t)' = want[t] /\ seen[t] = "none" /\ want[t] # "none"
      BY <1>11, <2>2 DEF SaveRow, SetRow, Row, Sides
    <3>3. Present(t) => shown[t] = seen[t]
      BY <3>1
    <3> QED BY <3>1, <3>2, <3>3 DEF Toggled
  <2> QED BY <2>1, <2>2
<1>12. CASE ReadResult(t)
  BY <1>12 DEF ReadResult, Result, Row
<1>13. CASE ReadCounts(t)
  BY <1>13 DEF ReadCounts, Row
<1>14. CASE Fix(t)
  BY <1>14 DEF Fix, Row
<1>15. CASE \E s \in Sides : Click(t, s)
  <2>1. /\ pc[t] = "idle" /\ pc'[t] = "findMovie" /\ shown[t] # "no movie"
        /\ UNCHANGED <<movieRow, userRows, record, shown>>
    BY <1>15 DEF Click
  <2> QED BY <2>1 DEF Row
<1> QED
  BY <1>1, <1>2, <1>3, <1>4, <1>5, <1>6, <1>7, <1>8, <1>9, <1>10, <1>11, <1>12, <1>13,
     <1>14, <1>15 DEF Handle

LEMMA SnapStep ==
  ASSUME OneTabEach, Breakable = {}, TypeOK, SnapInv, [Next]_vars
  PROVE  SnapInv'
<1>1. ASSUME NEW t \in Tabs,
             Reload(t) \/ Receive(t) \/ Handle(t) \/ \E s \in Sides : Click(t, s)
      PROVE  SnapInv'
  <2>1. StepOf(t)
    BY <1>1, TabStep
  <2>2. Snap(t)'
    BY <1>1, <2>1, SnapOwn DEF SnapInv
  <2>3. \A r \in Tabs \ {t} : Snap(r)'
    BY <2>1, SnapOthers DEF SnapInv
  <2> QED BY <2>2, <2>3 DEF SnapInv
<1>2. ASSUME NEW t \in Tabs, Break(t) PROVE SnapInv'
  BY <1>2 DEF Break
<1>3. CASE RemoveMovie
  BY <1>3 DEF RemoveMovie, SnapInv, Snap, Present, page
<1>4. ASSUME NEW u \in Users, RemoveUser(u) PROVE SnapInv'
  <2> SUFFICES ASSUME NEW t \in Tabs PROVE Snap(t)'
    BY DEF SnapInv
  <2>1. UNCHANGED <<movieRow, pc, want, seen, loaded, answer, shown>>
    BY <1>4 DEF RemoveUser, page
  <2>2. Present(t)' => Present(t) /\ Row(t)' = Row(t)
    BY <1>4, ConstantsAssumption DEF RemoveUser, Present, Row, TypeOK
  <2>3. Snap(t)
    BY DEF SnapInv
  <2> QED BY <2>1, <2>2, <2>3 DEF Snap, Toggled
<1>5. CASE UNCHANGED vars
  BY <1>5 DEF vars, db, page, SnapInv, Snap, Present, Row, Toggled
<1> QED BY <1>1, <1>2, <1>3, <1>4, <1>5 DEF Next

LEMMA SnapAlways ==
  ASSUME OneTabEach, Breakable = {}
  PROVE  Spec => []SnapInv
<1>1. TypeOK /\ SnapInv /\ [Next]_vars => SnapInv'
  BY SnapStep
<1> QED BY <1>1, SnapInit, TypeCorrect, PTL DEF Spec, Safe

\* With one page per user the response names the row the click left behind.
THEOREM AnswerCorrect ==
  ASSUME OneTabEach, Breakable = {}
  PROVE  Spec => []AnswerIsToggle
<1>1. SnapInv => AnswerIsToggle
  BY DEF SnapInv, Snap, Present, AnswerIsToggle, Written
<1> QED BY <1>1, SnapAlways, PTL

\* A toggle answers an error only for a movie or a user that is gone.
THEOREM ErrorsExplained ==
  ASSUME OneTabEach, Breakable = {}
  PROVE  Spec => []ErrorOnlyWhenGone
<1>1. TypeOK /\ SnapInv => ErrorOnlyWhenGone
  <2> SUFFICES ASSUME TypeOK, SnapInv, NEW t \in Tabs, pc[t] = "answered",
                      answer[t] = "error", Present(t)
               PROVE  FALSE
    BY DEF ErrorOnlyWhenGone, Present
  <2>1. answer[t] = Row(t)
    BY DEF SnapInv, Snap, Written
  <2>2. Row(t) \in Opinions
    BY ConstantsAssumption DEF Row, TypeOK
  <2> QED BY <2>1, <2>2 DEF Opinions, Sides
<1> QED BY <1>1, SnapAlways, TypeCorrect, PTL

\* A page that waits for nothing shows its user's row.
THEOREM PageCorrect ==
  ASSUME OneTabEach, Breakable = {}
  PROVE  Spec => []ShownMatchesRow
<1>1. SnapInv => ShownMatchesRow
  BY DEF SnapInv, Snap, Present, ShownMatchesRow, Unread
<1> QED BY <1>1, SnapAlways, PTL

(***************************************************************************)
(* The counters.  Own(t, s): the user of tab t is counted on side s.  A    *)
(* step of t changes nobody else's membership, so each counter has to      *)
(* follow one membership only.                                             *)
(***************************************************************************)
Own(t, s) ==
  \/ pc[t] \in {"write", "save"} /\ want[t] = s /\ seen[t] # s
  \/ pc[t] \notin {"add", "write", "save"} /\ Row(t) = s

\* Two sets of users that differ in one user at most.
LEMMA OneMember ==
  ASSUME NEW S \in SUBSET Users, NEW T \in SUBSET Users, NEW u \in Users,
         \A v \in Users \ {u} : v \in T <=> v \in S
  PROVE  /\ Cardinality(S) \in Nat
         /\ Cardinality(T) = IF u \in T /\ u \notin S THEN Cardinality(S) + 1
                             ELSE IF u \in S /\ u \notin T THEN Cardinality(S) - 1
                             ELSE Cardinality(S)
<1>1. IsFiniteSet(S) /\ Cardinality(S) \in Nat
  BY ConstantsAssumption, FS_Subset, FS_CardinalityType
<1>2. CASE u \in T
  <2>1. T = S \cup {u}
    BY <1>2
  <2> QED BY <1>1, <1>2, <2>1, FS_AddElement
<1>3. CASE u \notin T
  <2>1. T = S \ {u}
    BY <1>3
  <2> QED BY <1>1, <1>3, <2>1, FS_RemoveElement
<1> QED BY <1>2, <1>3

LEMMA FewerUsers ==
  ASSUME NEW S, NEW T \in SUBSET Users, S \subseteq T
  PROVE  Cardinality(S) \in Nat /\ Cardinality(T) \in Nat /\ Cardinality(S) <= Cardinality(T)
BY ConstantsAssumption, FS_Subset, FS_CardinalityType

LEMMA CountedFinite ==
  ASSUME NEW s
  PROVE  Counted(s) \subseteq Users /\ IsFiniteSet(Counted(s)) /\ Cardinality(Counted(s)) \in Nat
<1>1. Counted(s) \in SUBSET Users
  BY DEF Counted
<1> QED BY <1>1, ConstantsAssumption, FS_Subset, FS_CardinalityType

LEMMA OwnMember ==
  ASSUME OneTabEach, NEW t \in Tabs, NEW s
  PROVE  UserOf[t] \in Counted(s) <=> Own(t, s)
<1>1. \A r \in Tabs : UserOf[r] = UserOf[t] => r = t
  BY DEF OneTabEach
<1> QED BY <1>1, ConstantsAssumption DEF Counted, Own, Ahead, Moving, Row

LEMMA OthersCounted ==
  ASSUME OneTabEach, NEW t \in Tabs, StepOf(t), NEW s, NEW u \in Users \ {UserOf[t]}
  PROVE  u \in Counted(s)' <=> u \in Counted(s)
<1>1. \A r \in Tabs : UserOf[r] = u => pc'[r] = pc[r] /\ want'[r] = want[r] /\ seen'[r] = seen[r]
  BY DEF StepOf
<1>2. record'[u] = record[u]
  BY DEF StepOf
<1> QED BY <1>1, <1>2 DEF Counted, Ahead, Moving

\* One membership at most changes, and the cardinality with it.
LEMMA CountedStep ==
  ASSUME OneTabEach, NEW t \in Tabs, StepOf(t), NEW s
  PROVE  Cardinality(Counted(s)') =
           IF Own(t, s)' /\ ~Own(t, s) THEN Cardinality(Counted(s)) + 1
           ELSE IF Own(t, s) /\ ~Own(t, s)' THEN Cardinality(Counted(s)) - 1
           ELSE Cardinality(Counted(s))
<1> DEFINE u == UserOf[t]
           S == Counted(s)
           T == Counted(s)'
<1>1. u \in S <=> Own(t, s)
  BY OwnMember
<1>2. u \in T <=> Own(t, s)'
  <2>1. \A r \in Tabs : UserOf[r] = UserOf[t] => r = t
    BY DEF OneTabEach
  <2> QED BY <2>1, ConstantsAssumption DEF Counted, Own, Ahead, Moving, Row
<1>3. \A v \in Users \ {u} : v \in T <=> v \in S
  BY OthersCounted
<1>4. S \in SUBSET Users /\ T \in SUBSET Users /\ u \in Users
  BY ConstantsAssumption DEF Counted
<1> HIDE DEF u, S, T
<1>5. Cardinality(T) = IF u \in T /\ u \notin S THEN Cardinality(S) + 1
                       ELSE IF u \in S /\ u \notin T THEN Cardinality(S) - 1
                       ELSE Cardinality(S)
  BY <1>3, <1>4, OneMember
<1> QED BY <1>1, <1>2, <1>5 DEF u, S, T

LedgerInv ==
  /\ LedgerExact
  /\ \A t \in Tabs : pc[t] = "fix" => ~Intact

LEMMA LedgerInit == Init => LedgerInv
<1> SUFFICES ASSUME Init PROVE LedgerInv
  OBVIOUS
<1>1. \A t \in Tabs : pc[t] = "idle"
  BY DEF Init
<1>2. ASSUME NEW s \in Sides PROVE count[s] = Cardinality(Counted(s))
  <2>1. Counted(s) = {u \in Users : record[u] = s}
    BY <1>1 DEF Counted, Ahead, Moving
  <2> QED BY <2>1 DEF Init, RowTally
<1> QED BY <1>1, <1>2 DEF LedgerInv, LedgerExact

\* What a step of tab t must do to the counters while nothing is deleted.
Follows(t) ==
  Intact => \A s \in Sides :
    count'[s] = IF Own(t, s)' /\ ~Own(t, s) THEN count[s] + 1
                ELSE IF Own(t, s) /\ ~Own(t, s)' THEN count[s] - 1
                ELSE count[s]

LEMMA LedgerFollows ==
  ASSUME OneTabEach, NEW t \in Tabs, StepOf(t), Follows(t), LedgerExact
  PROVE  LedgerExact'
<1> SUFFICES ASSUME Intact', NEW s \in Sides PROVE count'[s] = Cardinality(Counted(s)')
  BY DEF LedgerExact
<1>1. Intact
  BY DEF StepOf, Intact
<1>2. count[s] = Cardinality(Counted(s))
  BY <1>1 DEF LedgerExact
<1> QED BY <1>1, <1>2, CountedStep DEF Follows

LEMMA FollowsOwn ==
  ASSUME Breakable = {}, TypeOK, SnapInv, LedgerInv, NEW t \in Tabs, StepOf(t),
         Reload(t) \/ Receive(t) \/ Handle(t) \/ \E s \in Sides : Click(t, s)
  PROVE  Follows(t)
<1> SUFFICES ASSUME Intact PROVE Follows(t)
  BY DEF Follows
<1> USE ConstantsAssumption DEF Goto, db, page
<1>1. Snap(t) /\ Present(t)
  BY DEF SnapInv, Intact, Present
<1>2. ASSUME count' = count, Row(t)' = Row(t),
             pc[t] \notin {"add", "write", "save"}, pc'[t] \notin {"add", "write", "save"}
      PROVE  Follows(t)
  BY <1>2 DEF Follows, Own
<1>4. CASE Reload(t)
  BY <1>2, <1>4 DEF Reload, Row, TypeOK
<1>5. CASE Receive(t)
  BY <1>2, <1>5 DEF Receive, Row, TypeOK
<1>6. CASE FindMovie(t)
  BY <1>2, <1>6 DEF FindMovie, Throw, Row, TypeOK
<1>7. CASE FindUser(t)
  BY <1>2, <1>7 DEF FindUser, Throw, Row, TypeOK
<1>8. CASE ReadRecord(t)
  BY <1>8, Names DEF ReadRecord, LikedRecord, Row, TypeOK, Follows, Own, Sides
<1>9. CASE DropOld(t)
  <2>1. /\ pc[t] = "drop" /\ Row(t)' = Row(t) /\ Row(t) = seen[t] /\ seen[t] \in Sides
        /\ pc'[t] = IF seen[t] = want[t] THEN "write" ELSE "add"
        /\ seen'[t] = seen[t] /\ want'[t] = want[t]
    BY <1>1, <1>9 DEF DropOld, Row, Snap, Counting, TypeOK, Opinions
  <2>2. count' = [count EXCEPT ![seen[t]] = @ - 1]
    BY <1>9 DEF DropOld, Bump, Dropped, Intact, TypeOK
  <2>3. \A s \in Sides : count'[s] = IF s = seen[t] THEN count[s] - 1 ELSE count[s]
    BY <2>2 DEF TypeOK
  <2>4. \A s \in Sides : (Own(t, s) <=> s = seen[t]) /\ ~Own(t, s)'
    BY <2>1 DEF Own
  <2> QED BY <2>3, <2>4 DEF Follows
<1>10. CASE AddNew(t)
  <2>1. /\ pc[t] = "add" /\ pc'[t] = "write" /\ seen[t] # want[t]
        /\ seen'[t] = seen[t] /\ want'[t] = want[t] /\ want[t] \in Sides
    BY <1>1, <1>10 DEF AddNew, Snap, TypeOK
  <2>2. count' = [count EXCEPT ![want[t]] = @ + 1]
    BY <1>10 DEF AddNew, Bump, Added, Intact
  <2>3. \A s \in Sides : count'[s] = IF s = want[t] THEN count[s] + 1 ELSE count[s]
    BY <2>2 DEF TypeOK
  <2>4. \A s \in Sides : ~Own(t, s) /\ (Own(t, s)' <=> s = want[t])
    BY <2>1 DEF Own
  <2> QED BY <2>3, <2>4 DEF Follows
<1>11. ASSUME count' = count, \A s \in Sides : Own(t, s)' <=> Own(t, s) PROVE Follows(t)
  BY <1>11 DEF Follows
<1>12. CASE DeleteRow(t)
  <2>1. /\ pc[t] = "write" /\ pc'[t] = "readResult" /\ seen[t] = want[t]
        /\ Row(t)' = "none" /\ count' = count
    BY <1>12 DEF DeleteRow, SetRow, Row, TypeOK
  <2> QED BY <1>11, <2>1 DEF Own, Sides
<1>13. CASE UpdateRow(t)
  <2>1. /\ pc[t] = "write" /\ pc'[t] = "readResult" /\ seen[t] = Other(want[t])
        /\ Row(t) = seen[t] /\ count' = count /\ want[t] \in Sides
    BY <1>1, <1>13 DEF UpdateRow, Snap, Counting, TypeOK
  <2>2. Row(t)' = want[t]
    BY <1>13, <2>1 DEF UpdateRow, SetRow, Row, Switched, TypeOK, Other, Sides
  <2> QED BY <1>11, <2>1, <2>2 DEF Own, Other, Sides
<1>14. CASE LoadRow(t)
  <2>1. /\ pc[t] = "write" /\ pc'[t] = "save" /\ count' = count
        /\ seen'[t] = seen[t] /\ want'[t] = want[t]
    BY <1>14 DEF LoadRow, TypeOK
  <2> QED BY <1>11, <2>1 DEF Own
<1>15. CASE SaveRow(t)
  <2>1. Row(t) = "none" /\ seen[t] = "none" /\ loaded[t] = "none" /\ pc[t] = "save"
    BY <1>1, <1>15 DEF SaveRow, Throw, Snap, Counting
  <2>2. pc'[t] = "readResult" /\ Row(t)' = want[t] /\ count' = count /\ want[t] \in Sides
    BY <1>1, <1>15, <2>1 DEF SaveRow, SetRow, Row, TypeOK, Present
  <2> QED BY <1>11, <2>1, <2>2 DEF Own, Sides
<1>16. CASE ReadResult(t)
  BY <1>2, <1>16 DEF ReadResult, Row, TypeOK
<1>17. CASE ReadCounts(t)
  BY <1>2, <1>17 DEF ReadCounts, Row, TypeOK
<1>18. CASE Fix(t)
  BY <1>18 DEF Fix, LedgerInv
<1>19. CASE \E s \in Sides : Click(t, s)
  BY <1>2, <1>19 DEF Click, Row, TypeOK
<1> QED
  BY <1>4, <1>5, <1>6, <1>7, <1>8, <1>9, <1>10, <1>12, <1>13, <1>14, <1>15, <1>16, <1>17,
     <1>18, <1>19 DEF Handle

\* No correction is under way while nothing is deleted: no counter is negative.
LEMMA NoFix ==
  ASSUME TypeOK, LedgerInv, NEW t \in Tabs, StepOf(t),
         Reload(t) \/ Receive(t) \/ Handle(t) \/ \E s \in Sides : Click(t, s)
  PROVE  \A r \in Tabs : pc'[r] = "fix" => ~Intact'
<1> SUFFICES ASSUME NEW r \in Tabs, pc'[r] = "fix", Intact PROVE FALSE
  BY DEF StepOf, Intact
<1>1. pc[r] # "fix"
  BY DEF LedgerInv
<1>2. r = t
  BY <1>1 DEF StepOf
<1>3. ReadCounts(t) /\ NeedsFix
  BY <1>1, <1>2 DEF Reload, Receive, Click, Handle, FindMovie, FindUser, ReadRecord, DropOld,
     AddNew, DeleteRow, UpdateRow, LoadRow, SaveRow, ReadResult, ReadCounts, Fix, Throw,
     Goto, TypeOK
<1>4. PICK s \in Sides : count[s] < 0
  BY <1>3 DEF NeedsFix, Negative
<1>5. count[s] = Cardinality(Counted(s)) /\ Cardinality(Counted(s)) \in Nat
  BY CountedFinite DEF LedgerInv, LedgerExact
<1> QED BY ONLY <1>4, <1>5

LEMMA LedgerStep ==
  ASSUME OneTabEach, Breakable = {}, TypeOK, SnapInv, LedgerInv, [Next]_vars
  PROVE  LedgerInv'
<1>1. ASSUME NEW t \in Tabs,
             Reload(t) \/ Receive(t) \/ Handle(t) \/ \E s \in Sides : Click(t, s)
      PROVE  LedgerInv'
  <2>1. StepOf(t)
    BY <1>1, TabStep
  <2>2. Follows(t)
    BY <1>1, <2>1, FollowsOwn
  <2>3. LedgerExact'
    BY <2>1, <2>2, LedgerFollows DEF LedgerInv
  <2>4. \A r \in Tabs : pc'[r] = "fix" => ~Intact'
    BY <1>1, <2>1, NoFix
  <2> QED BY <2>3, <2>4 DEF LedgerInv
<1>2. ASSUME NEW t \in Tabs, Break(t) PROVE LedgerInv'
  BY <1>2 DEF Break
<1>3. ASSUME ~Intact' PROVE LedgerInv'
  BY <1>3 DEF LedgerInv, LedgerExact
<1>4. CASE RemoveMovie
  BY <1>3, <1>4 DEF RemoveMovie, Intact
<1>5. ASSUME NEW u \in Users, RemoveUser(u) PROVE LedgerInv'
  BY <1>3, <1>5 DEF RemoveUser, Intact
<1>6. CASE UNCHANGED vars
  <2>1. UNCHANGED <<movieRow, userRows, count, record, pc, want, seen>>
    BY <1>6 DEF vars, db
  <2>2. \A s \in Sides : Counted(s)' = Counted(s)
    BY <2>1 DEF Counted, Ahead, Moving
  <2> QED BY <2>1, <2>2 DEF LedgerInv, LedgerExact, Intact
<1> QED BY <1>1, <1>2, <1>4, <1>5, <1>6 DEF Next

\* The main theorem: with one page per user, and until a row is deleted, likeCount and
\* dislikeCount equal the opinions they stand for in every state of every behaviour.
THEOREM LedgerIsExact ==
  ASSUME OneTabEach, Breakable = {}
  PROVE  Spec => []LedgerExact
<1>1. TypeOK /\ SnapInv /\ LedgerInv /\ [Next]_vars => LedgerInv'
  BY LedgerStep
<1>2. LedgerInv => LedgerExact
  BY DEF LedgerInv
<1> QED BY <1>1, <1>2, LedgerInit, SnapAlways, TypeCorrect, PTL DEF Spec, Safe

\* ... and between requests they are the row counts of task.service.ts.
COROLLARY CountsMatch ==
  ASSUME OneTabEach, Breakable = {}
  PROVE  Spec => []CountsMatchAtRest
<1>1. LedgerExact => CountsMatchAtRest
  <2> SUFFICES ASSUME LedgerExact, Intact, AtRest, NEW s \in Sides PROVE count[s] = RowTally(s)
    BY DEF CountsMatchAtRest
  <2>1. Counted(s) = {u \in Users : record[u] = s}
    BY DEF AtRest, Counted, Ahead, Moving
  <2> QED BY <2>1 DEF LedgerExact, RowTally
<1> QED BY <1>1, LedgerIsExact, PTL

(***************************************************************************)
(* How a row moves, when requests may be broken off at any statement.      *)
(***************************************************************************)

\* What a handler has read of the row, from the branch to the statement that writes it.
Fresh(t) ==
  Present(t) /\ pc[t] \in Counting =>
    /\ seen[t] = Row(t)
    /\ pc[t] = "save" => seen[t] = "none" /\ loaded[t] = "none"

FreshInv == \A t \in Tabs : Fresh(t)

LEMMA FreshInit == Init => FreshInv
BY DEF Init, FreshInv, Fresh, Counting

LEMMA FreshOthers ==
  ASSUME OneTabEach, NEW t \in Tabs, StepOf(t), NEW r \in Tabs \ {t}, Fresh(r)
  PROVE  Fresh(r)'
<1>1. UserOf[r] \in Users \ {UserOf[t]}
  BY ConstantsAssumption DEF OneTabEach
<1>2. Row(r)' = Row(r)
  BY <1>1 DEF StepOf, Row
<1> QED BY <1>2 DEF StepOf, Fresh, Present

LEMMA FreshOwn ==
  ASSUME TypeOK, NEW t \in Tabs, Fresh(t), StepOf(t),
         Reload(t) \/ Receive(t) \/ Handle(t) \/ \E s \in Sides : Click(t, s)
  PROVE  Fresh(t)'
<1> USE ConstantsAssumption DEF TypeOK, Goto, db, page, Fresh, Present, Counting
<1>1. CASE pc'[t] \notin Counting
  BY <1>1
<1>2. CASE ReadRecord(t)
  BY <1>2 DEF ReadRecord, LikedRecord, Row
<1>3. CASE DropOld(t)
  BY <1>3 DEF DropOld, Row
<1>4. CASE AddNew(t)
  BY <1>4 DEF AddNew, Row
<1>5. CASE LoadRow(t)
  BY <1>5 DEF LoadRow, Row
<1>6. ASSUME NEW from \in Stages, Throw(t, from) PROVE pc'[t] \notin Counting
  BY <1>6 DEF Throw
<1>7. CASE FindMovie(t) \/ FindUser(t) \/ DeleteRow(t) \/ UpdateRow(t) \/ SaveRow(t)
  BY <1>1, <1>6, <1>7, Names DEF FindMovie, FindUser, DeleteRow, UpdateRow, SaveRow
<1>8. CASE ReadResult(t) \/ ReadCounts(t) \/ Fix(t)
  BY <1>1, <1>8 DEF ReadResult, ReadCounts, Fix
<1>9. CASE Reload(t) \/ Receive(t) \/ \E s \in Sides : Click(t, s)
  BY <1>1, <1>9 DEF Reload, Receive, Click
<1> QED BY <1>2, <1>3, <1>4, <1>5, <1>7, <1>8, <1>9 DEF Handle

\* The tab steps, and the rest of what may happen.
LEMMA BreakStep ==
  ASSUME TypeOK, NEW t \in Tabs, Break(t)
  PROVE  StepOf(t) /\ pc'[t] = "answered" /\ UNCHANGED <<db, want, seen, loaded, updated, page>>
BY DEF Break, Throw, Goto, StepOf, TypeOK, db, page

LEMMA FreshStep ==
  ASSUME OneTabEach, TypeOK, FreshInv, [Next]_vars
  PROVE  FreshInv'
<1>1. ASSUME NEW t \in Tabs, StepOf(t), Fresh(t)' PROVE FreshInv'
  BY <1>1, FreshOthers DEF FreshInv
<1>2. ASSUME NEW t \in Tabs,
             Reload(t) \/ Receive(t) \/ Handle(t) \/ \E s \in Sides : Click(t, s)
      PROVE  FreshInv'
  BY <1>1, <1>2, TabStep, FreshOwn DEF FreshInv
<1>3. ASSUME NEW t \in Tabs, Break(t) PROVE FreshInv'
  BY <1>1, <1>3, BreakStep DEF Fresh, Counting
<1>4. CASE RemoveMovie
  BY <1>4 DEF RemoveMovie, FreshInv, Fresh, Present
<1>5. ASSUME NEW u \in Users, RemoveUser(u) PROVE FreshInv'
  <2> SUFFICES ASSUME NEW t \in Tabs PROVE Fresh(t)'
    BY DEF FreshInv
  <2>1. Present(t)' => Present(t) /\ Row(t)' = Row(t)
    BY <1>5, ConstantsAssumption DEF RemoveUser, Present, Row, TypeOK
  <2> QED BY <1>5, <2>1 DEF RemoveUser, FreshInv, Fresh
<1>6. CASE UNCHANGED vars
  BY <1>6 DEF vars, db, page, FreshInv, Fresh, Present, Row
<1> QED BY <1>2, <1>3, <1>4, <1>5, <1>6 DEF Next

\* A row that is there before and after a step has been moved by its own tab's write.
RowMoves ==
  \A t \in Tabs : Row(t)' # Row(t) /\ movieRow' /\ UserOf[t] \in userRows'
    => pc'[t] = "readResult" /\ Row(t) = seen[t] /\ Row(t)' = Toggled(seen[t], want[t])

LEMMA RowMovesStep ==
  ASSUME OneTabEach, TypeOK, FreshInv, [Next]_vars
  PROVE  RowMoves
<1>1. ASSUME NEW t \in Tabs, StepOf(t), NEW r \in Tabs, r # t PROVE Row(r)' = Row(r)
  <2>1. UserOf[r] \in Users \ {UserOf[t]}
    BY <1>1, ConstantsAssumption DEF OneTabEach
  <2> QED BY <1>1, <2>1 DEF StepOf, Row
<1>2. ASSUME UNCHANGED record PROVE RowMoves
  BY <1>2 DEF RowMoves, Row
<1>3. ASSUME NEW t \in Tabs, StepOf(t),
             Present(t) /\ Row(t)' # Row(t) =>
               pc'[t] = "readResult" /\ Row(t) = seen[t] /\ Row(t)' = Toggled(seen[t], want[t])
      PROVE  RowMoves
  BY <1>1, <1>3 DEF RowMoves, Present, StepOf
<1>4. ASSUME NEW t \in Tabs, Break(t) PROVE RowMoves
  BY <1>2, <1>4, BreakStep DEF db
<1>5. ASSUME NEW t \in Tabs, DeleteRow(t) \/ UpdateRow(t) \/ SaveRow(t) PROVE RowMoves
  <2> USE DEF Goto, TypeOK
  <2>1. StepOf(t) /\ Fresh(t) /\ UserOf[t] \in Users
    BY <1>5, TabStep, ConstantsAssumption DEF Handle, FreshInv
  <2>2. CASE DeleteRow(t)
    BY <1>3, <2>1, <2>2 DEF DeleteRow, SetRow, Row, Fresh, Counting, Toggled
  <2>3. CASE UpdateRow(t)
    <3>1. pc[t] = "write" /\ pc'[t] = "readResult" /\ seen[t] = Other(want[t])
      BY <2>3 DEF UpdateRow
    <3>2. Other(want[t]) # want[t] /\ Other(want[t]) # "none"
      BY DEF Other, Sides
    <3>3. Present(t) => seen[t] = Row(t)
      BY <2>1, <3>1 DEF Fresh, Counting
    <3>4. Present(t) => Row(t)' = want[t]
      BY <2>1, <2>3, <3>1, <3>2, <3>3 DEF UpdateRow, SetRow, Row, Switched
    <3> QED BY <1>3, <2>1, <3>1, <3>2, <3>3, <3>4 DEF Toggled
  <2>4. CASE SaveRow(t)
    <3>1. CASE Throw(t, "save")
      BY <1>2, <3>1 DEF Throw, db
    <3>2. CASE ~Throw(t, "save")
      <4>1. pc[t] = "save" /\ pc'[t] = "readResult"
        BY <2>4, <3>2 DEF SaveRow
      <4>2. Present(t) => Row(t) = "none" /\ seen[t] = "none" /\ loaded[t] = "none"
        BY <2>1, <4>1 DEF Fresh, Counting
      <4>3. Present(t) => Row(t)' = want[t] /\ want[t] # "none"
        BY <2>1, <2>4, <3>2, <4>2 DEF SaveRow, SetRow, Row, Sides
      <4> QED BY <1>3, <2>1, <4>1, <4>2, <4>3 DEF Toggled
    <3> QED BY <3>1, <3>2
  <2> QED BY <1>5, <2>2, <2>3, <2>4
<1>6. ASSUME NEW t \in Tabs, Reload(t) \/ Receive(t) \/ FindMovie(t) \/ FindUser(t)
                             \/ ReadRecord(t) \/ DropOld(t) \/ AddNew(t) \/ LoadRow(t)
      PROVE  RowMoves
  BY <1>2, <1>6 DEF Reload, Receive, FindMovie, FindUser, ReadRecord, DropOld, AddNew,
     LoadRow, Throw, db
<1>7. ASSUME NEW t \in Tabs, ReadResult(t) \/ ReadCounts(t) \/ Fix(t)
                             \/ \E s \in Sides : Click(t, s)
      PROVE  RowMoves
  BY <1>2, <1>7 DEF ReadResult, ReadCounts, Fix, Click, db
<1>8. CASE RemoveMovie
  BY <1>8 DEF RemoveMovie, RowMoves
<1>9. ASSUME NEW u \in Users, RemoveUser(u) PROVE RowMoves
  BY <1>9, ConstantsAssumption DEF RemoveUser, RowMoves, Row, TypeOK
<1>10. CASE UNCHANGED vars
  BY <1>2, <1>10 DEF vars, db
<1> QED BY <1>4, <1>5, <1>6, <1>7, <1>8, <1>9, <1>10 DEF Next, Handle

\* However requests die, the row of a user with one page moves only from the opinion
\* its handler has read to what the click makes of it.
THEOREM RowMovesOnlyAsClicked ==
  ASSUME OneTabEach
  PROVE  Spec => RowMovesAsClicked
<1>1. TypeOK /\ FreshInv /\ [Next]_vars => FreshInv'
  BY FreshStep
<1>2. Spec => []FreshInv
  BY <1>1, FreshInit, TypeCorrect, PTL DEF Spec, Safe
<1>3. TypeOK /\ FreshInv /\ [Next]_vars => [RowMoves]_vars
  BY RowMovesStep
<1>4. Spec => [][RowMoves]_vars
  BY <1>2, <1>3, TypeCorrect, PTL DEF Spec, Safe
<1> QED BY <1>4 DEF RowMoves, RowMovesAsClicked

(***************************************************************************)
(* Deleting users leaves no counter too low.  A user whose row a deletion  *)
(* has taken is still owed the decrement of a toggle that has read it.     *)
(***************************************************************************)
Owed(s) == {u \in Users :
  \/ \E t \in Tabs : UserOf[t] = u /\ pc[t] = "drop" /\ seen[t] = s
  \/ \E t \in Tabs : Ahead(t, u, s)
  \/ record[u] = s /\ \A t \in Tabs : UserOf[t] = u => pc[t] \notin Counting}

\* The same, of the user of one tab.
Owes(t, s) ==
  \/ pc[t] = "drop" /\ seen[t] = s
  \/ pc[t] \in {"write", "save"} /\ want[t] = s /\ seen[t] # s
  \/ pc[t] \notin Counting /\ Row(t) = s

Orphaned == \A u \in Users \ userRows : record[u] = "none"

OwedInv ==
  /\ movieRow => \A s \in Sides : count[s] >= Cardinality(Owed(s))
  /\ \A t \in Tabs : pc[t] = "fix" => ~movieRow
  /\ Orphaned

LEMMA OwesMember ==
  ASSUME OneTabEach, NEW t \in Tabs, NEW s
  PROVE  UserOf[t] \in Owed(s) <=> Owes(t, s)
<1>1. \A r \in Tabs : UserOf[r] = UserOf[t] => r = t
  BY DEF OneTabEach
<1> QED BY <1>1, ConstantsAssumption DEF Owed, Owes, Ahead, Row

LEMMA OwedStep ==
  ASSUME OneTabEach, NEW t \in Tabs, StepOf(t), NEW s
  PROVE  /\ Cardinality(Owed(s)) \in Nat
         /\ Cardinality(Owed(s)') = IF Owes(t, s)' /\ ~Owes(t, s) THEN Cardinality(Owed(s)) + 1
                                    ELSE IF Owes(t, s) /\ ~Owes(t, s)' THEN Cardinality(Owed(s)) - 1
                                    ELSE Cardinality(Owed(s))
<1> DEFINE u == UserOf[t]
           S == Owed(s)
           T == Owed(s)'
<1>1. u \in S <=> Owes(t, s)
  BY OwesMember
<1>2. u \in T <=> Owes(t, s)'
  <2>1. \A r \in Tabs : UserOf[r] = UserOf[t] => r = t
    BY DEF OneTabEach
  <2> QED BY <2>1, ConstantsAssumption DEF Owed, Owes, Ahead, Row
<1>3. ASSUME NEW v \in Users \ {u} PROVE v \in T <=> v \in S
  <2>1. \A r \in Tabs : UserOf[r] = v => pc'[r] = pc[r] /\ want'[r] = want[r] /\ seen'[r] = seen[r]
    BY DEF StepOf
  <2>2. record'[v] = record[v]
    BY DEF StepOf
  <2> QED BY <2>1, <2>2 DEF Owed, Ahead
<1>4. S \in SUBSET Users /\ T \in SUBSET Users /\ u \in Users
  BY ConstantsAssumption DEF Owed
<1> HIDE DEF u, S, T
<1>5. /\ Cardinality(S) \in Nat
      /\ Cardinality(T) = IF u \in T /\ u \notin S THEN Cardinality(S) + 1
                          ELSE IF u \in S /\ u \notin T THEN Cardinality(S) - 1
                          ELSE Cardinality(S)
  BY <1>3, <1>4, OneMember
<1> QED BY <1>1, <1>2, <1>5 DEF u, S, T

LEMMA OwedInit == Init => OwedInv
<1> SUFFICES ASSUME Init PROVE OwedInv
  OBVIOUS
<1>1. \A t \in Tabs : pc[t] = "idle"
  BY DEF Init
<1>2. ASSUME NEW s \in Sides PROVE count[s] >= Cardinality(Owed(s))
  <2>1. Owed(s) = {u \in Users : record[u] = s}
    BY <1>1 DEF Owed, Ahead, Counting
  <2>2. count[s] = RowTally(s) /\ RowTally(s) \in Nat
    BY TallyType DEF Init
  <2> QED BY <2>1, <2>2 DEF RowTally
<1> QED BY <1>1, <1>2 DEF OwedInv, Orphaned, Init

\* What a step of tab t must leave in the counters.
Covers(t) ==
  movieRow => \A s \in Sides :
    count'[s] >= IF Owes(t, s)' /\ ~Owes(t, s) THEN count[s] + 1
                 ELSE IF Owes(t, s) /\ ~Owes(t, s)' THEN count[s] - 1
                 ELSE count[s]

LEMMA CoversKeeps ==
  ASSUME OneTabEach, TypeOK, TypeOK', NEW t \in Tabs, StepOf(t), Covers(t), OwedInv, movieRow,
         NEW s \in Sides
  PROVE  count'[s] >= Cardinality(Owed(s)')
<1>1. count[s] >= Cardinality(Owed(s)) /\ count[s] \in Int /\ count'[s] \in Int
  BY DEF OwedInv, TypeOK
<1>2. count'[s] >= IF Owes(t, s)' /\ ~Owes(t, s) THEN count[s] + 1
                   ELSE IF Owes(t, s) /\ ~Owes(t, s)' THEN count[s] - 1
                   ELSE count[s]
  BY DEF Covers
<1> QED BY <1>1, <1>2, OwedStep

LEMMA CoversOwn ==
  ASSUME TypeOK, SnapInv, CorrectionInv, OwedInv, NEW t \in Tabs, StepOf(t),
         Reload(t) \/ Receive(t) \/ Handle(t) \/ \E s \in Sides : Click(t, s)
  PROVE  Covers(t)
<1> SUFFICES ASSUME movieRow PROVE Covers(t)
  BY DEF Covers
<1> USE ConstantsAssumption DEF Goto, db, page
<1>1. Snap(t) /\ UserOf[t] \in Users /\ (pc[t] = "drop" => seen[t] # "none")
      /\ \A s \in Sides : count[s] \in Int
  BY DEF SnapInv, CorrectionInv, TypeOK
<1>2. ~Present(t) => Row(t) = "none"
  BY <1>1 DEF OwedInv, Orphaned, Present, Row
<1>3. ASSUME count' = count, \A s \in Sides : Owes(t, s)' => Owes(t, s) PROVE Covers(t)
  BY <1>1, <1>3 DEF Covers
<1>4. ASSUME count' = count, Row(t)' = Row(t), pc[t] \notin Counting, pc'[t] \notin Counting
      PROVE  Covers(t)
  BY <1>3, <1>4 DEF Owes, Counting
<1>5. CASE Reload(t) \/ Receive(t) \/ \E s \in Sides : Click(t, s)
  BY <1>4, <1>5 DEF Reload, Receive, Click, Row, TypeOK, Counting
<1>6. CASE FindMovie(t) \/ FindUser(t)
  BY <1>4, <1>6 DEF FindMovie, FindUser, Throw, Row, TypeOK, Counting
<1>7. CASE ReadRecord(t)
  <2>1. /\ pc[t] = "readRecord" /\ pc'[t] = IF Row(t) = "none" THEN "add" ELSE "drop"
        /\ seen'[t] = Row(t) /\ Row(t)' = Row(t) /\ count' = count
    BY <1>7 DEF ReadRecord, LikedRecord, Row, TypeOK
  <2> QED BY <1>3, <2>1 DEF Owes, Counting
<1>8. CASE DropOld(t)
  <2>1. /\ pc[t] = "drop" /\ seen[t] \in Sides /\ seen'[t] = seen[t] /\ want'[t] = want[t]
        /\ pc'[t] = IF seen[t] = want[t] THEN "write" ELSE "add"
    BY <1>1, <1>8 DEF DropOld, TypeOK, Opinions
  <2>2. \A s \in Sides : count'[s] = IF s = seen[t] THEN count[s] - 1 ELSE count[s]
    BY <1>8 DEF DropOld, Bump, Dropped, TypeOK
  <2>3. \A s \in Sides : (Owes(t, s) <=> s = seen[t]) /\ ~Owes(t, s)'
    BY <2>1 DEF Owes, Counting
  <2> QED BY <1>1, <2>2, <2>3 DEF Covers
<1>9. CASE AddNew(t)
  <2>1. /\ pc[t] = "add" /\ pc'[t] = "write" /\ want'[t] = want[t] /\ want[t] \in Sides
    BY <1>9 DEF AddNew, TypeOK
  <2>2. \A s \in Sides : count'[s] = IF s = want[t] THEN count[s] + 1 ELSE count[s]
    BY <1>9 DEF AddNew, Bump, Added, TypeOK
  <2>3. \A s \in Sides : ~Owes(t, s) /\ (Owes(t, s)' => s = want[t])
    BY <2>1 DEF Owes, Counting
  <2> QED BY <1>1, <2>2, <2>3 DEF Covers
<1>10. CASE DeleteRow(t)
  <2>1. pc'[t] = "readResult" /\ Row(t)' = "none" /\ count' = count
    BY <1>1, <1>10 DEF DeleteRow, SetRow, Row, TypeOK
  <2> QED BY <1>3, <2>1 DEF Owes, Counting, Sides
<1>11. CASE UpdateRow(t)
  <2>1. /\ pc[t] = "write" /\ pc'[t] = "readResult" /\ seen[t] = Other(want[t]) /\ count' = count
        /\ Row(t)' \in {"none", want[t]} /\ Other(want[t]) # want[t]
    BY <1>1, <1>11 DEF UpdateRow, SetRow, Row, Switched, TypeOK, Other, Sides
  <2> QED BY <1>3, <2>1 DEF Owes, Counting, Sides
<1>12. CASE LoadRow(t)
  <2>1. /\ pc[t] = "write" /\ pc'[t] = "save" /\ count' = count
        /\ seen'[t] = seen[t] /\ want'[t] = want[t]
    BY <1>12 DEF LoadRow, TypeOK
  <2> QED BY <1>3, <2>1 DEF Owes, Counting
<1>13. CASE SaveRow(t)
  <2>1. pc[t] = "save" /\ count' = count /\ pc'[t] \in {"answered", "readResult"}
    BY <1>13 DEF SaveRow, Throw, TypeOK
  <2>2. Present(t) => seen[t] = "none" /\ loaded[t] = "none" /\ Row(t) = "none"
    BY <1>1, <2>1 DEF Snap, Counting
  <2>3. Row(t)' = "none" \/ (Row(t)' = want[t] /\ seen[t] = "none")
    <3>1. CASE Throw(t, "save")
      BY <1>2, <2>2, <3>1 DEF Throw, Row
    <3>2. CASE ~Throw(t, "save")
      BY <1>1, <1>2, <1>13, <2>2, <3>2 DEF SaveRow, SetRow, Row, Switched, Present, TypeOK
    <3> QED BY <3>1, <3>2
  <2> QED BY <1>3, <2>1, <2>3 DEF Owes, Counting, Sides
<1>14. CASE ReadResult(t) \/ ReadCounts(t)
  BY <1>4, <1>14 DEF ReadResult, ReadCounts, Row, TypeOK, Counting
<1>15. CASE Fix(t)
  BY <1>15 DEF Fix, OwedInv
<1> QED
  BY <1>5, <1>6, <1>7, <1>8, <1>9, <1>10, <1>11, <1>12, <1>13, <1>14, <1>15 DEF Handle

\* A tab's step keeps the rest of the invariant.
LEMMA OwedRest ==
  ASSUME TypeOK, OwedInv, NEW t \in Tabs, StepOf(t),
         Reload(t) \/ Receive(t) \/ Handle(t) \/ \E s \in Sides : Click(t, s)
  PROVE  (\A r \in Tabs : pc'[r] = "fix" => ~movieRow') /\ Orphaned'
<1> USE ConstantsAssumption DEF Goto, db, page
<1>1. movieRow' = movieRow /\ userRows' = userRows /\ UserOf[t] \in Users
  BY DEF StepOf
<1>2. ASSUME NEW r \in Tabs, pc'[r] = "fix", movieRow PROVE FALSE
  <2>1. pc[r] # "fix"
    BY <1>2 DEF OwedInv
  <2>2. r = t
    BY <1>2, <2>1 DEF StepOf
  <2>3. ReadCounts(t) /\ NeedsFix
    BY <1>2, <2>1, <2>2 DEF Reload, Receive, Click, Handle, FindMovie, FindUser, ReadRecord,
       DropOld, AddNew, DeleteRow, UpdateRow, LoadRow, SaveRow, ReadResult, ReadCounts, Fix,
       Throw, TypeOK
  <2>4. PICK s \in Sides : count[s] < 0
    BY <2>3 DEF NeedsFix, Negative
  <2>5. count[s] >= Cardinality(Owed(s)) /\ Owed(s) \subseteq Users /\ count[s] \in Int
    BY <1>2 DEF OwedInv, Owed, TypeOK
  <2>6. Cardinality(Owed(s)) \in Nat
    BY <2>5, FewerUsers
  <2> QED BY ONLY <2>4, <2>5, <2>6
<1>3. Orphaned'
  <2>1. CASE UNCHANGED record
    BY <1>1, <2>1 DEF Orphaned, OwedInv
  <2>2. CASE UserOf[t] \in userRows
    BY <1>1, <2>2 DEF Orphaned, OwedInv, StepOf
  <2>3. CASE UserOf[t] \notin userRows
    <3>1. Row(t) = "none" /\ (record'[UserOf[t]] = "none" => Orphaned')
      BY <1>1, <2>3 DEF Orphaned, OwedInv, StepOf, Row
    <3>2. CASE DeleteRow(t) \/ UpdateRow(t)
      BY <1>1, <3>1, <3>2 DEF DeleteRow, UpdateRow, SetRow, Switched, Row, TypeOK
    <3>3. CASE SaveRow(t)
      <4>1. CASE Throw(t, "save")
        BY <2>1, <4>1 DEF Throw
      <4>2. CASE ~Throw(t, "save")
        BY <1>1, <2>3, <3>1, <3>3, <4>2 DEF SaveRow, SetRow, Switched, Row, TypeOK
      <4> QED BY <4>1, <4>2
    <3>4. CASE Reload(t) \/ Receive(t) \/ FindMovie(t) \/ FindUser(t) \/ ReadRecord(t)
      BY <2>1, <3>4 DEF Reload, Receive, FindMovie, FindUser, ReadRecord, Throw
    <3>5. CASE DropOld(t) \/ AddNew(t) \/ LoadRow(t) \/ ReadResult(t) \/ ReadCounts(t) \/ Fix(t)
      BY <2>1, <3>5 DEF DropOld, AddNew, LoadRow, ReadResult, ReadCounts, Fix
    <3>6. CASE \E s \in Sides : Click(t, s)
      BY <2>1, <3>6 DEF Click
    <3> QED BY <3>2, <3>3, <3>4, <3>5, <3>6 DEF Handle
  <2> QED BY <2>2, <2>3
<1> QED BY <1>1, <1>2, <1>3

LEMMA OwedKept ==
  ASSUME OneTabEach, Breakable = {}, TypeOK, TypeOK', SnapInv, CorrectionInv, OwedInv, [Next]_vars
  PROVE  OwedInv'
<1>1. ASSUME NEW t \in Tabs,
             Reload(t) \/ Receive(t) \/ Handle(t) \/ \E s \in Sides : Click(t, s)
      PROVE  OwedInv'
  <2>1. StepOf(t)
    BY <1>1, TabStep
  <2>2. movieRow' => \A s \in Sides : count'[s] >= Cardinality(Owed(s)')
    BY <1>1, <2>1, CoversOwn, CoversKeeps DEF StepOf
  <2> QED BY <1>1, <2>1, <2>2, OwedRest DEF OwedInv
<1>2. ASSUME NEW t \in Tabs, Break(t) PROVE OwedInv'
  BY <1>2 DEF Break
<1>3. CASE RemoveMovie
  BY <1>3 DEF RemoveMovie, OwedInv, Orphaned
<1>4. ASSUME NEW u \in Users, RemoveUser(u) PROVE OwedInv'
  <2>1. UNCHANGED <<movieRow, count, pc, want, seen>>
    BY <1>4 DEF RemoveUser
  <2>2. \A v \in Users : record'[v] = IF v = u THEN "none" ELSE record[v]
    BY <1>4 DEF RemoveUser, TypeOK
  <2>3. ASSUME NEW s \in Sides, movieRow PROVE count[s] >= Cardinality(Owed(s)')
    <3>1. Owed(s)' \subseteq Owed(s) /\ Owed(s) \in SUBSET Users
      BY <2>1, <2>2 DEF Owed, Ahead, Sides
    <3>2. Cardinality(Owed(s)') <= Cardinality(Owed(s))
          /\ Cardinality(Owed(s)) \in Nat /\ Cardinality(Owed(s)') \in Nat
      BY <3>1, FewerUsers
    <3>3. count[s] >= Cardinality(Owed(s)) /\ count[s] \in Int
      BY <2>3 DEF OwedInv, TypeOK
    <3> QED BY ONLY <3>2, <3>3
  <2>4. Orphaned'
    BY <1>4, <2>2 DEF RemoveUser, Orphaned, OwedInv
  <2> QED BY <2>1, <2>3, <2>4 DEF OwedInv
<1>5. CASE UNCHANGED vars
  <2>1. UNCHANGED <<movieRow, userRows, count, record, pc, want, seen>>
    BY <1>5 DEF vars, db
  <2>2. \A s \in Sides : Owed(s)' = Owed(s)
    BY <2>1 DEF Owed, Ahead
  <2> QED BY <2>1, <2>2 DEF OwedInv, Orphaned
<1> QED BY <1>1, <1>2, <1>3, <1>4, <1>5 DEF Next

\* With one page per user no counter is ever below the opinions it stands for, whoever
\* is deleted in the middle of a toggle.
THEOREM NeverTooLow ==
  ASSUME OneTabEach, Breakable = {}
  PROVE  Spec => []NeverUndercounts
<1>1. Init => CorrectionInv
  BY CorrectionInit
<1>2. CorrectionInv /\ TypeOK /\ TypeOK' /\ [Next]_vars => CorrectionInv'
  BY CorrectionStep
<1>3. Spec => []CorrectionInv
  BY <1>1, <1>2, TypeCorrect, PTL DEF Spec, Safe
<1>4. TypeOK /\ TypeOK' /\ SnapInv /\ CorrectionInv /\ OwedInv /\ [Next]_vars => OwedInv'
  BY OwedKept
<1>5. Spec => []OwedInv
  BY <1>3, <1>4, OwedInit, SnapAlways, TypeCorrect, PTL DEF Spec, Safe
<1>6. TypeOK /\ SnapInv /\ OwedInv => NeverUndercounts
  <2> SUFFICES ASSUME TypeOK, SnapInv, OwedInv, movieRow, NEW s \in Sides
               PROVE  count[s] >= Cardinality(Counted(s))
    BY DEF NeverUndercounts
  <2>1. ASSUME NEW u \in Counted(s) PROVE u \in Owed(s)
    <3>1. ASSUME NEW t \in Tabs, UserOf[t] = u, pc[t] = "drop", record[u] = s PROVE seen[t] = s
      BY <2>1, <3>1 DEF SnapInv, Snap, Present, Counting, Row, OwedInv, Orphaned, Counted, Sides
    <3> QED BY <2>1, <3>1 DEF Counted, Owed, Moving, Counting
  <2>2. Owed(s) \in SUBSET Users
    BY DEF Owed
  <2>3. /\ Cardinality(Counted(s)) <= Cardinality(Owed(s))
        /\ Cardinality(Counted(s)) \in Nat /\ Cardinality(Owed(s)) \in Nat
    BY <2>1, <2>2, FewerUsers
  <2>4. count[s] >= Cardinality(Owed(s)) /\ count[s] \in Int
    BY DEF OwedInv, TypeOK
  <2> QED BY ONLY <2>3, <2>4
<1> QED BY <1>5, <1>6, SnapAlways, TypeCorrect, PTL

(***************************************************************************)
(* MovieLike implements LikeLedger.  The statement that writes the row is  *)
(* the ledger's Apply, or its Refuse once something has been deleted; the  *)
(* deletions are its Close; every other statement is a stutter.            *)
(***************************************************************************)
\* The tally of an exact counter is the number of rows.
LEMMA TallyIsRows ==
  ASSUME LedgerExact
  PROVE  LedgerTally = [s \in Sides |-> IF Intact THEN RowTally(s) ELSE 0]
<1>1. ASSUME NEW s \in Sides, Intact
      PROVE  count[s] - (Cardinality(Counted(s)) - RowTally(s)) = RowTally(s)
  <2>1. count[s] = Cardinality(Counted(s))
    BY <1>1 DEF LedgerExact
  <2>2. Cardinality(Counted(s)) \in Nat /\ RowTally(s) \in Nat
    BY CountedFinite, TallyType
  <2> QED BY <2>1, <2>2
<1> QED BY <1>1 DEF LedgerTally

\* Writing one row moves the tallies by what the opinion gains.
LEMMA RowGain ==
  ASSUME TypeOK, TypeOK', NEW t \in Tabs, StepOf(t), NEW s \in Sides
  PROVE  RowTally(s)' = RowTally(s) + Ledger!Gain(s, Row(t), Row(t)')
<1> DEFINE S == {u \in Users : record[u] = s}
           T == {u \in Users : record'[u] = s}
<1>1. UserOf[t] \in Users /\ S \in SUBSET Users /\ T \in SUBSET Users
  BY ConstantsAssumption
<1>2. \A v \in Users \ {UserOf[t]} : v \in T <=> v \in S
  BY DEF StepOf
<1>3. /\ Cardinality(S) \in Nat
      /\ Cardinality(T) = IF UserOf[t] \in T /\ UserOf[t] \notin S THEN Cardinality(S) + 1
                          ELSE IF UserOf[t] \in S /\ UserOf[t] \notin T THEN Cardinality(S) - 1
                          ELSE Cardinality(S)
  <2> HIDE DEF S, T
  <2> QED BY <1>1, <1>2, OneMember
<1>4. (UserOf[t] \in S <=> Row(t) = s) /\ (UserOf[t] \in T <=> Row(t)' = s)
  BY <1>1 DEF Row
<1>5. RowTally(s) = Cardinality(S) /\ RowTally(s)' = Cardinality(T)
  BY DEF RowTally
<1> HIDE DEF S, T
<1> QED BY <1>3, <1>4, <1>5 DEF Ledger!Gain

\* The ledger counts with the same operator.
LEMMA SameCardinality == ASSUME NEW S PROVE Ledger!Cardinality(S) = Cardinality(S)
BY DEF Ledger!Cardinality, Cardinality

LEMMA LedgerStarts == Init /\ LedgerExact => Ledger!Init
<1> SUFFICES ASSUME Init, LedgerExact PROVE Ledger!Init
  OBVIOUS
<1>1. Intact /\ record \in [Users -> Opinions] /\ \A t \in Tabs : pc[t] = "idle"
  BY DEF Init, Intact
<1>2. LedgerOpinion = record
  BY <1>1 DEF LedgerOpinion
<1>3. LedgerTally = [s \in Sides |-> Cardinality({u \in Users : LedgerOpinion[u] = s})]
  BY <1>1, <1>2, TallyIsRows DEF RowTally
<1>4. LedgerAsked = [t \in Tabs |-> "nothing"]
  BY <1>1 DEF LedgerAsked
<1>5. Ledger!Sides = Sides
  BY DEF Ledger!Sides, Sides
<1>6. LedgerTally = [s \in Ledger!Sides |-> Ledger!Cardinality({u \in Users : LedgerOpinion[u] = s})]
  BY <1>3, <1>5, SameCardinality
<1>7. LedgerOpinion \in [Users -> Ledger!Sides \cup {"none"}]
  BY <1>1, <1>2, <1>5 DEF Opinions
<1> QED BY <1>1, <1>4, <1>6, <1>7 DEF Ledger!Init

\* A step of a tab changes what its own tab has asked for, and no other's.
LEMMA AskedStep ==
  ASSUME NEW t \in Tabs, StepOf(t)
  PROVE  LedgerAsked' = [LedgerAsked EXCEPT ![t] = LedgerAsked'[t]] /\ Intact' = Intact
BY DEF LedgerAsked, StepOf, Intact

\* Without a change of the row, or of a ledger still open, opinions and tallies stay.
LEMMA RestStays ==
  ASSUME TypeOK, TypeOK', LedgerExact, LedgerExact', NEW t \in Tabs, StepOf(t),
         Row(t)' = Row(t) \/ ~Intact
  PROVE  UNCHANGED <<Intact, LedgerOpinion, LedgerTally>>
<1>1. Intact' = Intact
  BY AskedStep
<1>2. CASE ~Intact
  BY <1>1, <1>2 DEF LedgerOpinion, LedgerTally
<1>3. CASE Row(t)' = Row(t)
  <2>1. record' = record
    <3>1. \A u \in Users : record'[u] = record[u]
      BY <1>3 DEF StepOf, Row
    <3>2. record \in [Users -> Opinions] /\ record' \in [Users -> Opinions]
      BY DEF TypeOK
    <3> QED BY ONLY <3>1, <3>2
  <2>2. \A s \in Sides : RowTally(s)' = RowTally(s)
    BY <2>1 DEF RowTally
  <2>3. LedgerTally' = [s \in Sides |-> IF Intact' THEN RowTally(s)' ELSE 0]
    <3>1. ASSUME NEW s \in Sides, Intact'
          PROVE  count'[s] - (Cardinality(Counted(s)') - RowTally(s)') = RowTally(s)'
      <4>1. count'[s] = Cardinality(Counted(s)') /\ count'[s] \in Int
        BY <3>1 DEF LedgerExact, TypeOK
      <4>2. RowTally(s)' \in Nat
        BY <2>2, TallyType
      <4> QED BY ONLY <4>1, <4>2
    <3> QED BY <3>1 DEF LedgerTally
  <2>4. LedgerTally' = LedgerTally
    BY <1>1, <2>2, <2>3, TallyIsRows
  <2> QED BY <1>1, <2>1, <2>4 DEF LedgerOpinion
<1> QED BY <1>2, <1>3

\* Statements that write no row of an open ledger: asking, refusing and stuttering.
LEMMA QuietStep ==
  ASSUME TypeOK, TypeOK', LedgerExact, LedgerExact', NEW t \in Tabs, StepOf(t),
         Row(t)' = Row(t) \/ ~Intact,
         \/ LedgerAsked'[t] = LedgerAsked[t]
         \/ LedgerAsked[t] = "nothing" /\ LedgerAsked'[t] \in Sides
         \/ ~Intact /\ LedgerAsked'[t] = "nothing"
  PROVE  [Ledger!Next]_(Ledger!vars)
<1>1. UNCHANGED <<Intact, LedgerOpinion, LedgerTally>>
  BY RestStays
<1>2. LedgerAsked' = [LedgerAsked EXCEPT ![t] = LedgerAsked'[t]]
  BY AskedStep
<1>3. CASE LedgerAsked'[t] = LedgerAsked[t]
  <2>1. LedgerAsked' = LedgerAsked
    BY <1>2, <1>3 DEF LedgerAsked
  <2> QED BY <1>1, <2>1 DEF Ledger!vars
<1>4. CASE LedgerAsked[t] = "nothing" /\ LedgerAsked'[t] \in Sides
  <2>1. Ledger!Ask(t, LedgerAsked'[t])
    BY <1>1, <1>2, <1>4 DEF Ledger!Ask
  <2> QED BY <1>4, <2>1 DEF Ledger!Next, Ledger!Sides, Sides
<1>5. CASE ~Intact /\ LedgerAsked'[t] = "nothing"
  <2>1. Ledger!Refuse(t)
    BY <1>1, <1>2, <1>5 DEF Ledger!Refuse
  <2> QED BY <2>1 DEF Ledger!Next
<1> QED BY <1>3, <1>4, <1>5

\* The statement that writes the row of an open ledger.
LEMMA ApplyStep ==
  ASSUME TypeOK, TypeOK', LedgerExact, LedgerExact', NEW t \in Tabs, StepOf(t), Intact,
         Row(t)' = Toggled(Row(t), want[t]),
         LedgerAsked[t] = want[t], LedgerAsked'[t] = "nothing"
  PROVE  Ledger!Next
<1> DEFINE u   == UserOf[t]
           new == IF LedgerOpinion[u] = LedgerAsked[t] THEN "none" ELSE LedgerAsked[t]
<1>1. u \in Users /\ want[t] \in Sides
  BY ConstantsAssumption DEF TypeOK
<1>2. LedgerOpinion = record /\ LedgerOpinion[u] = Row(t)
  BY DEF LedgerOpinion, Row, TypeOK
<1>3. Intact'
  BY AskedStep
<1>4. LedgerOpinion' = record'
  BY <1>3 DEF LedgerOpinion, TypeOK
<1>5. new = Row(t)'
  BY <1>2 DEF Toggled
<1>6. LedgerOpinion' = [LedgerOpinion EXCEPT ![u] = new]
  <2>1. record' = [record EXCEPT ![u] = Row(t)']
    BY <1>1 DEF StepOf, Row, TypeOK
  <2> QED BY <1>2, <1>4, <1>5, <2>1
<1>7. LedgerTally' = [s \in Sides |-> LedgerTally[s] + Ledger!Gain(s, LedgerOpinion[u], new)]
  <2>1. \A s \in Sides : LedgerTally[s] = RowTally(s)
    BY TallyIsRows
  <2>2. LedgerTally' = [s \in Sides |-> RowTally(s)']
    <3>1. ASSUME NEW s \in Sides
          PROVE  count'[s] - (Cardinality(Counted(s)') - RowTally(s)') = RowTally(s)'
      <4>1. count'[s] = Cardinality(Counted(s)') /\ count'[s] \in Int
        BY <1>3 DEF LedgerExact, TypeOK
      <4>2. RowTally(s)' = RowTally(s) + Ledger!Gain(s, Row(t), Row(t)')
        BY RowGain
      <4>3. RowTally(s) \in Nat /\ Ledger!Gain(s, Row(t), Row(t)') \in Int
        BY TallyType DEF Ledger!Gain
      <4> QED BY ONLY <4>1, <4>2, <4>3
    <3> QED BY <1>3, <3>1 DEF LedgerTally
  <2>3. ASSUME NEW s \in Sides
        PROVE  RowTally(s)' = LedgerTally[s] + Ledger!Gain(s, LedgerOpinion[u], new)
    BY <1>2, <1>5, <2>1, RowGain
  <2> QED BY <2>2, <2>3
<1>8. Ledger!Apply(t)
  <2>1. LedgerAsked' = [LedgerAsked EXCEPT ![t] = "nothing"]
    BY AskedStep
  <2>2. Ledger!Sides = Sides
    BY DEF Ledger!Sides, Sides
  <2> QED BY <1>1, <1>3, <1>6, <1>7, <2>1, <2>2 DEF Ledger!Apply
<1> QED BY <1>8 DEF Ledger!Next

\* What a tab has asked for, by the statement it stands at.
LEMMA AskedIs ==
  ASSUME TypeOK, NEW t \in Tabs
  PROVE  /\ want[t] \in Sides /\ "nothing" \notin Sides
         /\ pc[t] \in {"idle", "readResult", "readCounts", "fix", "answered"}
              => LedgerAsked[t] = "nothing"
         /\ pc[t] \in {"findMovie", "findUser", "readRecord", "drop", "add", "write", "save"}
              => LedgerAsked[t] = want[t]
         /\ pc'[t] \in {"idle", "readResult", "readCounts", "fix", "answered"}
              => LedgerAsked'[t] = "nothing"
         /\ pc'[t] \in {"findMovie", "findUser", "readRecord", "drop", "add", "write", "save"}
              => LedgerAsked'[t] = want'[t]
BY DEF LedgerAsked, TypeOK, Sides

\* Each statement of a tab is the ledger's Ask, Apply or Refuse, or a stutter.
LEMMA LedgerOwn ==
  ASSUME Breakable = {}, TypeOK, TypeOK', SnapInv, LedgerExact, LedgerExact',
         NEW t \in Tabs, StepOf(t),
         Reload(t) \/ Receive(t) \/ Handle(t) \/ \E s \in Sides : Click(t, s)
  PROVE  [Ledger!Next]_(Ledger!vars)
<1> USE DEF Goto, db, page
<1>1. /\ Snap(t) /\ UserOf[t] \in Users /\ want[t] \in Sides
      /\ Intact => Present(t)
      /\ pc \in [Tabs -> Stages] /\ want \in [Tabs -> Sides] /\ record \in [Users -> Opinions]
  BY ConstantsAssumption DEF SnapInv, TypeOK, Intact, Present
<1>2. ASSUME record' = record, want'[t] = want[t],
             \/ /\ pc[t] \in {"idle", "readResult", "readCounts", "fix", "answered"}
                /\ pc'[t] \in {"idle", "readResult", "readCounts", "fix", "answered"}
             \/ /\ pc[t] \in {"findMovie", "findUser", "readRecord", "drop", "add", "write", "save"}
                /\ pc'[t] \in {"findMovie", "findUser", "readRecord", "drop", "add", "write", "save"}
      PROVE  [Ledger!Next]_(Ledger!vars)
  BY <1>2, AskedIs, QuietStep DEF Row
<1>3. ASSUME ~Intact, pc'[t] \in {"answered", "readResult"} PROVE [Ledger!Next]_(Ledger!vars)
  BY <1>3, AskedIs, QuietStep
<1>4. ASSUME NEW from, Throw(t, from), ~Present(t) PROVE [Ledger!Next]_(Ledger!vars)
  BY <1>1, <1>3, <1>4 DEF Throw
<1>5. ASSUME pc[t] \in {"write", "save"}, pc'[t] = "readResult",
             Intact => Row(t)' = Toggled(Row(t), want[t])
      PROVE  [Ledger!Next]_(Ledger!vars)
  <2>1. CASE Intact
    BY <1>5, <2>1, AskedIs, ApplyStep
  <2>2. CASE ~Intact
    BY <1>3, <1>5, <2>2
  <2> QED BY <2>1, <2>2
<1>6. CASE Reload(t)
  BY <1>1, <1>2, <1>6 DEF Reload
<1>7. CASE Receive(t)
  BY <1>1, <1>2, <1>7 DEF Receive
<1>8. CASE FindMovie(t)
  BY <1>1, <1>2, <1>4, <1>8 DEF FindMovie, MovieFound, Present
<1>9. CASE FindUser(t)
  BY <1>1, <1>2, <1>4, <1>9 DEF FindUser, Present
<1>10. CASE ReadRecord(t)
  BY <1>1, <1>2, <1>10 DEF ReadRecord
<1>11. CASE DropOld(t)
  BY <1>1, <1>2, <1>11 DEF DropOld
<1>12. CASE AddNew(t)
  BY <1>1, <1>2, <1>12 DEF AddNew
<1>13. CASE DeleteRow(t)
  <2>1. pc[t] = "write" /\ pc'[t] = "readResult" /\ seen[t] = want[t] /\ Row(t)' = "none"
    BY <1>1, <1>13 DEF DeleteRow, SetRow, Row
  <2> QED BY <1>1, <1>5, <2>1 DEF Snap, Counting, Toggled
<1>14. CASE UpdateRow(t)
  <2>1. pc[t] = "write" /\ pc'[t] = "readResult" /\ seen[t] = Other(want[t])
    BY <1>1, <1>14 DEF UpdateRow
  <2>2. Other(want[t]) # want[t] /\ Other(want[t]) # "none"
    BY <1>1 DEF Other, Sides
  <2>3. Intact => Row(t) = seen[t]
    BY <1>1, <2>1 DEF Snap, Counting
  <2>4. Intact => Row(t)' = want[t]
    BY <1>1, <1>14, <2>1, <2>2, <2>3 DEF UpdateRow, SetRow, Row, Switched
  <2> QED BY <1>5, <2>1, <2>2, <2>3, <2>4 DEF Toggled
<1>15. CASE LoadRow(t)
  BY <1>1, <1>2, <1>15 DEF LoadRow
<1>16. CASE SaveRow(t)
  <2>1. pc[t] = "save"
    BY <1>16 DEF SaveRow, Throw
  <2>2. Present(t) => Row(t) = "none" /\ loaded[t] = "none"
    BY <1>1, <2>1 DEF Snap, Counting
  <2>3. CASE Throw(t, "save")
    <3>1. pc'[t] = "answered"
      BY <1>1, <2>3 DEF Throw
    <3>2. ~Present(t)
      BY <1>1, <1>16, <2>2, <3>1 DEF SaveRow, Present
    <3> QED BY <1>4, <2>3, <3>2
  <2>4. CASE ~Throw(t, "save")
    <3>1. pc'[t] = "readResult"
      BY <1>1, <1>16, <2>4 DEF SaveRow
    <3>2. Intact => Row(t)' = want[t] /\ want[t] # "none"
      BY <1>1, <1>16, <2>2, <2>4 DEF SaveRow, SetRow, Row, Sides
    <3> QED BY <1>1, <1>5, <2>1, <2>2, <3>1, <3>2 DEF Toggled
  <2> QED BY <2>3, <2>4
<1>17. CASE ReadResult(t)
  BY <1>1, <1>2, <1>17 DEF ReadResult
<1>18. CASE ReadCounts(t)
  BY <1>1, <1>2, <1>18 DEF ReadCounts
<1>19. CASE Fix(t)
  BY <1>1, <1>2, <1>19 DEF Fix
<1>20. CASE \E s \in Sides : Click(t, s)
  <2>1. pc[t] = "idle" /\ pc'[t] = "findMovie" /\ want'[t] \in Sides /\ record' = record
    BY <1>1, <1>20 DEF Click
  <2> QED BY <2>1, AskedIs, QuietStep DEF Row
<1> QED
  BY <1>6, <1>7, <1>8, <1>9, <1>10, <1>11, <1>12, <1>13, <1>14, <1>15, <1>16, <1>17, <1>18,
     <1>19, <1>20 DEF Handle

\* A deletion closes an open ledger and leaves a closed one as it is.
LEMMA LedgerCloses ==
  ASSUME TypeOK, ~Intact', UNCHANGED <<pc, want>>
  PROVE  [Ledger!Next]_(Ledger!vars)
<1>1. LedgerAsked' = LedgerAsked
  BY DEF LedgerAsked
<1>2. LedgerOpinion' = [u \in Users |-> "none"] /\ LedgerTally' = [s \in Ledger!Sides |-> 0]
  BY DEF LedgerOpinion, LedgerTally, Ledger!Sides, Sides
<1>3. CASE Intact
  <2>1. Ledger!Close
    BY <1>1, <1>2, <1>3 DEF Ledger!Close
  <2> QED BY <2>1 DEF Ledger!Next
<1>4. CASE ~Intact
  <2>1. LedgerOpinion' = LedgerOpinion /\ LedgerTally' = LedgerTally
    BY <1>4 DEF LedgerOpinion, LedgerTally
  <2>2. Intact' = Intact
    BY <1>4 DEF Intact
  <2> QED BY <1>1, <2>1, <2>2 DEF Ledger!vars
<1> QED BY <1>3, <1>4

LEMMA LedgerMaps ==
  ASSUME Breakable = {}, TypeOK, TypeOK', SnapInv, LedgerExact, LedgerExact', [Next]_vars
  PROVE  [Ledger!Next]_(Ledger!vars)
<1>1. ASSUME NEW t \in Tabs,
             Reload(t) \/ Receive(t) \/ Handle(t) \/ \E s \in Sides : Click(t, s)
      PROVE  [Ledger!Next]_(Ledger!vars)
  BY <1>1, TabStep, LedgerOwn
<1>2. ASSUME NEW t \in Tabs, Break(t) PROVE FALSE
  BY <1>2 DEF Break
<1>3. CASE RemoveMovie
  BY <1>3, LedgerCloses DEF RemoveMovie, Intact
<1>4. ASSUME NEW u \in Users, RemoveUser(u) PROVE [Ledger!Next]_(Ledger!vars)
  BY <1>4, LedgerCloses DEF RemoveUser, Intact
<1>5. CASE UNCHANGED vars
  <2>1. UNCHANGED <<movieRow, userRows, count, record, pc, want, seen>>
    BY <1>5 DEF vars, db
  <2>2. \A s \in Sides : Counted(s)' = Counted(s) /\ RowTally(s)' = RowTally(s)
    BY <2>1 DEF Counted, Ahead, Moving, RowTally
  <2>3. LedgerTally' = LedgerTally
    BY <2>1, <2>2 DEF LedgerTally, Intact
  <2>4. LedgerAsked' = LedgerAsked /\ LedgerOpinion' = LedgerOpinion /\ Intact' = Intact
    BY <2>1 DEF LedgerAsked, LedgerOpinion, Intact
  <2> QED BY <2>3, <2>4 DEF Ledger!vars
<1> QED BY <1>1, <1>2, <1>3, <1>4, <1>5 DEF Next

\* With one page per user the interleaved statements of overlapping toggles add up to
\* atomic toggles: the handler implements LikeLedger.
THEOREM ImplementsLikeLedger ==
  ASSUME OneTabEach, Breakable = {}
  PROVE  Spec => ImplementsLedger
<1>1. TypeOK /\ TypeOK' /\ SnapInv /\ LedgerExact /\ LedgerExact' /\ [Next]_vars
        => [Ledger!Next]_(Ledger!vars)
  BY LedgerMaps
<1>2. Init /\ LedgerExact => Ledger!Init
  BY LedgerStarts
<1>3. Spec => Ledger!Init /\ [][Ledger!Next]_(Ledger!vars)
  BY <1>1, <1>2, LedgerIsExact, SnapAlways, TypeCorrect, PTL DEF Spec, Safe
<1> QED BY <1>3 DEF Ledger!Spec, ImplementsLedger
=============================================================================
