---------------------------- MODULE LikeLedger -----------------------------
(***************************************************************************)
(* What liking a movie promises: every click a page has asked for is       *)
(* applied once, in one indivisible step that flips the user's opinion and *)
(* moves the two tallies with it.  The promise ends when the movie or one  *)
(* of the users is deleted: the ledger is then closed.                     *)
(***************************************************************************)
EXTENDS Integers, FiniteSets

CONSTANTS Users, Tabs, UserOf

VARIABLES open, opinion, tally, asked

vars == <<open, opinion, tally, asked>>

Sides == {"like", "dislike"}

Init ==
  /\ open    = TRUE
  /\ opinion \in [Users -> Sides \cup {"none"}]
  /\ tally   = [s \in Sides |-> Cardinality({u \in Users : opinion[u] = s})]
  /\ asked   = [t \in Tabs |-> "nothing"]

Ask(t, s) ==
  /\ asked[t] = "nothing"
  /\ asked' = [asked EXCEPT ![t] = s]
  /\ UNCHANGED <<open, opinion, tally>>

\* How many opinions of side s the change from `old` to `new` adds.
Gain(s, old, new) == (IF new = s THEN 1 ELSE 0) - (IF old = s THEN 1 ELSE 0)

Apply(t) ==
  LET u   == UserOf[t]
      new == IF opinion[u] = asked[t] THEN "none" ELSE asked[t]
  IN  /\ open
      /\ asked[t] \in Sides
      /\ opinion' = [opinion EXCEPT ![u] = new]
      /\ tally'   = [s \in Sides |-> tally[s] + Gain(s, opinion[u], new)]
      /\ asked'   = [asked EXCEPT ![t] = "nothing"]
      /\ UNCHANGED open

\* On a closed ledger a click may come to nothing.
Refuse(t) ==
  /\ ~open
  /\ asked' = [asked EXCEPT ![t] = "nothing"]
  /\ UNCHANGED <<open, opinion, tally>>

Close ==
  /\ open
  /\ open'    = FALSE
  /\ opinion' = [u \in Users |-> "none"]
  /\ tally'   = [s \in Sides |-> 0]
  /\ UNCHANGED asked

Next ==
  \/ \E t \in Tabs : Apply(t) \/ Refuse(t) \/ \E s \in Sides : Ask(t, s)
  \/ Close

Spec == Init /\ [][Next]_vars
=============================================================================
