------------------------- MODULE MemoryCache_proofs -------------------------
(***************************************************************************)
(* How old a list of GET /movie/recent may be, for any viewers and times,  *)
(* and what the throttle of GET /movie lets through.                       *)
(***************************************************************************)
EXTENDS MemoryCache, FiniteSetTheorems, TLAPS

Entries == [taken : Int, until : Int]
Views   == [at : {"idle", "asked", "read", "shown"}, taken : Int, since : Nat]

\* A query under way is young; what it has read is no older than it.
Young(a) ==
  /\ a.at \in {"asked", "read"} => a.since <= now /\ now <= a.since + MaxRun
  /\ a.at = "read"  => a.since <= a.taken
  /\ a.at = "shown" => a.since - a.taken <= ListTTL + AnswerTTL + MaxRun

\* An entry ends before its list is too old, and the outer one may have been made at
\* the end of the inner one.
RecentInv ==
  /\ now \in Nat /\ inner \in Entries /\ outer \in Entries /\ view \in [Viewers -> Views]
  /\ inner.until <= inner.taken + MaxRun + ListTTL
  /\ outer.until <= outer.taken + MaxRun + ListTTL + AnswerTTL
  /\ \A v \in Viewers : Young(view[v])

LEMMA NoListFacts == NoList \in Entries /\ NoList.taken = -1 /\ NoList.until = -1
BY DEF NoList, Never, Entries

LEMMA NoViewFacts == NoView \in Views /\ NoView.at = "idle" /\ Young(NoView)
BY DEF NoView, Views, Young

LEMMA RecentInit == Init => RecentInv
BY TimesAssumption, NoListFacts, NoViewFacts DEF Init, RecentInv

\* The viewer gets a new record, the clock stands still.
LEMMA ViewChanged ==
  ASSUME RecentInv, NEW v \in Viewers, NEW new \in Views, Young(new), now' = now,
         view' = [view EXCEPT ![v] = new]
  PROVE  view' \in [Viewers -> Views] /\ \A w \in Viewers : Young(view[w])'
<1>1. \A w \in Viewers : view'[w] = IF w = v THEN new ELSE view[w]
  BY DEF RecentInv
<1> QED BY <1>1 DEF RecentInv, Young

LEMMA Shown ==
  ASSUME RecentInv, NEW v \in Viewers, NEW taken \in Int, Show(v, taken), now' = now,
         now - taken <= ListTTL + AnswerTTL + MaxRun
  PROVE  view' \in [Viewers -> Views] /\ \A w \in Viewers : Young(view[w])'
<1> DEFINE new == [at |-> "shown", taken |-> taken, since |-> now]
<1>1. new \in Views /\ Young(new)
  BY DEF RecentInv, Views, Young
<1>2. view' = [view EXCEPT ![v] = new]
  BY DEF Show
<1> HIDE DEF new
<1> QED BY <1>1, <1>2, ViewChanged

\* Viewers' steps.
LEMMA ViewerStep ==
  ASSUME RecentInv, NEW v \in Viewers,
         OuterHit(v) \/ InnerHit(v) \/ Ask(v) \/ Read(v) \/ Fill(v) \/ Miss(v)
  PROVE  RecentInv'
<1> USE DEF RecentInv
<1>0. /\ now' = now /\ now \in Nat /\ inner \in Entries /\ outer \in Entries
      /\ view \in [Viewers -> Views] /\ view[v] \in Views
      /\ MaxRun \in Nat /\ ListTTL \in Nat /\ AnswerTTL \in Nat
  BY TimesAssumption DEF OuterHit, InnerHit, Ask, Read, Fill, Miss
<1>1. CASE OuterHit(v)
  <2>1. outer.taken \in Int /\ outer.until \in Int /\ now - outer.taken <= ListTTL + AnswerTTL + MaxRun
    BY <1>0, <1>1 DEF OuterHit, Live, Entries
  <2> QED BY <1>0, <1>1, <2>1, Shown DEF OuterHit
<1>2. CASE InnerHit(v)
  <2>1. /\ inner.taken \in Int /\ inner.until \in Int /\ now <= inner.until
        /\ now - inner.taken <= ListTTL + AnswerTTL + MaxRun
    BY <1>0, <1>2 DEF InnerHit, Live, Entries
  <2>2. outer' = [taken |-> inner.taken, until |-> now + AnswerTTL]
    BY <1>2 DEF InnerHit
  <2>3. outer' \in Entries /\ outer'.until <= outer'.taken + MaxRun + ListTTL + AnswerTTL
    BY <1>0, <2>1, <2>2 DEF Entries
  <2> QED BY <1>0, <1>2, <2>1, <2>3, Shown DEF InnerHit
<1>3. CASE Ask(v)
  <2> DEFINE new == [at |-> "asked", taken |-> 0, since |-> now]
  <2>1. new \in Views /\ Young(new)
    BY <1>0 DEF Views, Young
  <2>2. view' = [view EXCEPT ![v] = new]
    BY <1>3 DEF Ask
  <2> HIDE DEF new
  <2> QED BY <1>0, <1>3, <2>1, <2>2, ViewChanged DEF Ask
<1>4. CASE Read(v)
  <2> DEFINE new == [view[v] EXCEPT !.at = "read", !.taken = now]
  <2>1. view[v].at = "asked" /\ view' = [view EXCEPT ![v] = new]
    BY <1>0, <1>4 DEF Read
  <2>2. new \in Views /\ new.at = "read" /\ new.taken = now /\ new.since = view[v].since
    <3>1. now \in Int /\ view[v] \in Views
      BY <1>0
    <3> QED BY <3>1 DEF Views
  <2>3. view[v].since \in Nat /\ view[v].since <= now /\ now <= view[v].since + MaxRun
    BY <1>0, <2>1 DEF Views, Young
  <2> HIDE DEF new
  <2>4. Young(new)
    BY <2>2, <2>3 DEF Young
  <2> QED BY <1>0, <1>4, <2>1, <2>2, <2>4, ViewChanged DEF Read
<1>5. CASE Fill(v)
  <2> DEFINE taken == view[v].taken
  <2>1. /\ taken \in Int /\ view[v].since \in Nat
        /\ view[v].since <= taken /\ now <= view[v].since + MaxRun
    BY <1>0, <1>5 DEF Fill, Views, Young
  <2>2. /\ inner' = [taken |-> taken, until |-> now + ListTTL]
        /\ outer' = [taken |-> taken, until |-> now + AnswerTTL] /\ Show(v, taken)
    BY <1>5 DEF Fill, Kept
  <2> HIDE DEF taken
  <2>3. /\ inner' \in Entries /\ inner'.until <= inner'.taken + MaxRun + ListTTL
        /\ outer' \in Entries /\ outer'.until <= outer'.taken + MaxRun + ListTTL + AnswerTTL
    BY <1>0, <2>1, <2>2 DEF Entries
  <2>4. now - taken <= ListTTL + AnswerTTL + MaxRun
    BY <1>0, <2>1
  <2>5. view' \in [Viewers -> Views] /\ \A w \in Viewers : Young(view[w])'
    BY <1>0, <2>1, <2>2, <2>4, Shown
  <2> QED BY <1>0, <2>3, <2>5
<1>6. CASE Miss(v)
  BY <1>0, <1>6, NoViewFacts, ViewChanged DEF Miss
<1> QED BY <1>1, <1>2, <1>3, <1>4, <1>5, <1>6

LEMMA TickStep ==
  ASSUME RecentInv, Tick
  PROVE  RecentInv'
<1> USE DEF RecentInv
<1>0. /\ now \in Nat /\ now' = now + 1 /\ MaxRun \in Nat /\ ListTTL \in Nat /\ AnswerTTL \in Nat
  BY TimesAssumption DEF Tick
<1>1. inner' \in {inner, NoList} /\ outer' \in {outer, NoList}
  BY DEF Tick, Lapse
<1>2. \A v \in Viewers : /\ view'[v] \in {view[v], NoView} /\ view'[v].at # "shown"
                         /\ view[v].at \in {"asked", "read"} => now < view[v].since + MaxRun
  BY NoViewFacts DEF Tick
<1>3. view' \in [Viewers -> Views]
  BY NoViewFacts DEF Tick
<1>4. ASSUME NEW v \in Viewers PROVE Young(view[v])'
  <2>1. view[v].since \in Nat /\ Young(view[v])
    BY DEF Views
  <2> QED BY <1>0, <1>2, <2>1, NoViewFacts DEF Young
<1>5. /\ inner' \in Entries /\ inner'.until <= inner'.taken + MaxRun + ListTTL
      /\ outer' \in Entries /\ outer'.until <= outer'.taken + MaxRun + ListTTL + AnswerTTL
  BY <1>0, <1>1, NoListFacts
<1> QED BY <1>0, <1>3, <1>4, <1>5

LEMMA RestartStep ==
  ASSUME RecentInv, Restart
  PROVE  RecentInv'
BY TimesAssumption, NoListFacts, NoViewFacts DEF RecentInv, Restart, Young

LEMMA RecentStep == RecentInv /\ [Next]_vars => RecentInv'
<1> SUFFICES ASSUME RecentInv, [Next]_vars PROVE RecentInv'
  OBVIOUS
<1>1. CASE UNCHANGED <<now, recent>>
  BY <1>1 DEF RecentInv, Young, recent
<1>2. ASSUME NEW t \in Tabs, Arrive(t) \/ Succeed(t) \/ Fail(t) PROVE UNCHANGED <<now, recent>>
  BY <1>2 DEF Arrive, Succeed, Fail
<1>3. CASE UNCHANGED vars
  BY <1>1, <1>3 DEF vars
<1> QED BY <1>1, <1>2, <1>3, ViewerStep, TickStep, RestartStep DEF Next

\* However requests overlap and the two caches fill each other, no list is shown that
\* is older than both lives and a query, for any lives, viewers and clock.
THEOREM RecentStaysFresh == Spec => []RecentIsFresh
<1>1. RecentInv => RecentIsFresh
  BY DEF RecentInv, RecentIsFresh, Young
<1> QED BY <1>1, RecentInit, RecentStep, PTL DEF Spec

(***************************************************************************)
(* Arithmetic of minutes and keys.                                         *)
(***************************************************************************)
\* Quotient and rest.
LEMMA DivMod ==
  ASSUME NEW a \in Nat, NEW d \in Nat \ {0}
  PROVE  /\ a \div d \in Nat /\ a % d \in 0 .. d - 1
         /\ a = d * (a \div d) + (a % d)
OBVIOUS

\* Products grow with their factors.
LEMMA MulMono ==
  ASSUME NEW a \in Nat, NEW b \in Nat, NEW d \in Nat, a <= b
  PROVE  d * a \in Nat /\ d * b \in Nat /\ d * a <= d * b
<1>1. PICK c \in Nat : b = a + c
  <2>1. b - a \in Nat /\ b = a + (b - a)
    OBVIOUS
  <2> QED BY <2>1
<1>2. d * b = d * a + d * c
  BY <1>1
<1>3. d * c \in Nat /\ d * a \in Nat
  OBVIOUS
<1> QED BY <1>2, <1>3

\* Numbers of one rest are a divisor apart.
LEMMA SameRest ==
  ASSUME NEW a \in Nat, NEW b \in Nat, NEW d \in Nat \ {0}, a < b, a % d = b % d
  PROVE  a + d <= b
<1> DEFINE q == a \div d  p == b \div d  r == a % d
<1>1. /\ q \in Nat /\ p \in Nat /\ r \in Nat
      /\ a = d * q + r /\ b = d * p + r
  <2>1. q \in Nat /\ r \in 0 .. d - 1 /\ a = d * q + r
    OBVIOUS
  <2>2. p \in Nat /\ b % d \in 0 .. d - 1 /\ b = d * p + (b % d)
    OBVIOUS
  <2> HIDE DEF q, p
  <2> QED BY <2>1, <2>2
<1> HIDE DEF q, p, r
<1>2. d * q < d * p /\ d * q \in Nat /\ d * p \in Nat
  BY ONLY <1>1, d \in Nat, a < b
<1>3. ~(p <= q)
  BY <1>1, <1>2, MulMono
<1>4. q + 1 <= p /\ q + 1 \in Nat
  BY <1>1, <1>3
<1>5. d * (q + 1) <= d * p
  BY <1>1, <1>4, MulMono
<1>6. d * (q + 1) = d * q + d
  BY <1>1
<1> QED BY ONLY <1>1, <1>2, <1>5, <1>6, d \in Nat

\* The minute of a time, and times by their minutes.
LEMMA MinuteFacts ==
  ASSUME NEW n \in Nat
  PROVE  /\ MinuteOf(n) \in Nat /\ Minute * MinuteOf(n) \in Nat
         /\ Minute * MinuteOf(n) <= n /\ n < Minute * MinuteOf(n) + Minute
<1> DEFINE q == n \div Minute  r == n % Minute
<1>1. /\ q \in Nat /\ r \in 0 .. Minute - 1 /\ n = Minute * q + r /\ Minute \in Nat
  BY DivMod, TimesAssumption
<1> HIDE DEF q, r
<1>2. Minute * q \in Nat
  BY <1>1
<1>3. Minute * q <= n /\ n < Minute * q + Minute
  BY ONLY <1>1, <1>2
<1> QED BY <1>1, <1>2, <1>3 DEF MinuteOf, q

LEMMA NextMinute ==
  ASSUME NEW n \in Nat
  PROVE  MinuteOf(n + 1) \in {MinuteOf(n), MinuteOf(n) + 1}
<1> DEFINE a == MinuteOf(n)  b == MinuteOf(n + 1)
<1>1. /\ a \in Nat /\ b \in Nat /\ Minute \in Nat \ {0}
      /\ Minute * a <= n /\ n < Minute * a + Minute
      /\ Minute * b <= n + 1 /\ n + 1 < Minute * b + Minute
      /\ Minute * a \in Nat /\ Minute * b \in Nat
  <2>1. n + 1 \in Nat
    OBVIOUS
  <2> QED BY <2>1, MinuteFacts, TimesAssumption
<1> HIDE DEF a, b
<1>2. ~(b < a)
  <2>1. SUFFICES ASSUME b < a PROVE FALSE
    OBVIOUS
  <2>2. b + 1 <= a /\ b + 1 \in Nat
    BY <1>1, <2>1
  <2>3. Minute * (b + 1) <= Minute * a
    BY <1>1, <2>2, MulMono
  <2>4. Minute * (b + 1) = Minute * b + Minute
    BY <1>1
  <2> QED BY ONLY <1>1, <2>3, <2>4, n \in Nat
<1>3. ~(a + 1 < b)
  <2>1. SUFFICES ASSUME a + 1 < b PROVE FALSE
    OBVIOUS
  <2>2. a + 2 <= b /\ a + 2 \in Nat
    BY <1>1, <2>1
  <2>3. Minute * (a + 2) <= Minute * b
    BY <1>1, <2>2, MulMono
  <2>4. Minute * (a + 2) = Minute * a + Minute + Minute
    BY <1>1
  <2> QED BY ONLY <1>1, <2>3, <2>4, n \in Nat
<1>4. b = a \/ b = a + 1
  BY ONLY <1>1, <1>2, <1>3
<1> QED BY <1>4 DEF a, b

\* What an earlier minute of the same key has written is over.
LEMMA OldIsOver ==
  ASSUME NEW m \in Nat, NEW M \in Nat, m < M, Key(m) = Key(M)
  PROVE  Minute * m + 2 * Minute + MaxRun < Minute * M
<1>1. m + Hour <= M /\ Hour \in Nat /\ Minute \in Nat /\ MaxRun \in Nat
      /\ 2 * Minute + MaxRun < Hour * Minute
  BY SameRest, TimesAssumption DEF Key
<1>2. Minute * (m + Hour) <= Minute * M /\ Minute * M \in Nat
  BY <1>1, MulMono
<1>3. Minute * (m + Hour) = Minute * m + Hour * Minute
  BY <1>1
<1>4. Minute * m \in Nat /\ Hour * Minute \in Nat
  BY <1>1
<1> QED BY ONLY <1>1, <1>2, <1>3, <1>4

LEMMA KeyType == ASSUME NEW m \in Nat PROVE Key(m) \in Keys
BY DivMod, TimesAssumption DEF Key, Keys

\* Two minutes that follow each other have two keys.
LEMMA NextKey ==
  ASSUME NEW m \in Nat
  PROVE  Key(m + 1) # Key(m)
<1>1. SUFFICES ASSUME Key(m) = Key(m + 1) PROVE FALSE
  OBVIOUS
<1>2. Minute * m + 2 * Minute + MaxRun < Minute * (m + 1)
  BY <1>1, OldIsOver
<1>3. Minute * (m + 1) = Minute * m + Minute /\ Minute * m \in Nat
  BY TimesAssumption
<1> QED BY ONLY <1>2, <1>3, TimesAssumption

(***************************************************************************)
(* The throttle.  The entry of the current minute counts its answers       *)
(* exactly, because what any other minute of the same key has written has  *)
(* lapsed by then; requests let through together are still under way.      *)
(***************************************************************************)
Named      == Tabs \ Nameless
Running(k) == {t \in Named : request[t].at = "running" /\ Key(request[t].minute) = k}

Requests == [at : {"idle", "running", "refused"}, minute : Nat, since : Nat, count : Nat]

ThrottleTypes ==
  /\ now \in Nat
  /\ counter \in [Keys -> [n : Nat, until : Int]]
  /\ request \in [Tabs -> Requests]
  /\ served \in [Keys -> Nat]

\* A running request knows its minute and is young; a refused one is of this minute,
\* whose answers were enough.
Timely(t) ==
  /\ request[t].at = "running" =>
       /\ request[t].minute = MinuteOf(request[t].since)
       /\ request[t].since <= now /\ now <= request[t].since + MaxRun
  /\ request[t].at = "refused" =>
       request[t].minute = ThisMinute /\ served[Key(ThisMinute)] >= Limit

\* A live entry was written by a request of some minute of its key, soon after it.
Dated(k) ==
  Live(counter[k]) =>
    \E m \in Nat : /\ m <= ThisMinute /\ Key(m) = k
                   /\ counter[k].until < Minute * m + 2 * Minute + MaxRun

\* The entry of this minute counts its answers, all through the minute.
Exact ==
  LET k == Key(ThisMinute)
  IN  /\ served[k] = 0 => ~Live(counter[k])
      /\ served[k] # 0 => /\ counter[k].n = served[k]
                          /\ Minute * ThisMinute + Minute <= counter[k].until

\* Answers and requests under way of a key.
Bounded(k) == served[k] + Cardinality(Running(k)) <= Limit - 1 + Cardinality(Named)

ThrottleInv ==
  /\ ThrottleTypes
  /\ \A t \in Tabs : Timely(t)
  /\ \A k \in Keys : Dated(k) /\ Bounded(k)
  /\ Exact

LEMMA Facts ==
  /\ Limit \in Nat \ {0} /\ Minute \in Nat \ {0} /\ Hour \in Nat \ {0} /\ MaxRun \in Nat
  /\ Named \subseteq Tabs /\ IsFiniteSet(Named) /\ Cardinality(Named) \in Nat
<1>1. Named \in SUBSET Tabs
  BY DEF Named
<1> QED BY <1>1, TimesAssumption, TabsAssumption, FS_Subset, FS_CardinalityType

LEMMA RunningSize ==
  ASSUME NEW k
  PROVE  /\ Running(k) \subseteq Named /\ IsFiniteSet(Running(k))
         /\ Cardinality(Running(k)) \in Nat /\ Cardinality(Running(k)) <= Cardinality(Named)
<1>1. Running(k) \in SUBSET Named
  BY DEF Running
<1> QED BY <1>1, Facts, FS_Subset, FS_CardinalityType

\* An earlier time has no later minute.
LEMMA EarlierMinute ==
  ASSUME NEW a \in Nat, NEW b \in Nat, a <= b
  PROVE  MinuteOf(a) <= MinuteOf(b)
<1> DEFINE p == MinuteOf(a)  q == MinuteOf(b)
<1>1. /\ p \in Nat /\ q \in Nat /\ Minute \in Nat \ {0}
      /\ Minute * p <= a /\ b < Minute * q + Minute
      /\ Minute * p \in Nat /\ Minute * q \in Nat
  BY MinuteFacts, Facts
<1> HIDE DEF p, q
<1>2. SUFFICES ASSUME q < p PROVE FALSE
  <2>1. q < p \/ p <= q
    BY <1>1
  <2> QED BY <2>1 DEF p, q
<1>3. q + 1 <= p /\ q + 1 \in Nat
  BY <1>1, <1>2
<1>4. Minute * (q + 1) <= Minute * p
  BY <1>1, <1>3, MulMono
<1>5. Minute * (q + 1) = Minute * q + Minute
  BY <1>1
<1> QED BY ONLY <1>1, <1>4, <1>5, a \in Nat, b \in Nat, a <= b

\* The minute of a running request, and its key.
LEMMA RunningMinute ==
  ASSUME ThrottleInv, NEW t \in Tabs, request[t].at = "running"
  PROVE  LET m == request[t].minute
         IN  /\ m \in Nat /\ Key(m) \in Keys /\ m <= ThisMinute
             /\ now < Minute * m + Minute + MaxRun
             /\ Key(m) = Key(ThisMinute) => m = ThisMinute
<1> DEFINE m == request[t].minute  a == request[t].since
<1>1. /\ m \in Nat /\ a \in Nat /\ now \in Nat /\ m = MinuteOf(a)
      /\ a <= now /\ now <= a + MaxRun
  BY DEF ThrottleInv, ThrottleTypes, Timely, Requests
<1> HIDE DEF m, a
<1>2. m <= ThisMinute /\ ThisMinute \in Nat
  BY <1>1, EarlierMinute, MinuteFacts DEF ThisMinute
<1>3. a < Minute * m + Minute /\ Minute * m \in Nat
  BY <1>1, MinuteFacts
<1>4. now < Minute * m + Minute + MaxRun
  BY ONLY <1>1, <1>3, Facts
<1>5. ASSUME Key(m) = Key(ThisMinute) PROVE m = ThisMinute
  <2>1. SUFFICES ASSUME m < ThisMinute PROVE FALSE
    BY <1>1, <1>2
  <2>2. Minute * m + 2 * Minute + MaxRun < Minute * ThisMinute
    BY <1>1, <1>2, <1>5, <2>1, OldIsOver
  <2>3. Minute * ThisMinute <= now /\ Minute * ThisMinute \in Nat
    BY <1>1, MinuteFacts DEF ThisMinute
  <2> QED BY ONLY <1>1, <1>3, <1>4, <2>2, <2>3, Facts
<1>6. Key(m) \in Keys
  BY <1>1, KeyType
<1> QED BY <1>1, <1>2, <1>4, <1>5, <1>6 DEF m

\* The count a request of this minute finds is the number of its answers.
LEMMA CountIsServed ==
  ASSUME ThrottleInv
  PROVE  /\ ThisMinute \in Nat /\ Key(ThisMinute) \in Keys
         /\ Count(Key(ThisMinute)) = served[Key(ThisMinute)]
         /\ served[Key(ThisMinute)] \in Nat
<1> DEFINE K == Key(ThisMinute)
<1>1. now \in Nat /\ ThisMinute \in Nat /\ K \in Keys
  BY MinuteFacts, KeyType DEF ThrottleInv, ThrottleTypes, ThisMinute
<1>2. now < Minute * ThisMinute + Minute /\ Minute * ThisMinute \in Nat
  BY <1>1, MinuteFacts DEF ThisMinute
<1>3. served[K] \in Nat /\ counter[K] \in [n : Nat, until : Int]
  BY <1>1 DEF ThrottleInv, ThrottleTypes
<1>4. Count(K) = served[K]
  <2>1. CASE served[K] = 0
    BY <2>1 DEF ThrottleInv, Exact, Count
  <2>2. CASE served[K] # 0
    <3>1. counter[K].n = served[K] /\ Minute * ThisMinute + Minute <= counter[K].until
      BY <2>2 DEF ThrottleInv, Exact
    <3>2. counter[K].until \in Int
      BY <1>3
    <3>3. now <= counter[K].until
      BY ONLY <1>1, <1>2, <3>1, <3>2, Facts
    <3> QED BY <3>1, <3>3 DEF Count, Live
  <2> QED BY <2>1, <2>2
<1> QED BY <1>1, <1>3, <1>4

LEMMA ThrottleInit == Init => ThrottleInv
<1> SUFFICES ASSUME Init PROVE ThrottleInv
  OBVIOUS
<1>1. Ended \in [n : Nat, until : Int] /\ Ended.until = -1 /\ NoRequest \in Requests
      /\ NoRequest.at = "idle" /\ now = 0
  BY DEF Ended, Never, NoRequest, Requests, Init
<1>2. ThrottleTypes
  BY <1>1 DEF Init, ThrottleTypes
<1>3. \A k \in Keys : ~Live(counter[k])
  BY <1>1 DEF Init, Live
<1>4. \A t \in Tabs : Timely(t)
  BY <1>1 DEF Init, Timely
<1>5. ASSUME NEW k \in Keys PROVE Dated(k) /\ Bounded(k)
  <2>1. Running(k) = {}
    BY <1>1, Facts DEF Init, Running
  <2>2. Cardinality(Running(k)) = 0 /\ served[k] = 0
    BY <2>1, FS_EmptySet DEF Init
  <2> QED BY <1>3, <2>2, Facts DEF Dated, Bounded
<1>6. Exact
  <2>1. Key(ThisMinute) \in Keys
    BY <1>1, MinuteFacts, KeyType DEF ThisMinute
  <2> QED BY <1>3, <2>1 DEF Exact, Init
<1> QED BY <1>2, <1>4, <1>5, <1>6 DEF ThrottleInv

\* A tab's record changes, and no entry.
LEMMA RequestChanged ==
  ASSUME ThrottleInv, NEW t \in Tabs, NEW new \in Requests,
         request' = [request EXCEPT ![t] = new], UNCHANGED <<now, counter, served>>,
         Timely(t)', \A k \in Keys : Bounded(k)'
  PROVE  ThrottleInv'
<1>1. ThrottleTypes'
  BY DEF ThrottleInv, ThrottleTypes
<1>2. \A r \in Tabs \ {t} : request'[r] = request[r]
  BY DEF ThrottleInv, ThrottleTypes
<1>3. \A r \in Tabs : Timely(r)'
  BY <1>2 DEF ThrottleInv, Timely, ThisMinute
<1>4. (\A k \in Keys : Dated(k)') /\ Exact'
  BY DEF ThrottleInv, Dated, Exact, Live, ThisMinute
<1> QED BY <1>1, <1>3, <1>4 DEF ThrottleInv

LEMMA ArriveStep ==
  ASSUME ThrottleInv, NEW t \in Tabs, Arrive(t)
  PROVE  ThrottleInv'
<1> DEFINE K   == Key(ThisMinute)
           new == [at |-> IF t \notin Nameless /\ Count(K) >= Limit THEN "refused" ELSE "running",
                   minute |-> ThisMinute, since |-> now,
                   count |-> IF t \in Nameless THEN 0 ELSE Count(K)]
<1>1. /\ request[t].at # "running" /\ request' = [request EXCEPT ![t] = new]
      /\ UNCHANGED <<now, counter, served>>
  BY DEF Arrive
<1>2. ThisMinute \in Nat /\ K \in Keys /\ Count(K) = served[K] /\ served[K] \in Nat /\ now \in Nat
  BY CountIsServed DEF ThrottleInv, ThrottleTypes
<1>3. /\ new \in Requests /\ new.minute = ThisMinute /\ new.since = now
      /\ new.at \in {"refused", "running"}
      /\ new.at = "refused" => served[K] >= Limit
      /\ new.at = "running" /\ t \in Named => served[K] < Limit
  BY <1>2, Facts DEF Requests, Named
<1>4. \A r \in Tabs : request'[r] = IF r = t THEN new ELSE request[r]
  BY <1>1 DEF ThrottleInv, ThrottleTypes
<1> HIDE DEF new
<1>5. Timely(t)'
  BY <1>1, <1>2, <1>3, <1>4, Facts DEF Timely, ThisMinute
<1>6. ASSUME NEW k \in Keys PROVE Bounded(k)'
  <2>1. CASE t \in Named /\ new.at = "running" /\ k = K
    <3>1. Cardinality(Running(k)') \in Nat /\ Cardinality(Running(k)') <= Cardinality(Named)
      <4>1. Running(k)' \in SUBSET Named
        BY DEF Running
      <4> QED BY <4>1, Facts, FS_Subset, FS_CardinalityType
    <3>2. served'[k] = served[K] /\ served[K] < Limit
      BY <1>1, <1>3, <2>1
    <3> QED BY <1>2, <3>1, <3>2, Facts DEF Bounded
  <2>2. CASE ~(t \in Named /\ new.at = "running" /\ k = K)
    <3>1. \A r \in Tabs : request'[r].at = "running" /\ Key(request'[r].minute) = k /\ r \in Named
            <=> request[r].at = "running" /\ Key(request[r].minute) = k /\ r \in Named
      BY <1>1, <1>3, <1>4, <2>2
    <3>2. Running(k)' = Running(k)
      BY <3>1, Facts DEF Running
    <3> QED BY <1>1, <3>2 DEF ThrottleInv, Bounded
  <2> QED BY <2>1, <2>2
<1> QED BY <1>1, <1>3, <1>5, <1>6, RequestChanged

\* A request is over: one fewer is under way.
LEMMA OneLess ==
  ASSUME ThrottleInv, NEW t \in Tabs, request' = [request EXCEPT ![t] = NoRequest], NEW k
  PROVE  /\ Running(k)' = Running(k) \ {t}
         /\ Cardinality(Running(k)') = IF t \in Running(k) THEN Cardinality(Running(k)) - 1
                                       ELSE Cardinality(Running(k))
<1>1. \A r \in Tabs : request'[r] = IF r = t THEN NoRequest ELSE request[r]
  BY DEF ThrottleInv, ThrottleTypes
<1>2. NoRequest.at = "idle"
  BY DEF NoRequest
<1>3. Running(k)' = Running(k) \ {t}
  BY <1>1, <1>2, Facts DEF Running
<1> QED BY <1>3, RunningSize, FS_RemoveElement

LEMMA NoRequestFacts == NoRequest \in Requests /\ NoRequest.at = "idle"
BY DEF NoRequest, Requests

LEMMA FailStep ==
  ASSUME ThrottleInv, NEW t \in Tabs, Fail(t) \/ (Succeed(t) /\ t \in Nameless)
  PROVE  ThrottleInv'
<1>1. request' = [request EXCEPT ![t] = NoRequest] /\ UNCHANGED <<now, counter, served>>
  BY DEF Fail, Succeed
<1>2. Timely(t)'
  <2>1. request'[t] = NoRequest
    BY <1>1 DEF ThrottleInv, ThrottleTypes
  <2> QED BY <2>1, NoRequestFacts DEF Timely
<1>3. ASSUME NEW k \in Keys PROVE Bounded(k)'
  <2>1. Cardinality(Running(k)') \in {Cardinality(Running(k)), Cardinality(Running(k)) - 1}
    BY <1>1, OneLess
  <2>2. served[k] \in Nat /\ served[k] + Cardinality(Running(k)) <= Limit - 1 + Cardinality(Named)
    BY DEF ThrottleInv, ThrottleTypes, Bounded
  <2>3. Cardinality(Running(k)) \in Nat
    BY RunningSize
  <2>4. served[k] + Cardinality(Running(k)') <= Limit - 1 + Cardinality(Named)
    BY ONLY <2>1, <2>2, <2>3, Facts
  <2> QED BY <1>1, <2>4 DEF Bounded
<1> QED BY <1>1, <1>2, <1>3, NoRequestFacts, RequestChanged

LEMMA SucceedStep ==
  ASSUME ThrottleInv, NEW t \in Tabs \ Nameless, Succeed(t)
  PROVE  ThrottleInv'
<1> DEFINE m   == request[t].minute
           j   == Key(m)
           new == [n |-> Count(j) + 1, until |-> now + Minute]
<1>1. /\ request[t].at = "running" /\ request' = [request EXCEPT ![t] = NoRequest]
      /\ counter' = [counter EXCEPT ![j] = new] /\ served' = [served EXCEPT ![j] = served[j] + 1]
      /\ now' = now
  BY DEF Succeed, Counted, Key
<1>2. /\ m \in Nat /\ j \in Keys /\ m <= ThisMinute /\ now < Minute * m + Minute + MaxRun
      /\ j = Key(ThisMinute) => m = ThisMinute
  BY <1>1, RunningMinute
<1>3. /\ now \in Nat /\ ThisMinute \in Nat /\ Key(ThisMinute) \in Keys
      /\ Count(Key(ThisMinute)) = served[Key(ThisMinute)]
      /\ counter \in [Keys -> [n : Nat, until : Int]] /\ served \in [Keys -> Nat]
      /\ request \in [Tabs -> Requests]
  BY CountIsServed DEF ThrottleInv, ThrottleTypes
<1>4. Count(j) \in Nat
  BY <1>2, <1>3 DEF Count
<1>5. new \in [n : Nat, until : Int] /\ new.n = Count(j) + 1 /\ new.until = now + Minute
  BY <1>3, <1>4, Facts
<1> HIDE DEF new
<1>6. /\ \A k \in Keys : counter'[k] = IF k = j THEN new ELSE counter[k]
      /\ \A k \in Keys : served'[k] = IF k = j THEN served[k] + 1 ELSE served[k]
      /\ \A r \in Tabs : request'[r] = IF r = t THEN NoRequest ELSE request[r]
  BY <1>1, <1>3
<1>7. ThrottleTypes'
  <2>1. counter' \in [Keys -> [n : Nat, until : Int]]
    BY <1>1, <1>3, <1>5
  <2>2. served' \in [Keys -> Nat]
    BY <1>1, <1>2, <1>3
  <2>3. request' \in [Tabs -> Requests]
    BY <1>1, <1>3, NoRequestFacts
  <2> QED BY <1>1, <1>3, <2>1, <2>2, <2>3 DEF ThrottleTypes
<1>8. ASSUME NEW r \in Tabs PROVE Timely(r)'
  <2>1. CASE r = t
    BY <1>6, <2>1, NoRequestFacts DEF Timely
  <2>2. CASE r # t
    <3>1. request'[r] = request[r] /\ ThisMinute' = ThisMinute
      BY <1>1, <1>6, <2>2 DEF ThisMinute
    <3>2. served[Key(ThisMinute)] >= Limit => served'[Key(ThisMinute)] >= Limit
      BY <1>3, <1>6, Facts
    <3> QED BY <1>1, <3>1, <3>2 DEF ThrottleInv, Timely
  <2> QED BY <2>1, <2>2
<1>9. ASSUME NEW k \in Keys PROVE Dated(k)'
  <2>1. CASE k = j
    <3>1. Minute * m \in Nat
      BY <1>2, Facts
    <3>2. new.until < Minute * m + 2 * Minute + MaxRun
      BY ONLY <1>2, <1>3, <1>5, <3>1, Facts
    <3> QED BY <1>1, <1>2, <1>6, <2>1, <3>2 DEF Dated, ThisMinute
  <2>2. CASE k # j
    BY <1>1, <1>6, <2>2 DEF ThrottleInv, Dated, Live, ThisMinute
  <2> QED BY <2>1, <2>2
<1>10. ASSUME NEW k \in Keys PROVE Bounded(k)'
  <2>1. served[k] + Cardinality(Running(k)) <= Limit - 1 + Cardinality(Named) /\ served[k] \in Nat
        /\ Cardinality(Running(k)) \in Nat
    BY <1>3, RunningSize DEF ThrottleInv, Bounded
  <2>2. t \in Running(k) <=> k = j
    BY <1>1 DEF Running, Named
  <2>3. Cardinality(Running(k)') = IF k = j THEN Cardinality(Running(k)) - 1 ELSE Cardinality(Running(k))
    BY <1>1, <2>2, OneLess
  <2>4. served'[k] = IF k = j THEN served[k] + 1 ELSE served[k]
    BY <1>6
  <2>5. served'[k] + Cardinality(Running(k)') <= Limit - 1 + Cardinality(Named)
    BY ONLY <2>1, <2>3, <2>4, Facts
  <2> QED BY <2>5 DEF Bounded
<1>11. Exact'
  <2> DEFINE K == Key(ThisMinute)
  <2>1. ThisMinute' = ThisMinute
    BY <1>1 DEF ThisMinute
  <2>2. CASE j = K
    <3>1. counter'[K] = new /\ served'[K] = served[K] + 1 /\ Count(j) = served[K] /\ served[K] \in Nat
      BY <1>3, <1>6, <2>2
    <3>2. Minute * ThisMinute <= now /\ Minute * ThisMinute \in Nat
      BY <1>3, MinuteFacts DEF ThisMinute
    <3>3. Minute * ThisMinute + Minute <= new.until
      BY ONLY <1>3, <1>5, <3>2, Facts
    <3>4. counter'[K].n = served'[K] /\ served'[K] # 0
      BY <1>5, <3>1
    <3> QED BY <2>1, <3>1, <3>3, <3>4 DEF Exact
  <2>3. CASE j # K
    <3>1. counter'[K] = counter[K] /\ served'[K] = served[K]
      BY <1>3, <1>6, <2>3
    <3> QED BY <1>1, <2>1, <3>1 DEF ThrottleInv, Exact, Live
  <2> QED BY <2>2, <2>3
<1> QED BY <1>7, <1>8, <1>9, <1>10, <1>11 DEF ThrottleInv

\* An entry after a tick: as it was if it is live then, lapsed otherwise.
LEMMA AfterTick ==
  ASSUME ThrottleInv, Tick, NEW k \in Keys
  PROVE  /\ now' = now + 1 /\ now \in Nat /\ counter'[k] \in [n : Nat, until : Int]
         /\ now' <= counter'[k].until => counter'[k] = counter[k] /\ Live(counter[k])
         /\ now + 1 <= counter[k].until => counter'[k] = counter[k]
<1>1. now' = now + 1 /\ now \in Nat
  BY DEF Tick, ThrottleInv, ThrottleTypes
<1>2. counter'[k] = IF now + 1 <= counter[k].until THEN counter[k] ELSE Ended
  BY DEF Tick, Lapse
<1>3. Ended \in [n : Nat, until : Int] /\ Ended.until = -1
  BY DEF Ended, Never
<1>4. counter[k] \in [n : Nat, until : Int] /\ counter[k].until \in Int
  BY DEF ThrottleInv, ThrottleTypes
<1>5. ~(now + 1 <= counter[k].until) => ~(now' <= counter'[k].until)
  BY <1>1, <1>2, <1>3
<1>6. now + 1 <= counter[k].until => now <= counter[k].until
  BY ONLY <1>1, <1>4
<1> QED BY <1>1, <1>2, <1>3, <1>4, <1>5, <1>6 DEF Live

LEMMA TickThrottle ==
  ASSUME ThrottleInv, Tick
  PROVE  ThrottleInv'
<1> DEFINE M == ThisMinute  K == Key(M)
<1>1. /\ now' = now + 1 /\ now \in Nat /\ now' \in Nat /\ M \in Nat /\ K \in Keys
      /\ counter \in [Keys -> [n : Nat, until : Int]] /\ served \in [Keys -> Nat]
      /\ request \in [Tabs -> Requests]
  BY MinuteFacts, KeyType DEF Tick, ThrottleInv, ThrottleTypes, ThisMinute
<1>2. ThisMinute' = MinuteOf(now + 1) /\ ThisMinute' \in {M, M + 1} /\ ThisMinute' \in Nat
  BY <1>1, NextMinute DEF ThisMinute
<1>3. \A r \in Tabs : /\ request'[r] \in {NoRequest, request[r]}
                      /\ request'[r].at # "refused"
                      /\ request[r].at = "running" => now < request[r].since + MaxRun
  BY NoRequestFacts DEF Tick
<1>4. \A k \in Keys : served'[k] \in {0, served[k]} /\ (ThisMinute' = M => served'[k] = served[k])
                      /\ (ThisMinute' # M => (k # K => served'[k] = 0))
  BY <1>2 DEF Tick, Key
<1>5. ThrottleTypes'
  <2>1. counter' \in [Keys -> [n : Nat, until : Int]]
    <3>1. counter' = [k \in Keys |-> counter'[k]]
      BY DEF Tick
    <3> QED BY <3>1, AfterTick
  <2>2. served' \in [Keys -> Nat]
    BY <1>1 DEF Tick
  <2>3. request' \in [Tabs -> Requests]
    BY <1>1, NoRequestFacts DEF Tick
  <2> QED BY <1>1, <2>1, <2>2, <2>3 DEF ThrottleTypes
<1>6. ASSUME NEW r \in Tabs PROVE Timely(r)'
  <2>1. CASE request'[r].at # "running"
    BY <1>3, <2>1 DEF Timely
  <2>2. CASE request'[r].at = "running"
    <3>1. request'[r] = request[r] /\ now < request[r].since + MaxRun
      BY <1>3, <2>2, NoRequestFacts
    <3>2. request[r].since \in Nat /\ request[r].since <= now
          /\ request[r].minute = MinuteOf(request[r].since)
      BY <1>1, <2>2, <3>1 DEF ThrottleInv, Timely, Requests
    <3>3. request[r].since <= now + 1 /\ now + 1 <= request[r].since + MaxRun
      BY ONLY <1>1, <3>1, <3>2, Facts
    <3> QED BY <1>1, <2>2, <3>1, <3>2, <3>3 DEF Timely
  <2> QED BY <2>1, <2>2
<1>7. ASSUME NEW k \in Keys PROVE Dated(k)'
  <2> SUFFICES ASSUME Live(counter[k])'
               PROVE  \E m \in Nat : /\ m <= ThisMinute' /\ Key(m) = k
                                     /\ counter'[k].until < Minute * m + 2 * Minute + MaxRun
    BY DEF Dated, Key
  <2>1. counter'[k] = counter[k] /\ Live(counter[k])
    BY AfterTick DEF Live
  <2>2. PICK m \in Nat : /\ m <= M /\ Key(m) = k
                         /\ counter[k].until < Minute * m + 2 * Minute + MaxRun
    BY <2>1 DEF ThrottleInv, Dated
  <2>3. m <= ThisMinute'
    BY <1>1, <1>2, <2>2
  <2> QED BY <2>1, <2>2, <2>3
<1>8. ASSUME NEW k \in Keys PROVE Bounded(k)'
  <2>1. Running(k)' = Running(k)
    <3>1. \A r \in Tabs : request[r].at = "running" => request'[r] = request[r]
      BY DEF Tick
    <3> QED BY <1>3, <3>1, Facts, NoRequestFacts DEF Running
  <2>2. served[k] + Cardinality(Running(k)) <= Limit - 1 + Cardinality(Named) /\ served[k] \in Nat
        /\ Cardinality(Running(k)) \in Nat
    BY <1>1, RunningSize DEF ThrottleInv, Bounded
  <2>3. served'[k] \in {0, served[k]}
    BY <1>4
  <2>4. served'[k] + Cardinality(Running(k)) <= Limit - 1 + Cardinality(Named)
    BY ONLY <2>2, <2>3, Facts
  <2> QED BY <2>1, <2>4 DEF Bounded
<1>9. Exact'
  <2>1. CASE ThisMinute' = M
    <3>1. served'[K] = served[K]
      BY <1>1, <1>4, <2>1
    <3>2. CASE served[K] = 0
      <4>1. ~(now' <= counter'[K].until)
        BY <1>1, <3>2, AfterTick DEF ThrottleInv, Exact
      <4> QED BY <2>1, <3>1, <3>2, <4>1 DEF Exact, Live
    <3>3. CASE served[K] # 0
      <4>1. counter[K].n = served[K] /\ Minute * M + Minute <= counter[K].until
            /\ counter[K].until \in Int
        BY <1>1, <3>3 DEF ThrottleInv, Exact
      <4>2. now + 1 < Minute * M + Minute /\ Minute * M \in Nat
        <5>1. now + 1 \in Nat /\ M = MinuteOf(now + 1)
          BY <1>1, <1>2, <2>1
        <5> HIDE DEF M
        <5> QED BY <5>1, MinuteFacts
      <4>3. now + 1 <= counter[K].until
        BY ONLY <1>1, <4>1, <4>2, Facts
      <4>4. counter'[K] = counter[K]
        BY <1>1, <4>3, AfterTick
      <4> QED BY <2>1, <3>1, <3>3, <4>1, <4>4 DEF Exact
    <3> QED BY <3>2, <3>3
  <2>2. CASE ThisMinute' = M + 1
    <3> DEFINE L == Key(M + 1)
    <3>1. M + 1 \in Nat /\ L \in Keys /\ L # K
      BY <1>1, NextKey, KeyType
    <3>2. served'[L] = 0
      BY <1>1, <1>4, <2>2, <3>1
    <3>3. ~(now' <= counter'[L].until)
      <4>1. SUFFICES ASSUME now' <= counter'[L].until PROVE FALSE
        OBVIOUS
      <4>2. counter'[L] = counter[L] /\ Live(counter[L])
        BY <3>1, <4>1, AfterTick
      <4>3. PICK m \in Nat : /\ m <= M /\ Key(m) = L
                             /\ counter[L].until < Minute * m + 2 * Minute + MaxRun
        BY <3>1, <4>2 DEF ThrottleInv, Dated
      <4>4. m < M + 1
        BY <1>1, <4>3
      <4>5. Minute * m + 2 * Minute + MaxRun < Minute * (M + 1)
        BY <3>1, <4>3, <4>4, OldIsOver
      <4>6. Minute * (M + 1) <= now + 1 /\ Minute * (M + 1) \in Nat
        <5>1. now + 1 \in Nat /\ M + 1 = MinuteOf(now + 1)
          BY <1>1, <1>2, <2>2
        <5> HIDE DEF M
        <5> QED BY <5>1, MinuteFacts
      <4>7. now + 1 <= counter[L].until /\ counter[L].until \in Int
        BY <1>1, <3>1, <4>1, <4>2
      <4>8. Minute * m \in Nat
        BY Facts
      <4> QED BY ONLY <1>1, <4>3, <4>5, <4>6, <4>7, <4>8, Facts
    <3> QED BY <2>2, <3>2, <3>3 DEF Exact, Live
  <2> QED BY <1>2, <2>1, <2>2
<1> QED BY <1>5, <1>6, <1>7, <1>8, <1>9 DEF ThrottleInv

LEMMA ThrottleStep == ThrottleInv /\ [Next]_vars => ThrottleInv'
<1> SUFFICES ASSUME ThrottleInv, [Next]_vars PROVE ThrottleInv'
  OBVIOUS
<1>1. ASSUME NEW t \in Tabs, Arrive(t) \/ Succeed(t) \/ Fail(t) PROVE ThrottleInv'
  BY <1>1, ArriveStep, SucceedStep, FailStep
<1>2. CASE UNCHANGED <<now, throttle>>
  <2>1. UNCHANGED <<now, counter, request, served>>
    BY <1>2 DEF throttle
  <2>2. \A k \in Keys : Running(k)' = Running(k)
    BY <2>1 DEF Running
  <2> QED BY <2>1, <2>2 DEF ThrottleInv, ThrottleTypes, Timely, Dated, Bounded, Exact, Live, ThisMinute
<1>3. ASSUME NEW v \in Viewers,
             OuterHit(v) \/ InnerHit(v) \/ Ask(v) \/ Read(v) \/ Fill(v) \/ Miss(v)
      PROVE  UNCHANGED <<now, throttle>>
  BY <1>3 DEF OuterHit, InnerHit, Ask, Read, Fill, Miss
<1>4. CASE UNCHANGED vars
  BY <1>2, <1>4 DEF vars
<1>5. CASE Restart
  <2>1. now' = now /\ now \in Nat /\ ThisMinute' = ThisMinute /\ Key(ThisMinute) \in Keys
    BY <1>5, MinuteFacts, KeyType DEF Restart, ThrottleInv, ThrottleTypes, ThisMinute
  <2>2. Ended \in [n : Nat, until : Int] /\ Ended.until = -1
    BY DEF Ended, Never
  <2>3. /\ \A k \in Keys : counter'[k] = Ended /\ served'[k] = 0
        /\ \A t \in Tabs : request'[t] = NoRequest
    BY <1>5 DEF Restart
  <2>4. ThrottleTypes'
    BY <1>5, <2>1, <2>2, NoRequestFacts DEF Restart, ThrottleTypes
  <2>5. \A k \in Keys : ~(now' <= counter'[k].until)
    BY <2>1, <2>2, <2>3
  <2>6. \A t \in Tabs : Timely(t)'
    BY <2>3, NoRequestFacts DEF Timely
  <2>7. ASSUME NEW k \in Keys PROVE Dated(k)' /\ Bounded(k)'
    <3>1. Running(k)' = {}
      BY <2>3, Facts, NoRequestFacts DEF Running
    <3>2. Cardinality(Running(k)') = 0 /\ served'[k] = 0
      BY <2>3, <3>1, FS_EmptySet
    <3> QED BY <2>5, <3>2, Facts DEF Dated, Bounded, Live
  <2>8. Exact'
    BY <2>1, <2>3, <2>5 DEF Exact, Live
  <2> QED BY <2>4, <2>6, <2>7, <2>8 DEF ThrottleInv
<1> QED BY <1>1, <1>2, <1>3, <1>4, <1>5, TickThrottle DEF Next

LEMMA ThrottleHolds == Spec => []ThrottleInv
BY ThrottleInit, ThrottleStep, PTL DEF Spec

\* For any lengths of minute, hour and request, however late answers come: a request is
\* refused only in a minute that has already had its Limit of answers.
THEOREM RefusalsJustified == Spec => []RefusedMeansFull
<1>1. ThrottleInv => RefusedMeansFull
  <2> SUFFICES ASSUME ThrottleInv, NEW t \in Tabs, request[t].at = "refused"
               PROVE  served[request[t].minute % Hour] >= Limit
    BY DEF RefusedMeansFull
  <2> QED BY DEF ThrottleInv, Timely, Key
<1> QED BY <1>1, ThrottleHolds, PTL

\* For any number of pages: a minute is answered at most Limit - 1 times and once for
\* each page of the user.
THEOREM OverrunIsBounded == Spec => []OverrunBounded
<1>1. ThrottleInv => OverrunBounded
  <2> SUFFICES ASSUME ThrottleInv, NEW k \in Keys
               PROVE  served[k] <= Limit - 1 + Cardinality(Named)
    BY DEF OverrunBounded, Named
  <2>1. served[k] \in Nat /\ served[k] + Cardinality(Running(k)) <= Limit - 1 + Cardinality(Named)
    BY DEF ThrottleInv, ThrottleTypes, Bounded
  <2>2. Cardinality(Running(k)) \in Nat
    BY RunningSize
  <2> QED BY ONLY <2>1, <2>2, Facts
<1> QED BY <1>1, ThrottleHolds, PTL

(***************************************************************************)
(* Types.  A list that is shown was read at some time: an entry either has *)
(* nothing and is never live, or has a list.                               *)
(***************************************************************************)
Stored(entry) == entry.until >= 0 => entry.taken \in 0 .. MaxTime
MemoryInv == TypeOK /\ Stored(inner) /\ Stored(outer)

LEMMA TypeFacts ==
  /\ Ended \in [n : Nat, until : Int] /\ NoList \in Entries /\ Stored(NoList)
  /\ NoRequest \in [at : {"idle", "running", "refused"},
                    minute : 0 .. MaxTime, since : 0 .. MaxTime, count : Nat]
  /\ NoView \in [at : {"idle", "asked", "read", "shown"},
                 taken : 0 .. MaxTime, since : 0 .. MaxTime]
  /\ MaxTime \in Nat /\ Minute \in Nat \ {0} /\ Hour \in Nat \ {0}
  /\ ListTTL \in Nat /\ AnswerTTL \in Nat /\ Limit \in Nat
BY TimesAssumption DEF Ended, NoList, NoRequest, NoView, Never, Entries, Stored

\* The minutes are fewer than the ticks.
LEMMA MinuteType == ASSUME now \in 0 .. MaxTime PROVE ThisMinute \in 0 .. MaxTime
<1>1. now \in Nat /\ now <= MaxTime /\ MaxTime \in Nat /\ Minute \in Nat /\ Minute >= 1
  BY TypeFacts
<1>2. now \div Minute \in Nat /\ now \div Minute <= now
  BY ONLY <1>1, SMTT(30)
<1> QED BY <1>1, <1>2 DEF ThisMinute, MinuteOf

LEMMA CountType ==
  ASSUME TypeOK, NEW minute \in 0 .. MaxTime
  PROVE  Key(minute) \in Keys /\ Count(Key(minute)) \in Nat
<1>1. Key(minute) \in Keys
  BY KeyType
<1> QED BY <1>1 DEF Count, TypeOK

LEMMA RequestTypes ==
  ASSUME MemoryInv, NEW t \in Tabs, Arrive(t) \/ Succeed(t) \/ Fail(t) PROVE MemoryInv'
<1> USE TypeFacts
<1>0. /\ now' = now /\ inner' = inner /\ outer' = outer /\ view' = view
      /\ now \in Nat
  BY DEF Arrive, Succeed, Fail, recent, MemoryInv, TypeOK
<1>1. CASE Arrive(t)
  <2>1. ThisMinute \in 0 .. MaxTime /\ Count(Key(ThisMinute)) \in Nat
    BY MinuteType, CountType DEF MemoryInv, TypeOK
  <2> DEFINE c == Count(Key(ThisMinute))
             new == [at |-> IF t \notin Nameless /\ c >= Limit THEN "refused" ELSE "running",
                     minute |-> ThisMinute, since |-> now,
                     count |-> IF t \in Nameless THEN 0 ELSE c]
  <2>2. request' = [request EXCEPT ![t] = new] /\ counter' = counter /\ served' = served
    BY <1>1 DEF Arrive
  <2>3. new \in [at : {"idle", "running", "refused"},
                 minute : 0 .. MaxTime, since : 0 .. MaxTime, count : Nat]
    BY <2>1 DEF MemoryInv, TypeOK
  <2> HIDE DEF new
  <2> QED BY <1>0, <2>2, <2>3 DEF MemoryInv, TypeOK, Stored
<1>2. CASE Succeed(t)
  <2>1. request[t].minute \in 0 .. MaxTime /\ now \in Nat /\ Minute \in Nat
    BY <1>0 DEF MemoryInv, TypeOK
  <2>2. Counted(t) \in [n : Nat, until : Int] /\ Key(request[t].minute) \in Keys
    BY <2>1, CountType DEF Counted, MemoryInv
  <2>3. /\ request' = [request EXCEPT ![t] = NoRequest]
        /\ counter' = counter \/ counter' = [counter EXCEPT ![Key(request[t].minute)] = Counted(t)]
        /\ served' = served
             \/ served' = [served EXCEPT ![Key(request[t].minute)] = served[Key(request[t].minute)] + 1]
    BY <1>2, <2>2 DEF Succeed, Key
  <2>4. served' \in [Keys -> Nat]
    BY <2>2, <2>3 DEF MemoryInv, TypeOK
  <2>5. counter' \in [Keys -> [n : Nat, until : Int]]
    BY <2>2, <2>3 DEF MemoryInv, TypeOK
  <2> QED BY <1>0, <2>3, <2>4, <2>5 DEF MemoryInv, TypeOK, Stored
<1>3. CASE Fail(t)
  BY <1>0, <1>3 DEF Fail, MemoryInv, TypeOK, Stored
<1> QED BY <1>1, <1>2, <1>3

LEMMA ViewTypes ==
  ASSUME MemoryInv, NEW v \in Viewers,
         OuterHit(v) \/ InnerHit(v) \/ Ask(v) \/ Read(v) \/ Fill(v) \/ Miss(v)
  PROVE  MemoryInv'
<1> USE TypeFacts
<1>0. now' = now /\ UNCHANGED throttle /\ now \in 0 .. MaxTime /\ view[v].taken \in 0 .. MaxTime
  BY DEF OuterHit, InnerHit, Ask, Read, Fill, Miss, MemoryInv, TypeOK
<1>1. ASSUME NEW taken \in 0 .. MaxTime, Show(v, taken)
      PROVE  view' \in [Viewers -> [at : {"idle", "asked", "read", "shown"},
                                    taken : 0 .. MaxTime, since : 0 .. MaxTime]]
  BY <1>0, <1>1 DEF Show, MemoryInv, TypeOK
<1>2. ASSUME NEW taken \in 0 .. MaxTime, NEW ttl \in Nat
      PROVE  [taken |-> taken, until |-> now + ttl] \in Entries
  BY <1>0 DEF Entries
<1>3. CASE OuterHit(v)
  BY <1>0, <1>1, <1>3 DEF OuterHit, Live, MemoryInv, TypeOK, Stored, throttle
<1>4. CASE InnerHit(v)
  <2>1. inner.taken \in 0 .. MaxTime
    BY <1>0, <1>4 DEF InnerHit, Live, MemoryInv, TypeOK, Stored
  <2>2. view' \in [Viewers -> [at : {"idle", "asked", "read", "shown"},
                               taken : 0 .. MaxTime, since : 0 .. MaxTime]]
    BY <1>1, <1>4, <2>1 DEF InnerHit
  <2>3. outer' \in Entries /\ outer'.taken \in 0 .. MaxTime
    BY <1>2, <1>4, <2>1 DEF InnerHit
  <2> QED BY <1>0, <1>4, <2>2, <2>3 DEF InnerHit, MemoryInv, TypeOK, Stored, throttle, Entries
<1>5. CASE Ask(v)
  BY <1>0, <1>5 DEF Ask, MemoryInv, TypeOK, Stored, throttle
<1>6. CASE Read(v)
  <2>1. /\ view' = [view EXCEPT ![v].at = "read", ![v].taken = now]
        /\ inner' = inner /\ outer' = outer
    BY <1>6 DEF Read
  <2> DEFINE new == [view[v] EXCEPT !.at = "read", !.taken = now]
  <2>2. new \in [at : {"idle", "asked", "read", "shown"},
                 taken : 0 .. MaxTime, since : 0 .. MaxTime]
    BY <1>0 DEF MemoryInv, TypeOK
  <2>3. view' = [view EXCEPT ![v] = new] /\ inner' = inner /\ outer' = outer
    BY <2>1
  <2> HIDE DEF new
  <2> QED BY <1>0, <2>2, <2>3 DEF MemoryInv, TypeOK, Stored, throttle
<1>7. CASE Fill(v)
  <2>1. view' \in [Viewers -> [at : {"idle", "asked", "read", "shown"},
                               taken : 0 .. MaxTime, since : 0 .. MaxTime]]
    BY <1>0, <1>1, <1>7 DEF Fill
  <2>2. /\ outer' \in Entries /\ outer'.taken \in 0 .. MaxTime
        /\ inner' \in Entries /\ inner'.taken \in 0 .. MaxTime
    BY <1>0, <1>2, <1>7 DEF Fill, Kept
  <2> QED BY <1>0, <2>1, <2>2 DEF MemoryInv, TypeOK, Stored, throttle, Entries
<1>8. CASE Miss(v)
  BY <1>0, <1>8 DEF Miss, MemoryInv, TypeOK, Stored, throttle
<1> QED BY <1>3, <1>4, <1>5, <1>6, <1>7, <1>8

LEMMA TickTypes == ASSUME MemoryInv, Tick PROVE MemoryInv'
<1> USE TypeFacts
<1>1. now' \in 0 .. MaxTime
  BY DEF Tick, MemoryInv, TypeOK
<1>2. counter' \in [Keys -> [n : Nat, until : Int]]
  BY DEF Tick, Lapse, MemoryInv, TypeOK
<1>3. request' \in [Tabs -> [at : {"idle", "running", "refused"},
                             minute : 0 .. MaxTime, since : 0 .. MaxTime, count : Nat]]
  BY DEF Tick, MemoryInv, TypeOK
<1>4. view' \in [Viewers -> [at : {"idle", "asked", "read", "shown"},
                             taken : 0 .. MaxTime, since : 0 .. MaxTime]]
  BY DEF Tick, MemoryInv, TypeOK
<1>5. served' \in [Keys -> Nat]
  BY DEF Tick, MemoryInv, TypeOK
<1>6. /\ inner' \in {inner, NoList} /\ outer' \in {outer, NoList}
  BY DEF Tick, Lapse
<1>7. inner' \in Entries /\ Stored(inner)' /\ outer' \in Entries /\ Stored(outer)'
  BY <1>6 DEF MemoryInv, TypeOK, Entries, Stored
<1> QED BY <1>1, <1>2, <1>3, <1>4, <1>5, <1>7 DEF MemoryInv, TypeOK, Entries

LEMMA MemoryInit == (Init => MemoryInv) /\ (MemoryInv /\ Restart => MemoryInv')
BY TypeFacts DEF Init, Restart, MemoryInv, TypeOK, Stored, Entries

\* Counters, lists and requests keep their types, for any pages, lives and lengths of
\* minute and hour; a list that is shown is one that was read.
THEOREM MemoryTypeCorrect == Spec => []TypeOK
<1>1. MemoryInv /\ [Next]_vars => MemoryInv'
  <2>1. ASSUME MemoryInv, UNCHANGED vars PROVE MemoryInv'
    BY <2>1 DEF vars, throttle, recent, MemoryInv, TypeOK, Stored
  <2> QED BY <2>1, RequestTypes, ViewTypes, TickTypes, MemoryInit DEF Next
<1>2. MemoryInv => TypeOK
  BY DEF MemoryInv
<1> QED BY <1>1, <1>2, MemoryInit, PTL DEF Spec
=============================================================================
