---------------------------- MODULE MemoryCache ----------------------------
(***************************************************************************)
(* What the process keeps in the memory of cache-manager beside tokens: the *)
(* counters that throttle GET /movie (ThrottleInterceptor) and the list of  *)
(* GET /movie/recent (MovieService.findRecent behind Nest's own             *)
(* CacheInterceptor).                                                       *)
(*                                                                          *)
(* The cache itself answers at once; a handler waits for the database.      *)
(* Time is in ticks.  A list is the time at which it was read, which is all *)
(* that its age depends on.                                                 *)
(***************************************************************************)
EXTENDS Integers, FiniteSets

CONSTANTS
  Tabs,       \* pages of one user that ask for GET /movie, one request at a time
  Nameless,   \* those whose token has no sub, or who send none
  Viewers,    \* pages that ask for GET /movie/recent
  Limit,      \* count of @Throttle
  Minute,     \* ticks of a minute, and of the TTL of 60000 ms
  Hour,       \* minutes of an hour
  ListTTL,    \* ticks of the module's default ttl, which MOVIE_RECENT gets
  AnswerTTL,  \* ticks of @CacheTTL on the route (in the code as long as the other)
  MaxRun,     \* a handler is answered within so many ticks
  MaxTime     \* bound on the clock

\* Requests are short beside an hour.
ASSUME TimesAssumption ==
  /\ Limit \in Nat \ {0} /\ Minute \in Nat \ {0} /\ Hour \in Nat \ {0}
  /\ ListTTL \in Nat /\ AnswerTTL \in Nat /\ MaxRun \in Nat /\ MaxTime \in Nat
  /\ 2 * Minute + MaxRun < Hour * Minute
  /\ Nameless \subseteq Tabs

ASSUME TabsAssumption == IsFiniteSet(Tabs)

VARIABLES
  now,
  counter,  \* the entries GET_/movie_<user>_<minute>: a number and its last tick
  request,  \* each tab's request
  served,   \* answered requests of this minute and the last, by minute of the hour (history)
  inner,    \* MOVIE_RECENT
  outer,    \* getMoviesRecent
  view      \* each viewer's request

throttle == <<counter, request, served>>
recent   == <<inner, outer, view>>
vars     == <<now, throttle, recent>>

Keys  == 0 .. Hour - 1
Never == -1
Ended == [n |-> 0, until |-> Never]     \* no such entry, or a lapsed one
NoList == [taken |-> Never, until |-> Never]

Live(entry) == now <= entry.until

NoRequest == [at |-> "idle", minute |-> 0, since |-> 0, count |-> 0]
NoView    == [at |-> "idle", taken |-> 0, since |-> 0]

TypeOK ==
  /\ now \in 0 .. MaxTime
  /\ counter \in [Keys -> [n : Nat, until : Int]]
  /\ request \in [Tabs -> [at : {"idle", "running", "refused"},
                           minute : 0 .. MaxTime, since : 0 .. MaxTime, count : Nat]]
  /\ served \in [Keys -> Nat]
  /\ inner \in [taken : Int, until : Int] /\ outer \in [taken : Int, until : Int]
  /\ view \in [Viewers -> [at : {"idle", "asked", "read", "shown"},
                           taken : 0 .. MaxTime, since : 0 .. MaxTime]]

Init ==
  /\ now = 0
  /\ counter = [k \in Keys |-> Ended]
  /\ request = [t \in Tabs |-> NoRequest]
  /\ served = [k \in Keys |-> 0]
  /\ inner = NoList /\ outer = NoList
  /\ view = [v \in Viewers |-> NoView]

(***************************************************************************)
(* ThrottleInterceptor.                                                    *)
(***************************************************************************)

\* date.getMinutes(): the minute of the hour, which is all the key has of the time.
\* Mutant: the key has no minute.
KeyOfUser(minute) == 0
Key(minute)       == minute % Hour
MinuteOf(time)    == time \div Minute
ThisMinute        == MinuteOf(now)

Count(k) == IF Live(counter[k]) THEN counter[k].n ELSE 0

\* A request comes in and is let through, or refused by what its key says now.
Arrive(t) ==
  LET count == Count(Key(ThisMinute)) IN
  /\ request[t].at # "running"
  /\ request' = [request EXCEPT ![t] =
       [at |-> IF t \notin Nameless /\ count >= Limit THEN "refused" ELSE "running",
        minute |-> ThisMinute, since |-> now,
        count |-> IF t \in Nameless THEN 0 ELSE count]]
  /\ UNCHANGED <<now, counter, served, recent>>

\* tap, after an answer without error: the count is read again and written back
\* one higher, for another minute.
\* Mutant: the count read before the handler is used.
CountedStale(t) ==
  [n |-> request[t].count + 1, until |-> now + Minute]
Counted(t) ==
  [n |-> Count(Key(request[t].minute)) + 1, until |-> now + Minute]

Succeed(t) ==
  LET m == request[t].minute IN
  /\ request[t].at = "running"
  /\ request' = [request EXCEPT ![t] = NoRequest]
  /\ IF t \in Nameless THEN UNCHANGED <<counter, served>>
     ELSE /\ counter' = [counter EXCEPT ![Key(m)] = Counted(t)]
          /\ served' = [served EXCEPT ![m % Hour] = @ + 1]
  /\ UNCHANGED <<now, recent>>

\* A handler that throws is not counted.
Fail(t) ==
  /\ request[t].at = "running"
  /\ request' = [request EXCEPT ![t] = NoRequest]
  /\ UNCHANGED <<now, counter, served, recent>>

(***************************************************************************)
(* GET /movie/recent.                                                      *)
(***************************************************************************)

Show(v, taken) == view' = [view EXCEPT ![v] = [at |-> "shown", taken |-> taken, since |-> now]]

\* The outer cache has the answer.
OuterHit(v) ==
  /\ view[v].at \in {"idle", "shown"} /\ Live(outer)
  /\ Show(v, outer.taken)
  /\ UNCHANGED <<now, throttle, inner, outer>>

\* findRecent finds its own entry, which has outlived the interceptor's; the
\* interceptor keeps the answer once more.
InnerHit(v) ==
  /\ view[v].at \in {"idle", "shown"} /\ ~Live(outer) /\ Live(inner)
  /\ outer' = [taken |-> inner.taken, until |-> now + AnswerTTL]
  /\ Show(v, inner.taken)
  /\ UNCHANGED <<now, throttle, inner>>

\* Neither has it: the database is asked, ...
Ask(v) ==
  /\ view[v].at \in {"idle", "shown"} /\ ~Live(outer) /\ ~Live(inner)
  /\ view' = [view EXCEPT ![v] = [at |-> "asked", taken |-> 0, since |-> now]]
  /\ UNCHANGED <<now, throttle, inner, outer>>

\* ... reads the table, ...
Read(v) ==
  /\ view[v].at = "asked"
  /\ view' = [view EXCEPT ![v].at = "read", ![v].taken = now]
  /\ UNCHANGED <<now, throttle, inner, outer>>

\* ... and answers: both caches are written, whatever they hold by now.
\* Mutant: the list is cached without a TTL.
KeptForever(taken) == [taken |-> taken, until |-> MaxTime]
Kept(taken)        == [taken |-> taken, until |-> now + ListTTL]

Fill(v) ==
  /\ view[v].at = "read"
  /\ inner' = Kept(view[v].taken)
  /\ outer' = [taken |-> view[v].taken, until |-> now + AnswerTTL]
  /\ Show(v, view[v].taken)
  /\ UNCHANGED <<now, throttle>>

\* The query fails and nothing is cached.
Miss(v) ==
  /\ view[v].at = "asked"
  /\ view' = [view EXCEPT ![v] = NoView]
  /\ UNCHANGED <<now, throttle, inner, outer>>

\* Time passes, but no handler runs for longer than MaxRun; what has lapsed is gone,
\* and what was answered has been seen.
Lapse(entry, none) == IF now + 1 <= entry.until THEN entry ELSE none

Tick ==
  /\ now < MaxTime
  /\ \A t \in Tabs : request[t].at = "running" => now < request[t].since + MaxRun
  /\ \A v \in Viewers : view[v].at \in {"asked", "read"} => now < view[v].since + MaxRun
  /\ now' = now + 1
  /\ counter' = [k \in Keys |-> Lapse(counter[k], Ended)]
  /\ inner' = Lapse(inner, NoList) /\ outer' = Lapse(outer, NoList)
  /\ request' = [t \in Tabs |-> IF request[t].at = "refused" THEN NoRequest ELSE request[t]]
  /\ view' = [v \in Viewers |-> IF view[v].at = "shown" THEN NoView ELSE view[v]]
  /\ served' = IF MinuteOf(now + 1) = ThisMinute THEN served
               ELSE [k \in Keys |-> IF k = ThisMinute % Hour THEN served[k] ELSE 0]

\* The process starts again, without its memory and its requests.
Restart ==
  /\ counter' = [k \in Keys |-> Ended]
  /\ request' = [t \in Tabs |-> NoRequest]
  /\ served' = [k \in Keys |-> 0]
  /\ inner' = NoList /\ outer' = NoList
  /\ view' = [v \in Viewers |-> NoView]
  /\ UNCHANGED now

Next ==
  \/ \E t \in Tabs : Arrive(t) \/ Succeed(t) \/ Fail(t)
  \/ \E v \in Viewers : OuterHit(v) \/ InnerHit(v) \/ Ask(v) \/ Read(v) \/ Fill(v) \/ Miss(v)
  \/ Tick \/ Restart

Spec == Init /\ [][Next]_vars

(***************************************************************************)
(* Properties.                                                             *)
(***************************************************************************)

\* A request is refused only in a minute that has had its Limit of answers: what is
\* left of other minutes, or of the same minute of another hour, refuses nobody.
RefusedMeansFull ==
  \A t \in Tabs : request[t].at = "refused" => served[request[t].minute % Hour] >= Limit

\* However its pages overlap, a user gets past the limit of a minute by less than
\* the requests it has under way at once: the counter, read before a handler and
\* written after it, loses none of the answers.
OverrunBounded ==
  \A k \in Keys : served[k] <= Limit - 1 + Cardinality(Tabs \ Nameless)

\* A list was read from the table at most both TTLs and one query before it is shown:
\* the outer cache may take the inner one's list in its last moment, but no list
\* goes round the two for ever.
RecentIsFresh ==
  \A v \in Viewers : view[v].at = "shown" =>
    view[v].since - view[v].taken <= ListTTL + AnswerTTL + MaxRun
=============================================================================
