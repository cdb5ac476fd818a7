# Verification of the movie service

TLA+ models of this repository: the NestJS backend in `src/` (movies, likes,
support chat, sessions, uploads) and the React pages in `frontend/` that drive
it. The modules follow the code statement by statement where the order of
statements matters; TLC checks them on small instances and TLAPS proves the most
important theorems for instances of any size. Paths below are relative to the
repository; line numbers in the modules and in `PROJECT.json` are those of the
commit modelled.

    tlc -config MCChat_desk.cfg MCChat        # one of the runs listed below
    tlapm Chat_proofs.tla                     # one of the proof modules

## 1. The system

One Node process serves HTTP and WebSocket, PostgreSQL keeps the tables, a
memory cache keeps tokens and counters, S3 or the disk keeps the files, and a
second process makes thumbnails from a Redis queue. Node runs one callback at a
time, so everything that can interleave does so where it waits for something outside
the process: a database statement, S3, a file. The memory cache is inside, and its
awaits let no other request in.

| component | state | operations | what makes it hard | what makes it correct |
|---|---|---|---|---|
| Likes (`movie.service.ts` toggleMovieLike, `MovieDetail.tsx`) | `likeCount`/`dislikeCount` of the movie row, `movie_user_like` rows, `likeStatus` in the page | like, dislike, reload; deletion of the movie or the user | ten statements and no transaction; counters kept by hand beside the rows they count; a correction from stale values | counters equal rows; the response and the page say what the row says; a negative counter heals |
| Support chat (`chat.gateway.ts`, `chat.service.ts`, `ws-transaction.intercepter.ts`) | rooms, members, messages; `connectedClients`; socket.io rooms; connections of the pool | connect, join, disconnect, send | messages and announcements leave before the COMMIT; check-then-create; a transaction that needs a second connection | nobody hears another customer's inquiry; what is heard is stored; all or nothing; every message ends |
| Catalog (`movie.service.ts` create/update/remove, `transaction.interceptor.ts`) | movie, detail, link, genre and director rows; files in `public/temp` and `public/movie` | POST, PATCH, DELETE; deletion of genres and directors | a file move inside a transaction; genres replaced from an old read; a removal in three statements; the response before the COMMIT | a stored movie is whole; no file is lost; what was answered is what is committed; a failure leaves nothing |
| Movie list (`movie.service.ts` findAll, `common.service.ts`, `MovieList.tsx`) | the cursor in the client's hands, the table that changes under it | first page, next page | a cursor is a key into a table that moves; two queries per page | what stays put is delivered once and in order; the walk ends |
| Sessions (`auth/`, `api/client.ts`, `AuthContext.tsx`) | cached payloads and block list in the memory cache; tokens in `localStorage`; `user` of the page | login, register, load the user, refresh and retry, sign out, every authenticated request | three lifetimes for one token; several 401s at once; answers that are lost; a page that is left half way | a blocked or expired token is nobody's; a signed-in page has a token; every request ends |
| Throttle and caches (`throttle.interceptor.ts`, findRecent) | counters by minute of the hour; the list, cached twice | GET /movie, GET /movie/recent | the count is read before the handler and written after it; two caches feed each other | refused means the minute is full; an overrun is bounded; a list is no older than both lives |
| Uploads and thumbnails (`Upload.tsx`, `common.controller.ts`, worker) | the video's place, the job in Redis, ffmpeg processes, files, the thumbnail on S3 | upload in two ways, trigger, the worker's steps | a timeout that does not stop ffmpeg; a worker that dies; a file moved away before its turn | what was promised is queued; every job ends; a completed job has its thumbnail |
| User, genre, director CRUD | their rows | create, read, update, delete | look and insert are two statements; an update writes after a hash | unique keys; an update touches what it was given and revives nothing |
| Chat page (`Chat.tsx`) | the list of messages shown | history requests, live events, choosing a room | histories and events overwrite each other | the page shows the room's messages |

Movies, likes and chat meet in the tables: deletions of users, movies, genres and
directors are therefore actions of every module whose rows they touch, with the
cascades and foreign keys of `database/migrations/1768981569452-init.ts` and of the
entities.

The hazards found while reading, each at its line and with the properties that
watch it, are in `PROJECT.json` under `hazards`; those with no property say what
is planned.

## 2. The modules

| module | what it models |
|---|---|
| `MovieLike` | one movie's counters and rows, the pages open on it, toggleMovieLike one statement per action |
| `LikeLedger` | what liking promises: clicks applied once, each in one indivisible step |
| `Chat` | sockets, rooms and messages; the transaction of a message; the pool |
| `Inquiries` | what the chat promises of its tables: a message and the room it opens, posted in one step |
| `MovieCatalog` | POST, PATCH, DELETE of movies; rows, links, files; genres and directors |
| `MovieListing` | a client walking the list while the table changes |
| `Session` | tokens from their issue to their end: the server's cache and block list, one browser's pages |
| `MemoryCache` | the throttle's counters and the two caches of the recent movies |
| `Thumbnail` | a video from the upload page through the queue and the worker to its thumbnail |
| `Records` | users, genres and directors: every handler, a statement per action |
| `MC*` | instances for TLC: who owns which page, which request names what |
| `*_proofs` | theorems about the module of that name, and their proofs |

**MovieLike.** `pc[t]` is the next statement of the request that page `t` waits
for; the locals `likeRecord`, `updated` and the response are `seen`, `updated` and
`answer`. The page sends one request at a time (`actionLoading`). `drop` and `add`
are the decrement and the increment of the branches at 1088-1140: a cancellation
drops, a new opinion adds, a switch does both. `save()` is TypeORM's select
(`LoadRow`) followed by an insert or an update (`SaveRow`). `Break` ends a request
between two statements (a lost connection, the end of the process), for the
requests in `Breakable`. Refinement: `Ledger` maps the statement that writes the row
to `LikeLedger`'s `Apply`; a counter runs ahead of the row by what requests between
their counter statement and their row statement have already added, and the
mapping (`LedgerOpinion`, `LedgerTally`, `LedgerAsked`) takes that off.

**Chat.** An action is one statement with the code that runs when it answers.
What is in memory (`clients`, `joined`) changes at once; rows are `pending` until
`Commit`. A message opens at most one room, which is named after it. `Held` counts
the connections that open transactions keep; a statement outside its transaction
(`userRepository` in createMessage, joinUserRooms) needs a `Spare` one. `Crash` is a
COMMIT that fails: the promise of the async `tap` rejects with nobody to catch it,
and Node exits. READ COMMITTED is PostgreSQL's default, and nothing sets another.
Refinement: `Inquiry` maps the stored rows of the tables to `Inquiries`; what is
pending is not there yet. The COMMIT is the step that posts a message, alone (`Write`)
or with its room (`Open`), and its guard is what the handler has looked up several
statements earlier: that the author is there and entitled to the room.

**MovieCatalog.** What a transaction has written is known from where its request
stands and what its body says, so it needs no variable for it: `Open(q)` says
it has written a row it has not committed, and `Inside(q)` is the movie as that
transaction sees it, the tables and its own writes over them. `shown` is the movie a
POST or PATCH answered with, read back (`Reread`) before the COMMIT. `NoWait` is the row and
key locks, `Accepted` and `Linkable` the constraints. `prod` chooses between a rename on
disk and a copy and a delete on S3. The text of a detail is left out; that the row exists is not.

**MovieListing.** A page is two queries (`FindCursor`, `FindPage`) on a table that
others write between any two steps. `Beyond` is the row comparison of the cursor,
`Precedes` the ORDER BY. A `getMany()` that TypeORM splits in two (ids, then rows) is
taken as one snapshot. `id` stands for an immutable column, `likeCount` for one that
changes.

**Session.** `flow[s]` is the axios request of slot `s`: where it stands, its header,
its body, the `_retry` mark and the answer. A request is served in one action, from
BearerTokenMiddleware through the guards to the handler: the memory cache and the
JWT library wait for nothing outside the process. `cached` and `blocked` hold what
`TOKEN_` and `BLOCK_TOKEN_` keys hold; `CachedAt` and `BlockedAt` are their TTLs. A
token is its type, `sub`, role and expiry; `Nobody` is the `sub` of a token made from
an object that has no `id`, `Junk` the string "undefined" that a page stores when an
answer has no tokens. `Settles`, `Refresh`, `Renewed` and `Expelled` are the response
interceptor of `client.ts`; `SignedIn`, `Loaded` and `SignedOut` are AuthContext.
`leaving` is an assignment to `window.location`: the page goes on until it is gone.

**MemoryCache.** A counter's key is the user and the minute of the hour, and its entry
lives for a minute from its last write. `request` and `view` are handlers that wait
for the database. A list is the time at which it was read, all its age depends on.
`ListTTL` is the module's default (`MOVIE_RECENT`), `AnswerTTL` that of `@CacheTTL`.
In the code both are 3000 ms, so that the inner entry never outlives the outer one and
findRecent's own cache is never hit; the run gives the inner one the longer life, so
that both caches are used.

**Thumbnail.** `job` and `queue` are what BullMQ keeps in Redis, `tries` counts how
often the job was handed out. `step` is where `process()` stands, `ffmpeg[v][n]` the
operating-system process that try `n` has started: it belongs to no one once the
timeout has rejected, and may outlive a worker. `output` is the picture on the disk,
`body` what the worker has read of it, `thumb` what S3 has: no picture, half of one or
a whole one. A process that is killed or fails in the middle leaves half a picture; one
that ends with code 0 leaves a whole one, unless another is writing the same file, or
none, if it found no frame. A job may be in Redis although the page heard of an error
(`Add`).

**Records.** One counter numbers the rows of all three tables, so that a row's id says
its table; no property looks across tables. `seen` is what a handler has read and,
in the code, does not use again: the mutant that uses it is `PatchedSeen`. The wait
for bcrypt is between `FindRow` and `Update`.

## 3. What is checked

Passing runs:

| run | instance | shows |
|---|---|---|
| `like_one_page` | two users, a page and two clicks each, bob and the movie may be deleted | TypeOK; LedgerExact, NeverUndercounts, AnswerIsToggle, ShownMatchesRow; MovieLike implements LikeLedger |
| `like_overlap` | two pages of one user, two clicks each | NegativeIsBeingCorrected, EveryClickAnswered |
| `like_broken` | as the first, and requests may die half way | RowMovesAsClicked |
| `chat_desk` | a customer with one socket, an admin with two; a message of each; old rooms or none; customer and admin may be deleted; statements of one message and its COMMIT may fail; three connections | TypeOK; Confined, AllOrNothing, RegistryLive, HeardIsReal, SenderHears, EveryMessageAnswered; Chat implements Inquiries |
| `catalog_desk` | two POSTs with the same file name, two PATCHes and a DELETE of one movie, one of them after a title a POST takes; a genre and a director deleted; a POST and the DELETE may fail; disk and S3 | TypeOK; WholeMovie, NoFileLost, AnswerHolds, CommitsWhatItShowed, EveryRequestEnds |
| `listing_walk` | three movies and one to come, pages of two, two writes at any point, four orders, with and without a title | EveryMovieOnce, PagesInOrder, WalkEnds |
| `session` | one account, two things under way at once of which one may be a form, three in all; its answers may be lost; one restart; five ticks | TypeOK; SpentIsUnknown, SignedInHasTokens, EveryFlowEnds |
| `memory_cache` | three pages (one without a user) at a limit of two, minutes of two ticks, hours of three minutes; two viewers of the recent list | RefusedMeansFull, OverrunBounded, RecentIsFresh |
| `thumbnail` | one video through the server, one by presigned URL; two worker crashes | PromisedIsQueued, PartialOnlyAfterCrash, CompletedHasThumbnail, EveryJobEnds |
| `records` | three requests of any kind, two rows, of which one is there from the start | UniqueKeys, RemovedStaysRemoved, OnlyGivenChange |

Runs that end in a counterexample, each a disagreement between the code and what
its comments or docs say (`findings` in `PROJECT.json` quotes both):

| run | property | what happens |
|---|---|---|
| `chat_pool` | EveryMessageAnswered | as many messages as connections wait for each other's |
| `session_refresh` | RefreshedIsSameUser | a refresh makes an access token without a user |

**What the code does not promise.** These follow from the order of its statements, the
models show each (drop the assumption, or add the property), and the properties above
are stated around them:

- Two pages of one user that toggle at once can leave a counter off the rows it
  counts: both find no row, both increment, and one row is left
  (`MCMovieLike_drift.cfg` ends in a counterexample to CountsMatchAtRest); the recount that
  would repair it is not scheduled. `LedgerExact` and `RowMovesAsClicked` are therefore about one page per user;
  `NegativeIsBeingCorrected` is about any number, but about counters below zero only.
- Of two PATCHes that overlap, each removes only the genres it has read: the later keeps,
  and answers with, those the earlier has added (`MCMovieCatalog_pair.cfg` ends in a
  counterexample to GenresAsAsked). What it answers is what it commits all the same
  (`CommitsWhatItShowed`): row locks keep others from the movie from the first write to
  the COMMIT.
- Two first messages of a customer can each open a room: nothing in the schema or in
  the code prevents it. `Confined` and `HeardIsReal` hold all the same.
- A client that connects between the announcement of a room and its COMMIT is in no
  room until it connects again. A customer's own sender hears (`SenderHears`).
- POST /movie is answered before its COMMIT, which may fail: `AnswerHolds` says what
  an answer is worth.
- hasNextPage is compared with a limit the query has already applied and is never
  true: a page that heeds it stops after the first twelve movies. The client of
  `listing_walk` follows `nextCursor` instead (`HeedsHasNext = FALSE`).
- A registration answers with the user's row and no tokens: the page stores
  "undefined" twice, and the next request of the page fails with 500 and clears them.
  An access token left in storage replaces the Basic header of a login.
- Signing out blocks one access token. One that a refresh got meanwhile, and the
  refresh token, stay good until they expire; a restart forgets every block. With two
  sign-ins and sign-outs at once (`Forms` larger) a page can show a user without a
  token.
- A slow GET /movie/recent can fill the caches after a faster one: a viewer may see an
  older list than before, though never one older than `RecentIsFresh` says.
- After a worker has died that had started ffmpeg, the second try may put half a picture
  on S3: the orphan still writes while it is read, or has left half a file where the
  second ffmpeg writes none. `PartialOnlyAfterCrash` says that there is no other way.
  Downloads of failed tries stay in the temporary directory.
- GET of a missing director answers null with 200, though a 404 is documented
  (`director.controller.ts`): `NotShown`.

**Bounds, and why they are enough.** The races of a toggle are between two requests
for one row (`like_overlap`) or between requests for different rows of one counter
(`like_one_page`, which also needs a deletion): two pages have both, and two clicks
make every branch follow every other. In the chat the parties of a race are a
customer, an admin, and a second socket of either; two messages are enough for every
pair of handlers. The pool has one connection more than there are messages in
`chat_desk`, and as many as messages in `chat_pool`: the difference is the finding.
The catalog has a pair of every kind of request that can meet on a row, a title or a
file. The list needs a page that is full, one that is not and one that is empty, ties
in the likes, and a write before, between and after. In Session an access token
expires in the middle of the run, its cached payload two ticks earlier, a refresh
token before the end: every answer of the middleware occurs with every phase of a
request, and two slots are what can refresh at once. `memory_cache` runs into the
second hour, where the first minute's key comes again. A video has two tries at most
(maxStalledCount), so two crashes exhaust it; the second video competes for the one
worker. In `records` a pair of requests races and a third changes what they race for.
`MaxClicks`, `MaxId`, `MaxLikes`, `MaxWrites`, `MaxTime`, `MaxStarts`, `MaxRestarts`,
`MaxCrashes` and `MaxRows` bound what would otherwise be unbounded and appear only in
guards. Symmetry is used in `records` alone, whose requests, keys and columns are only
compared with their like and whose properties are safety; elsewhere values have
different roles or a run checks liveness.

**Deadlock** is checked in the runs of MovieLike, where pages can always be
reloaded. The sockets, requests, walks, videos and the clock of the other modules are
finite, so that the system really stops when they are through
(`CHECK_DEADLOCK FALSE`); that nothing stops earlier is what EveryMessageAnswered,
EveryRequestEnds, WalkEnds, EveryFlowEnds and EveryJobEnds say.

**Fairness** is weak fairness of a started handler: the database answers, Node runs
the continuation, and the response arrives. Nobody has to click, connect, write,
delete, upload or fail. In Chat it is per message, in MovieLike per page, in
MovieCatalog of all requests together (a request that waits for another's lock is
disabled, and some request can always go on), in MovieListing of the one client. In
Session it is per slot, for the answer and its continuation; a page that is being
left is left, and time may stand still. In Thumbnail it is of the worker's own steps,
its timer among them, of taking a job and of starting again (the container restarts);
ffmpeg has none and may hang.

**Assumptions on the instances.** LedgerExact, NeverUndercounts, AnswerIsToggle,
ShownMatchesRow, RowMovesAsClicked and the refinement of LikeLedger hold while every
user toggles from one page at a time (`OneTabEach`) and, RowMovesAsClicked aside, no
request dies (`Breakable = {}`); SenderHears while a customer has one connection
(`OneConnection`); SignedInHasTokens while one thing at a time signs in or out
(`OneForm`); the throttle's properties while a request is short beside an hour
(`TimesAssumption`). The runs use such instances, the theorems state the assumption.
In MovieListing every order ends its ties with `id` and goes in one direction
(`OneDirection`): a mixed order is compared wrongly by the code (see the hazards) and
one without `id` loses ties. EveryMovieOnce is about a client that follows `nextCursor`
(`HeedsHasNext = FALSE`): one that heeds hasNextPage stops after its first page.

## 4. What is proved

All proofs are checked by tlapm without omitted steps. Nothing is assumed but the
named assumptions on the constants of the modules and those in the theorems. Every
inductive invariant below was first checked by TLC on the instance of a run. Of the
properties of the passing runs, all but the six of liveness are theorems.

**MovieLike** (`MovieLike_proofs`).
- `TypeCorrect`: TypeOK.
- `NegativeCorrected`: NegativeIsBeingCorrected if no request dies, for any number of
  pages per user; `NeverNegativeAtRest` follows. The inductive invariant
  `CorrectionInv` adds that a deleted movie has no negative counter and that whoever
  decrements has read a row: so it cannot fail between its decrement and line 1160.
- Under `OneTabEach` and `Breakable = {}`: `AnswerCorrect`, `ErrorsExplained`,
  `PageCorrect` from `SnapInv`, which says for each statement of the handler what the
  locals and the page say about the row. Steps of other tabs keep it because their
  users' rows are others (`SnapOthers`).
- `LedgerIsExact` and `CountsMatch` from `LedgerInv`: a step of a tab changes the
  membership of its own user in the counted sets only (`CountedStep`, where the
  cardinality moves by at most one), and the counter follows it. The correction is
  never reached (`NoFix`): an exact counter is not negative.
- `RowMovesOnlyAsClicked`: RowMovesAsClicked, wherever requests die. `FreshInv` is the
  part of the snapshot that a broken request cannot spoil: between the read and the
  write of the record, `seen` is the row.
- `NeverTooLow`: NeverUndercounts, with users deleted at any statement. `Counted` is not
  inductive then: the row of a user who is gone is no opinion any more, but the request
  of that user may still decrement. `OwedInv` counts what running requests still owe
  the counter instead, and `Owed` contains `Counted`.
- `ImplementsLikeLedger`: the statement that writes the row is `Apply` (the tally moves
  by `Gain`, from `LedgerIsExact` before and after), a click `Ask`, the first deletion
  `Close`, a refusal on a closed ledger `Refuse`; all others stutter.

**Chat** (`Chat_proofs`), without assumptions on the instance, SenderHears aside.
- `ChatTypeCorrect`: TypeOK.
- `RegistryIsLive`: RegistryLive is inductive with types.
- `ChatConfined`: Confined needs `Follows`: rooms have their customer and admins as
  members, a message in the making has been heard by no one, and the registry
  names sockets of the right user.
- `TransactionIsAtomic`: AllOrNothing needs `TxRows`: for each place a handler can
  stand, what its transaction has written (`Written`), and that a message not yet
  committed points at a stored room or at its own pending one.
- `HeardIsStored`: HeardIsReal, from both.
- `MessagesArePosted`: Chat implements Inquiries. `EntitledInv` says why what was looked
  up still holds at the COMMIT: a pending message holds the deletion of its author up
  and a pending room that of its party (`AuthorsStay`, `PartyStays`), and an author who
  is still there has not left the room it writes in (`WritesInOwn`). Steps that move no
  stored row stutter (`StoredStays`).
- `SenderIsHeard`: SenderHears under `OneConnection`. `InRooms` follows a room from its
  announcement to its COMMIT, and a socket from its query to its joins: a live socket of
  a customer is in the customer's pending room, because it was the registered one when
  the room was announced (`Registered`, and `WasConnected`: it cannot come later), and
  in the stored ones once it has joined what it found.

**MovieCatalog** (`MovieCatalog_proofs`), without assumptions on the instance.
- `MoviesAreWhole`, `FilesAreKept`, `AnswersHold` and types, from
  `CatalogInv`. WholeMovie is not inductive: what an open transaction is going to commit
  must stay possible. The invariant says so part by part: the director and the genres it
  refers to stay (`Kept`: their deletion waits or fails), no stored movie has its title
  (`TitlesFree`), two open ones differ in title and movie (`Apart`), its file is in
  place (`Shelved`), a movie being deleted or rolled back does not come back
  (`Arrived`, `Gone`).
- `CommitsAsShown`: CommitsWhatItShowed, from `Showing`: from the answer to the COMMIT the
  movie answered stays what the transaction would read again (`Inside`), genres deleted
  since aside. Every other statement is shown not to disturb it: another COMMIT is of
  another movie (`Apart`), a DELETE waits, a genre the transaction has linked is not
  deleted (`Kept`) and one that goes goes from both sides.

**MovieListing** (`MovieListing_proofs`), for any movies, page size and writes.
- `ListingTypeOK`: TypeOK, for every order.
- `EachMovieOnce` (`OneDirection`, `HeedsHasNext = FALSE`) and `PagesAreInOrder`
  (`OneDirection`), from `ListingInv`. Keys compared column by column are a strict total
  order on movies because `id` is among the columns (the first column in which two keys
  differ exists by well-founded induction on numbers, `LeastNumber`); hence a page is the
  front of what lies beyond the cursor and ends in the next cursor (`PageFacts`,
  `CursorFits`); hence a movie that keeps its place has been given once if the walk has
  passed its key, and never before (`PassedOnce`).

**Session** (`Session_proofs`), for any accounts, lifetimes, margin and slots.
- `SessionTypeCorrect`: TypeOK needs `Carried`: what each answer under way brings, and
  that the body of a block is a token unless it is "undefined", which no guard lets
  through and no refresh follows.
- `SpentStaysOut`: SpentIsUnknown needs `Lapses`: a cached payload ends before its
  token, and a token leaves the block list only after it has expired.
- `SignedInKeepsTokens`: SignedInHasTokens under `OneForm`. `PageInv`: while the page
  loads its user nobody is shown and no form is deciding who is (`Decides`), and a
  request of a form that can set the user has a token in storage.

**Records** (`Records_proofs`), for any requests and rows.
- `KeysAreUnique`, `RemovedIsForGood`, `OthersColumnsStay` and types, from `RecordsInv`:
  a creation names a key and any other request a row, ids not given out have no row,
  and the row an update aims at is of the table it looked in, or gone (`Aims`). Every
  statement is reduced to one of four changes (`Moves`) first.

**Thumbnail** (`Thumbnail_proofs`), for any videos and crashes.
- `PromiseKept`, `PartialNeedsCrash`, `CompletedIsShown` and types, from `ThumbInv`: a
  waiting job is in the queue once and has been taken at most once before
  (`QueueInv`), what the worker has read and put by its step (`StepInv`), that a second
  try needs a crash (`Retried`), and that where no earlier try has started ffmpeg this
  try's is the only one, and its picture is all or nothing when it is read (`OneFfmpeg`).

**MemoryCache** (`MemoryCache_proofs`), for any lives, times and pages, of which there
are finitely many (`TabsAssumption`).
- `RecentStaysFresh`: RecentIsFresh, from the age of what each cache and each handler
  has, by arithmetic.
- `RefusalsJustified` and `OverrunIsBounded`, from `ThrottleInv`: the entry of this
  minute counts exactly its answers and lives through the minute (`Exact`); an entry of
  the same minute of an earlier hour has lapsed by now (`Dated`, with
  `2 * Minute + MaxRun < Hour * Minute`); answers and requests under way of a minute are
  together at most `Limit - 1` and one per page (`Bounded`).
- `MemoryTypeCorrect`: types; a list that is shown was read at some time.

**Only model-checked:** EveryClickAnswered, EveryMessageAnswered, EveryRequestEnds,
WalkEnds, EveryFlowEnds and EveryJobEnds. They are liveness, which needs fairness and
ENABLED, and the prover handles neither. The two counterexamples of `chat_pool` and
`session_refresh` are TLC's. Abstract specifications exist for likes and chat only.

## 5. What is not modelled

- Mongoose and Prisma variants of the services: commented out in the source.
- Bootstrap, configuration, logging, Swagger, response-time: wiring and formatting.
  The order of middleware and guards is in Session, what a failed query answers in
  Records.
- Validation pipes: requests in the models are those that pass.
- Scheduled tasks: every `@Cron` is commented out. The two recounts serve as the
  reference value of the counters (`RowTally`).
- Deadlocks of row locks, which PostgreSQL resolves by failing one statement: an
  instance of `Fail`.
- A startTransaction or a ROLLBACK that itself fails: the query runner is then not released
  and the pool has one connection less.
- `login/passport`, which no page calls, and `cache.interceptor.ts`, which no route uses.
- The list of messages in `Chat.tsx` and the races of `MovieList.tsx` between two loads:
  planned.
- PUT of a video to a presigned URL that has expired, and S3's own consistency: a PUT
  succeeds or fails.

## 6. Plan

1. **ChatPage**: the list of messages filled by histories and events, over an abstract
   room; the message list of `MovieList.tsx` has the same shape.
2. Listing: the searching client and mixed orders.
3. Proofs: an abstract specification of the catalog (a movie with all of its rows
   changes in one step) and of the thumbnail queue, each implemented by its module; safety
   parts of the six liveness properties, such as that a message's handler only moves
   forward.
