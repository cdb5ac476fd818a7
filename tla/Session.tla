------------------------------ MODULE Session ------------------------------
(***************************************************************************)
(* A browser's session: the tokens it keeps (frontend client.ts and        *)
(* AuthContext.tsx) and the server that checks them (the bearer token      *)
(* middleware, the guards, AuthService).                                   *)
(*                                                                         *)
(* The memory cache answers, and a JWT is verified, without waiting for    *)
(* anything outside the process: from the middleware to the handler's      *)
(* answer nothing else touches tokens, and one action serves a request.    *)
(* What interleaves is requests and answers on the wire, the clock, a      *)
(* restart of the process, and the pages the browser leaves.               *)
(***************************************************************************)
EXTENDS Integers, FiniteSets

CONSTANTS
  Accounts,    \* user ids
  Admins,      \* those with role admin
  Clicks,      \* things the user may have under way at once
  Boot,        \* the load of the page itself (AuthProvider's useEffect)
  Forms,       \* clicks that may sign in or out: the two forms and the header's button
  Lossy,       \* clicks whose requests or answers the network may lose
  AccessLife,  \* '300s'
  RefreshLife, \* '24h'
  Margin,      \* the 30 seconds a cached payload ends before its token
  MaxTime, MaxStarts, MaxRestarts,   \* bounds
  None,        \* nothing stored, no header, nobody signed in
  Nobody,      \* a token's sub when it was made from an object without id
  Junk         \* the string "undefined", stored when an answer had no tokens

ASSUME LivesAssumption ==
  /\ AccessLife \in Nat \ {0} /\ RefreshLife \in Nat /\ AccessLife <= RefreshLife
  /\ Margin \in Nat \ {0}
  /\ MaxTime \in Nat /\ MaxStarts \in Nat /\ MaxRestarts \in Nat

ASSUME SlotsAssumption ==
  /\ Boot \notin Clicks
  /\ Forms \subseteq Clicks
  /\ Lossy \subseteq Clicks \cup {Boot}
  /\ Admins \subseteq Accounts

Roles  == {"admin", "user"}
Tokens == [type : {"access", "refresh"}, sub : Accounts \cup {Nobody},
           role : Roles, exp : Nat]
Bearers == Tokens \cup {None, Junk}
Empty   == [access |-> None, refresh |-> None]

\* Requests by the guards in front of them, with the pages that send them.
SignIns == {"login", "register"}
Calls   == SignIns \cup {"private", "block", "list", "act", "upload", "manage"}
Slots   == Clicks \cup {Boot}

ASSUME NamesAssumption == None # Junk /\ None \notin Tokens

VARIABLES
  now,      \* the clock
  cached,   \* tokens whose payload is under TOKEN_<token>
  blocked,  \* tokens under BLOCK_TOKEN_<token>
  out,      \* tokens this process has answered a block of (history)
  store,    \* accessToken and refreshToken of localStorage
  user,     \* user of AuthContext
  flow,     \* what each slot waits for
  leaving,  \* window.location was set: the page is about to be unloaded
  starts,   \* things the user has started (bounded)
  restarts  \* restarts of the server (bounded)

server  == <<cached, blocked, out, restarts>>
browser == <<store, user, flow, leaving, starts>>
vars    == <<now, server, browser>>

\* A slot's axios request: the call, its Authorization header, the token in its
\* body, the _retry mark, and the answer with what it brought.
Idle == [at |-> "idle", call |-> "list", bearer |-> None, body |-> None,
         retried |-> FALSE, status |-> "none", gift |-> None]

Asked(call, bearer, body) ==
  [Idle EXCEPT !.at = "call", !.call = call, !.bearer = bearer, !.body = body]

Statuses == {"none", "ok", "unauthorized", "failed"}
Gifts    == Bearers \cup [access : Bearers, refresh : Bearers]

TypeOK ==
  /\ now \in 0 .. MaxTime
  /\ cached \subseteq Tokens /\ blocked \subseteq Tokens /\ out \subseteq Tokens
  /\ store \in [access : Bearers, refresh : Bearers]
  /\ user \in Tokens \cup {None}
  /\ flow \in [Slots -> [at : {"idle", "call", "reply", "refresh", "renewed"},
                         call : Calls, bearer : Bearers, body : Bearers,
                         retried : BOOLEAN, status : Statuses, gift : Gifts]]
  /\ leaving \in BOOLEAN
  /\ starts \in 0 .. MaxStarts /\ restarts \in 0 .. MaxRestarts

Init ==
  /\ now = 0
  /\ cached = {} /\ blocked = {} /\ out = {}
  /\ store = Empty /\ user = None
  /\ flow = [s \in Slots |-> Idle]
  /\ leaving = FALSE /\ starts = 0 /\ restarts = 0

(***************************************************************************)
(* The server.                                                             *)
(***************************************************************************)

\* AuthService.issueToken.
Issue(type, sub, role) ==
  [type |-> type, sub |-> sub, role |-> role,
   exp |-> now + (IF type = "refresh" THEN RefreshLife ELSE AccessLife)]

RoleOf(a) == IF a \in Admins THEN "admin" ELSE "user"

\* Entries of the cache live as long as these say; Math.max(..., 1) keeps even a
\* late one until the clock moves.
CachedAt(tok, time) == time <= tok.exp - Margin

\* Mutant: a block dropped as early as a cached payload.
BlockedLikeCache(tok, time) == time <= tok.exp - Margin
BlockedAt(tok, time) == time <= tok.exp

\* BearerTokenMiddleware: the block list, then the cached payload, then the
\* signature and the expiry; a token that has expired just leaves no user behind.
Verdict(tok) ==
  IF tok = None THEN "anonymous"
  ELSE IF tok = Junk THEN "error"
  ELSE IF tok \in blocked THEN "refused"
  ELSE IF tok \in cached \/ now < tok.exp THEN "known"
  ELSE "anonymous"

\* req.user is set, and its payload cached.
Known(tok) == Verdict(tok) = "known"
Remember(tok) == cached' = IF Known(tok) THEN cached \cup {tok} ELSE cached

\* AuthGuard, JwtAuthGuard and RBACGuard.
Admits(call, tok) ==
  IF call = "list" THEN Verdict(tok) \in {"known", "anonymous"}
  ELSE Known(tok) /\ tok.type = "access"
Allows(call, tok) == call = "manage" => tok.role = "admin"
Refusal(tok)      == IF Verdict(tok) = "error" THEN "failed" ELSE "unauthorized"

Answer(s, status, gift) ==
  flow' = [flow EXCEPT ![s].at = "reply", ![s].status = status, ![s].gift = gift]

\* POST /auth/login and /auth/register, which the middleware leaves alone.  They
\* expect a Basic header; the request interceptor of client.ts has replaced it if
\* an access token was stored.  A registration answers with the user's row.
ServeSignIn(s) ==
  /\ flow[s].at = "call" /\ flow[s].call \in SignIns
  /\ \/ Answer(s, "failed", None)
     \/ /\ flow[s].bearer = None
        /\ \E a \in Accounts :
             Answer(s, "ok",
                    IF flow[s].call = "register" THEN [access |-> Junk, refresh |-> Junk]
                    ELSE [access  |-> Issue("access", a, RoleOf(a)),
                          refresh |-> Issue("refresh", a, RoleOf(a))])
  /\ UNCHANGED <<now, server, store, user, leaving, starts>>

\* Any other request, up to its handler.
Serve(s) ==
  LET f == flow[s] IN
  /\ f.at = "call" /\ f.call \notin SignIns \cup {"block"}
  /\ Remember(f.bearer)
  /\ IF ~Admits(f.call, f.bearer) THEN Answer(s, Refusal(f.bearer), None)
     ELSE IF ~Allows(f.call, f.bearer) THEN Answer(s, "failed", None)
     ELSE Answer(s, "ok", IF f.call = "private" THEN f.bearer ELSE None)
  /\ UNCHANGED <<now, blocked, out, restarts, store, user, leaving, starts>>

\* POST /auth/token/block: tokenBlock puts the token of the body on the list.
ServeBlock(s) ==
  LET f == flow[s] IN
  /\ f.at = "call" /\ f.call = "block"
  /\ Remember(f.bearer)
  /\ IF ~Admits("block", f.bearer)
     THEN Answer(s, Refusal(f.bearer), None) /\ UNCHANGED <<blocked, out>>
     ELSE /\ Answer(s, "ok", None)
          /\ blocked' = blocked \cup {f.body}
          /\ out' = out \cup {f.body}
  /\ UNCHANGED <<now, restarts, store, user, leaving, starts>>

\* POST /auth/token/access: rotateAccessToken signs req.user, a payload, which has
\* a sub and no id.
Rotated(tok) == Issue("access", Nobody, tok.role)

ServeRefresh(s) ==
  LET tok == flow[s].bearer IN
  /\ flow[s].at = "refresh"
  /\ Remember(tok)
  /\ flow' = [flow EXCEPT ![s].at = "renewed",
                ![s].status = IF Known(tok) /\ tok.type = "refresh" THEN "ok" ELSE "failed",
                ![s].gift = IF Known(tok) /\ tok.type = "refresh" THEN Rotated(tok) ELSE None]
  /\ UNCHANGED <<now, blocked, out, restarts, store, user, leaving, starts>>

\* The process starts again: the memory cache, and with it the block list, is empty.
Restart ==
  /\ restarts < MaxRestarts
  /\ restarts' = restarts + 1
  /\ cached' = {} /\ blocked' = {} /\ out' = {}
  /\ UNCHANGED <<now, browser>>

\* Time passes; entries of the cache lapse.
Tick ==
  /\ now < MaxTime
  /\ now' = now + 1
  /\ cached'  = {tok \in cached  : CachedAt(tok, now')}
  /\ blocked' = {tok \in blocked : BlockedAt(tok, now')}
  /\ UNCHANGED <<out, restarts, browser>>

(***************************************************************************)
(* The browser.                                                            *)
(***************************************************************************)

\* The pages let one do this: Layout's buttons and App's routes look at user.
\* The forms and the list are open to everybody.
Offered(s, call) ==
  CASE call \in SignIns   -> s \in Forms
    [] call = "block"     -> s \in Forms /\ user # None
    [] call \in {"act", "upload"} -> user # None
    [] call = "manage"    -> user # None /\ user.role = "admin"
    [] OTHER              -> call = "list"

\* logout with no token stored makes no request; every other request carries the
\* stored token, a block also in its body.
Start(s, call) ==
  /\ starts < MaxStarts /\ s # Boot /\ flow[s].at = "idle" /\ Offered(s, call)
  /\ starts' = starts + 1
  /\ IF call = "block" /\ store.access = None
     THEN store' = Empty /\ user' = None /\ UNCHANGED flow
     ELSE /\ flow' = [flow EXCEPT ![s] =
                        Asked(call, store.access, IF call = "block" THEN store.access ELSE None)]
          /\ UNCHANGED <<store, user>>
  /\ UNCHANGED <<now, server, leaving>>

\* An answer without 401, or one that no refresh follows, settles the promise.
Settles(s) ==
  /\ flow[s].at = "reply"
  /\ flow[s].status = "unauthorized" => flow[s].retried \/ store.refresh = None

Finish(s) == flow' = [flow EXCEPT ![s] = Idle]

\* Mutant: the whole answer is stored for its access token.
SignedInWhole(s) ==
  /\ Settles(s) /\ flow[s].call \in SignIns /\ flow[s].status = "ok"
  /\ store' = [store EXCEPT !.access = flow[s].gift]
  /\ flow' = [flow EXCEPT ![s] = Asked("private", flow[s].gift.access, None)]
  /\ UNCHANGED <<now, server, user, leaving, starts>>

\* login and register store what the answer has for tokens and load the user.
SignedIn(s) ==
  /\ Settles(s) /\ flow[s].call \in SignIns /\ flow[s].status = "ok"
  /\ store' = flow[s].gift
  /\ flow' = [flow EXCEPT ![s] = Asked("private", flow[s].gift.access, None)]
  /\ UNCHANGED <<now, server, user, leaving, starts>>

\* loadUser: the payload is the user; any error at all drops the tokens.
Loaded(s) ==
  /\ Settles(s) /\ flow[s].call = "private"
  /\ Finish(s)
  /\ IF flow[s].status = "ok"
     THEN user' = flow[s].gift /\ UNCHANGED store
     ELSE user' = None /\ store' = Empty
  /\ UNCHANGED <<now, server, leaving, starts>>

\* logout ignores how its request went.
SignedOut(s) ==
  /\ Settles(s) /\ flow[s].call = "block"
  /\ Finish(s)
  /\ store' = Empty /\ user' = None
  /\ UNCHANGED <<now, server, leaving, starts>>

\* A page's request, or a form that was refused.
Answered(s) ==
  /\ Settles(s)
  /\ \/ flow[s].call \in {"list", "act", "upload", "manage"}
     \/ flow[s].call \in SignIns /\ flow[s].status # "ok"
  /\ Finish(s)
  /\ UNCHANGED <<now, server, store, user, leaving, starts>>

\* The first 401 of a request: the stored refresh token is sent, past the
\* interceptors.
Refresh(s) ==
  /\ flow[s].at = "reply" /\ ~Settles(s)
  /\ flow' = [flow EXCEPT ![s].at = "refresh", ![s].bearer = store.refresh,
                          ![s].retried = TRUE, ![s].status = "none"]
  /\ UNCHANGED <<now, server, store, user, leaving, starts>>

\* The new access token is stored and the request sent again with it; a FormData
\* body cannot be, and the upload fails.
Renewed(s) ==
  /\ flow[s].at = "renewed" /\ flow[s].status = "ok"
  /\ store' = [store EXCEPT !.access = flow[s].gift]
  /\ flow' = [flow EXCEPT ![s] =
       IF flow[s].call = "upload" THEN Idle
       ELSE [Asked(flow[s].call, flow[s].gift, flow[s].body) EXCEPT !.retried = TRUE]]
  /\ UNCHANGED <<now, server, user, leaving, starts>>

\* Mutants of Expelled: the page is not left; the refresh goes through the
\* interceptors and so is itself refreshed.
ExpelledInPlace(s) ==
  /\ flow[s].at = "renewed" /\ flow[s].status # "ok"
  /\ Finish(s)
  /\ store' = Empty
  /\ user' = IF flow[s].call \in {"private", "block"} THEN None ELSE user
  /\ UNCHANGED <<now, server, leaving, starts>>

ExpelledNever(s) ==
  /\ flow[s].at = "renewed" /\ flow[s].status # "ok"
  /\ flow' = [flow EXCEPT ![s].at = "refresh", ![s].status = "none"]
  /\ UNCHANGED <<now, server, store, user, leaving, starts>>

\* The refresh failed: the tokens are removed, the page is left for /login, and
\* the request's promise is rejected.
Expelled(s) ==
  /\ flow[s].at = "renewed" /\ flow[s].status # "ok"
  /\ Finish(s)
  /\ store' = Empty
  /\ leaving' = TRUE
  /\ user' = IF flow[s].call \in {"private", "block"} THEN None ELSE user
  /\ UNCHANGED <<now, server, starts>>

\* A request or its answer is lost; axios rejects without a response.
Lose(s) ==
  /\ s \in Lossy
  /\ \/ /\ flow[s].at = "call"
        /\ Answer(s, "failed", None)
     \/ /\ flow[s].at = "reply" /\ flow[s].status = "ok"
        /\ Answer(s, "failed", None)
     \/ /\ flow[s].at \in {"refresh", "renewed"}
        /\ flow' = [flow EXCEPT ![s].at = "renewed", ![s].status = "failed", ![s].gift = None]
        /\ flow' # flow
  /\ UNCHANGED <<now, server, store, user, leaving, starts>>

\* A new page: nothing of the old one answers any more, and AuthProvider loads the
\* user if a token is stored.
Reload ==
  /\ \/ leaving /\ UNCHANGED starts
     \/ ~leaving /\ starts < MaxStarts /\ starts' = starts + 1
  /\ leaving' = FALSE
  /\ user' = None
  /\ flow' = [s \in Slots |-> IF s = Boot /\ store.access # None
                              THEN Asked("private", store.access, None) ELSE Idle]
  /\ UNCHANGED <<now, server, store>>

Respond(s) == ServeSignIn(s) \/ Serve(s) \/ ServeBlock(s) \/ ServeRefresh(s)
React(s)   == SignedIn(s) \/ Loaded(s) \/ SignedOut(s) \/ Answered(s)
              \/ Refresh(s) \/ Renewed(s) \/ Expelled(s)

Next ==
  \/ \E s \in Slots : \/ Respond(s) \/ React(s) \/ Lose(s)
                      \/ \E call \in Calls : Start(s, call)
  \/ Reload \/ Tick \/ Restart

\* The server answers what it is sent, the browser runs the continuation, and a
\* page that is being left is left.  Nobody has to click, and time may stand still.
Spec == /\ Init /\ [][Next]_vars
        /\ \A s \in Slots : WF_vars(Respond(s) \/ React(s))
        /\ WF_vars(leaving /\ Reload)

(***************************************************************************)
(* Properties.                                                             *)
(***************************************************************************)

\* Once a block is answered the token is never again taken for its user until the
\* process starts again, cached or not: the block outlives both the cached payload
\* and the token.  Nor does a cached payload let an expired token in.
SpentIsUnknown ==
  \A tok \in out \cup cached : tok \in out \/ tok.exp <= now => ~Known(tok)

\* With one sign-in or sign-out at a time, a page that shows a user has an access
\* token to act with, also while requests are under way: loading, refreshing and
\* logging out, in any order, leave no signed-in page without a session.
SignedInHasTokens == ~leaving /\ user # None => store.access # None

\* The access token of a refresh is still the user's ('Refresh Token으로 새로운
\* Access Token 발급', auth.controller.ts 72).
RefreshedIsSameUser ==
  store.access \in Tokens /\ store.refresh \in Tokens
    => store.access.sub = store.refresh.sub

\* Whatever was asked is answered: 401s, refreshes and retries come to an end.
EveryFlowEnds == \A s \in Slots : flow[s].at # "idle" ~> flow[s].at = "idle"
=============================================================================
