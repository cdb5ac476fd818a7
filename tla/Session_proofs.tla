--------------------------- MODULE Session_proofs ---------------------------
(***************************************************************************)
(* Theorems about Session, for any accounts, clicks, lives and bounds:     *)
(* types, that a blocked or an expired token is not taken again, and that  *)
(* a page that shows a user has a token, one form at a time.               *)
(***************************************************************************)
EXTENDS Session, TLAPS

\* What a slot's request may be.
Flows == [at : {"idle", "call", "reply", "refresh", "renewed"},
          call : Calls, bearer : Bearers, body : Bearers,
          retried : BOOLEAN, status : Statuses, gift : Gifts]

\* What a request under way brings: an answer has what the page will store or show,
\* and a block has a token, or the string "undefined" that no guard lets through.
Brings(f) ==
  /\ f.at = "reply" /\ f.status = "ok" =>
       /\ f.call \in SignIns => f.gift \in [access : Bearers, refresh : Bearers]
       /\ f.call = "private" => f.gift \in Tokens
  /\ f.at = "renewed" /\ f.status = "ok" => f.gift \in Tokens
  /\ f.call = "block" /\ f.at # "idle" =>
       \/ f.body \in Tokens
       \/ /\ f.body = Junk
          /\ \/ f.at = "call" /\ f.bearer = Junk
             \/ f.at = "reply" /\ f.status = "failed"

\* Cached payloads end before their tokens, and a token leaves the block list only
\* after it has expired.
Lapses ==
  /\ \A tok \in cached : now < tok.exp
  /\ \A tok \in out : tok \in blocked \/ tok.exp < now

Carried == \A s \in Slots : Brings(flow[s])
SessionInv == TypeOK /\ Carried /\ Lapses

(***************************************************************************)
(* Lemmas.                                                                 *)
(***************************************************************************)

\* A token that is known is one, and has not lapsed.
LEMMA KnownIsToken ==
  ASSUME NEW tok \in Bearers, Known(tok), Lapses
  PROVE  tok \in Tokens /\ now < tok.exp
BY DEF Known, Verdict, Bearers, Lapses

LEMMA IssueType ==
  ASSUME TypeOK, NEW type \in {"access", "refresh"}, NEW a \in Accounts \cup {Nobody},
         NEW role \in Roles
  PROVE  Issue(type, a, role) \in Tokens
<1>1. now \in Nat
  BY LivesAssumption DEF TypeOK
<1> QED BY <1>1, LivesAssumption DEF Issue, Tokens

\* A new record for one slot.
LEMMA SlotChanged ==
  ASSUME TypeOK, Carried, NEW s \in Slots, NEW f \in Flows, Brings(f),
         flow' = [flow EXCEPT ![s] = f]
  PROVE  flow' \in [Slots -> Flows] /\ Carried'
<1>1. flow \in [Slots -> Flows]
  BY DEF TypeOK, Flows
<1>2. \A q \in Slots : flow'[q] = IF q = s THEN f ELSE flow[q]
  BY <1>1
<1> QED BY <1>1, <1>2 DEF Carried

LEMMA AnswerChanged ==
  ASSUME TypeOK, Carried, NEW s \in Slots, NEW status \in Statuses, NEW gift \in Gifts,
         Answer(s, status, gift),
         status = "ok" => /\ flow[s].call \in SignIns =>
                               gift \in [access : Bearers, refresh : Bearers]
                          /\ flow[s].call = "private" => gift \in Tokens,
         flow[s].call = "block" /\ flow[s].at # "idle" =>
           flow[s].body \in Tokens \/ (flow[s].body = Junk /\ status = "failed"),
         flow[s].at # "idle"
  PROVE  flow' \in [Slots -> Flows] /\ Carried'
<1> DEFINE f == [flow[s] EXCEPT !.at = "reply", !.status = status, !.gift = gift]
<1>1. flow \in [Slots -> Flows]
  BY DEF TypeOK, Flows
<1>2. flow[s] \in Flows
  BY <1>1
<1>3. f \in Flows
  BY <1>2 DEF Flows
<1>4. flow' = [flow EXCEPT ![s] = f]
  BY <1>1, <1>2 DEF Answer
<1>5. Brings(f)
  <2>1. /\ f.at = "reply" /\ f.status = status /\ f.gift = gift
        /\ f.call = flow[s].call /\ f.body = flow[s].body
    BY <1>2 DEF Flows
  <2> QED BY <2>1 DEF Brings
<1> QED BY <1>3, <1>4, <1>5, SlotChanged

\* A request of a slot that is over, and one that has just been sent.
LEMMA IdleFlows == Idle \in Flows /\ Brings(Idle) /\ Idle.at = "idle"
BY DEF Idle, Flows, Brings, Calls, Bearers, Statuses, Gifts, SignIns

LEMMA AskedRecord ==
  ASSUME NEW call \in Calls, NEW bearer \in Bearers, NEW body \in Bearers
  PROVE  LET f == Asked(call, bearer, body)
         IN  f \in Flows /\ f.at = "call" /\ f.call = call /\ f.bearer = bearer /\ f.body = body
<1> DEFINE f == Asked(call, bearer, body)
<1>1. Idle \in Flows
  BY IdleFlows
<1>2. f \in Flows
  BY <1>1 DEF Asked, Flows
<1> QED BY <1>1, <1>2 DEF Asked, Flows

LEMMA AskedChanged ==
  ASSUME TypeOK, Carried, NEW s \in Slots, NEW call \in Calls,
         NEW bearer \in Bearers, NEW body \in Bearers,
         call = "block" => body \in Tokens \/ (body = Junk /\ bearer = Junk),
         \/ flow' = [flow EXCEPT ![s] = Asked(call, bearer, body)]
         \/ flow' = [flow EXCEPT ![s] = [Asked(call, bearer, body) EXCEPT !.retried = TRUE]]
  PROVE  flow' \in [Slots -> Flows] /\ Carried'
<1> DEFINE g == Asked(call, bearer, body)
           f == [g EXCEPT !.retried = TRUE]
<1>1. g \in Flows /\ g.at = "call" /\ g.call = call /\ g.bearer = bearer /\ g.body = body
  BY AskedRecord
<1>2. flow' = [flow EXCEPT ![s] = g] \/ flow' = [flow EXCEPT ![s] = f]
  OBVIOUS
<1> HIDE DEF g
<1>3. f \in Flows /\ f.at = "call" /\ f.call = call /\ f.bearer = bearer /\ f.body = body
  BY <1>1 DEF Flows
<1> HIDE DEF f
<1>4. Brings(f) /\ Brings(g)
  BY <1>1, <1>3 DEF Brings
<1> QED BY <1>1, <1>2, <1>3, <1>4, SlotChanged

LEMMA FinishChanged ==
  ASSUME TypeOK, Carried, NEW s \in Slots, Finish(s)
  PROVE  flow' \in [Slots -> Flows] /\ Carried'
<1> QED BY IdleFlows, SlotChanged DEF Finish

\* Remembering keeps only what is good for a while.
LEMMA RememberKeeps ==
  ASSUME TypeOK, Lapses, NEW tok \in Bearers, Remember(tok), UNCHANGED <<now, blocked>>,
         \A t \in out' : t \in out
  PROVE  cached' \subseteq Tokens /\ Lapses'
<1>1. CASE Known(tok)
  <2>1. tok \in Tokens /\ now < tok.exp
    BY <1>1, KnownIsToken
  <2>2. cached' = cached \cup {tok}
    BY <1>1 DEF Remember
  <2> QED BY <2>1, <2>2 DEF TypeOK, Lapses
<1>2. CASE ~Known(tok)
  BY <1>2 DEF Remember, TypeOK, Lapses
<1> QED BY <1>1, <1>2

LEMMA SlotFields ==
  ASSUME TypeOK, NEW s \in Slots
  PROVE  /\ flow \in [Slots -> Flows] /\ flow[s] \in Flows
         /\ flow[s].call \in Calls /\ flow[s].bearer \in Bearers
         /\ flow[s].body \in Bearers /\ flow[s].retried \in BOOLEAN
         /\ flow[s].status \in Statuses /\ flow[s].gift \in Gifts
         /\ None \in Bearers /\ Junk \in Bearers /\ None \in Gifts
         /\ store.access \in Bearers /\ store.refresh \in Bearers
<1>1. flow \in [Slots -> Flows]
  BY DEF TypeOK, Flows
<1>2. flow[s] \in Flows
  BY <1>1
<1>3. store \in [access : Bearers, refresh : Bearers]
  BY DEF TypeOK
<1> QED BY <1>1, <1>2, <1>3 DEF Flows, Bearers, Gifts

(***************************************************************************)
(* The server's actions.                                                   *)
(***************************************************************************)

LEMMA SignInServed ==
  ASSUME SessionInv, NEW s \in Slots, ServeSignIn(s)
  PROVE  SessionInv'
<1> USE DEF SessionInv
<1>1. flow' \in [Slots -> Flows] /\ Carried'
  <2>1. /\ flow[s].at # "idle" /\ flow[s].call # "block" /\ flow[s].call # "private"
    BY DEF ServeSignIn, SignIns
  <2>2. CASE Answer(s, "failed", None)
    BY <2>1, <2>2, SlotFields, AnswerChanged DEF Statuses
  <2>3. ASSUME NEW a \in Accounts,
               NEW gift \in [access : Bearers, refresh : Bearers], Answer(s, "ok", gift)
        PROVE  flow' \in [Slots -> Flows] /\ Carried'
    <3>1. gift \in Gifts
      BY <2>3 DEF Gifts
    <3> QED BY <2>1, <2>3, <3>1, AnswerChanged DEF Statuses
  <2>4. \A a \in Accounts :
          /\ [access |-> Junk, refresh |-> Junk] \in [access : Bearers, refresh : Bearers]
          /\ [access  |-> Issue("access", a, RoleOf(a)),
              refresh |-> Issue("refresh", a, RoleOf(a))]
               \in [access : Bearers, refresh : Bearers]
    <3> TAKE a \in Accounts
    <3>1. RoleOf(a) \in Roles
      BY DEF RoleOf, Roles
    <3>2. Issue("access", a, RoleOf(a)) \in Tokens /\ Issue("refresh", a, RoleOf(a)) \in Tokens
      BY <3>1, IssueType
    <3> QED BY <3>2 DEF Bearers
  <2> QED BY <2>2, <2>3, <2>4 DEF ServeSignIn
<1>2. TypeOK'
  BY <1>1 DEF ServeSignIn, TypeOK, server, Flows
<1>3. Lapses'
  BY DEF ServeSignIn, Lapses, server
<1> QED BY <1>1, <1>2, <1>3

LEMMA RequestServed ==
  ASSUME SessionInv, NEW s \in Slots, Serve(s)
  PROVE  SessionInv'
<1> USE DEF SessionInv
<1> DEFINE f == flow[s]
<1>0. /\ f.at = "call" /\ f.call \notin SignIns /\ f.call # "block"
      /\ f.bearer \in Bearers
  BY SlotFields DEF Serve
<1>1. cached' \subseteq Tokens /\ Lapses'
  BY <1>0, RememberKeeps DEF Serve
<1>2. flow' \in [Slots -> Flows] /\ Carried'
  <2>1. ASSUME NEW status \in {"failed", "unauthorized"}, Answer(s, status, None)
        PROVE  flow' \in [Slots -> Flows] /\ Carried'
    BY <1>0, <2>1, SlotFields, AnswerChanged DEF Statuses
  <2>2. Refusal(f.bearer) \in {"failed", "unauthorized"}
    BY DEF Refusal
  <2>3. CASE ~Admits(f.call, f.bearer)
    BY <2>1, <2>2, <2>3 DEF Serve
  <2>4. CASE Admits(f.call, f.bearer) /\ ~Allows(f.call, f.bearer)
    BY <2>1, <2>4 DEF Serve
  <2>5. CASE Admits(f.call, f.bearer) /\ Allows(f.call, f.bearer)
    <3> DEFINE gift == IF f.call = "private" THEN f.bearer ELSE None
    <3>1. Answer(s, "ok", gift)
      BY <2>5 DEF Serve
    <3>2. f.call = "private" => gift \in Tokens
      <4>1. f.call = "private" => Known(f.bearer)
        BY <2>5 DEF Admits
      <4> QED BY <4>1, <1>0, KnownIsToken
    <3>3. gift \in Gifts
      BY <3>2, SlotFields DEF Gifts, Bearers
    <3> HIDE DEF gift
    <3> QED BY <1>0, <3>1, <3>2, <3>3, AnswerChanged DEF Statuses
  <2> QED BY <2>3, <2>4, <2>5
<1>3. TypeOK'
  BY <1>1, <1>2 DEF Serve, TypeOK, Flows
<1> QED BY <1>1, <1>2, <1>3

LEMMA BlockServed ==
  ASSUME SessionInv, NEW s \in Slots, ServeBlock(s)
  PROVE  SessionInv'
<1> USE DEF SessionInv
<1> DEFINE f == flow[s]
<1>0. /\ f.at = "call" /\ f.call = "block" /\ f.bearer \in Bearers /\ Brings(f)
  BY SlotFields DEF ServeBlock, Carried
<1>1. CASE ~Admits("block", f.bearer)
  <2>1. Answer(s, Refusal(f.bearer), None) /\ UNCHANGED <<blocked, out>>
    BY <1>1 DEF ServeBlock
  <2>2. f.body = Junk /\ f.body \notin Tokens => Refusal(f.bearer) = "failed"
    BY <1>0, NamesAssumption DEF Brings, Refusal, Verdict
  <2>3. f.body \in Tokens \/ (f.body = Junk /\ Refusal(f.bearer) = "failed")
    BY <1>0, <2>2 DEF Brings
  <2>4. Refusal(f.bearer) \in Statuses /\ Refusal(f.bearer) # "ok"
    BY DEF Refusal, Statuses
  <2>5. flow' \in [Slots -> Flows] /\ Carried'
    BY <1>0, <2>1, <2>3, <2>4, SlotFields, AnswerChanged
  <2>6. cached' \subseteq Tokens /\ Lapses'
    BY <1>0, <2>1, RememberKeeps DEF ServeBlock
  <2>7. TypeOK'
    BY <2>1, <2>5, <2>6 DEF ServeBlock, TypeOK, Flows
  <2> QED BY <2>5, <2>6, <2>7
<1>2. CASE Admits("block", f.bearer)
  <2>1. /\ Answer(s, "ok", None)
        /\ blocked' = blocked \cup {f.body} /\ out' = out \cup {f.body}
    BY <1>2 DEF ServeBlock
  <2>2. Known(f.bearer)
    BY <1>2 DEF Admits
  <2>3. f.body \in Tokens
    BY <1>0, <2>2, NamesAssumption DEF Brings, Known, Verdict
  <2>4. flow' \in [Slots -> Flows] /\ Carried'
    BY <1>0, <2>1, <2>3, SlotFields, AnswerChanged DEF Statuses, SignIns
  <2>5. f.bearer \in Tokens /\ now < f.bearer.exp
    BY <1>0, <2>2, KnownIsToken
  <2>6. cached' = cached \cup {f.bearer}
    BY <2>2 DEF ServeBlock, Remember
  <2>7. Lapses'
    BY <2>1, <2>5, <2>6 DEF ServeBlock, Lapses
  <2>8. TypeOK'
    BY <2>1, <2>3, <2>4, <2>5, <2>6 DEF ServeBlock, TypeOK, Flows
  <2> QED BY <2>4, <2>7, <2>8
<1> QED BY <1>1, <1>2

LEMMA RefreshServed ==
  ASSUME SessionInv, NEW s \in Slots, ServeRefresh(s)
  PROVE  SessionInv'
<1> USE DEF SessionInv
<1> DEFINE tok == flow[s].bearer
           good == Known(tok) /\ tok.type = "refresh"
           status == IF good THEN "ok" ELSE "failed"
           gift == IF good THEN Rotated(tok) ELSE None
           f == [flow[s] EXCEPT !.at = "renewed", !.status = status, !.gift = gift]
<1>0. flow[s].at = "refresh" /\ tok \in Bearers /\ Brings(flow[s])
  BY SlotFields DEF ServeRefresh, Carried
<1>1. cached' \subseteq Tokens /\ Lapses'
  BY <1>0, RememberKeeps DEF ServeRefresh
<1>2. good => Rotated(tok) \in Tokens
  <2>1. good => tok \in Tokens
    BY <1>0, KnownIsToken
  <2>2. good => tok.role \in Roles
    BY <2>1 DEF Tokens
  <2> QED BY <2>2, IssueType DEF Rotated
<1>3. flow' = [flow EXCEPT ![s] = f]
  BY SlotFields DEF ServeRefresh
<1>4. status \in Statuses /\ gift \in Gifts /\ (status = "ok" => gift \in Tokens)
  BY <1>2, SlotFields DEF Statuses, Gifts, Bearers
<1> HIDE DEF status, gift, good
<1>5. flow[s] \in Flows
  BY SlotFields
<1>6. /\ f \in Flows /\ f.at = "renewed" /\ f.status = status /\ f.gift = gift
      /\ f.call = flow[s].call /\ f.body = flow[s].body
  BY <1>4, <1>5 DEF Flows
<1> HIDE DEF f
<1>7. Brings(f)
  BY <1>0, <1>4, <1>6 DEF Brings
<1>8. flow' \in [Slots -> Flows] /\ Carried'
  BY <1>3, <1>6, <1>7, SlotChanged
<1>9. TypeOK'
  BY <1>1, <1>8 DEF ServeRefresh, TypeOK, Flows
<1> QED BY <1>1, <1>8, <1>9

LEMMA Restarted ==
  ASSUME SessionInv, Restart
  PROVE  SessionInv'
<1> USE DEF SessionInv
<1>1. TypeOK'
  BY LivesAssumption DEF Restart, TypeOK, browser
<1>2. Carried' /\ Lapses'
  BY DEF Restart, Carried, Lapses, browser
<1> QED BY <1>1, <1>2

LEMMA Ticked ==
  ASSUME SessionInv, Tick
  PROVE  SessionInv'
<1> USE DEF SessionInv
<1>1. now \in Nat /\ now' = now + 1 /\ now' \in 0 .. MaxTime
  BY LivesAssumption DEF Tick, TypeOK
<1>2. TypeOK'
  BY <1>1 DEF Tick, TypeOK, browser
<1>3. \A tok \in cached' : now' < tok.exp
  <2> TAKE tok \in cached'
  <2>1. tok \in Tokens /\ now' <= tok.exp - Margin
    BY DEF Tick, CachedAt, TypeOK
  <2>2. tok.exp \in Nat
    BY <2>1 DEF Tokens
  <2> QED BY <1>1, <2>1, <2>2, LivesAssumption
<1>4. \A tok \in out' : tok \in blocked' \/ tok.exp < now'
  <2> TAKE tok \in out'
  <2>1. tok \in out /\ tok \in Tokens
    BY DEF Tick, TypeOK
  <2>2. tok.exp \in Nat
    BY <2>1 DEF Tokens
  <2>3. CASE tok \in blocked
    BY <1>1, <2>2, <2>3 DEF Tick, BlockedAt
  <2>4. CASE tok.exp < now
    BY <1>1, <2>2, <2>4
  <2> QED BY <2>1, <2>3, <2>4 DEF Lapses
<1>5. Carried'
  BY DEF Tick, Carried, browser
<1> QED BY <1>2, <1>3, <1>4, <1>5 DEF Lapses

(***************************************************************************)
(* The browser's actions.                                                  *)
(***************************************************************************)

\* They leave the server's lists and the clock alone.
LEMMA ServerLeft ==
  ASSUME TypeOK, Lapses, UNCHANGED <<now, cached, blocked, out, restarts>>,
         flow' \in [Slots -> Flows],
         store' \in [access : Bearers, refresh : Bearers], user' \in Tokens \cup {None},
         leaving' \in BOOLEAN, starts' \in 0 .. MaxStarts
  PROVE  TypeOK' /\ Lapses'
BY DEF TypeOK, Lapses, Flows

LEMMA EmptyStore == Empty \in [access : Bearers, refresh : Bearers]
BY DEF Empty, Bearers

LEMMA Started ==
  ASSUME SessionInv, NEW s \in Slots, NEW call \in Calls, Start(s, call)
  PROVE  SessionInv'
<1> USE DEF SessionInv
<1> DEFINE body == IF call = "block" THEN store.access ELSE None
<1>1. starts' \in 0 .. MaxStarts
  BY LivesAssumption DEF Start, TypeOK
<1>2. CASE call = "block" /\ store.access = None
  <2>1. store' = Empty /\ user' = None /\ UNCHANGED flow
    BY <1>2 DEF Start
  <2>2. flow' \in [Slots -> Flows] /\ Carried'
    BY <2>1, SlotFields DEF Carried
  <2>3. TypeOK' /\ Lapses'
    BY <1>1, <2>1, <2>2, EmptyStore, ServerLeft DEF Start, server, TypeOK
  <2> QED BY <2>2, <2>3
<1>3. CASE ~(call = "block" /\ store.access = None)
  <2>1. flow' = [flow EXCEPT ![s] = Asked(call, store.access, body)] /\ UNCHANGED <<store, user>>
    BY <1>3 DEF Start
  <2>2. body \in Bearers /\ (call = "block" => body \in Tokens \/ (body = Junk /\ store.access = Junk))
    BY <1>3, SlotFields DEF Bearers
  <2> HIDE DEF body
  <2>3. flow' \in [Slots -> Flows] /\ Carried'
    BY <2>1, <2>2, SlotFields, AskedChanged
  <2>4. TypeOK' /\ Lapses'
    BY <1>1, <2>1, <2>3, ServerLeft DEF Start, server, TypeOK
  <2> QED BY <2>3, <2>4
<1> QED BY <1>2, <1>3

LEMMA SignedInKeeps ==
  ASSUME SessionInv, NEW s \in Slots, SignedIn(s)
  PROVE  SessionInv'
<1> USE DEF SessionInv
<1> DEFINE gift == flow[s].gift
<1>1. gift \in [access : Bearers, refresh : Bearers]
  BY DEF SignedIn, Settles, Carried, Brings
<1>2. flow' \in [Slots -> Flows] /\ Carried'
  <2>1. gift.access \in Bearers /\ "private" \in Calls
    BY <1>1 DEF Calls
  <2>2. flow' = [flow EXCEPT ![s] = Asked("private", gift.access, None)]
    BY DEF SignedIn
  <2> HIDE DEF gift
  <2> QED BY <2>1, <2>2, SlotFields, AskedChanged
<1>3. TypeOK' /\ Lapses'
  BY <1>1, <1>2, ServerLeft DEF SignedIn, server, TypeOK
<1> QED BY <1>2, <1>3

LEMMA LoadedKeeps ==
  ASSUME SessionInv, NEW s \in Slots, Loaded(s)
  PROVE  SessionInv'
<1> USE DEF SessionInv
<1>1. flow' \in [Slots -> Flows] /\ Carried'
  BY FinishChanged DEF Loaded
<1>2. flow[s].status = "ok" => flow[s].gift \in Tokens
  BY DEF Loaded, Settles, Carried, Brings
<1>3. TypeOK' /\ Lapses'
  <2>1. CASE flow[s].status = "ok"
    BY <1>1, <1>2, <2>1, ServerLeft DEF Loaded, server, TypeOK
  <2>2. CASE flow[s].status # "ok"
    BY <1>1, <2>2, EmptyStore, ServerLeft DEF Loaded, server, TypeOK
  <2> QED BY <2>1, <2>2
<1> QED BY <1>1, <1>3

LEMMA SignedOutKeeps ==
  ASSUME SessionInv, NEW s \in Slots, SignedOut(s)
  PROVE  SessionInv'
<1> USE DEF SessionInv
<1>1. flow' \in [Slots -> Flows] /\ Carried'
  BY FinishChanged DEF SignedOut
<1>2. TypeOK' /\ Lapses'
  BY <1>1, EmptyStore, ServerLeft DEF SignedOut, server, TypeOK
<1> QED BY <1>1, <1>2

LEMMA AnsweredKeeps ==
  ASSUME SessionInv, NEW s \in Slots, Answered(s)
  PROVE  SessionInv'
<1> USE DEF SessionInv
<1>1. flow' \in [Slots -> Flows] /\ Carried'
  BY FinishChanged DEF Answered
<1>2. TypeOK' /\ Lapses'
  BY <1>1, ServerLeft DEF Answered, server, TypeOK
<1> QED BY <1>1, <1>2

\* Only a token, never the string "undefined", meets the 401 a refresh follows.
LEMMA RefreshKeeps ==
  ASSUME SessionInv, NEW s \in Slots, Refresh(s)
  PROVE  SessionInv'
<1> USE DEF SessionInv
<1> DEFINE f == [flow[s] EXCEPT !.at = "refresh", !.bearer = store.refresh,
                                !.retried = TRUE, !.status = "none"]
<1>1. flow[s].at = "reply" /\ flow[s].status = "unauthorized" /\ Brings(flow[s])
  BY DEF Refresh, Settles, Carried
<1>2. flow' = [flow EXCEPT ![s] = f]
  BY SlotFields DEF Refresh
<1>3. /\ f \in Flows /\ f.at = "refresh"
      /\ f.call = flow[s].call /\ f.body = flow[s].body
  BY SlotFields DEF Flows, Statuses
<1> HIDE DEF f
<1>4. Brings(f)
  BY <1>1, <1>3 DEF Brings
<1>5. flow' \in [Slots -> Flows] /\ Carried'
  BY <1>2, <1>3, <1>4, SlotChanged
<1>6. TypeOK' /\ Lapses'
  BY <1>5, ServerLeft DEF Refresh, server, TypeOK
<1> QED BY <1>5, <1>6

LEMMA RenewedKeeps ==
  ASSUME SessionInv, NEW s \in Slots, Renewed(s)
  PROVE  SessionInv'
<1> USE DEF SessionInv
<1> DEFINE f == flow[s]
<1>1. f.at = "renewed" /\ f.status = "ok" /\ Brings(f)
  BY DEF Renewed, Carried
<1>2. f.gift \in Tokens /\ f.gift \in Bearers /\ (f.call = "block" => f.body \in Tokens)
  BY <1>1 DEF Brings, Bearers
<1>3. flow' \in [Slots -> Flows] /\ Carried'
  <2>1. CASE f.call = "upload"
    BY <2>1, FinishChanged DEF Renewed, Finish
  <2>2. CASE f.call # "upload"
    <3>1. flow' = [flow EXCEPT ![s] =
                     [Asked(f.call, f.gift, f.body) EXCEPT !.retried = TRUE]]
      BY <2>2 DEF Renewed
    <3> QED BY <1>2, <3>1, SlotFields, AskedChanged
  <2> QED BY <2>1, <2>2
<1>4. store' \in [access : Bearers, refresh : Bearers]
  BY <1>2 DEF Renewed, TypeOK
<1>5. TypeOK' /\ Lapses'
  BY <1>3, <1>4, ServerLeft DEF Renewed, server, TypeOK
<1> QED BY <1>3, <1>5

LEMMA ExpelledKeeps ==
  ASSUME SessionInv, NEW s \in Slots, Expelled(s)
  PROVE  SessionInv'
<1> USE DEF SessionInv
<1>1. flow' \in [Slots -> Flows] /\ Carried'
  BY FinishChanged DEF Expelled
<1>2. TypeOK' /\ Lapses'
  BY <1>1, EmptyStore, ServerLeft DEF Expelled, server, TypeOK
<1> QED BY <1>1, <1>2

LEMMA LoseKeeps ==
  ASSUME SessionInv, NEW s \in Slots, Lose(s)
  PROVE  SessionInv'
<1> USE DEF SessionInv
<1>0. Brings(flow[s])
  BY DEF Carried
<1>1. CASE /\ flow[s].at = "call" \/ (flow[s].at = "reply" /\ flow[s].status = "ok")
           /\ Answer(s, "failed", None)
  <2>1. flow[s].call = "block" => flow[s].body \in Tokens \/ flow[s].body = Junk
    BY <1>0, <1>1 DEF Brings
  <2>2. flow' \in [Slots -> Flows] /\ Carried'
    BY <1>1, <2>1, SlotFields, AnswerChanged DEF Statuses
  <2>3. TypeOK' /\ Lapses'
    BY <2>2, ServerLeft DEF Lose, server, TypeOK
  <2> QED BY <2>2, <2>3
<1>2. CASE /\ flow[s].at \in {"refresh", "renewed"}
           /\ flow' = [flow EXCEPT ![s].at = "renewed", ![s].status = "failed", ![s].gift = None]
  <2> DEFINE f == [flow[s] EXCEPT !.at = "renewed", !.status = "failed", !.gift = None]
  <2>1. flow' = [flow EXCEPT ![s] = f]
    BY <1>2, SlotFields
  <2>2. flow[s] \in Flows
    BY SlotFields
  <2>3. "failed" \in Statuses /\ None \in Gifts
    BY SlotFields DEF Statuses
  <2>4. /\ f \in Flows /\ f.at = "renewed" /\ f.status = "failed"
        /\ f.call = flow[s].call /\ f.body = flow[s].body
    BY <2>2, <2>3 DEF Flows
  <2> HIDE DEF f
  <2>5. Brings(f)
    BY <1>0, <1>2, <2>4 DEF Brings
  <2>6. flow' \in [Slots -> Flows] /\ Carried'
    BY <2>1, <2>4, <2>5, SlotChanged
  <2>7. TypeOK' /\ Lapses'
    BY <2>6, ServerLeft DEF Lose, server, TypeOK
  <2> QED BY <2>6, <2>7
<1> QED BY <1>1, <1>2 DEF Lose

LEMMA ReloadKeeps ==
  ASSUME SessionInv, Reload
  PROVE  SessionInv'
<1> USE DEF SessionInv
<1>1. \A s \in Slots : flow'[s] \in {Asked("private", store.access, None), Idle}
  BY DEF Reload
<1>2. store.access \in Bearers /\ None \in Bearers /\ "private" \in Calls
  BY DEF TypeOK, Bearers, Calls
<1>3. Asked("private", store.access, None) \in Flows /\ Brings(Asked("private", store.access, None))
  BY <1>2, AskedRecord DEF Brings
<1>4. flow' \in [Slots -> Flows] /\ Carried'
  <2>1. \A s \in Slots : flow'[s] \in Flows /\ Brings(flow'[s])
    BY <1>1, <1>3, IdleFlows
  <2>2. flow' = [s \in Slots |-> flow'[s]]
    BY DEF Reload
  <2> QED BY <2>1, <2>2 DEF Carried
<1>5. starts' \in 0 .. MaxStarts
  BY LivesAssumption DEF Reload, TypeOK
<1>6. TypeOK' /\ Lapses'
  BY <1>4, <1>5, ServerLeft DEF Reload, server, TypeOK
<1> QED BY <1>4, <1>6

(***************************************************************************)
(* Theorems.                                                               *)
(***************************************************************************)

LEMMA SessionInit == Init => SessionInv
<1> SUFFICES ASSUME Init PROVE SessionInv
  OBVIOUS
<1>1. TypeOK
  <2>1. flow \in [Slots -> Flows]
    BY IdleFlows DEF Init
  <2>2. now \in 0 .. MaxTime /\ starts \in 0 .. MaxStarts /\ restarts \in 0 .. MaxRestarts
    BY LivesAssumption DEF Init
  <2> QED BY <2>1, <2>2, EmptyStore DEF Init, TypeOK, Flows
<1>2. Carried
  BY IdleFlows DEF Init, Carried
<1> QED BY <1>1, <1>2 DEF Init, SessionInv, Lapses

LEMMA SessionStep == SessionInv /\ [Next]_vars => SessionInv'
<1> SUFFICES ASSUME SessionInv, [Next]_vars PROVE SessionInv'
  OBVIOUS
<1>1. ASSUME NEW s \in Slots, Respond(s) PROVE SessionInv'
  BY <1>1, SignInServed, RequestServed, BlockServed, RefreshServed DEF Respond
<1>2. ASSUME NEW s \in Slots, React(s) PROVE SessionInv'
  BY <1>2, SignedInKeeps, LoadedKeeps, SignedOutKeeps, AnsweredKeeps, RefreshKeeps,
     RenewedKeeps, ExpelledKeeps DEF React
<1>3. ASSUME NEW s \in Slots, Lose(s) PROVE SessionInv'
  BY <1>3, LoseKeeps
<1>4. ASSUME NEW s \in Slots, NEW call \in Calls, Start(s, call) PROVE SessionInv'
  BY <1>4, Started
<1>5. CASE Reload
  BY <1>5, ReloadKeeps
<1>6. CASE Tick
  BY <1>6, Ticked
<1>7. CASE Restart
  BY <1>7, Restarted
<1>8. CASE UNCHANGED vars
  BY <1>8 DEF SessionInv, TypeOK, Carried, Lapses, vars, server, browser
<1> QED BY <1>1, <1>2, <1>3, <1>4, <1>5, <1>6, <1>7, <1>8 DEF Next

LEMMA SessionHolds == Spec => []SessionInv
BY SessionInit, SessionStep, PTL DEF Spec

\* Every variable of Session keeps its type: what is stored, sent, cached and blocked
\* are tokens, except where the string "undefined" of a registration goes.
THEOREM SessionTypeCorrect == Spec => []TypeOK
<1>1. SessionInv => TypeOK
  BY DEF SessionInv
<1> QED BY <1>1, SessionHolds, PTL

\* The middleware never takes a blocked token for its user while the process runs,
\* nor an expired one because its payload is cached, whatever the lives are.
THEOREM SpentStaysOut == Spec => []SpentIsUnknown
<1>1. SessionInv => SpentIsUnknown
  <2> SUFFICES ASSUME SessionInv, NEW tok \in out \cup cached, tok \in out \/ tok.exp <= now
               PROVE  ~Known(tok)
    BY DEF SpentIsUnknown
  <2>1. tok \in Tokens /\ tok.exp \in Nat /\ now \in Nat
    BY LivesAssumption DEF SessionInv, TypeOK, Tokens
  <2>2. tok \in cached => tok \in out /\ now < tok.exp
    BY <2>1 DEF SessionInv, Lapses
  <2>3. tok \in blocked \/ (tok.exp < now /\ tok \notin cached)
    BY <2>1, <2>2 DEF SessionInv, Lapses
  <2> QED BY <2>1, <2>3 DEF Known, Verdict
<1> QED BY <1>1, SessionHolds, PTL

(***************************************************************************)
(* A signed-in page has a token.  One slot at a time signs in or out (two  *)
(* forms never do); the load of the page and the form's request are never  *)
(* both able to change who is signed in.                                   *)
(***************************************************************************)
OneForm == \A f, g \in Forms : f = g

\* What the request of slot s may be, and what a sign-in's answer brings.
Fits(s, f) ==
  /\ f.call \in SignIns \cup {"block"} => s \in Forms
  /\ f.call = "private" => s \in Forms \cup {Boot}
  /\ s = Boot /\ f.at # "idle" => f.call = "private"
  /\ f.call \in SignIns /\ f.at # "idle" =>
       /\ f.at \in {"call", "reply"}
       /\ f.at = "reply" => f.status # "unauthorized"
       /\ f.at = "reply" /\ f.status = "ok" => f.bearer = None /\ f.gift.access # None

\* A request whose answer may change who is signed in.
Decides(f) ==
  /\ f.at # "idle"
  /\ f.call \in {"private", "block"} \/ (f.call \in SignIns /\ f.bearer = None)

PageInv ==
  /\ \A s \in Slots : Fits(s, flow[s])
  /\ ~leaving =>
       /\ store.access = None => user = None
       /\ flow[Boot].at # "idle" =>
            user = None /\ store.access # None /\ \A s \in Forms : ~Decides(flow[s])
       /\ \A s \in Forms : flow[s].at # "idle" /\ flow[s].call = "private" => store.access # None

\* Only slot s changes.
SlotStep(s) == \A q \in Slots \ {s} : flow'[q] = flow[q]

\* A request that goes on, or is over, and takes no token away.
LEMMA PageFrame ==
  ASSUME PageInv, NEW s \in Slots, SlotStep(s), Fits(s, flow'[s]),
         \/ flow'[s].at = "idle"
         \/ /\ flow[s].at # "idle" /\ flow'[s].call = flow[s].call
            /\ flow[s].call \in SignIns => flow'[s].bearer = flow[s].bearer,
         UNCHANGED <<leaving, user>>, store' = store \/ store'.access # None
  PROVE  PageInv'
<1>1. \A q \in Slots : Fits(q, flow'[q])
  BY DEF PageInv, SlotStep
<1>2. ASSUME NEW q \in Slots
      PROVE  /\ Decides(flow'[q]) => Decides(flow[q])
             /\ flow'[q].at # "idle" => flow[q].at # "idle" /\ flow'[q].call = flow[q].call
  BY DEF SlotStep, Decides
<1>3. Boot \in Slots /\ Forms \subseteq Slots
  BY SlotsAssumption DEF Slots
<1>4. store'.access = None => store.access = None
  OBVIOUS
<1> QED BY <1>1, <1>2, <1>3, <1>4 DEF PageInv

LEMMA NoTokenIsNone == \A tok \in Tokens : tok # None
BY NamesAssumption

\* What an answer changes, field by field.
LEMMA AnswerFields ==
  ASSUME TypeOK, NEW s \in Slots, NEW status, NEW gift, Answer(s, status, gift)
  PROVE  /\ SlotStep(s)
         /\ flow'[s].at = "reply" /\ flow'[s].status = status /\ flow'[s].gift = gift
         /\ flow'[s].call = flow[s].call /\ flow'[s].bearer = flow[s].bearer
<1>1. flow \in [Slots -> Flows] /\ flow[s] \in Flows
  BY SlotFields
<1>2. SlotStep(s) /\ flow'[s] = [flow[s] EXCEPT !.at = "reply", !.status = status, !.gift = gift]
  BY <1>1 DEF Answer, SlotStep
<1> QED BY <1>1, <1>2 DEF Flows

LEMMA IdleFits ==
  ASSUME NEW s PROVE Fits(s, Idle) /\ Idle.at = "idle"
BY DEF Fits, Idle, SignIns

LEMMA FinishFields ==
  ASSUME TypeOK, NEW s \in Slots, Finish(s)
  PROVE  SlotStep(s) /\ flow'[s] = Idle /\ Fits(s, flow'[s]) /\ flow'[s].at = "idle"
<1>1. flow \in [Slots -> Flows]
  BY SlotFields
<1>2. SlotStep(s) /\ flow'[s] = Idle
  BY <1>1 DEF Finish, SlotStep
<1> QED BY <1>2, IdleFits

\* The server's actions answer a request.
LEMMA ServedPage ==
  ASSUME SessionInv, PageInv, NEW s \in Slots, Respond(s)
  PROVE  PageInv'
<1>1. TypeOK /\ Fits(s, flow[s]) /\ flow[s] \in Flows
  BY SlotFields DEF SessionInv, PageInv
<1>2. ASSUME NEW status, NEW gift, Answer(s, status, gift), flow[s].at = "call",
             flow[s].call \in SignIns =>
               status \in {"ok", "failed"} /\ (status = "ok" => flow[s].bearer = None /\ gift.access # None),
             UNCHANGED <<store, user, leaving>>
      PROVE  PageInv'
  <2>1. /\ flow'[s].at = "reply" /\ flow'[s].status = status /\ flow'[s].gift = gift
        /\ flow'[s].call = flow[s].call /\ flow'[s].bearer = flow[s].bearer
    BY <1>1, <1>2, AnswerFields
  <2>2. Fits(s, flow'[s])
    BY <1>1, <1>2, <2>1 DEF Fits
  <2> QED BY <1>1, <1>2, <2>1, <2>2, AnswerFields, PageFrame
<1>3. CASE ServeSignIn(s)
  <2>1. CASE Answer(s, "failed", None)
    BY <1>2, <1>3, <2>1 DEF ServeSignIn
  <2>2. ASSUME NEW gift, gift.access # None, flow[s].bearer = None, Answer(s, "ok", gift)
        PROVE  PageInv'
    BY <1>2, <1>3, <2>2 DEF ServeSignIn
  <2>3. ASSUME NEW a \in Accounts
        PROVE  /\ [access |-> Junk, refresh |-> Junk].access # None
               /\ [access |-> Issue("access", a, RoleOf(a)),
                   refresh |-> Issue("refresh", a, RoleOf(a))].access # None
    <3>1. RoleOf(a) \in Roles
      BY DEF RoleOf, Roles
    <3>2. Issue("access", a, RoleOf(a)) \in Tokens
      BY <1>1, <3>1, IssueType
    <3> QED BY <3>2, NoTokenIsNone, NamesAssumption
  <2> QED BY <1>3, <2>1, <2>2, <2>3 DEF ServeSignIn
<1>4. CASE Serve(s)
  BY <1>2, <1>4 DEF Serve
<1>5. CASE ServeBlock(s)
  BY <1>2, <1>5 DEF ServeBlock, SignIns
<1>6. CASE ServeRefresh(s)
  <2>1. flow[s].at = "refresh" /\ flow[s].call \notin SignIns
    BY <1>1, <1>6 DEF ServeRefresh, Fits
  <2>2. SlotStep(s) /\ flow'[s].at = "renewed" /\ flow'[s].call = flow[s].call
    BY <1>1, <1>6, SlotFields DEF ServeRefresh, SlotStep, Flows
  <2>3. Fits(s, flow'[s])
    BY <1>1, <2>1, <2>2 DEF Fits
  <2> QED BY <1>6, <2>1, <2>2, <2>3, PageFrame DEF ServeRefresh
<1> QED BY <1>3, <1>4, <1>5, <1>6 DEF Respond

\* Answers, refreshes and losses that leave the session as it is or give it a token.
LEMMA GoesOnPage ==
  ASSUME SessionInv, PageInv, NEW s \in Slots,
         Answered(s) \/ Refresh(s) \/ Renewed(s) \/ Lose(s)
  PROVE  PageInv'
<1>1. TypeOK /\ Fits(s, flow[s]) /\ flow[s] \in Flows /\ flow \in [Slots -> Flows]
  BY SlotFields DEF SessionInv, PageInv
<1>2. CASE Answered(s)
  BY <1>1, <1>2, FinishFields, PageFrame DEF Answered
<1>3. CASE Refresh(s)
  <2>1. flow[s].at = "reply" /\ flow[s].status = "unauthorized"
    BY <1>3 DEF Refresh, Settles
  <2>2. flow[s].call \notin SignIns
    BY <1>1, <2>1 DEF Fits
  <2>3. SlotStep(s) /\ flow'[s].at = "refresh" /\ flow'[s].call = flow[s].call
    BY <1>1, <1>3 DEF Refresh, SlotStep, Flows
  <2>4. Fits(s, flow'[s])
    BY <1>1, <2>1, <2>2, <2>3 DEF Fits
  <2> QED BY <1>3, <2>1, <2>2, <2>3, <2>4, PageFrame DEF Refresh
<1>4. CASE Renewed(s)
  <2>1. flow[s].at = "renewed" /\ flow[s].status = "ok" /\ flow[s].gift \in Tokens
    BY <1>4 DEF Renewed, SessionInv, Carried, Brings
  <2>2. flow[s].call \notin SignIns
    BY <1>1, <2>1 DEF Fits
  <2>3. store'.access # None
    BY <1>1, <1>4, <2>1, NoTokenIsNone DEF Renewed, TypeOK
  <2>4. SlotStep(s)
    BY <1>1, <1>4 DEF Renewed, SlotStep
  <2>5. CASE flow[s].call = "upload"
    <3>1. flow'[s] = Idle
      BY <1>1, <1>4, <2>5 DEF Renewed
    <3> QED BY <1>4, <2>3, <2>4, <3>1, IdleFits, PageFrame DEF Renewed
  <2>6. CASE flow[s].call # "upload"
    <3> DEFINE g == Asked(flow[s].call, flow[s].gift, flow[s].body)
    <3>1. flow'[s] = [g EXCEPT !.retried = TRUE]
      BY <1>1, <1>4, <2>6 DEF Renewed
    <3>2. g \in Flows /\ g.at = "call" /\ g.call = flow[s].call
      BY <1>1, <2>1, SlotFields, AskedRecord DEF Bearers
    <3> HIDE DEF g
    <3>3. flow'[s].at = "call" /\ flow'[s].call = flow[s].call
      BY <3>1, <3>2 DEF Flows
    <3>4. Fits(s, flow'[s])
      BY <1>1, <2>1, <2>2, <3>3 DEF Fits
    <3> QED BY <1>4, <2>1, <2>2, <2>3, <2>4, <3>3, <3>4, PageFrame DEF Renewed
  <2> QED BY <2>5, <2>6
<1>5. CASE Lose(s)
  <2>1. CASE Answer(s, "failed", None) /\ flow[s].at # "idle"
    <3>1. /\ flow'[s].at = "reply" /\ flow'[s].status = "failed"
          /\ flow'[s].call = flow[s].call /\ flow'[s].bearer = flow[s].bearer
      BY <1>1, <2>1, AnswerFields
    <3>2. Fits(s, flow'[s])
      BY <1>1, <2>1, <3>1 DEF Fits
    <3> QED BY <1>1, <1>5, <2>1, <3>1, <3>2, AnswerFields, PageFrame DEF Lose
  <2>2. CASE /\ flow[s].at \in {"refresh", "renewed"}
             /\ flow' = [flow EXCEPT ![s].at = "renewed", ![s].status = "failed", ![s].gift = None]
    <3>1. SlotStep(s) /\ flow'[s].at = "renewed" /\ flow'[s].call = flow[s].call
      BY <1>1, <2>2 DEF SlotStep, Flows
    <3>2. flow[s].call \notin SignIns
      BY <1>1, <2>2 DEF Fits
    <3>3. Fits(s, flow'[s])
      BY <1>1, <2>2, <3>1, <3>2 DEF Fits
    <3> QED BY <1>5, <2>2, <3>1, <3>2, <3>3, PageFrame DEF Lose
  <2> QED BY <1>5, <2>1, <2>2 DEF Lose
<1> QED BY <1>2, <1>3, <1>4, <1>5

\* A click starts a request that can decide only if no other can.
LEMMA StartedPage ==
  ASSUME OneForm, SessionInv, PageInv, NEW s \in Slots, NEW call \in Calls, Start(s, call)
  PROVE  PageInv'
<1>1. /\ TypeOK /\ flow \in [Slots -> Flows] /\ s # Boot /\ leaving' = leaving
      /\ flow[s].at = "idle" /\ Boot \in Slots /\ Forms \subseteq Slots /\ Boot \notin Forms
  BY SlotFields, SlotsAssumption DEF SessionInv, Start, Slots
<1>2. CASE call = "block" /\ store.access = None
  <2>1. store'.access = None /\ user' = None /\ UNCHANGED flow /\ user # None
    BY <1>2 DEF Start, Empty, Offered, SignIns
  <2> QED BY <1>1, <1>2, <2>1 DEF PageInv
<1>3. CASE ~(call = "block" /\ store.access = None)
  <2> DEFINE body == IF call = "block" THEN store.access ELSE None
             g    == Asked(call, store.access, body)
  <2>1. flow' = [flow EXCEPT ![s] = g] /\ UNCHANGED <<store, user>>
    BY <1>3 DEF Start
  <2>2. body \in Bearers /\ store.access \in Bearers
    BY <1>1, SlotFields DEF Bearers
  <2> HIDE DEF body
  <2>3. g \in Flows /\ g.at = "call" /\ g.call = call /\ g.bearer = store.access
    BY <2>2, AskedRecord
  <2> HIDE DEF g
  <2>4. SlotStep(s) /\ flow'[s] = g
    BY <1>1, <2>1 DEF SlotStep
  <2>5. /\ call \in SignIns \cup {"block"} => s \in Forms
        /\ call # "private"
        /\ call = "block" => user # None
    BY DEF Start, Offered, SignIns
  <2>6. Fits(s, g)
    BY <1>1, <2>3, <2>5 DEF Fits, SignIns, Calls, Statuses
  <2> QED BY <1>1, <2>1, <2>3, <2>4, <2>5, <2>6 DEF PageInv, SlotStep, Decides
<1> QED BY <1>2, <1>3

\* The answers that change who is signed in find no other that could.
LEMMA DecidedPage ==
  ASSUME OneForm, SessionInv, PageInv, NEW s \in Slots,
         SignedIn(s) \/ Loaded(s) \/ SignedOut(s) \/ Expelled(s)
  PROVE  PageInv'
<1>1. /\ TypeOK /\ Fits(s, flow[s]) /\ flow[s] \in Flows /\ flow \in [Slots -> Flows]
      /\ Boot \in Slots /\ Forms \subseteq Slots /\ Boot \notin Forms
      /\ \A f \in Forms : s \in Forms => f = s
  BY SlotFields, SlotsAssumption DEF SessionInv, PageInv, Slots, OneForm
<1>2. ASSUME SlotStep(s), Fits(s, flow'[s]) PROVE \A q \in Slots : Fits(q, flow'[q])
  BY <1>2 DEF PageInv, SlotStep
<1>3. CASE SignedIn(s)
  <2>1. /\ flow[s].at = "reply" /\ flow[s].status = "ok" /\ flow[s].call \in SignIns
        /\ flow[s].bearer = None /\ flow[s].gift.access # None /\ s \in Forms
    BY <1>1, <1>3 DEF SignedIn, Settles, Fits
  <2>2. store'.access # None /\ UNCHANGED <<user, leaving>>
    BY <1>3, <2>1 DEF SignedIn
  <2> DEFINE g == Asked("private", flow[s].gift.access, None)
  <2>3. flow[s].gift.access \in Bearers /\ None \in Bearers /\ "private" \in Calls
    BY <1>3, <2>1, SlotFields DEF SessionInv, Carried, Brings, Calls
  <2>4. g \in Flows /\ g.at = "call" /\ g.call = "private"
    BY <2>3, AskedRecord
  <2>5. SlotStep(s) /\ flow'[s] = g
    BY <1>1, <1>3 DEF SignedIn, SlotStep
  <2> HIDE DEF g
  <2>6. Fits(s, flow'[s])
    BY <1>1, <2>1, <2>4, <2>5 DEF Fits, SignIns
  <2>7. ~leaving => flow[Boot].at = "idle"
    BY <2>1 DEF PageInv, Decides
  <2>8. flow'[Boot] = flow[Boot]
    BY <1>1, <2>1, <2>5 DEF SlotStep
  <2> QED BY <1>2, <2>2, <2>5, <2>6, <2>7, <2>8 DEF PageInv
<1>4. CASE Loaded(s)
  <2>1. flow[s].at = "reply" /\ flow[s].call = "private" /\ s \in Forms \cup {Boot}
    BY <1>1, <1>4 DEF Loaded, Settles, Fits
  <2>2. SlotStep(s) /\ flow'[s].at = "idle" /\ Fits(s, flow'[s]) /\ leaving' = leaving
    BY <1>1, <1>4, FinishFields DEF Loaded
  <2>3. ~leaving => store.access # None
    BY <1>1, <2>1 DEF PageInv
  <2>4. ~leaving => flow'[Boot].at = "idle"
    <3>1. CASE s = Boot
      BY <2>2, <3>1
    <3>2. CASE s # Boot
      BY <1>1, <2>1, <2>2, <3>2 DEF PageInv, Decides, SlotStep
    <3> QED BY <3>1, <3>2
  <2>5. CASE flow[s].status = "ok"
    <3>1. store' = store
      BY <1>4, <2>5 DEF Loaded
    <3> QED BY <1>2, <2>2, <2>3, <2>4, <3>1 DEF PageInv
  <2>6. CASE flow[s].status # "ok"
    <3>1. store'.access = None /\ user' = None
      BY <1>4, <2>6 DEF Loaded, Empty
    <3>2. ASSUME ~leaving, NEW f \in Forms, flow'[f].at # "idle" PROVE flow'[f].call # "private"
      <4>1. f # s /\ s = Boot /\ flow'[f] = flow[f]
        BY <1>1, <2>1, <2>2, <3>2 DEF SlotStep
      <4> QED BY <2>1, <3>2, <4>1 DEF PageInv, Decides
    <3> QED BY <1>2, <2>2, <2>4, <3>1, <3>2 DEF PageInv
  <2> QED BY <2>5, <2>6
<1>5. CASE SignedOut(s)
  <2>1. flow[s].at = "reply" /\ flow[s].call = "block" /\ s \in Forms
    BY <1>1, <1>5 DEF SignedOut, Settles, Fits
  <2>2. SlotStep(s) /\ flow'[s].at = "idle" /\ Fits(s, flow'[s])
    BY <1>1, <1>5, FinishFields DEF SignedOut
  <2>3. leaving' = leaving /\ user' = None
    BY <1>5 DEF SignedOut
  <2>4. ~leaving => flow'[Boot].at = "idle"
    BY <1>1, <2>1, <2>2 DEF PageInv, Decides, SlotStep
  <2>5. \A f \in Forms : flow'[f].at = "idle"
    BY <1>1, <2>1, <2>2
  <2> QED BY <1>2, <2>2, <2>3, <2>4, <2>5 DEF PageInv
<1>6. CASE Expelled(s)
  <2>1. SlotStep(s) /\ Fits(s, flow'[s]) /\ leaving'
    BY <1>1, <1>6, FinishFields DEF Expelled
  <2> QED BY <1>2, <2>1 DEF PageInv
<1> QED BY <1>3, <1>4, <1>5, <1>6

\* A new page has only its own load under way, and that with a stored token.
LEMMA ReloadedPage ==
  ASSUME SessionInv, Reload
  PROVE  PageInv'
<1> DEFINE g == Asked("private", store.access, None)
<1>1. store.access \in Bearers /\ None \in Bearers /\ "private" \in Calls
  BY DEF SessionInv, TypeOK, Bearers, Calls
<1>2. g \in Flows /\ g.at = "call" /\ g.call = "private"
  BY <1>1, AskedRecord
<1>3. Boot \in Slots /\ Boot \notin Forms /\ Forms \subseteq Slots
  BY SlotsAssumption DEF Slots
<1> HIDE DEF g
<1>4. Fits(Boot, g)
  BY <1>2 DEF Fits, SignIns
<1>5. /\ \A q \in Slots : flow'[q] = IF q = Boot /\ store.access # None THEN g ELSE Idle
      /\ user' = None /\ store' = store
  BY DEF Reload, g
<1>6. \A q \in Slots : Fits(q, flow'[q])
  BY <1>4, <1>5, IdleFits
<1>7. \A q \in Forms : flow'[q].at = "idle"
  BY <1>3, <1>5, IdleFits
<1>8. flow'[Boot].at # "idle" => store'.access # None
  BY <1>3, <1>5, IdleFits
<1> QED BY <1>5, <1>6, <1>7, <1>8 DEF PageInv, Decides

LEMMA PageStep ==
  ASSUME OneForm, SessionInv, PageInv, [Next]_vars
  PROVE  PageInv'
<1>1. ASSUME NEW s \in Slots, React(s) PROVE PageInv'
  BY <1>1, GoesOnPage, DecidedPage DEF React
<1>2. ASSUME UNCHANGED browser PROVE PageInv'
  BY <1>2 DEF PageInv, Decides, browser
<1>3. CASE Tick \/ Restart \/ UNCHANGED vars
  BY <1>2, <1>3 DEF Tick, Restart, vars
<1> QED BY <1>1, <1>3, ServedPage, GoesOnPage, StartedPage, ReloadedPage DEF Next

\* No page that is not being left shows a user without an access token, when one form
\* at a time signs in or out: whatever expires, is lost, refreshed or reloaded.
THEOREM SignedInKeepsTokens ==
  ASSUME OneForm
  PROVE  Spec => []SignedInHasTokens
<1>1. Init => PageInv
  <2> SUFFICES ASSUME Init PROVE PageInv
    OBVIOUS
  <2>1. Boot \in Slots /\ Forms \subseteq Slots
    BY SlotsAssumption DEF Slots
  <2>2. \A s \in Slots : flow[s].at = "idle" /\ Fits(s, flow[s])
    BY IdleFits DEF Init
  <2> QED BY <2>1, <2>2 DEF PageInv, Init
<1>2. SessionInv /\ PageInv /\ [Next]_vars => PageInv'
  BY PageStep
<1>3. PageInv => SignedInHasTokens
  BY DEF PageInv, SignedInHasTokens
<1> QED BY <1>1, <1>2, <1>3, SessionHolds, PTL DEF Spec
=============================================================================
