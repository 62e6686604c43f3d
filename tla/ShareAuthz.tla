------------------------------ MODULE ShareAuthz ------------------------------
(***************************************************************************)
(* Who may see a share (share_authz_cache.go, share_support.go) and how    *)
(* the proxy proves it to Immich (immich/share_token.go, client.go).  A    *)
(* request for media is judged once per minute and credentials; a page is  *)
(* judged each time.  A lookup is up to three exchanges with Immich: the   *)
(* login that Immich 3 wants, the link, and again a login, to learn        *)
(* whether the password is a stale cookie, or, where Immich 2 says that it *)
(* is, the link without it.  Both caches are keyed by share and password,  *)
(* so the module follows one share and one password that visitors send, or *)
(* visitors who send none.  Time is in ticks, no shorter than the timeout  *)
(* of an exchange.                                                         *)
(***************************************************************************)
EXTENDS Integers

CONSTANTS
  Requests,             \* requests at one time
  Passwords,            \* the passwords a share can have
  Sent,                 \* what visitors may send
  None,                 \* no password
  VerdictTTL, TokenTTL, NegativeTTL,
  Horizon,              \* history is forgotten after this many ticks
  MaxChanges, MaxFailures

ASSUME AuthzAssumption ==
  /\ None \notin Passwords /\ Sent \subseteq Passwords \union {None}
  /\ {VerdictTTL, Horizon, MaxChanges, MaxFailures} \subseteq Nat
  /\ NegativeTTL \in Nat \ {0} /\ TokenTTL \in Nat /\ NegativeTTL <= TokenTTL

VARIABLES
  cred,                 \* what they send: a password, or None
  immich,               \* external: its version, and the share
  token,                \* their entry in Client.shareTokens
  verdict,              \* their entry in shareAuthzCache.verdicts
  req,                  \* lookups under way
  since,                \* history: ticks since the share or Immich was changed
  changes, failures     \* how many edits and failures there were, for their bounds

cacheVars == <<token, verdict>>
world == <<cred, immich, since, changes>>
vars == <<cred, immich, token, verdict, req, since, changes, failures>>

NoToken == [kind |-> "none", age |-> 0]
NoVerdict == [outcome |-> "none", age |-> 0, lost |-> FALSE]
Idle == [at |-> "idle", page |-> FALSE, sent |-> None, token |-> "none",
         reply |-> "none", waited |-> FALSE, found |-> "none", lost |-> FALSE]

Capped(n, cap) == IF n < cap THEN n + 1 ELSE cap

-----------------------------------------------------------------------------
(* The caches.                                                             *)

TTL(kind) == IF kind \in {"token", "void"} THEN TokenTTL ELSE NegativeTTL

\* Mutated ValidToken: an entry is used for as long as it is there.
ValidTokenForever(e) == e.kind # "none"

ValidToken(e) == e.kind # "none" /\ e.age < TTL(e.kind)

\* Mutated ValidVerdict: a verdict is used until the next one is set.
ValidVerdictForever(v) == v.outcome # "none"

ValidVerdict(v) == v.outcome # "none" /\ v.age <= VerdictTTL

\* Transport errors and rejected passwords have no ttl and are not kept.
TokenWith(reply) ==
  IF reply \in {"token", "void", "unsupported", "public"}
  THEN [kind |-> reply, age |-> 0] ELSE token

\* Mutated VerdictWith: isDefinitiveAuthzVerdict is not asked.
VerdictWithAny(q, outcome) ==
  IF q.page THEN verdict ELSE [outcome |-> outcome, age |-> 0, lost |-> q.lost]

\* Only media requests leave a verdict, and only a definitive one.
VerdictWith(q, outcome) ==
  IF q.page \/ outcome = "unavailable" THEN verdict
  ELSE [outcome |-> outcome, age |-> 0, lost |-> q.lost /\ outcome = "password"]

-----------------------------------------------------------------------------
Init ==
  /\ cred \in Sent
  /\ immich \in [version : {2, 3}, password : Passwords \union {None},
                 link : {"live", "over"}]
  /\ token = NoToken /\ verdict = NoVerdict
  /\ req = [r \in Requests |-> Idle]
  /\ since = Horizon /\ changes = 0 /\ failures = 0

Goto(r, q) == req' = [req EXCEPT ![r] = [q EXCEPT !.reply = "none", !.waited = FALSE]]

TokenOf(kind) == IF kind = "token" THEN kind ELSE "none"

\* The next exchange of a lookup: a login, or the link with the token that is kept.
Approach(q) ==
  IF cred # None /\ ~ValidToken(token) THEN [q EXCEPT !.at = "login"]
  ELSE [q EXCEPT !.at = "me", !.token = TokenOf(token.kind)]

\* A handler asks: authorizeShareRequest for media, which answers with a verdict
\* that is still valid, or loadShareLink for a page.
Ask(r, page) ==
  /\ req[r] = Idle /\ (page \/ ~ValidVerdict(verdict))
  /\ Goto(r, Approach([Idle EXCEPT !.page = page, !.sent = cred]))
  /\ UNCHANGED <<world, failures, cacheVars>>

-----------------------------------------------------------------------------
(* Immich, as the client knows it.                                         *)

LoginReply ==
  IF immich.version = 2 THEN "unsupported"
  ELSE IF immich.link = "over" THEN "rejected"
  ELSE IF immich.password = None THEN "public"
  ELSE IF immich.password = cred THEN "token" ELSE "rejected"

\* A link that is over is gone, or is found with the time it expired at.
MeReplies(sent, with) ==
  LET open == IF immich.link = "live" THEN {"link"} ELSE {"gone", "expired"} IN
  IF immich.password = None
    THEN IF immich.version = 2 /\ sent # None THEN {"not protected"} ELSE open
  ELSE IF immich.version = 2 /\ sent = immich.password THEN open
  ELSE IF immich.version = 3 /\ with = "token" THEN open
  ELSE IF immich.link = "live" THEN {"refused"} ELSE {"refused", "gone"}

ImmichAnswers(r) ==
  /\ req[r].at # "idle" /\ req[r].reply = "none"
  /\ \E reply \in IF req[r].at = "me" THEN MeReplies(req[r].sent, req[r].token)
                                       ELSE {LoginReply} :
       req' = [req EXCEPT ![r].reply = reply]
  /\ UNCHANGED <<world, cacheVars, failures>>

\* No answer, or one that says nothing, within the timeout of the exchange.
ExchangeFails(r) ==
  /\ req[r].at # "idle" /\ req[r].reply = "none"
  /\ failures < MaxFailures /\ failures' = failures + 1
  /\ req' = [req EXCEPT ![r].reply = "failed"]
  /\ UNCHANGED <<world, cacheVars>>

Void(kind) == IF kind = "token" THEN "void" ELSE kind
VoidTokens ==
  /\ token' = [token EXCEPT !.kind = Void(@)]
  /\ req' = [r \in Requests |-> [req[r] EXCEPT !.token = "none", !.reply = Void(@)]]

\* The owner edits the share, or Immich gives up the tokens it gave out.
Edit ==
  \/ \E p \in Passwords \union {None} :
       p # immich.password /\ immich' = [immich EXCEPT !.password = p] /\ VoidTokens
  \/ \E l \in {"live", "over"} :
       l # immich.link /\ immich' = [immich EXCEPT !.link = l] /\ UNCHANGED <<token, req>>
  \/ UNCHANGED immich /\ VoidTokens /\ <<token, req>>' # <<token, req>>

Upgrade ==
  immich.version = 2 /\ immich' = [immich EXCEPT !.version = 3] /\ UNCHANGED <<token, req>>

ImmichChanges ==
  /\ \/ changes < MaxChanges /\ changes' = changes + 1 /\ Edit
     \/ UNCHANGED changes /\ Upgrade
  /\ since' = 0 /\ UNCHANGED <<cred, verdict, failures>>

-----------------------------------------------------------------------------
(* What the proxy makes of a reply.                                        *)

\* A login that is refused or fails leaves the lookup without a token.
LoginDone(r) ==
  /\ req[r].at = "login" /\ req[r].reply # "none"
  /\ token' = TokenWith(req[r].reply)
  /\ Goto(r, [req[r] EXCEPT !.at = "me", !.token = TokenOf(req[r].reply),
                !.lost = req[r].reply = "failed"])
  /\ UNCHANGED <<world, failures, verdict>>

Undecided == [outcome |-> "none", dropped |-> FALSE]
Decided(outcome, dropped) == [outcome |-> outcome, dropped |-> dropped]

\* A link that was found is asked whether the password was needed for it.
Found(q, outcome) ==
  IF q.sent = None THEN Decided(outcome, cred # None)
  ELSE IF ValidToken(token) THEN Decided(outcome, token.kind = "public")
  ELSE Undecided

\* What a lookup makes of the reply it has, if that settles it.
Decision(q) ==
  CASE q.at = "known" /\ q.reply # "none" -> Decided(q.found, q.reply = "public")
    [] q.at = "me" /\ q.reply = "link"    -> Found(q, "ok")
    [] q.at = "me" /\ q.reply = "expired" -> Found(q, "gone")
    [] q.at = "me" /\ q.reply = "gone"    -> Decided("gone", FALSE)
    [] q.at = "me" /\ q.reply = "refused" -> Decided("password", FALSE)
    [] q.at = "me" /\ q.reply = "failed"  -> Decided("unavailable", FALSE)
    [] OTHER -> Undecided

Finish(r) ==
  /\ req[r].reply # "none" /\ Decision(req[r]) # Undecided
  /\ verdict' = VerdictWith(req[r], Decision(req[r]).outcome)
  /\ token' = IF req[r].at = "known" THEN TokenWith(req[r].reply) ELSE token
  /\ req' = [req EXCEPT ![r] = Idle]
  /\ UNCHANGED <<world, failures>>

\* Immich 2 says that the password is not needed: the link is asked for without.
AskWithout(r) ==
  /\ req[r].at = "me" /\ req[r].reply = "not protected"
  /\ Goto(r, [req[r] EXCEPT !.sent = None, !.token = "none"])
  /\ UNCHANGED <<world, failures, cacheVars>>

\* shareKnownPublic, where no valid entry says it.
AskLoginAgain(r) ==
  /\ req[r].at = "me" /\ req[r].reply \in {"link", "expired"}
  /\ Decision(req[r]) = Undecided
  /\ Goto(r, [req[r] EXCEPT !.at = "known", !.token = "none", !.lost = FALSE,
                !.found = IF req[r].reply = "link" THEN "ok" ELSE "gone"])
  /\ UNCHANGED <<world, failures, cacheVars>>

-----------------------------------------------------------------------------
\* Time passes; an exchange is over before it passes twice.
Tick ==
  /\ \A r \in Requests : ~req[r].waited
  /\ req' = [r \in Requests |-> [req[r] EXCEPT !.waited = req[r].at # "idle"]]
  /\ token' = IF token = NoToken THEN token ELSE [token EXCEPT !.age = Capped(@, TTL(token.kind))]
  /\ verdict' = IF verdict = NoVerdict THEN verdict
                ELSE [verdict EXCEPT !.age = Capped(@, VerdictTTL + 1)]
  /\ since' = Capped(since, Horizon)
  /\ UNCHANGED <<cred, immich, changes, failures>>

Next ==
  \/ \E r \in Requests, page \in BOOLEAN : Ask(r, page)
  \/ \E r \in Requests : \/ ImmichAnswers(r) \/ ExchangeFails(r)
                         \/ LoginDone(r) \/ AskWithout(r) \/ AskLoginAgain(r) \/ Finish(r)
  \/ ImmichChanges \/ Tick

Spec == Init /\ [][Next]_vars

-----------------------------------------------------------------------------
(* Properties.                                                             *)

TypeOK ==
  /\ token.kind \in {"none", "token", "void", "unsupported", "public"}
  /\ token.age \in 0 .. TTL(token.kind)
  /\ verdict.outcome \in {"none", "ok", "password", "gone"}
  /\ verdict.age \in 0 .. VerdictTTL + 1
  /\ since \in 0 .. Horizon /\ changes \in 0 .. MaxChanges /\ failures \in 0 .. MaxFailures
  /\ \A r \in Requests : req[r].sent \in {None, cred}

\* What Immich would decide now.
Truth ==
  IF immich.link # "live" THEN "gone"
  ELSE IF immich.password \in {None, cred} THEN "ok" ELSE "password"

\* The answers that the proxy gives from a state: the verdict that is kept, to
\* requests for media, and what the lookups under way come to.
Kept == [outcome |-> verdict.outcome, dropped |-> FALSE, lost |-> verdict.lost,
         page |-> FALSE, cached |-> TRUE]
LookedUp(q) ==
  LET d == Decision(q) IN
  [outcome |-> d.outcome, dropped |-> d.dropped, lost |-> q.lost,
   page |-> q.page, cached |-> FALSE]
\* The ways from Immich's decision to an answer: the reply and one more exchange
\* take two ticks at most, and a verdict serves for its time.
Lag(a) == IF a.cached THEN VerdictTTL + 2 ELSE 2

\* A share is opened only to those who were let in a moment ago.
GrantFollowsImmich(a) == a.outcome = "ok" => Truth = "ok" \/ since <= Lag(a)

\* Who may see the share is refused only after a change a moment ago, one that
\* what is kept of the last login outlives, or by a lookup that lost its login.
RefusalFollowsImmich(a) ==
  Truth = "ok" =>
    /\ a.outcome = "gone" => since <= Lag(a)
    /\ a.outcome = "password" => a.lost \/ since <= Lag(a) + TokenTTL - 1

\* An outage of Immich is the outcome of the requests that met it alone.
OutageIsNotKept(a) == a.outcome = "unavailable" => ~a.cached

\* A cookie is cleared only if the share was open to everybody a moment ago.
ClearedCookieIsStale(a) ==
  a.dropped /\ immich.password # None => since <= NegativeTTL

\* Every answer is what Immich decided within a known time, whatever overtakes
\* what and whatever the caches hold (authorizeShareRequest and the handlers
\* that load the link, over shareTokenState).
AnswerFollowsImmich(a) ==
  /\ GrantFollowsImmich(a) /\ RefusalFollowsImmich(a)
  /\ OutageIsNotKept(a) /\ ClearedCookieIsStale(a)

AnswersFollowImmich ==
  /\ TypeOK
  /\ ValidVerdict(verdict) => AnswerFollowsImmich(Kept)
  /\ \A r \in Requests : Decision(req[r]) # Undecided => AnswerFollowsImmich(LookedUp(req[r]))

\* What the comment at share_authz_cache.go:79-82 says: a transient failure fails
\* the request that met it, and is not cached.
TransientFailsOnce == verdict.lost => ~ValidVerdict(verdict) \/ verdict.outcome # "password"
=============================================================================
