---------------------------- MODULE ShareAuthzProofs ----------------------------
(***************************************************************************)
(* Every answer of the proxy follows what Immich decides, for any times    *)
(* that the caches keep their entries and any number of requests, changes  *)
(* and failures.  The argument is about evidence: each reply, kept login   *)
(* and kept verdict is still true, or Immich has changed since it was      *)
(* taken, and then no longer ago than the evidence is old.                 *)
(***************************************************************************)
EXTENDS ShareAuthz, TLAPS

LoginReplies == {"token", "void", "unsupported", "public", "rejected", "failed"}
LinkReplies == {"link", "expired", "gone", "refused", "not protected", "failed"}

Lookup == [at : {"idle", "login", "me", "known"}, page : BOOLEAN, sent : {None, cred},
           token : {"none", "token"}, reply : {"none"} \union LoginReplies \union LinkReplies,
           waited : BOOLEAN, found : {"none", "ok", "gone"}, lost : BOOLEAN]

TypeInv ==
  /\ cred \in Sent
  /\ immich \in [version : {2, 3}, password : Passwords \union {None}, link : {"live", "over"}]
  /\ token \in [kind : {"none", "token", "void", "unsupported", "public"}, age : Nat]
  /\ token.age <= TTL(token.kind) /\ (cred = None => token.kind = "none")
  /\ verdict \in [outcome : {"none", "ok", "password", "gone"}, age : 0 .. VerdictTTL + 1,
                  lost : BOOLEAN]
  /\ req \in [Requests -> Lookup]
  /\ since \in 0 .. Horizon /\ changes \in 0 .. MaxChanges /\ failures \in 0 .. MaxFailures

\* The tick that an exchange, and so its reply, can be old.
Waited(q) == IF q.waited THEN 1 ELSE 0

\* A token that Immich gave and has not given up shows the right password.
Proven == immich.version = 3 /\ immich.password = cred /\ cred # None

\* What the reply to a login says, t ticks later at most.
LoginHolds(reply, t) ==
  /\ reply = "token" => Proven
  /\ reply = "void" => since <= t
  /\ reply = "unsupported" => immich.version = 2 \/ since <= t
  /\ reply = "public" => immich.password = None \/ since <= t
  /\ reply = "rejected" => Truth # "ok" \/ since <= t

TokenInv == ValidToken(token) => LoginHolds(token.kind, token.age + 1)

\* The link is asked for without a token for a reason: it needs none, it will not
\* be given, the login was lost, or what is kept of the login is out of date.
AskedWithReason(q) ==
  /\ q.token = "token" => Proven
  /\ q.token = "none" => \/ q.lost \/ since <= TokenTTL + Waited(q)
                         \/ immich.version = 2 \/ immich.password = None \/ Truth # "ok"
  /\ q.sent # cred => q.token = "none" /\ (immich.password = None \/ since <= 1 + Waited(q))

\* What the reply to a request for the link says.
LinkHolds(q) ==
  /\ q.reply = "link" => Truth = "ok" \/ since <= Waited(q)
  /\ q.reply \in {"gone", "expired"} => Truth = "gone" \/ since <= Waited(q)
  /\ q.reply \in {"link", "expired"} /\ q.sent # cred =>
       immich.password = None \/ since <= Waited(q)
  /\ q.reply = "not protected" => immich.password = None \/ since <= Waited(q)
  /\ q.reply = "refused" => q.lost \/ Truth # "ok" \/ since <= TokenTTL + Waited(q)

LookupInv(q) ==
  /\ q.at \in {"login", "known"} =>
       cred # None /\ q.reply \in {"none"} \union LoginReplies /\ LoginHolds(q.reply, Waited(q))
  /\ q.at = "login" => q.sent = cred
  /\ q.at = "me" =>
       q.reply \in {"none"} \union LinkReplies /\ AskedWithReason(q) /\ LinkHolds(q)
  /\ q.at = "known" =>
       /\ q.found = "ok" => Truth = "ok" \/ since <= 1 + Waited(q)
       /\ q.found = "gone" => Truth = "gone" \/ since <= 1 + Waited(q)
       /\ q.found # "none"

VerdictInv ==
  ValidVerdict(verdict) =>
    /\ verdict.outcome = "ok" => Truth = "ok" \/ since <= verdict.age + 2
    /\ verdict.outcome = "gone" => Truth = "gone" \/ since <= verdict.age + 2
    /\ verdict.outcome = "password" =>
         verdict.lost \/ Truth # "ok" \/ since <= verdict.age + TokenTTL + 1

IInv == TypeInv /\ TokenInv /\ VerdictInv /\ \A r \in Requests : LookupInv(req[r])

-----------------------------------------------------------------------------
(* Times, and what the world that stays the same leaves true.              *)

LEMMA Times ==
  /\ NegativeTTL \in Nat \ {0} /\ TokenTTL \in Nat \ {0} /\ VerdictTTL \in Nat
  /\ Horizon \in Nat
  /\ \A kind : TTL(kind) \in Nat /\ TTL(kind) <= TokenTTL
  /\ TTL("public") = NegativeTTL
  /\ \A kind : TTL(Void(kind)) = TTL(kind)
  BY AuthzAssumption DEF TTL, Void

LEMMA WaitedIsATick == ASSUME NEW q PROVE Waited(q) \in {0, 1}
  BY DEF Waited

\* Evidence can be taken for older than it is.
LEMMA OlderLogin ==
  ASSUME TypeInv, NEW reply, NEW t \in Nat, NEW u \in Nat, t <= u, LoginHolds(reply, t)
  PROVE  LoginHolds(reply, u)
  <1>1. since \in Nat  BY DEF TypeInv
  <1> QED  BY <1>1 DEF LoginHolds

LEMMA SameWorld == ASSUME UNCHANGED world PROVE Truth' = Truth /\ (Proven' <=> Proven)
  BY DEF world, Truth, Proven

\* A step of one lookup: what it leaves in its place has to be evidence too.
LEMMA LookupStepKeeps ==
  ASSUME IInv, UNCHANGED world, NEW r \in Requests, NEW q \in Lookup, LookupInv(q),
         req' = [req EXCEPT ![r] = q], failures' \in 0 .. MaxFailures,
         token' \in [kind : {"none", "token", "void", "unsupported", "public"}, age : Nat],
         token'.age <= TTL(token'.kind), cred = None => token'.kind = "none",
         ValidToken(token') => LoginHolds(token'.kind, token'.age + 1),
         verdict' \in [outcome : {"none", "ok", "password", "gone"},
                       age : 0 .. VerdictTTL + 1, lost : BOOLEAN],
         VerdictInv'
  PROVE  IInv'
  <1>1. UNCHANGED <<cred, immich, since, changes>>  BY DEF world
  <1>2. req \in [Requests -> Lookup] /\ \A s \in Requests : LookupInv(req[s])
    BY DEF IInv, TypeInv
  <1>3. Lookup' = Lookup  BY <1>1 DEF Lookup
  <1>4. req' \in [Requests -> Lookup]  BY <1>2
  <1>5. TypeInv'  BY <1>1, <1>3, <1>4 DEF IInv, TypeInv
  <1>6. Truth' = Truth /\ (Proven' <=> Proven)  BY SameWorld
  <1>7. TokenInv'  BY <1>1, <1>6 DEF TokenInv, LoginHolds, ValidToken
  <1>8. ASSUME NEW s \in Requests PROVE LookupInv(req[s])'
    <2>1. LookupInv(req'[s])
      <3>1. CASE s = r  BY <1>2, <3>1
      <3>2. CASE s # r  BY <1>2, <3>2
      <3> QED  BY <3>1, <3>2
    <2> QED
      BY <1>1, <1>6, <2>1 DEF LookupInv, AskedWithReason, LinkHolds, LoginHolds, Waited
  <1> QED  BY <1>5, <1>7, <1>8 DEF IInv

\* Most steps leave one of the caches as it is.
LEMMA SameToken ==
  ASSUME IInv, UNCHANGED token
  PROVE  /\ token' \in [kind : {"none", "token", "void", "unsupported", "public"}, age : Nat]
         /\ token'.age <= TTL(token'.kind) /\ (cred = None => token'.kind = "none")
         /\ ValidToken(token') => LoginHolds(token'.kind, token'.age + 1)
  BY DEF IInv, TypeInv, TokenInv

LEMMA SameVerdict ==
  ASSUME IInv, UNCHANGED <<world, verdict>>
  PROVE  /\ verdict' \in [outcome : {"none", "ok", "password", "gone"},
                          age : 0 .. VerdictTTL + 1, lost : BOOLEAN]
         /\ VerdictInv'
  <1>1. Truth' = Truth /\ since' = since  BY SameWorld DEF world
  <1> QED  BY <1>1 DEF IInv, TypeInv, VerdictInv, ValidVerdict

\* What a login says is stored for what it is.
LEMMA StoredLogin ==
  ASSUME IInv, cred # None, NEW q \in Lookup, LoginHolds(q.reply, Waited(q)),
         token' = TokenWith(q.reply)
  PROVE  /\ token' \in [kind : {"none", "token", "void", "unsupported", "public"}, age : Nat]
         /\ token'.age <= TTL(token'.kind) /\ (cred = None => token'.kind = "none")
         /\ ValidToken(token') => LoginHolds(token'.kind, token'.age + 1)
  <1>1. CASE q.reply \in {"token", "void", "unsupported", "public"}
    <2>1. token' = [kind |-> q.reply, age |-> 0]  BY <1>1 DEF TokenWith
    <2>2. LoginHolds(q.reply, 1)
      <3>1. Waited(q) \in Nat /\ Waited(q) <= 1  BY WaitedIsATick
      <3> QED  BY <3>1, OlderLogin DEF IInv
    <2>3. 0 <= TTL(q.reply)  BY Times
    <2> QED  BY <1>1, <2>1, <2>2, <2>3
  <1>2. CASE q.reply \notin {"token", "void", "unsupported", "public"}
    <2>1. token' = token  BY <1>2 DEF TokenWith
    <2> QED  BY <2>1, SameToken
  <1> QED  BY <1>1, <1>2

-----------------------------------------------------------------------------
(* The steps of a lookup.                                                  *)

LEMMA AskKeeps ==
  ASSUME IInv, NEW r \in Requests, NEW page \in BOOLEAN, Ask(r, page)
  PROVE  IInv'
  <1> DEFINE i == [Idle EXCEPT !.page = page, !.sent = cred]
             q == [Approach(i) EXCEPT !.reply = "none", !.waited = FALSE]
  <1>1. /\ req' = [req EXCEPT ![r] = q]
        /\ UNCHANGED world /\ UNCHANGED failures /\ UNCHANGED token /\ UNCHANGED verdict
    BY DEF Ask, Goto, cacheVars
  <1>2. failures' \in 0 .. MaxFailures  BY <1>1 DEF IInv, TypeInv
  <1>3. CASE cred # None /\ ~ValidToken(token)
    <2>1. q = [i EXCEPT !.at = "login", !.reply = "none", !.waited = FALSE]
      BY <1>3 DEF Approach
    <2>2. q \in Lookup /\ q.at = "login" /\ q.reply = "none" /\ q.sent = cred
      BY <2>1 DEF Lookup, Idle
    <2> HIDE DEF q
    <2>3. LookupInv(q)  BY <1>3, <2>2 DEF LookupInv, LoginHolds
    <2> QED  BY <1>1, <1>2, <2>2, <2>3, SameToken, SameVerdict, LookupStepKeeps
  <1>4. CASE ~(cred # None /\ ~ValidToken(token))
    <2>1. q = [i EXCEPT !.at = "me", !.token = TokenOf(token.kind), !.reply = "none",
                        !.waited = FALSE]
      BY <1>4 DEF Approach
    <2>2. /\ q \in Lookup /\ q.at = "me" /\ q.reply = "none" /\ q.sent = cred
          /\ q.waited = FALSE /\ q.token = TokenOf(token.kind)
      BY <2>1 DEF Lookup, Idle, TokenOf
    <2> HIDE DEF q
    <2>3. AskedWithReason(q)
      <3>1. CASE cred = None
        <4>1. q.token = "none"  BY <2>2, <3>1 DEF IInv, TypeInv, TokenOf
        <4>2. immich.password = None \/ Truth # "ok"  BY <3>1 DEF Truth
        <4> QED  BY <2>2, <4>1, <4>2 DEF AskedWithReason
      <3>2. CASE cred # None
        <4>1. ValidToken(token) /\ LoginHolds(token.kind, token.age + 1)
          BY <1>4, <3>2 DEF IInv, TokenInv
        <4>2. token.kind \in {"token", "void", "unsupported", "public"} /\ token.age \in Nat
          BY <4>1 DEF ValidToken, IInv, TypeInv
        <4>3. CASE token.kind = "token"
          BY <2>2, <4>1, <4>3 DEF AskedWithReason, LoginHolds, TokenOf
        <4>4. CASE token.kind # "token"
          <5>1. token.age + 1 <= TokenTTL /\ since \in Nat
            BY <4>1, <4>2, Times DEF ValidToken, IInv, TypeInv
          <5>2. q.token = "none" /\ Waited(q) = 0  BY <2>2, <4>4 DEF TokenOf, Waited
          <5>3. immich.version = 2 \/ immich.password = None \/ since <= TokenTTL
            BY <4>1, <4>2, <4>4, <5>1, Times DEF LoginHolds
          <5> QED  BY <2>2, <5>2, <5>3, Times DEF AskedWithReason
        <4> QED  BY <4>3, <4>4
      <3> QED  BY <3>1, <3>2
    <2>4. LookupInv(q)  BY <2>2, <2>3 DEF LookupInv, LinkHolds
    <2> QED  BY <1>1, <1>2, <2>2, <2>4, SameToken, SameVerdict, LookupStepKeeps
  <1> QED  BY <1>3, <1>4

\* The exchange that a lookup is at, as the invariant knows it.
LEMMA AtExchange ==
  ASSUME IInv, NEW r \in Requests
  PROVE  /\ req[r] \in Lookup /\ LookupInv(req[r]) /\ since \in Nat
         /\ Waited(req[r]) \in {0, 1}
  BY WaitedIsATick DEF IInv, TypeInv

LEMMA LoginReplyHolds ==
  ASSUME IInv, cred # None, NEW t \in Nat
  PROVE  LoginReply \in LoginReplies /\ LoginHolds(LoginReply, t)
  <1>1. immich.version \in {2, 3} /\ immich.link \in {"live", "over"}
    BY DEF IInv, TypeInv
  <1> QED  BY <1>1 DEF LoginReply, LoginReplies, LoginHolds, Proven, Truth

\* What Immich says of the link is true when it says it.
LEMMA MeReplyHolds ==
  ASSUME IInv, NEW q \in Lookup, q.at = "me", AskedWithReason(q),
         NEW reply \in MeReplies(q.sent, q.token)
  PROVE  /\ reply \in {"link", "expired", "gone", "refused", "not protected"}
         /\ reply = "link" => Truth = "ok"
         /\ reply \in {"gone", "expired"} => Truth = "gone"
         /\ reply \in {"link", "expired"} /\ q.sent # cred =>
              immich.password = None \/ since <= Waited(q)
         /\ reply = "not protected" => immich.password = None
         /\ reply = "refused" => q.lost \/ Truth # "ok" \/ since <= TokenTTL + Waited(q)
  <1>1. /\ immich.version \in {2, 3} /\ immich.link \in {"live", "over"}
        /\ q.sent \in {None, cred} /\ q.token \in {"none", "token"} /\ since \in Nat
        /\ Waited(q) \in {0, 1}
    BY WaitedIsATick DEF Lookup, IInv, TypeInv
  <1>2. q.sent # cred => q.token = "none" /\ q.sent = None
    BY <1>1 DEF AskedWithReason
  <1>3. q.token = "token" => Proven  BY DEF AskedWithReason
  <1>4. CASE immich.password = None
    BY <1>1, <1>4 DEF MeReplies, Truth
  <1>5. CASE immich.password # None /\ reply \in {"link", "gone", "expired"}
               /\ ~(reply = "gone" /\ immich.link # "live")
    <2>1. \/ immich.version = 2 /\ q.sent = immich.password
          \/ immich.version = 3 /\ q.token = "token"
      BY <1>1, <1>5 DEF MeReplies
    <2>2. immich.password = cred /\ q.sent = cred
      BY <1>1, <1>2, <1>3, <1>5, <2>1 DEF Proven
    <2> QED  BY <1>1, <1>5, <2>1, <2>2 DEF MeReplies, Truth
  <1>6. CASE reply = "gone" /\ immich.link # "live"  BY <1>6 DEF Truth
  <1>7. CASE immich.password # None /\ reply \notin {"link", "gone", "expired"}
    <2>1. /\ reply = "refused"
          /\ ~(immich.version = 2 /\ q.sent = immich.password)
          /\ ~(immich.version = 3 /\ q.token = "token")
      BY <1>1, <1>7 DEF MeReplies
    <2>2. CASE q.sent # cred
      <3>1. since <= 1 + Waited(q)  BY <1>7, <2>2 DEF AskedWithReason
      <3> QED  BY <1>1, <2>1, <3>1, Times
    <2>3. CASE q.sent = cred /\ immich.version = 2
      BY <1>7, <2>1, <2>3 DEF Truth
    <2>4. CASE q.sent = cred /\ immich.version = 3
      BY <1>1, <1>7, <2>1, <2>4 DEF AskedWithReason
    <2> QED  BY <1>1, <2>2, <2>3, <2>4
  <1> QED  BY <1>4, <1>5, <1>6, <1>7

LEMMA ImmichAnswersKeeps ==
  ASSUME IInv, NEW r \in Requests, ImmichAnswers(r)
  PROVE  IInv'
  <1> DEFINE replies == IF req[r].at = "me" THEN MeReplies(req[r].sent, req[r].token)
                        ELSE {LoginReply}
  <1>1. PICK reply \in replies : req' = [req EXCEPT ![r].reply = reply]
    BY DEF ImmichAnswers
  <1> DEFINE p == req[r]
             q == [p EXCEPT !.reply = reply]
  <1>2. /\ req' = [req EXCEPT ![r] = q] /\ p.at # "idle"
        /\ UNCHANGED world /\ UNCHANGED failures /\ UNCHANGED token /\ UNCHANGED verdict
    BY <1>1 DEF ImmichAnswers, cacheVars
  <1>3. failures' \in 0 .. MaxFailures  BY <1>2 DEF IInv, TypeInv
  <1>4. p \in Lookup /\ LookupInv(p) /\ since \in Nat /\ Waited(p) \in {0, 1}
    BY AtExchange
  <1>5. /\ q.at = p.at /\ q.sent = p.sent /\ q.token = p.token /\ q.reply = reply
        /\ q.waited = p.waited /\ q.found = p.found /\ q.lost = p.lost
        /\ Waited(q) = Waited(p)
    BY <1>4 DEF Lookup, Waited
  <1>6. q \in Lookup /\ LookupInv(q)
    <2>1. CASE p.at = "me"
      <3>1. reply \in MeReplies(p.sent, p.token) /\ AskedWithReason(p)
        BY <1>4, <2>1 DEF LookupInv
      <3>2. /\ reply \in {"link", "expired", "gone", "refused", "not protected"}
            /\ reply = "link" => Truth = "ok"
            /\ reply \in {"gone", "expired"} => Truth = "gone"
            /\ reply \in {"link", "expired"} /\ p.sent # cred =>
                 immich.password = None \/ since <= Waited(p)
            /\ reply = "not protected" => immich.password = None
            /\ reply = "refused" => p.lost \/ Truth # "ok" \/ since <= TokenTTL + Waited(p)
        BY <1>4, <2>1, <3>1, MeReplyHolds
      <3>3. q \in Lookup  BY <1>4, <3>2 DEF Lookup, LinkReplies
      <3> HIDE DEF p, q
      <3>4. AskedWithReason(q)  BY <1>5, <3>1 DEF AskedWithReason
      <3>5. LinkHolds(q)  BY <1>5, <3>2 DEF LinkHolds
      <3>6. reply \in LinkReplies  BY <3>2 DEF LinkReplies
      <3> QED  BY <1>5, <2>1, <3>3, <3>4, <3>5, <3>6 DEF LookupInv
    <2>2. CASE p.at # "me"
      <3>1. p.at \in {"login", "known"} /\ cred # None
        BY <1>2, <1>4, <2>2 DEF Lookup, LookupInv
      <3>2. reply \in LoginReplies /\ LoginHolds(reply, Waited(p))
        BY <1>4, <2>2, <3>1, LoginReplyHolds
      <3>3. q \in Lookup  BY <1>4, <3>2 DEF Lookup
      <3> HIDE DEF p, q
      <3> QED  BY <1>4, <1>5, <2>2, <3>1, <3>2, <3>3 DEF LookupInv
    <2> QED  BY <2>1, <2>2
  <1> HIDE DEF q
  <1> QED  BY <1>2, <1>3, <1>6, SameToken, SameVerdict, LookupStepKeeps

LEMMA ExchangeFailsKeeps ==
  ASSUME IInv, NEW r \in Requests, ExchangeFails(r)
  PROVE  IInv'
  <1> DEFINE p == req[r]
             q == [p EXCEPT !.reply = "failed"]
  <1>1. /\ req' = [req EXCEPT ![r] = q] /\ p.at # "idle"
        /\ UNCHANGED world /\ UNCHANGED token /\ UNCHANGED verdict
        /\ failures < MaxFailures /\ failures' = failures + 1
    BY DEF ExchangeFails, cacheVars
  <1>2. failures' \in 0 .. MaxFailures  BY <1>1, AuthzAssumption DEF IInv, TypeInv
  <1>3. p \in Lookup /\ LookupInv(p)  BY AtExchange
  <1>4. /\ q.at = p.at /\ q.sent = p.sent /\ q.token = p.token /\ q.reply = "failed"
        /\ q.waited = p.waited /\ q.found = p.found /\ q.lost = p.lost
        /\ Waited(q) = Waited(p) /\ q \in Lookup
    BY <1>3 DEF Lookup, Waited, LinkReplies
  <1> HIDE DEF p, q
  <1>5. LookupInv(q)
    <2>1. AskedWithReason(p) => AskedWithReason(q)  BY <1>4 DEF AskedWithReason
    <2> QED
      BY <1>3, <1>4, <2>1 DEF LookupInv, LinkHolds, LoginHolds, LoginReplies, LinkReplies
  <1> QED  BY <1>1, <1>2, <1>4, <1>5, SameToken, SameVerdict, LookupStepKeeps

LEMMA LoginDoneKeeps ==
  ASSUME IInv, NEW r \in Requests, LoginDone(r)
  PROVE  IInv'
  <1> DEFINE p == req[r]
             q == [p EXCEPT !.at = "me", !.token = TokenOf(p.reply),
                            !.lost = p.reply = "failed", !.reply = "none", !.waited = FALSE]
  <1>1. /\ req' = [req EXCEPT ![r] = q] /\ p.at = "login" /\ p.reply # "none"
        /\ UNCHANGED world /\ UNCHANGED failures /\ UNCHANGED verdict
        /\ token' = TokenWith(p.reply)
    BY DEF LoginDone, Goto
  <1>2. failures' \in 0 .. MaxFailures  BY <1>1 DEF IInv, TypeInv
  <1>3. p \in Lookup /\ LookupInv(p) /\ since \in Nat /\ Waited(p) \in {0, 1}
    BY AtExchange
  <1>4. cred # None /\ p.reply \in LoginReplies /\ LoginHolds(p.reply, Waited(p))
    BY <1>1, <1>3 DEF LookupInv
  <1>5. (p.reply = "failed") \in BOOLEAN /\ TokenOf(p.reply) \in {"none", "token"}
    BY DEF TokenOf
  <1>6. /\ q \in Lookup /\ q.at = "me" /\ q.reply = "none" /\ q.sent = p.sent
        /\ q.token = TokenOf(p.reply) /\ (p.reply = "failed" => q.lost) /\ Waited(q) = 0
    BY <1>3, <1>5 DEF Lookup, Waited
  <1>7. AskedWithReason(q)
    <2>1. p.sent = cred  BY <1>1, <1>3 DEF LookupInv
    <2> HIDE DEF p, q
    <2>2. CASE p.reply = "token"
      BY <1>4, <1>6, <2>1, <2>2 DEF AskedWithReason, TokenOf, LoginHolds
    <2>3. CASE p.reply # "token"
      <3>1. q.lost \/ since <= 1 \/ immich.version = 2 \/ immich.password = None \/ Truth # "ok"
        BY <1>3, <1>4, <1>6, <2>3 DEF LoginHolds, LoginReplies
      <3>2. q.lost \/ since <= TokenTTL \/ immich.version = 2 \/ immich.password = None
              \/ Truth # "ok"
        BY <1>3, <3>1, Times
      <3> QED  BY <1>6, <2>1, <2>3, <3>2, Times DEF AskedWithReason, TokenOf
    <2> QED  BY <2>2, <2>3
  <1>8. LookupInv(q)
    <2> HIDE DEF p, q
    <2> QED  BY <1>6, <1>7 DEF LookupInv, LinkHolds
  <1> HIDE DEF q
  <1> QED  BY <1>1, <1>2, <1>3, <1>4, <1>6, <1>8, StoredLogin, SameVerdict, LookupStepKeeps

LEMMA AskWithoutKeeps ==
  ASSUME IInv, NEW r \in Requests, AskWithout(r)
  PROVE  IInv'
  <1> DEFINE p == req[r]
             q == [p EXCEPT !.sent = None, !.token = "none", !.reply = "none", !.waited = FALSE]
  <1>1. /\ req' = [req EXCEPT ![r] = q] /\ p.at = "me" /\ p.reply = "not protected"
        /\ UNCHANGED world /\ UNCHANGED failures /\ UNCHANGED token /\ UNCHANGED verdict
    BY DEF AskWithout, Goto, cacheVars
  <1>2. failures' \in 0 .. MaxFailures  BY <1>1 DEF IInv, TypeInv
  <1>3. p \in Lookup /\ LookupInv(p) /\ since \in Nat /\ Waited(p) \in {0, 1}
    BY AtExchange
  <1>4. /\ q \in Lookup /\ q.at = "me" /\ q.reply = "none" /\ q.token = "none"
        /\ Waited(q) = 0
    BY <1>1, <1>3 DEF Lookup, Waited
  <1>5. immich.password = None \/ since <= Waited(p)
    BY <1>1, <1>3 DEF LookupInv, LinkHolds
  <1> HIDE DEF p, q
  <1>6. AskedWithReason(q)
    <2>1. immich.password = None \/ since <= 1  BY <1>3, <1>5
    <2>2. immich.password = None \/ since <= TokenTTL  BY <1>3, <2>1, Times
    <2> QED  BY <1>4, <2>1, <2>2, Times DEF AskedWithReason
  <1>7. LookupInv(q)  BY <1>4, <1>6 DEF LookupInv, LinkHolds
  <1> QED  BY <1>1, <1>2, <1>4, <1>7, SameToken, SameVerdict, LookupStepKeeps

LEMMA AskLoginAgainKeeps ==
  ASSUME IInv, NEW r \in Requests, AskLoginAgain(r)
  PROVE  IInv'
  <1> DEFINE p == req[r]
             found == IF p.reply = "link" THEN "ok" ELSE "gone"
             q == [p EXCEPT !.at = "known", !.token = "none", !.lost = FALSE,
                            !.found = found, !.reply = "none", !.waited = FALSE]
  <1>1. /\ req' = [req EXCEPT ![r] = q] /\ p.at = "me" /\ p.reply \in {"link", "expired"}
        /\ Decision(p) = Undecided
        /\ UNCHANGED world /\ UNCHANGED failures /\ UNCHANGED token /\ UNCHANGED verdict
    BY DEF AskLoginAgain, Goto, cacheVars
  <1>2. failures' \in 0 .. MaxFailures  BY <1>1 DEF IInv, TypeInv
  <1>3. p \in Lookup /\ LookupInv(p) /\ since \in Nat /\ Waited(p) \in {0, 1}
    BY AtExchange
  <1>4. cred # None
    <2>1. p.sent # None
      <3>1. ASSUME p.sent = None PROVE FALSE
        <4>1. Decision(p) = Found(p, "ok") \/ Decision(p) = Found(p, "gone")
          BY <1>1 DEF Decision
        <4>2. Decision(p).outcome \in {"ok", "gone"}
          BY <3>1, <4>1 DEF Found, Decided
        <4> QED  BY <1>1, <4>2 DEF Undecided
      <3> QED  BY <3>1
    <2> QED  BY <1>3, <2>1 DEF Lookup
  <1>5. /\ q \in Lookup /\ q.at = "known" /\ q.reply = "none" /\ q.found = found
        /\ Waited(q) = 0
    BY <1>1, <1>3 DEF Lookup, Waited
  <1>6. /\ p.reply = "link" => Truth = "ok" \/ since <= Waited(p)
        /\ p.reply = "expired" => Truth = "gone" \/ since <= Waited(p)
    BY <1>1, <1>3 DEF LookupInv, LinkHolds
  <1>7. /\ found = "ok" => Truth = "ok" \/ since <= 1
        /\ found = "gone" => Truth = "gone" \/ since <= 1
    BY <1>1, <1>3, <1>6
  <1>8. found # "none"  OBVIOUS
  <1> HIDE DEF p, q, found
  <1>9. LookupInv(q)  BY <1>4, <1>5, <1>7, <1>8 DEF LookupInv, LoginHolds
  <1> QED  BY <1>1, <1>2, <1>5, <1>9, SameToken, SameVerdict, LookupStepKeeps

-----------------------------------------------------------------------------
(* What a lookup comes to.                                                 *)

\* An outcome is two exchanges old at most, or was refused over what was kept of a
\* login.
OutcomeHolds(d, q) ==
  /\ d.outcome \in {"ok", "gone", "password", "unavailable"}
  /\ d.outcome = "ok" => Truth = "ok" \/ since <= 2
  /\ d.outcome = "gone" => Truth = "gone" \/ since <= 2
  /\ d.outcome = "password" => q.lost \/ Truth # "ok" \/ since <= TokenTTL + 1
  /\ d.dropped => immich.password = None \/ since <= NegativeTTL

LEMMA DecidedFields ==
  ASSUME NEW outcome, NEW dropped \in BOOLEAN
  PROVE  /\ Decided(outcome, dropped).outcome = outcome
         /\ Decided(outcome, dropped).dropped = dropped
  BY DEF Decided

LEMMA DecisionHolds ==
  ASSUME IInv, NEW r \in Requests, Decision(req[r]) # Undecided
  PROVE  OutcomeHolds(Decision(req[r]), req[r])
  <1> DEFINE q == req[r]
             d == Decision(q)
  <1>1. q \in Lookup /\ LookupInv(q) /\ since \in Nat /\ Waited(q) \in {0, 1}
    BY AtExchange
  <1>2. d # Undecided  OBVIOUS
  <1>3. since <= Waited(q) => since <= 2 /\ since <= NegativeTTL
    <2>1. 1 <= NegativeTTL /\ NegativeTTL \in Nat  BY Times
    <2> HIDE DEF q
    <2> QED  BY <1>1, <2>1
  <1> SUFFICES OutcomeHolds(d, q)  OBVIOUS
  <1> HIDE DEF q
  <1>4. CASE q.at = "known" /\ q.reply # "none"
    <2>1. d = Decided(q.found, q.reply = "public")  BY <1>4 DEF Decision
    <2>2. q.found \in {"ok", "gone"}  BY <1>1, <1>4 DEF LookupInv, Lookup
    <2>3. /\ q.found = "ok" => Truth = "ok" \/ since <= 2
          /\ q.found = "gone" => Truth = "gone" \/ since <= 2
      BY <1>1, <1>4 DEF LookupInv
    <2>4. q.reply = "public" => immich.password = None \/ since <= NegativeTTL
      BY <1>1, <1>3, <1>4 DEF LookupInv, LoginHolds
    <2>5. d.outcome = q.found /\ (d.dropped => q.reply = "public")  BY <2>1, DecidedFields
    <2> HIDE DEF d
    <2> QED  BY <2>2, <2>3, <2>4, <2>5 DEF OutcomeHolds
  <1>5. CASE q.at = "me" /\ q.reply \in {"link", "expired"}
    <2> DEFINE outcome == IF q.reply = "link" THEN "ok" ELSE "gone"
    <2>1. d = Found(q, outcome)  BY <1>5 DEF Decision
    <2>2. LinkHolds(q)  BY <1>1, <1>5 DEF LookupInv
    <2>3. /\ outcome \in {"ok", "gone"}
          /\ outcome = "ok" => Truth = "ok" \/ since <= 2
          /\ outcome = "gone" => Truth = "gone" \/ since <= 2
      BY <1>3, <1>5, <2>2 DEF LinkHolds
    <2> HIDE DEF outcome
    <2>4. CASE q.sent = None
      <3>1. d = Decided(outcome, cred # None)  BY <2>1, <2>4 DEF Found
      <3>2. cred # None => immich.password = None \/ since <= NegativeTTL
        BY <1>3, <1>5, <2>2, <2>4 DEF LinkHolds
      <3>3. d.outcome = outcome /\ (d.dropped => cred # None)  BY <3>1, DecidedFields
      <3> HIDE DEF d
      <3> QED  BY <2>3, <3>2, <3>3 DEF OutcomeHolds
    <2>5. CASE q.sent # None /\ ValidToken(token)
      <3>1. d = Decided(outcome, token.kind = "public")  BY <2>1, <2>5 DEF Found
      <3>2. token.kind = "public" => immich.password = None \/ since <= NegativeTTL
        <4>1. ASSUME token.kind = "public" PROVE immich.password = None \/ since <= NegativeTTL
          <5>1. token.age < NegativeTTL /\ token.age \in Nat
            BY <2>5, <4>1, Times DEF ValidToken, IInv, TypeInv
          <5>2. immich.password = None \/ since <= token.age + 1
            BY <2>5, <4>1 DEF IInv, TokenInv, LoginHolds
          <5> QED  BY <1>1, <5>1, <5>2, Times
        <4> QED  BY <4>1
      <3>3. d.outcome = outcome /\ (d.dropped => token.kind = "public")  BY <3>1, DecidedFields
      <3> HIDE DEF d
      <3> QED  BY <2>3, <3>2, <3>3 DEF OutcomeHolds
    <2>6. CASE q.sent # None /\ ~ValidToken(token)
      BY <1>2, <2>1, <2>6 DEF Found
    <2> QED  BY <2>4, <2>5, <2>6
  <1>6. CASE q.at = "me" /\ q.reply = "gone"
    <2>1. d = Decided("gone", FALSE)  BY <1>6 DEF Decision
    <2>2. Truth = "gone" \/ since <= 2  BY <1>1, <1>3, <1>6 DEF LookupInv, LinkHolds
    <2> QED  BY <2>1, <2>2 DEF Decided, OutcomeHolds
  <1>7. CASE q.at = "me" /\ q.reply = "refused"
    <2>1. d = Decided("password", FALSE)  BY <1>7 DEF Decision
    <2>2. q.lost \/ Truth # "ok" \/ since <= TokenTTL + Waited(q)
      BY <1>1, <1>7 DEF LookupInv, LinkHolds
    <2>3. q.lost \/ Truth # "ok" \/ since <= TokenTTL + 1  BY <1>1, <2>2, Times
    <2> QED  BY <2>1, <2>3 DEF Decided, OutcomeHolds
  <1>8. CASE q.at = "me" /\ q.reply = "failed"
    <2>1. d = Decided("unavailable", FALSE)  BY <1>8 DEF Decision
    <2> QED  BY <2>1 DEF Decided, OutcomeHolds
  <1>9. CASE /\ ~(q.at = "known" /\ q.reply # "none")
             /\ ~(q.at = "me" /\ q.reply \in {"link", "expired", "gone", "refused", "failed"})
    BY <1>2, <1>9 DEF Decision
  <1> QED  BY <1>4, <1>5, <1>6, <1>7, <1>8, <1>9

\* A verdict is as old as it is kept, and what it is made of.
LEMMA FinishKeeps ==
  ASSUME IInv, NEW r \in Requests, Finish(r)
  PROVE  IInv'
  <1> DEFINE q == req[r]
             d == Decision(q)
  <1>1. /\ req' = [req EXCEPT ![r] = Idle] /\ q.reply # "none" /\ d # Undecided
        /\ UNCHANGED world /\ UNCHANGED failures
        /\ verdict' = VerdictWith(q, d.outcome)
        /\ token' = IF q.at = "known" THEN TokenWith(q.reply) ELSE token
    BY DEF Finish
  <1>2. failures' \in 0 .. MaxFailures  BY <1>1 DEF IInv, TypeInv
  <1>3. q \in Lookup /\ LookupInv(q) /\ since \in Nat  BY AtExchange
  <1>4. OutcomeHolds(d, q)  BY <1>1, DecisionHolds
  <1>5. Idle \in Lookup /\ LookupInv(Idle)
    BY DEF Idle, Lookup, LookupInv
  <1> HIDE DEF q, d
  <1>6. /\ token' \in [kind : {"none", "token", "void", "unsupported", "public"}, age : Nat]
        /\ token'.age <= TTL(token'.kind) /\ (cred = None => token'.kind = "none")
        /\ ValidToken(token') => LoginHolds(token'.kind, token'.age + 1)
    <2>1. CASE q.at = "known"
      <3>1. cred # None /\ LoginHolds(q.reply, Waited(q))  BY <1>3, <2>1 DEF LookupInv
      <3>2. token' = TokenWith(q.reply)  BY <1>1, <2>1
      <3> QED  BY <1>3, <3>1, <3>2, StoredLogin
    <2>2. CASE q.at # "known"
      <3>1. token' = token  BY <1>1, <2>2
      <3> QED  BY <3>1, SameToken
    <2> QED  BY <2>1, <2>2
  <1>7. /\ verdict' \in [outcome : {"none", "ok", "password", "gone"},
                         age : 0 .. VerdictTTL + 1, lost : BOOLEAN]
        /\ VerdictInv'
    <2>1. CASE q.page \/ d.outcome = "unavailable"
      <3>1. verdict' = verdict  BY <1>1, <2>1 DEF VerdictWith
      <3> QED  BY <1>1, <3>1, SameVerdict
    <2>2. CASE ~(q.page \/ d.outcome = "unavailable")
      <3> DEFINE lost == q.lost /\ d.outcome = "password"
      <3>1. verdict' = [outcome |-> d.outcome, age |-> 0, lost |-> lost]
        BY <1>1, <2>2 DEF VerdictWith
      <3>2. lost \in BOOLEAN /\ (lost <=> q.lost /\ d.outcome = "password")
        BY <1>3 DEF Lookup
      <3>3. d.outcome \in {"ok", "password", "gone"}  BY <1>4, <2>2 DEF OutcomeHolds
      <3> HIDE DEF lost
      <3>4. 0 \in 0 .. VerdictTTL + 1  BY Times
      <3>5. verdict' \in [outcome : {"none", "ok", "password", "gone"},
                          age : 0 .. VerdictTTL + 1, lost : BOOLEAN]
        BY <3>1, <3>2, <3>3, <3>4
      <3>6. verdict'.outcome = d.outcome /\ verdict'.age = 0 /\ (verdict'.lost <=> lost)
        BY <3>1
      <3>7. Truth' = Truth /\ since' = since  BY <1>1, SameWorld DEF world
      <3>8. 0 + 2 = 2 /\ 0 + TokenTTL + 1 = TokenTTL + 1  BY Times
      <3>9. /\ d.outcome = "ok" => Truth = "ok" \/ since <= 2
            /\ d.outcome = "gone" => Truth = "gone" \/ since <= 2
            /\ d.outcome = "password" => lost \/ Truth # "ok" \/ since <= TokenTTL + 1
        BY <1>4, <3>2 DEF OutcomeHolds
      <3>10. VerdictInv'
        BY <3>6, <3>7, <3>8, <3>9 DEF VerdictInv
      <3> QED  BY <3>5, <3>10
    <2> QED  BY <2>1, <2>2
  <1> QED  BY <1>1, <1>2, <1>5, <1>6, <1>7, LookupStepKeeps

-----------------------------------------------------------------------------
(* Immich changes, and time passes.                                        *)

\* What is given up with the tokens, and what is not.
LEMMA ChangeOfLookups ==
  ASSUME IInv, ImmichChanges, NEW s \in Requests
  PROVE  LET p == req[s]
             q == req'[s] IN
         /\ q \in Lookup /\ q.at = p.at /\ q.sent = p.sent /\ q.waited = p.waited
         /\ q.found = p.found /\ q.lost = p.lost
         /\ q.token \in {"none", p.token} /\ q.reply \in {p.reply, Void(p.reply)}
         /\ q.token = "token" \/ q.reply = "token" => (Proven => Proven')
  <1> DEFINE p == req[s]
  <1>1. p \in Lookup /\ req \in [Requests -> Lookup]  BY DEF IInv, TypeInv
  <1>2. cred' = cred  BY DEF ImmichChanges
  <1>3. Edit \/ Upgrade  BY DEF ImmichChanges
  <1>4. CASE VoidTokens
    <2>1. req'[s] = [p EXCEPT !.token = "none", !.reply = Void(@)]
      BY <1>4 DEF VoidTokens
    <2>2. Void(p.reply) \in {"none"} \union LoginReplies \union LinkReplies
             /\ Void(p.reply) # "token"
      BY <1>1 DEF Lookup, Void, LoginReplies
    <2>3. /\ req'[s] \in Lookup /\ req'[s].at = p.at /\ req'[s].sent = p.sent
          /\ req'[s].waited = p.waited /\ req'[s].found = p.found /\ req'[s].lost = p.lost
          /\ req'[s].token = "none" /\ req'[s].reply = Void(p.reply)
      BY <1>1, <2>1, <2>2 DEF Lookup
    <2> QED  BY <2>2, <2>3
  <1>5. CASE UNCHANGED <<token, req>>
               /\ (Upgrade \/ \E l \in {"live", "over"} : immich' = [immich EXCEPT !.link = l])
    <2>1. immich \in [version : {2, 3}, password : Passwords \union {None},
                      link : {"live", "over"}]
      BY DEF IInv, TypeInv
    <2>2. Proven => Proven'
      <3>1. CASE Upgrade  BY <3>1 DEF Upgrade, Proven
      <3>2. CASE \E l \in {"live", "over"} : immich' = [immich EXCEPT !.link = l]
        BY <1>2, <2>1, <3>2 DEF Proven
      <3> QED  BY <1>5, <3>1, <3>2
    <2> QED  BY <1>1, <1>5, <2>2
  <1> QED  BY <1>3, <1>4, <1>5 DEF Edit, Upgrade

LEMMA ImmichChangesKeeps == ASSUME IInv, ImmichChanges PROVE IInv'
  <1>1. since' = 0 /\ UNCHANGED <<cred, verdict, failures>>  BY DEF ImmichChanges
  <1>2. Edit \/ Upgrade  BY DEF ImmichChanges
  <1>3. immich \in [version : {2, 3}, password : Passwords \union {None},
                    link : {"live", "over"}]
    BY DEF IInv, TypeInv
  <1>4. immich' \in [version : {2, 3}, password : Passwords \union {None},
                     link : {"live", "over"}]
    BY <1>2, <1>3 DEF Edit, Upgrade
  <1>5. changes' \in 0 .. MaxChanges
    <2>1. changes' = changes \/ (changes < MaxChanges /\ changes' = changes + 1)
      BY DEF ImmichChanges
    <2> QED  BY <2>1, AuthzAssumption DEF IInv, TypeInv
  <1>6. /\ token' \in [kind : {"none", "token", "void", "unsupported", "public"}, age : Nat]
        /\ token'.age <= TTL(token'.kind) /\ (cred = None => token'.kind = "none")
        /\ token'.kind = "token" /\ ValidToken(token') => Proven'
    <2>1. /\ token \in [kind : {"none", "token", "void", "unsupported", "public"}, age : Nat]
          /\ token.age <= TTL(token.kind) /\ (cred = None => token.kind = "none")
      BY DEF IInv, TypeInv
    <2>2. CASE VoidTokens
      <3>1. token' = [token EXCEPT !.kind = Void(@)]  BY <2>2 DEF VoidTokens
      <3>2. Void(token.kind) \in {"none", "void", "unsupported", "public"}
               /\ (token.kind = "none" => Void(token.kind) = "none")
        BY <2>1 DEF Void
      <3>3. token'.kind = Void(token.kind) /\ token'.age = token.age
        BY <2>1, <3>1
      <3>4. TTL(token'.kind) = TTL(token.kind)  BY <3>3, Times
      <3>5. token' \in [kind : {"none", "token", "void", "unsupported", "public"}, age : Nat]
        BY <2>1, <3>1, <3>2
      <3> QED  BY <2>1, <3>2, <3>3, <3>4, <3>5
    <2>3. CASE UNCHANGED <<token, req>>
                 /\ (Upgrade \/ \E l \in {"live", "over"} : immich' = [immich EXCEPT !.link = l])
      <3>1. token' = token  BY <2>3
      <3>2. Proven => Proven'
        <4>1. CASE Upgrade  BY <4>1 DEF Upgrade, Proven
        <4>2. CASE \E l \in {"live", "over"} : immich' = [immich EXCEPT !.link = l]
          BY <1>1, <1>3, <4>2 DEF Proven
        <4> QED  BY <2>3, <4>1, <4>2
      <3>3. token.kind = "token" /\ ValidToken(token) => Proven
        BY DEF IInv, TokenInv, LoginHolds
      <3> QED  BY <2>1, <3>1, <3>2, <3>3
    <2> QED  BY <1>2, <2>2, <2>3 DEF Edit, Upgrade
  <1>7. Lookup' = Lookup  BY <1>1 DEF Lookup
  <1>8. req' \in [Requests -> Lookup]
    <2>1. \A s \in Requests : req'[s] \in Lookup  BY ChangeOfLookups
    <2>2. req \in [Requests -> Lookup]  BY DEF IInv, TypeInv
    <2>3. req' = req \/ req' = [r \in Requests |-> [req[r] EXCEPT !.token = "none",
                                                                  !.reply = Void(@)]]
      BY <1>2 DEF Edit, Upgrade, VoidTokens
    <2> QED  BY <2>1, <2>2, <2>3
  <1>9. TypeInv'
    <2>1. since' \in 0 .. Horizon  BY <1>1, Times
    <2> QED  BY <1>1, <1>4, <1>5, <1>6, <1>7, <1>8, <2>1 DEF IInv, TypeInv
  <1>10. TokenInv'
    <2>1. token'.age + 1 \in Nat /\ token'.kind # "rejected"  BY <1>6
    <2>2. 0 <= token'.age + 1  BY <2>1
    <2> QED  BY <1>1, <1>6, <2>1, <2>2 DEF TokenInv, LoginHolds
  <1>11. VerdictInv'
    <2>1. verdict.age \in Nat /\ TokenTTL \in Nat  BY Times DEF IInv, TypeInv
    <2>2. 0 <= verdict.age + 2 /\ 0 <= verdict.age + TokenTTL + 1  BY <2>1
    <2> QED  BY <1>1, <2>2 DEF VerdictInv
  <1>12. ASSUME NEW s \in Requests PROVE LookupInv(req[s])'
    <2> DEFINE p == req[s]
               q == req'[s]
    <2>1. /\ q \in Lookup /\ q.at = p.at /\ q.sent = p.sent /\ q.waited = p.waited
          /\ q.found = p.found /\ q.lost = p.lost
          /\ q.token \in {"none", p.token} /\ q.reply \in {p.reply, Void(p.reply)}
          /\ q.token = "token" \/ q.reply = "token" => (Proven => Proven')
      BY ChangeOfLookups
    <2>2. LookupInv(p) /\ p \in Lookup  BY AtExchange
    <2>3. Waited(q) \in Nat /\ 0 <= Waited(q) /\ 0 <= 1 + Waited(q)
             /\ 0 <= TokenTTL + Waited(q)
      BY WaitedIsATick, Times
    <2>4. CASE q.at \in {"login", "known"}
      <3>1. q.reply \in {"none"} \union LoginReplies
        BY <2>1, <2>2, <2>4 DEF LookupInv, LoginReplies, Void
      <3>2. q.reply = "token" => Proven'
        <4>1. q.reply = "token" => p.reply = "token"  BY <2>1 DEF Void
        <4>2. p.reply = "token" => Proven  BY <2>1, <2>2, <2>4 DEF LookupInv, LoginHolds
        <4> QED  BY <2>1, <4>1, <4>2
      <3>3. /\ cred # None /\ (q.at = "login" => q.sent = cred)
            /\ (q.at = "known" => q.found # "none")
        BY <2>1, <2>2, <2>4 DEF LookupInv
      <3> QED
        BY <1>1, <2>3, <2>4, <3>1, <3>2, <3>3 DEF LookupInv, LoginHolds, Waited
    <2>5. CASE q.at = "me"
      <3>1. q.reply \in {"none"} \union LinkReplies
        BY <2>1, <2>2, <2>5 DEF LookupInv, LinkReplies, Void
      <3>2. q.token = "token" => Proven'
        BY <2>1, <2>2, <2>5 DEF LookupInv, AskedWithReason
      <3>3. q.sent # cred => q.token = "none"
        BY <2>1, <2>2, <2>5 DEF LookupInv, AskedWithReason
      <3>4. AskedWithReason(req[s])'
        BY <1>1, <2>3, <3>2, <3>3 DEF AskedWithReason, Waited
      <3>5. LinkHolds(req[s])'
        BY <1>1, <2>3 DEF LinkHolds, Waited
      <3> QED  BY <2>5, <3>1, <3>4, <3>5 DEF LookupInv
    <2>6. CASE q.at \notin {"login", "known", "me"}
      BY <2>6 DEF LookupInv
    <2> QED  BY <2>4, <2>5, <2>6
  <1> QED  BY <1>9, <1>10, <1>11, <1>12 DEF IInv

LEMMA CappedCounts ==
  ASSUME NEW cap \in Nat, NEW n \in 0 .. cap
  PROVE  Capped(n, cap) \in 0 .. cap /\ Capped(n, cap) <= n + 1
         /\ (Capped(n, cap) < cap => Capped(n, cap) = n + 1)
  BY DEF Capped

\* Everything ages by the same tick; what is at its cap is not used any more.
LEMMA TickKeeps == ASSUME IInv, Tick PROVE IInv'
  <1>1. UNCHANGED <<cred, immich, changes, failures>> /\ since' = Capped(since, Horizon)
    BY DEF Tick
  <1>2. since \in Nat /\ since' \in 0 .. Horizon /\ since' \in Nat /\ since' <= since + 1
    BY <1>1, CappedCounts, Times DEF IInv, TypeInv
  <1>3. Truth' = Truth /\ (Proven' <=> Proven)  BY <1>1 DEF Truth, Proven
  <1>4. /\ token' \in [kind : {"none", "token", "void", "unsupported", "public"}, age : Nat]
        /\ token'.age <= TTL(token'.kind) /\ token'.kind = token.kind
        /\ ValidToken(token') => ValidToken(token) /\ token'.age = token.age + 1
    <2>1. token \in [kind : {"none", "token", "void", "unsupported", "public"}, age : Nat]
             /\ token.age <= TTL(token.kind) /\ TTL(token.kind) \in Nat
      BY Times DEF IInv, TypeInv
    <2>2. CASE token = NoToken
      <3>1. token' = token /\ token.kind = "none"  BY <2>2 DEF Tick, NoToken
      <3> QED  BY <2>1, <3>1 DEF ValidToken
    <2>3. CASE token # NoToken
      <3> DEFINE n == Capped(token.age, TTL(token.kind))
      <3>1. token' = [token EXCEPT !.age = n]  BY <2>3 DEF Tick
      <3>2. n \in 0 .. TTL(token.kind) /\ (n < TTL(token.kind) => n = token.age + 1)
        BY <2>1, CappedCounts
      <3>3. token'.kind = token.kind /\ token'.age = n  BY <2>1, <3>1
      <3> HIDE DEF n
      <3>4. token' \in [kind : {"none", "token", "void", "unsupported", "public"}, age : Nat]
        BY <2>1, <3>1, <3>2
      <3> QED  BY <2>1, <3>2, <3>3, <3>4 DEF ValidToken
    <2> QED  BY <2>2, <2>3
  <1>5. /\ verdict' \in [outcome : {"none", "ok", "password", "gone"},
                         age : 0 .. VerdictTTL + 1, lost : BOOLEAN]
        /\ verdict'.outcome = verdict.outcome /\ verdict'.lost = verdict.lost
        /\ ValidVerdict(verdict') => ValidVerdict(verdict) /\ verdict'.age = verdict.age + 1
    <2>1. verdict \in [outcome : {"none", "ok", "password", "gone"},
                       age : 0 .. VerdictTTL + 1, lost : BOOLEAN]
             /\ VerdictTTL + 1 \in Nat /\ VerdictTTL \in Nat
      BY Times DEF IInv, TypeInv
    <2>2. CASE verdict = NoVerdict
      <3>1. verdict' = verdict /\ verdict.outcome = "none"  BY <2>2 DEF Tick, NoVerdict
      <3> QED  BY <2>1, <3>1 DEF ValidVerdict
    <2>3. CASE verdict # NoVerdict
      <3> DEFINE n == Capped(verdict.age, VerdictTTL + 1)
      <3>1. verdict' = [verdict EXCEPT !.age = n]  BY <2>3 DEF Tick
      <3>2. n \in 0 .. VerdictTTL + 1 /\ (n < VerdictTTL + 1 => n = verdict.age + 1)
        BY <2>1, CappedCounts
      <3>3. verdict'.outcome = verdict.outcome /\ verdict'.age = n
               /\ verdict'.lost = verdict.lost
        BY <2>1, <3>1
      <3> HIDE DEF n
      <3>4. verdict' \in [outcome : {"none", "ok", "password", "gone"},
                          age : 0 .. VerdictTTL + 1, lost : BOOLEAN]
        BY <2>1, <3>1, <3>2
      <3> QED  BY <2>1, <3>2, <3>3, <3>4 DEF ValidVerdict
    <2> QED  BY <2>2, <2>3
  <1>6. Lookup' = Lookup  BY <1>1 DEF Lookup
  <1>7. req \in [Requests -> Lookup]  BY DEF IInv, TypeInv
  <1>8. ASSUME NEW s \in Requests
        PROVE  LET p == req[s]
                   q == req'[s] IN
               /\ q \in Lookup /\ q.at = p.at /\ q.sent = p.sent /\ q.token = p.token
               /\ q.reply = p.reply /\ q.found = p.found /\ (q.lost <=> p.lost)
               /\ q.at # "idle" => Waited(p) = 0 /\ Waited(q) = 1
    <2> DEFINE p == req[s]
               w == p.at # "idle"
    <2>1. ~p.waited /\ req'[s] = [p EXCEPT !.waited = w]  BY DEF Tick
    <2>2. p \in Lookup /\ w \in BOOLEAN  BY <1>7
    <2>3. req'[s] \in Lookup
      <3> HIDE DEF p, w
      <3> QED  BY <2>1, <2>2 DEF Lookup
    <2>4. p.at # "idle" => w = TRUE  OBVIOUS
    <2> HIDE DEF w
    <2>5. p.at # "idle" => req'[s].waited = TRUE  BY <2>1, <2>2, <2>4 DEF Lookup
    <2> QED  BY <2>1, <2>2, <2>3, <2>5 DEF Lookup, Waited
  <1>9. req' \in [Requests -> Lookup]
    <2>1. \A s \in Requests : req'[s] \in Lookup  BY <1>8
    <2>2. req' = [r \in Requests |-> [req[r] EXCEPT !.waited = req[r].at # "idle"]]
      BY DEF Tick
    <2> QED  BY <2>1, <2>2
  <1>10. TypeInv'  BY <1>1, <1>2, <1>4, <1>5, <1>6, <1>9 DEF IInv, TypeInv
  <1>11. TokenInv'
    <2>1. ASSUME ValidToken(token') PROVE LoginHolds(token.kind, token.age + 1)
      BY <1>4, <2>1 DEF IInv, TokenInv
    <2>2. token.age \in Nat /\ (since <= token.age + 1 => since' <= token.age + 1 + 1)
      BY <1>2 DEF IInv, TypeInv
    <2> QED  BY <1>1, <1>3, <1>4, <2>1, <2>2 DEF TokenInv, LoginHolds
  <1>12. VerdictInv'
    <2>1. verdict.age \in Nat /\ TokenTTL \in Nat  BY Times DEF IInv, TypeInv
    <2>2. /\ since <= verdict.age + 2 => since' <= verdict.age + 1 + 2
          /\ since <= verdict.age + TokenTTL + 1 => since' <= verdict.age + 1 + TokenTTL + 1
      BY <1>2, <2>1
    <2>3. ASSUME ValidVerdict(verdict')
          PROVE  /\ verdict.outcome = "ok" => Truth = "ok" \/ since <= verdict.age + 2
                 /\ verdict.outcome = "gone" => Truth = "gone" \/ since <= verdict.age + 2
                 /\ verdict.outcome = "password" =>
                      verdict.lost \/ Truth # "ok" \/ since <= verdict.age + TokenTTL + 1
      BY <1>5, <2>3 DEF IInv, VerdictInv
    <2> QED  BY <1>3, <1>5, <2>2, <2>3 DEF VerdictInv
  <1>13. ASSUME NEW s \in Requests PROVE LookupInv(req[s])'
    <2> DEFINE p == req[s]
               q == req'[s]
    <2>1. /\ q \in Lookup /\ q.at = p.at /\ q.sent = p.sent /\ q.token = p.token
          /\ q.reply = p.reply /\ q.found = p.found /\ (q.lost <=> p.lost)
          /\ q.at # "idle" => Waited(p) = 0 /\ Waited(q) = 1
      BY <1>8
    <2>2. LookupInv(p) /\ p \in Lookup  BY AtExchange
    <2>3. /\ since <= 0 => since' <= 1
          /\ since <= 1 + 0 => since' <= 1 + 1
          /\ since <= TokenTTL + 0 => since' <= TokenTTL + 1
      BY <1>2, Times
    <2>4. Waited(req[s])' = Waited(q)  BY DEF Waited
    <2>5. CASE q.at \in {"login", "known"}
      BY <1>1, <1>3, <2>1, <2>2, <2>3, <2>4, <2>5 DEF LookupInv, LoginHolds
    <2>6. CASE q.at = "me"
      <3>1. AskedWithReason(p) /\ LinkHolds(p) /\ p.reply \in {"none"} \union LinkReplies
        BY <2>1, <2>2, <2>6 DEF LookupInv
      <3>2. AskedWithReason(req[s])'
        BY <1>1, <1>3, <2>1, <2>3, <2>4, <2>6, <3>1 DEF AskedWithReason
      <3>3. LinkHolds(req[s])'
        BY <1>1, <1>3, <2>1, <2>3, <2>4, <2>6, <3>1 DEF LinkHolds
      <3> QED  BY <2>1, <2>6, <3>1, <3>2, <3>3 DEF LookupInv
    <2>7. CASE q.at \notin {"login", "known", "me"}
      BY <2>7 DEF LookupInv
    <2> QED  BY <2>5, <2>6, <2>7
  <1> QED  BY <1>10, <1>11, <1>12, <1>13 DEF IInv

-----------------------------------------------------------------------------
(* What holds of every behaviour.                                          *)

LEMMA InitIInv == Init => IInv
  <1> SUFFICES ASSUME Init PROVE IInv  OBVIOUS
  <1>1. Idle \in Lookup /\ LookupInv(Idle)  BY DEF Idle, Lookup, LookupInv
  <1>2. token = NoToken /\ verdict = NoVerdict /\ req = [r \in Requests |-> Idle]
    BY DEF Init
  <1>3. TypeInv
    <2>1. token \in [kind : {"none", "token", "void", "unsupported", "public"}, age : Nat]
             /\ token.kind = "none" /\ token.age = 0
      BY <1>2 DEF NoToken
    <2>2. token.age <= TTL(token.kind)  BY <2>1, Times
    <2>3. 0 \in 0 .. VerdictTTL + 1  BY Times
    <2>4. verdict \in [outcome : {"none", "ok", "password", "gone"},
                       age : 0 .. VerdictTTL + 1, lost : BOOLEAN]
      BY <1>2, <2>3 DEF NoVerdict
    <2>5. req \in [Requests -> Lookup]  BY <1>1, <1>2
    <2>6. cred \in Sent /\ immich \in [version : {2, 3}, password : Passwords \union {None},
                                       link : {"live", "over"}]
      BY DEF Init
    <2>7. since \in 0 .. Horizon /\ changes \in 0 .. MaxChanges /\ failures \in 0 .. MaxFailures
      BY AuthzAssumption DEF Init
    <2> QED  BY <2>1, <2>2, <2>4, <2>5, <2>6, <2>7 DEF TypeInv
  <1>4. TokenInv /\ VerdictInv
    BY <1>2 DEF TokenInv, VerdictInv, ValidToken, ValidVerdict, NoToken, NoVerdict
  <1> QED  BY <1>1, <1>2, <1>3, <1>4 DEF IInv

LEMMA NextIInv == IInv /\ [Next]_vars => IInv'
  <1> SUFFICES ASSUME IInv, [Next]_vars PROVE IInv'  OBVIOUS
  <1>1. CASE \E r \in Requests, page \in BOOLEAN : Ask(r, page)  BY <1>1, AskKeeps
  <1>2. CASE \E r \in Requests : ImmichAnswers(r) \/ ExchangeFails(r)
    BY <1>2, ImmichAnswersKeeps, ExchangeFailsKeeps
  <1>3. CASE \E r \in Requests : LoginDone(r) \/ AskWithout(r) \/ AskLoginAgain(r)
    BY <1>3, LoginDoneKeeps, AskWithoutKeeps, AskLoginAgainKeeps
  <1>4. CASE \E r \in Requests : Finish(r)  BY <1>4, FinishKeeps
  <1>5. CASE ImmichChanges \/ Tick  BY <1>5, ImmichChangesKeeps, TickKeeps
  <1>6. CASE UNCHANGED vars
    <2>1. UNCHANGED <<cred, immich, token, verdict, req, since, changes, failures>>
      BY <1>6 DEF vars
    <2>2. Truth' = Truth /\ (Proven' <=> Proven)  BY <2>1 DEF Truth, Proven
    <2>3. TypeInv'  BY <2>1 DEF IInv, TypeInv, Lookup
    <2>4. TokenInv' /\ VerdictInv'
      BY <2>1, <2>2 DEF IInv, TokenInv, VerdictInv, LoginHolds
    <2>5. ASSUME NEW r \in Requests PROVE LookupInv(req[r])'
      <3>1. LookupInv(req[r])  BY DEF IInv
      <3>2. Waited(req[r])' = Waited(req[r])  BY <2>1 DEF Waited
      <3>3. AskedWithReason(req[r]) => AskedWithReason(req[r])'
        BY <2>1, <2>2, <3>2 DEF AskedWithReason
      <3>4. LinkHolds(req[r]) => LinkHolds(req[r])'
        BY <2>1, <2>2, <3>2 DEF LinkHolds
      <3>5. LoginHolds(req[r].reply, Waited(req[r])) => LoginHolds(req[r].reply, Waited(req[r]))'
        BY <2>1, <2>2, <3>2 DEF LoginHolds
      <3> QED  BY <2>1, <2>2, <3>1, <3>2, <3>3, <3>4, <3>5 DEF LookupInv
    <2> QED  BY <2>3, <2>4, <2>5 DEF IInv
  <1> QED  BY <1>1, <1>2, <1>3, <1>4, <1>5, <1>6 DEF Next

LEMMA AlwaysIInv == Spec => []IInv
  BY InitIInv, NextIInv, PTL DEF Spec

\* authorizeShareRequest and the handlers that load the link, over shareTokenState and
\* shareAuthzCache: whatever requests overlap, whatever the caches keep and for however
\* long, however often the share is edited or Immich upgraded and whichever exchanges
\* fail, nobody is let in, refused or made to give up a cookie over something that
\* Immich stopped saying longer ago than the caches and two exchanges account for, and
\* no outage is kept.
THEOREM AnswersAreTrue == Spec => []AnswersFollowImmich
  <1>1. IInv => AnswersFollowImmich
    <2> SUFFICES ASSUME IInv PROVE AnswersFollowImmich  OBVIOUS
    <2>1. since \in Nat /\ TokenTTL \in Nat /\ VerdictTTL \in Nat /\ NegativeTTL \in Nat
      BY Times DEF IInv, TypeInv
    <2>2. TypeOK
      <3>1. /\ token \in [kind : {"none", "token", "void", "unsupported", "public"}, age : Nat]
            /\ token.age <= TTL(token.kind)
        BY DEF IInv, TypeInv
      <3>2. token.age \in 0 .. TTL(token.kind)  BY <3>1, Times
      <3>3. verdict.outcome \in {"none", "ok", "password", "gone"}
               /\ verdict.age \in 0 .. VerdictTTL + 1
        BY DEF IInv, TypeInv
      <3>4. \A r \in Requests : req[r].sent \in {None, cred}
        BY AtExchange DEF Lookup
      <3> QED  BY <3>1, <3>2, <3>3, <3>4 DEF IInv, TypeInv, TypeOK
    <2>3. ASSUME ValidVerdict(verdict) PROVE AnswerFollowsImmich(Kept)
      <3>1. /\ verdict.outcome \in {"ok", "gone", "password"} /\ verdict.age \in Nat
            /\ verdict.age <= VerdictTTL
        BY <2>3 DEF ValidVerdict, IInv, TypeInv
      <3>2. /\ since <= verdict.age + 2 => since <= VerdictTTL + 2
            /\ since <= verdict.age + TokenTTL + 1 => since <= VerdictTTL + 2 + TokenTTL - 1
        BY <2>1, <3>1
      <3>3. /\ Kept.outcome = verdict.outcome /\ Kept.dropped = FALSE
            /\ Kept.lost = verdict.lost /\ Kept.cached = TRUE
        BY DEF Kept
      <3>4. Lag(Kept) = VerdictTTL + 2  BY <3>3 DEF Lag
      <3>5. VerdictInv  BY DEF IInv
      <3>6. GrantFollowsImmich(Kept)
        BY <2>3, <3>2, <3>3, <3>4, <3>5 DEF GrantFollowsImmich, VerdictInv
      <3>7. RefusalFollowsImmich(Kept)
        BY <2>3, <3>2, <3>3, <3>4, <3>5 DEF RefusalFollowsImmich, VerdictInv
      <3>8. OutageIsNotKept(Kept)  BY <3>1, <3>3 DEF OutageIsNotKept
      <3>9. ClearedCookieIsStale(Kept)  BY <3>3 DEF ClearedCookieIsStale
      <3> QED  BY <3>6, <3>7, <3>8, <3>9 DEF AnswerFollowsImmich
    <2>4. ASSUME NEW r \in Requests, Decision(req[r]) # Undecided
          PROVE  AnswerFollowsImmich(LookedUp(req[r]))
      <3> DEFINE a == LookedUp(req[r])
                 d == Decision(req[r])
      <3>1. OutcomeHolds(d, req[r])  BY <2>4, DecisionHolds
      <3>2. /\ a.outcome = d.outcome /\ a.dropped = d.dropped /\ a.lost = req[r].lost
            /\ a.cached = FALSE
        BY DEF LookedUp
      <3>3. Lag(a) = 2  BY <3>2 DEF Lag
      <3>4. since <= TokenTTL + 1 => since <= 2 + TokenTTL - 1  BY <2>1
      <3> HIDE DEF a, d
      <3>5. GrantFollowsImmich(a)  BY <3>1, <3>2, <3>3 DEF OutcomeHolds, GrantFollowsImmich
      <3>6. RefusalFollowsImmich(a)
        BY <3>1, <3>2, <3>3, <3>4 DEF OutcomeHolds, RefusalFollowsImmich
      <3>7. OutageIsNotKept(a)  BY <3>2 DEF OutageIsNotKept
      <3>8. ClearedCookieIsStale(a)  BY <3>1, <3>2 DEF OutcomeHolds, ClearedCookieIsStale
      <3> QED  BY <3>5, <3>6, <3>7, <3>8 DEF AnswerFollowsImmich, a
    <2> QED  BY <2>2, <2>3, <2>4 DEF AnswersFollowImmich
  <1> QED  BY <1>1, AlwaysIInv, PTL
=============================================================================
