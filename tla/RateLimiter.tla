---------------------------- MODULE RateLimiter ----------------------------
(***************************************************************************)
(* The per-IP rate limiter of the proxy (middleware/ratelimit.go).  Allow  *)
(* takes the mutex twice: to find (or make, or refill) the visitor of the  *)
(* IP, and to take a token from it; time passes and the cleanup goroutine  *)
(* runs in between.  A visitor that was cleaned up is still used by the    *)
(* requests that hold it.                                                  *)
(***************************************************************************)
EXTENDS Integers, FiniteSets

CONSTANTS
  IPs,
  Requests,             \* requests in flight at a time
  Rate, Window,
  MaxTime,              \* bound on the clock
  MaxVisitors,          \* bound on the visitors ever made
  NoVisitor

ASSUME RateLimiterAssumption ==
  /\ Rate \in Nat /\ Window \in Nat \ {0}
  /\ MaxTime \in Nat /\ MaxVisitors \in Nat
  /\ NoVisitor \notin 1 .. MaxVisitors

VisitorIds == 1 .. MaxVisitors

VARIABLES
  now,                  \* the clock
  visitors,             \* the map: IP to visitor
  made,                 \* visitors made so far
  tokens, lastReset,    \* by visitor
  held, from,           \* what each request in Allow got from getVisitor, its IP
  \* history
  spent,                \* tokens granted by a visitor since its last reset
  grants                \* by IP and time: requests let through by the visitor
                        \* that was in the map
grantVars == <<spent, grants>>
limiterVars == <<now, visitors, made, tokens, lastReset, held, from, grantVars>>

LimiterInit ==
  /\ now = 0
  /\ visitors = [ip \in IPs |-> NoVisitor]
  /\ made = 0
  /\ tokens = [v \in VisitorIds |-> Rate]
  /\ lastReset = [v \in VisitorIds |-> 0]
  /\ held = [r \in Requests |-> NoVisitor]
  /\ from \in [Requests -> IPs]
  /\ spent = [v \in VisitorIds |-> 0]
  /\ grants = [ip \in IPs |-> [t \in 0 .. MaxTime |-> 0]]

Tick ==
  /\ now < MaxTime
  /\ now' = now + 1
  /\ UNCHANGED <<visitors, made, tokens, lastReset, held, from, grantVars>>

NewVisitor(r, ip) ==
  /\ visitors[ip] = NoVisitor
  /\ made < MaxVisitors
  /\ made' = made + 1
  /\ visitors' = [visitors EXCEPT ![ip] = made']
  /\ tokens' = [tokens EXCEPT ![made'] = Rate]
  /\ lastReset' = [lastReset EXCEPT ![made'] = now]
  /\ spent' = [spent EXCEPT ![made'] = 0]
  /\ held' = [held EXCEPT ![r] = made']

\* Mutated OldVisitor: the tokens are refilled on top of what is left.
OldVisitorAdds(r, ip) ==
  /\ visitors[ip] # NoVisitor
  /\ LET v == visitors[ip] IN
       /\ held' = [held EXCEPT ![r] = v]
       /\ IF now - lastReset[v] > Window
            THEN /\ tokens' = [tokens EXCEPT ![v] = @ + Rate]
                 /\ lastReset' = [lastReset EXCEPT ![v] = now]
                 /\ spent' = [spent EXCEPT ![v] = 0]
            ELSE UNCHANGED <<tokens, lastReset, spent>>
  /\ UNCHANGED <<visitors, made>>

OldVisitor(r, ip) ==
  /\ visitors[ip] # NoVisitor
  /\ LET v == visitors[ip] IN
       /\ held' = [held EXCEPT ![r] = v]
       /\ IF now - lastReset[v] > Window
            THEN /\ tokens' = [tokens EXCEPT ![v] = Rate]
                 /\ lastReset' = [lastReset EXCEPT ![v] = now]
                 /\ spent' = [spent EXCEPT ![v] = 0]
            ELSE UNCHANGED <<tokens, lastReset, spent>>
  /\ UNCHANGED <<visitors, made>>

\* The first half of Allow.
GetVisitor(r) ==
  /\ held[r] = NoVisitor
  /\ \E ip \in IPs :
       /\ from' = [from EXCEPT ![r] = ip]
       /\ NewVisitor(r, ip) \/ OldVisitor(r, ip)
  /\ UNCHANGED <<now, grants>>

\* Mutated TakeToken: granted before the count is looked at.
TakeTokenFirst(r) ==
  /\ held[r] # NoVisitor
  /\ LET v == held[r] IN
       IF tokens[v] >= 0
         THEN /\ tokens' = [tokens EXCEPT ![v] = @ - 1]
              /\ spent' = [spent EXCEPT ![v] = @ + 1]
              /\ grants' = IF visitors[from[r]] = v
                             THEN [grants EXCEPT ![from[r]][now] = @ + 1]
                             ELSE grants
         ELSE UNCHANGED <<tokens, grantVars>>
  /\ held' = [held EXCEPT ![r] = NoVisitor]
  /\ UNCHANGED <<now, visitors, made, lastReset, from>>

\* The second half; without a token the request is answered 429.
TakeToken(r) ==
  /\ held[r] # NoVisitor
  /\ LET v == held[r] IN
       IF tokens[v] > 0
         THEN /\ tokens' = [tokens EXCEPT ![v] = @ - 1]
              /\ spent' = [spent EXCEPT ![v] = @ + 1]
              /\ grants' = IF visitors[from[r]] = v
                             THEN [grants EXCEPT ![from[r]][now] = @ + 1]
                             ELSE grants
         ELSE UNCHANGED <<tokens, grantVars>>
  /\ held' = [held EXCEPT ![r] = NoVisitor]
  /\ UNCHANGED <<now, visitors, made, lastReset, from>>

\* Mutated Cleanup: visitors go while their window is still open.
CleanupEarly ==
  /\ now >= 2 * Window
  /\ visitors' = [ip \in IPs |->
       IF visitors[ip] # NoVisitor /\ now - lastReset[visitors[ip]] >= 1
         THEN NoVisitor ELSE visitors[ip]]
  /\ UNCHANGED <<now, made, tokens, lastReset, held, from, grantVars>>

\* The ticker goroutine: it first fires after two windows, then every second
\* window or, when the goroutine is late, at any time after.
Cleanup ==
  /\ now >= 2 * Window
  /\ visitors' = [ip \in IPs |->
       IF visitors[ip] # NoVisitor /\ now - lastReset[visitors[ip]] > 2 * Window
         THEN NoVisitor ELSE visitors[ip]]
  /\ UNCHANGED <<now, made, tokens, lastReset, held, from, grantVars>>

LimiterNext ==
  \/ Tick \/ Cleanup
  \/ \E r \in Requests : GetVisitor(r) \/ TakeToken(r)

LimiterSpec == LimiterInit /\ [][LimiterNext]_limiterVars

----------------------------------------------------------------------------
LimiterTypeOK ==
  /\ now \in 0 .. MaxTime
  /\ made \in 0 .. MaxVisitors
  /\ visitors \in [IPs -> VisitorIds \cup {NoVisitor}]
  /\ tokens \in [VisitorIds -> 0 .. Rate]
  /\ lastReset \in [VisitorIds -> 0 .. MaxTime]
  /\ held \in [Requests -> VisitorIds \cup {NoVisitor}]
  /\ from \in [Requests -> IPs]
  /\ spent \in [VisitorIds -> 0 .. Rate]
  /\ grants \in [IPs -> [0 .. MaxTime -> Nat]]

\* Between two resets a visitor grants no more than the rate, however the two
\* halves of Allow of concurrent requests interleave with resets and cleanup;
\* the tokens granted and the tokens left are always the whole.
EpochBound ==
  \A v \in VisitorIds : tokens[v] + spent[v] = Rate /\ tokens[v] >= 0

\* Tokens and visitors stay in their bounds, and none is lost or made.
TokensSound == LimiterTypeOK /\ EpochBound

\* Granted to an IP from time t on for the length of a window.
Granted(ip, t) ==
  LET upTo[u \in 0 .. MaxTime] ==
        grants[ip][u] + (IF u <= t THEN 0 ELSE upTo[u - 1])
  IN upTo[IF t + Window <= MaxTime THEN t + Window ELSE MaxTime]

\* In any stretch of time as long as the window an IP gets at most twice the
\* rate from the visitors that are in the map: resets are further apart than
\* that, deletion and re-creation of the visitor included.  (A request that was
\* suspended between the two halves of Allow while its visitor was deleted
\* spends a token nobody else can, and is not counted.)
TwiceTheRate == \A ip \in IPs, t \in 0 .. MaxTime : Granted(ip, t) <= 2 * Rate
=============================================================================
