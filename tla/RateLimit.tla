----------------------------- MODULE RateLimit ------------------------------
(***************************************************************************)
(* The two Redis limiters of one client address (security/rate_limit.py):  *)
(* the one of the API, which every request passes (RateLimitMiddleware),   *)
(* and the one of failed logins (login).  A request is a sequence of       *)
(* single Redis commands, and whatever fails there lets it pass.           *)
(***************************************************************************)
EXTENDS Naturals, FiniteSets

CONSTANTS
    Requests,      \* requests that this address has under way at a time
    MaxHits,       \* max_attempts of api_rate_limiter
    MaxAttempts,   \* max_attempts of login_rate_limiter
    Window,        \* window_seconds of both, in ticks
    BlockTime,     \* block_seconds of the login limiter, in ticks
    MaxOutages     \* bound: Redis commands that fail

\* A block outlives the window in which it was earned.
ASSUME RateLimitAssumption ==
    /\ IsFiniteSet(Requests)
    /\ MaxHits \in Nat \ {0} /\ MaxAttempts \in Nat \ {0} /\ MaxOutages \in Nat
    /\ Window \in Nat \ {0} /\ BlockTime \in Nat /\ BlockTime >= Window

VARIABLES
    hits,          \* ratelimit:api:attempts
    attempts,      \* ratelimit:login:attempts
    blocked,       \* the ticks that ratelimit:login:blocked has left
    doing,         \* the next command of each request
    outages

limitVars == <<hits, attempts, blocked, doing, outages>>

\* A counter in Redis: none if its count is 0; with 0 ticks left it never expires.
NoKey == [count |-> 0, left |-> 0]

\* What the counters are compared to, and no more, is told apart.
TopHits  == MaxHits + 1
TopTries == MaxAttempts + Cardinality(Requests) + MaxOutages

RateLimitTypeOK ==
    /\ hits \in [count : 0 .. TopHits, left : 0 .. Window]
    /\ attempts \in [count : 0 .. TopTries, left : 0 .. Window]
    /\ blocked \in 0 .. BlockTime
    /\ doing \in [Requests -> {"out", "time", "login", "verify", "time_try", "block"}]
    /\ outages \in 0 .. MaxOutages

RateLimitInit ==
    /\ hits = NoKey /\ attempts = NoKey /\ blocked = 0
    /\ doing = [r \in Requests |-> "out"]
    /\ outages = 0

-----------------------------------------------------------------------------
\* The commands of Redis.

Incr(key, top)  == [key EXCEPT !.count = IF @ < top THEN @ + 1 ELSE top]
Expire(key) == IF key.count = 0 THEN key ELSE [key EXCEPT !.left = Window]

Aged(key) == CASE key.left = 0 -> key
               [] key.left = 1 -> NoKey
               [] OTHER -> [key EXCEPT !.left = @ - 1]

Goto(r, there) == doing' = [doing EXCEPT ![r] = there]

\* A request that passes the middleware may be a login; the others end here.
Passes(r) == \E there \in {"out", "login"} : Goto(r, there)

\* Plausible bug: every request renews the expiry.
ArriveRenewing(r) ==
    /\ doing[r] = "out"
    /\ hits' = Expire(Incr(hits, TopHits))
    /\ IF hits'.count <= MaxHits THEN Passes(r) ELSE Goto(r, "out")
    /\ UNCHANGED <<attempts, blocked, outages>>

\* allow_request: the request that creates the counter gives it its expiry.
Arrive(r) ==
    /\ doing[r] = "out"
    /\ hits' = Incr(hits, TopHits)
    /\ CASE hits'.count = 1 -> Goto(r, "time")
         [] hits'.count \in 2 .. MaxHits -> Passes(r)
         [] OTHER -> Goto(r, "out")
    /\ UNCHANGED <<attempts, blocked, outages>>

Time(r) ==
    /\ doing[r] = "time"
    /\ hits' = Expire(hits)
    /\ Passes(r)
    /\ UNCHANGED <<attempts, blocked, outages>>

IsBlocked(r) ==
    /\ doing[r] = "login"
    /\ Goto(r, IF blocked > 0 THEN "out" ELSE "verify")
    /\ UNCHANGED <<hits, attempts, blocked, outages>>

\* Plausible bug: only the attempt that reaches the limit blocks.
RecordedOnce(r, count) == Goto(r, IF count = MaxAttempts THEN "block" ELSE "out")

\* The end of record_attempt.
Recorded(r, count) == Goto(r, IF count >= MaxAttempts THEN "block" ELSE "out")

WrongPassword(r) ==
    /\ doing[r] = "verify"
    /\ attempts' = Incr(attempts, TopTries)
    /\ IF attempts'.count = 1 THEN Goto(r, "time_try") ELSE Recorded(r, attempts'.count)
    /\ UNCHANGED <<hits, blocked, outages>>

TimeAttempts(r) ==
    /\ doing[r] = "time_try"
    /\ attempts' = Expire(attempts)
    /\ Recorded(r, 1)
    /\ UNCHANGED <<hits, blocked, outages>>

Block(r) ==
    /\ doing[r] = "block"
    /\ blocked' = BlockTime
    /\ Goto(r, "out")
    /\ UNCHANGED <<hits, attempts, outages>>

\* reset, also after a block that came while the password was verified.
LoggedIn(r) ==
    /\ doing[r] = "verify"
    /\ attempts' = NoKey /\ blocked' = 0
    /\ Goto(r, "out")
    /\ UNCHANGED <<hits, outages>>

\* The right password of a disabled account.
Disabled(r) ==
    /\ doing[r] = "verify"
    /\ Goto(r, "out")
    /\ UNCHANGED <<hits, attempts, blocked, outages>>

\* A command that fails ends the limiter's work for this request, and nothing else.
Outage(r) ==
    /\ outages < MaxOutages
    /\ outages' = outages + 1
    /\ CASE doing[r] \in {"out", "time"} -> Passes(r)
         [] doing[r] = "login" -> Goto(r, "verify")
         [] OTHER -> Goto(r, "out")
    /\ UNCHANGED <<hits, attempts, blocked>>

\* Between the two commands of a new counter of attempts no tick goes by.
Tick ==
    /\ \A r \in Requests : doing[r] # "time_try"
    /\ hits.left > 0 \/ attempts.left > 0 \/ blocked > 0
    /\ hits' = Aged(hits)
    /\ attempts' = Aged(attempts)
    /\ blocked' = IF blocked > 0 THEN blocked - 1 ELSE 0
    /\ UNCHANGED <<doing, outages>>

RequestMoves(r) ==
    \/ Time(r) \/ IsBlocked(r) \/ WrongPassword(r) \/ TimeAttempts(r) \/ Block(r)
    \/ LoggedIn(r) \/ Disabled(r)

RateLimitNext == Tick \/ \E r \in Requests : Arrive(r) \/ RequestMoves(r) \/ Outage(r)

RateLimitSpec == RateLimitInit /\ [][RateLimitNext]_limitVars

-----------------------------------------------------------------------------
\* Within one window the login limiter lets no more wrong passwords be tried than its
\* limit and one for each other request that had passed the check of the block before
\* the block was set; a failed Redis command may cost one more.
GuessesBounded ==
    attempts.left > 0 =>
        attempts.count < MaxAttempts + Cardinality(Requests) + outages

\* A counter that its creator has failed to give an expiry.
Stranded == hits.count > 0 /\ hits.left = 0 /\ \A r \in Requests : doing[r] # "time"

\* An address is over the limit of the API, and its counter will expire.
ShutOut == hits.count > MaxHits /\ ~Stranded
=============================================================================
