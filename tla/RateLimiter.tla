----------------------------- MODULE RateLimiter -----------------------------
(***************************************************************************)
(* The rolling-window budget of the venue requests                         *)
(* (tools/lib/rolling_rate_limiter.py), as the runtime spends it when it   *)
(* asks for quotes and sends orders (main.py).  The window lives in a file *)
(* that every process and every restart reads and rewrites under flock, so *)
(* one request is one atomic step and a process that dies leaves the file  *)
(* of its last step.  Time advances in whole ticks.                        *)
(***************************************************************************)
EXTENDS Naturals, Sequences, FiniteSets

CONSTANTS
    Window,      \* window_seconds
    Normal,      \* normal_limit
    Hard,        \* hard_limit
    Limits,      \* the limit of each category of request
    Backoffs,    \* seconds a venue asks for after a rate error
    MaxCost,     \* the largest cost of a request
    MaxTime,     \* bound: ticks
    MaxTokens    \* bound: tokens granted

Uncategorised == "none"

ASSUME LimitsAssumption ==
    /\ Window \in Nat \ {0} /\ Normal \in Nat \ {0} /\ Hard \in Nat
    /\ Normal <= Hard
    /\ Uncategorised \notin DOMAIN Limits
    /\ \A c \in DOMAIN Limits : Limits[c] \in Nat
ASSUME BoundsAssumption ==
    Backoffs \subseteq Nat /\ MaxCost \in Nat /\ MaxTime \in Nat /\ MaxTokens \in Nat

VARIABLES
    now,
    granted,   \* every token ever granted, oldest first
    saved,     \* the tokens the state file lists, by their place in granted
    blocked    \* blocked_until

limiterVars == <<now, granted, saved, blocked>>

-----------------------------------------------------------------------------
(* Requests: send_variational_place_order chooses the category, its limit, *)
(* and whether the request may use the reserve of the hard limit.          *)

AlwaysHard(r) == Hard   \* mutant: nobody leaves the reserve alone
Ceiling(r) == IF r.urgent THEN Hard ELSE Normal
Requests ==
    {r \in [urgent : BOOLEAN, cost : 1..MaxCost,
            category : DOMAIN Limits \cup {Uncategorised}] :
        /\ r.cost <= Ceiling(r)
        /\ r.category # Uncategorised =>
            /\ r.cost <= Limits[r.category]
            /\ r.urgent <=> r.category = "emergency_exit"}

Of(tokens, category) == {n \in tokens : granted[n].category = category}

\* _prune: what is left of a list at time t.
Unexpired(tokens, t) == {n \in tokens : granted[n].at + Window > t}

\* Mutant: the tokens are counted before those of the request are added.
FitsBeforeAt(r, t) ==
    LET tokens == Unexpired(saved, t) IN
    /\ t >= blocked
    /\ Cardinality(tokens) < Ceiling(r)
    /\ r.category # Uncategorised =>
        Cardinality(Of(tokens, r.category)) < Limits[r.category]

\* The condition of acquire and try_acquire at time t.
FitsAt(r, t) ==
    LET tokens == Unexpired(saved, t) IN
    /\ t >= blocked
    /\ Cardinality(tokens) + r.cost <= Ceiling(r)
    /\ r.category # Uncategorised =>
        Cardinality(Of(tokens, r.category)) + r.cost <= Limits[r.category]

\* How long acquire sleeps: until the backoff is over, and until as many of
\* the oldest tokens have expired as the request is short of.
Oldest(tokens, count) ==
    CHOOSE t \in {granted[n].at : n \in tokens} :
        /\ Cardinality({n \in tokens : granted[n].at <= t}) >= count
        /\ Cardinality({n \in tokens : granted[n].at < t}) < count
\* Mutant: one token has to expire, whatever the request costs.
ShortOfOne(tokens, cost, limit) ==
    IF Cardinality(tokens) + cost <= limit THEN 0 ELSE Oldest(tokens, 1) + Window - now
ShortOf(tokens, cost, limit) ==
    IF Cardinality(tokens) + cost <= limit THEN 0
    ELSE Oldest(tokens, Cardinality(tokens) + cost - limit) + Window - now
Wait(r) ==
    LET tokens == Unexpired(saved, now)
        waits == {1, IF blocked > now THEN blocked - now ELSE 0,
                  ShortOf(tokens, r.cost, Ceiling(r)),
                  IF r.category = Uncategorised THEN 0
                  ELSE ShortOf(Of(tokens, r.category), r.cost, Limits[r.category])}
    IN  CHOOSE w \in waits : \A v \in waits : v <= w

-----------------------------------------------------------------------------
Token == [at : Nat, urgent : BOOLEAN,
          category : DOMAIN Limits \cup {Uncategorised}]

TokensOK ==
    /\ now \in Nat /\ blocked \in Nat
    /\ granted \in Seq(Token)
    /\ saved \in SUBSET DOMAIN granted

LimiterInit == now = 0 /\ granted = <<>> /\ saved = {} /\ blocked = 0

\* acquire and try_acquire when the request fits; when it does not, neither
\* writes the file: the one returns, the other sleeps and tries again.
Acquire(r) ==
    /\ FitsAt(r, now)
    /\ Len(granted) + r.cost <= MaxTokens
    /\ granted' = [n \in 1..(Len(granted) + r.cost) |->
                    IF n <= Len(granted) THEN granted[n]
                    ELSE [at |-> now, urgent |-> r.urgent, category |-> r.category]]
    /\ saved' = Unexpired(saved, now)
                \cup (Len(granted) + 1)..(Len(granted) + r.cost)
    /\ UNCHANGED <<now, blocked>>

\* penalize: after a rate error nobody asks before the backoff is over, and
\* a shorter backoff never ends a longer one.
Penalize(seconds) ==
    /\ blocked' = IF now + seconds > blocked THEN now + seconds ELSE blocked
    /\ saved' = Unexpired(saved, now)
    /\ UNCHANGED <<now, granted>>

Tick ==
    /\ now < MaxTime
    /\ now' = now + 1
    /\ UNCHANGED <<granted, saved, blocked>>

LimiterNext ==
    \/ \E r \in Requests : Acquire(r)
    \/ \E s \in Backoffs : Penalize(s)
    \/ Tick

Limiter == LimiterInit /\ [][LimiterNext]_limiterVars

-----------------------------------------------------------------------------
(* Properties.                                                             *)

\* The tokens granted in the window that ends at t.
Within(t) == {n \in DOMAIN granted : granted[n].at <= t /\ granted[n].at + Window > t}

\* No window of the venue sees more requests than the hard limit, nor more
\* of one category than its limit, wherever the window lies and however
\* many processes and restarts spent from it (acquire, _load_state, _prune).
WindowWithinLimits ==
    \A t \in 0..now :
        /\ Cardinality(Within(t)) <= Hard
        /\ \A c \in DOMAIN Limits : Cardinality(Of(Within(t), c)) <= Limits[c]

\* Requests that are not urgent leave the reserve alone in every window, so
\* an emergency exit that is refused was refused for urgent work alone.
ReserveIsKept ==
    \A t \in 0..now :
        Cardinality({n \in Within(t) : ~granted[n].urgent}) <= Normal

\* acquire sleeps exactly long enough: when nothing else is granted the
\* request fits at the end of the sleep, and a tick earlier it does not.
SleepIsExact ==
    \A r \in Requests : ~FitsAt(r, now) =>
        FitsAt(r, now + Wait(r)) /\ ~FitsAt(r, now + Wait(r) - 1)
=============================================================================
