----------------------------- MODULE RateLimit -----------------------------
(***************************************************************************)
(* RateLimitService.consume for the key of one workflow: a counter in      *)
(* Redis with an expiry, both handled by one script, which Redis runs as   *)
(* one step.  Time advances in ticks, finer than the seconds TTL reports.  *)
(***************************************************************************)
EXTENDS Naturals

CONSTANTS
  Limit,           \* requests per window (60)
  windowSeconds,   \* its length (60)
  TicksPerSecond,
  MaxCount         \* bound on the counter, past the limit

Window == windowSeconds * TicksPerSecond

ASSUME LimitsArePositive ==
  Limit \in Nat \ {0} /\ windowSeconds \in Nat \ {0} /\ TicksPerSecond \in Nat \ {0}
ASSUME CountPassesLimit == MaxCount \in Nat /\ MaxCount > Limit

VARIABLES
  count,    \* the value of the key, 0 where it does not exist
  ttl,      \* the ticks it has left, 0 where it does not exist or never expires
  recent,   \* history: the requests allowed in this tick and the `age` ones before it
  waiting   \* history: a client that was refused and waits as it was told

limiter == <<count, ttl, recent, waiting>>

\* A refused client and the ticks it still has to wait.  It is followed until
\* the window that refused it ends, or until its wait does.
NotWaiting == [refused |-> FALSE, left |-> 0]

LimiterInit ==
  /\ count = 0
  /\ ttl = 0
  /\ recent = [age \in 0 .. Window - 1 |-> 0]
  /\ waiting = NotWaiting

\* Mutated: the limit is off by one.
AllowedOneMore == count <= Limit
Allowed == count < Limit

\* Mutated: every request sets the expiry, or the process dies between an INCR
\* and an EXPIRE that are calls of their own.
ExpireAlways == ttl' = Window
ExpireMayBeLost == ttl' \in {ttl, IF count = 0 THEN Window ELSE ttl}

\* EXPIRE is called by the request that has created the key.
Expire == ttl' = IF count = 0 THEN Window ELSE ttl

\* TTL in seconds: Redis rounds what is left to the nearest one.
RoundsTo(ticks, seconds) ==
  /\ 2 * (seconds * TicksPerSecond) <= 2 * ticks + TicksPerSecond
  /\ 2 * ticks < 2 * (seconds * TicksPerSecond) + TicksPerSecond

\* Redis runs the script.  A client that is refused is told the TTL; any of
\* the clients may be the one whose wait is followed.
Consume ==
  /\ count < MaxCount
  /\ count' = count + 1
  /\ Expire
  /\ recent' = IF Allowed THEN [age \in 0 .. Window - 1 |-> recent[age] + 1] ELSE recent
  /\ \/ UNCHANGED waiting
     \/ /\ ~ Allowed
        /\ \E seconds \in 0 .. windowSeconds :
             /\ RoundsTo(ttl', seconds)
             /\ waiting' = [refused |-> TRUE, left |-> seconds * TicksPerSecond]

\* A tick passes; the key is deleted when its time is up.
Tick ==
  /\ count' = IF ttl = 1 THEN 0 ELSE count
  /\ ttl' = IF ttl = 0 THEN 0 ELSE ttl - 1
  /\ recent' = [age \in 0 .. Window - 1 |-> IF age = 0 THEN 0 ELSE recent[age - 1]]
  /\ waiting' = IF waiting.left > 0 /\ ttl # 1
                THEN [waiting EXCEPT !.left = @ - 1] ELSE NotWaiting
-----------------------------------------------------------------------------
LimiterTypeOK ==
  /\ count \in 0 .. MaxCount
  /\ ttl \in 0 .. Window
  /\ recent \in [0 .. Window - 1 -> Nat]
  /\ waiting \in [refused : BOOLEAN, left : Nat]

\* A counter without an expiry would refuse a workflow's webhooks for good,
\* once it has passed the limit.
CounterExpires == count > 0 <=> ttl > 0

\* "60 requests per 60 seconds": the window is fixed and not sliding, so a
\* client can use up the end of one window and the start of the next, but no
\* stretch of time as long as a window ever lets twice the limit through.
LoadIsBounded == recent[Window - 1] <= 2 * Limit - 1

\* Retry-After is the truth, but for its rounding: where a refused client that
\* has waited as long as it was told still meets the window that refused it,
\* that window has less than half a second left.
RetryAfterSuffices ==
  waiting.refused /\ waiting.left = 0 => 2 * ttl < TicksPerSecond
=============================================================================
