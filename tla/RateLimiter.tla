------------------------------ MODULE RateLimiter ------------------------------
(***************************************************************************)
(* The sliding window of failed logins of core/rate_limit.py, as the login *)
(* route of routes/auth.py uses it, for one address and email: each key    *)
(* has a window of its own.                                                *)
(*                                                                         *)
(* check, record and reset each hold the lock, but between them the route  *)
(* compares passwords, and other logins with the same key go on.           *)
(***************************************************************************)
EXTENDS Naturals, Sequences, FiniteSets

CONSTANTS Logins,           \* logins being served at the same time
          max_attempts,     \* LOGIN_RATE_LIMIT_ATTEMPTS
          window_seconds    \* LOGIN_RATE_LIMIT_WINDOW_SECONDS, in ticks

ASSUME LimiterAssumption == /\ max_attempts \in Nat \ {0}
                            /\ window_seconds \in Nat \ {0}
                            /\ IsFiniteSet(Logins)

VARIABLES hits,     \* the ages of the failures in the deque, oldest first
          passed    \* the logins that check let pass and that have not ended

limiter == <<hits, passed>>

LimiterInit == hits = <<>> /\ passed = {}

\* The hits as old as the window, which come first, are popped.
Old(h) == {i \in DOMAIN h : h[i] >= window_seconds}

_prune(h) == SubSeq(h, Cardinality(Old(h)) + 1, Len(h))

is_limited_beyond(h) == Len(_prune(h)) > max_attempts

is_limited(h) == Len(_prune(h)) >= max_attempts

\* As if a refused attempt took the place of the oldest hit.
check_sliding(a) ==
  /\ a \notin passed
  /\ hits' = IF is_limited(hits) THEN Append(Tail(_prune(hits)), 0) ELSE _prune(hits)
  /\ passed' = IF is_limited(hits) THEN passed ELSE passed \union {a}

\* check; the 429 leaves nothing but the pruned deque.
check(a) == /\ a \notin passed
            /\ hits' = _prune(hits)
            /\ passed' = IF is_limited(hits) THEN passed ELSE passed \union {a}

\* InvalidCredentialsError.
record(a) == /\ a \in passed
             /\ hits' = Append(_prune(hits), 0)
             /\ passed' = passed \ {a}

\* The login succeeds: the key is forgotten, then the transaction commits.
reset(a) == /\ a \in passed
            /\ hits' = <<>>
            /\ passed' = passed \ {a}

\* InactiveAccountError is neither a failed attempt nor a login.
inactive(a) == /\ a \in passed
               /\ passed' = passed \ {a}
               /\ UNCHANGED hits

\* time.monotonic; ages above the window are all the same.
tick == /\ hits' = [i \in DOMAIN hits |-> IF hits[i] < window_seconds THEN hits[i] + 1
                                          ELSE hits[i]]
        /\ UNCHANGED passed

\* The window lives in the memory of the process.
restart == hits' = <<>> /\ passed' = {}

LimiterNext == \/ \E a \in Logins : check(a) \/ record(a) \/ reset(a) \/ inactive(a)
               \/ tick
               \/ restart

LimiterSpec == LimiterInit /\ [][LimiterNext]_limiter /\ WF_limiter(tick)

-------------------------------------------------------------------------------
(* Properties                                                              *)

\* However logins interleave, the failures remembered in one window are fewer
\* than max_attempts plus the logins served at the same time: each of those may
\* have passed check just before the last failure was recorded.
HitsBounded == /\ Len(hits) < max_attempts + Cardinality(Logins)
               /\ \A i \in DOMAIN hits : hits[i] <= window_seconds

\* "Please try again later": a client that is refused is let in again, also if
\* it never stops trying, because refused attempts are not recorded.
LetInAgain == is_limited(hits) ~> ~is_limited(hits)
===============================================================================
