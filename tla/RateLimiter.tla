------------------------------ MODULE RateLimiter ------------------------------
(***************************************************************************)
(* The rate limiter (core/web_security.py, RateLimitMiddleware).  A key is *)
(* a client address and a path; keys do not meet, so there is one of them. *)
(* Every web process asks Redis first and falls back to a queue of its own *)
(* when Redis does not answer.  Redis records refused requests as well and *)
(* forgets what is exactly one window old; the queue does neither.         *)
(***************************************************************************)
EXTENDS Integers, Sequences, FiniteSets

CONSTANTS
  Processes,  \* web processes
  Limit,      \* requests per window on this path
  Window,     \* RATE_LIMIT_WINDOW_SECONDS, in ticks
  MaxTime,    \* bound on the clock
  MaxRequests \* bound on the requests

ASSUME LimitsPositive ==
  Limit \in Nat \ {0} /\ Window \in Nat \ {0} /\ MaxTime \in Nat /\ MaxRequests \in Nat

VARIABLES
  clock,    \* the time
  answered, \* every request: when, decided by whom, admitted or not
  redis,    \* the requests in the sorted set of the key, by number
  queue     \* the requests in the queue of each process

lvars == <<clock, answered, redis, queue>>

Redis == "redis"

ASSUME RedisIsNoProcess == Redis \notin Processes

Times == 0..MaxTime
Asked == 1..Len(answered)
New == Len(answered) + 1

LimiterTypeOK ==
  /\ clock \in Times
  /\ answered \in Seq([at : Times, by : Processes \union {Redis}, ok : BOOLEAN])
  /\ redis \subseteq Asked
  /\ queue \in [Processes -> SUBSET Asked]

(* Time does not go back, so what a store drops from its old end is all it *)
(* has from before.                                                        *)
Since(requests, from) == {n \in requests : answered[n].at >= from}

Answered(by, ok) == answered' = Append(answered, [at |-> clock, by |-> by, ok |-> ok])

(* A slip: one request too many fits in. *)
QueueOneMore(p) ==
  LET q == Since(queue[p], clock - Window)  ok == Cardinality(q) <= Limit IN
  /\ queue' = [queue EXCEPT ![p] = IF ok THEN q \union {New} ELSE q]
  /\ Answered(p, ok)
  /\ UNCHANGED redis

_is_limited(p) ==
  LET q == Since(queue[p], clock - Window)  ok == Cardinality(q) < Limit IN
  /\ queue' = [queue EXCEPT ![p] = IF ok THEN q \union {New} ELSE q]
  /\ Answered(p, ok)
  /\ UNCHANGED redis

(* A slip: the window is never cleaned up. *)
NothingForgotten ==
  /\ redis' = redis \union {New}
  /\ Answered(Redis, Cardinality(redis) < Limit)
  /\ UNCHANGED queue

_is_limited_redis ==
  LET q == Since(redis, clock - Window + 1) IN
  /\ redis' = q \union {New}
  /\ Answered(Redis, Cardinality(q) < Limit)
  /\ UNCHANGED queue

dispatch(p) ==
  /\ Len(answered) < MaxRequests
  /\ _is_limited_redis \/ _is_limited(p)
  /\ UNCHANGED clock

Tick == clock < MaxTime /\ clock' = clock + 1 /\ UNCHANGED <<answered, redis, queue>>

(* Redis loses its keys, or expires a key that is idle for longer than the *)
(* window.                                                                 *)
RedisRestarts == redis # {} /\ redis' = {} /\ UNCHANGED <<clock, answered, queue>>

LimiterInit ==
  /\ clock = 0 /\ answered = <<>> /\ redis = {}
  /\ queue = [p \in Processes |-> {}]

LimiterNext == (\E p \in Processes : dispatch(p)) \/ Tick \/ RedisRestarts

LimiterSpec == LimiterInit /\ [][LimiterNext]_lvars

-----------------------------------------------------------------------------
(* A process that decides by itself admits at most Limit requests in any   *)
(* Window, however often Redis comes and goes in between.                  *)
AdmittedFrom(i, p) ==
  {n \in Asked : n >= i /\ answered[n].at - answered[i].at <= Window
                 /\ answered[n].ok /\ answered[n].by = p}
AtMostLimit ==
  \A p \in Processes, i \in Asked : Cardinality(AdmittedFrom(i, p)) <= Limit

Paced ==
  \A i \in 1..(Len(answered) - Limit) : answered[i + Limit].at - answered[i].at > Window

(* A client that never sends more than Limit requests in a Window is never *)
(* refused, whichever process and store decides about them.                *)
PacedNeverRefused == Paced => \A i \in Asked : answered[i].ok
=============================================================================
