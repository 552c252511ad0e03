----------------------------- MODULE RateLimiter -----------------------------
(***************************************************************************)
(* The fixed-window rate limiter of the API's public endpoints.  A request *)
(* makes three separate calls to Redis: INCR, TTL and, if the counter has  *)
(* no expiry, EXPIRE.  Between them other requests run, the counter may    *)
(* expire, Redis may fail and the API process may die.                     *)
(***************************************************************************)
EXTENDS Naturals, FiniteSets

CONSTANTS
  Requests,  \* HTTP requests, each made at most once
  Clients,   \* client IPs: with the category, the key of a counter
  ClientOf,  \* the client a request comes from
  Limit,     \* rate_limit_per_minute
  Window,    \* _WINDOW_SECONDS, in ticks
  MaxFaults  \* bound: how many calls fail, keys are lost and processes die

ASSUME LimiterOK ==
  /\ IsFiniteSet(Requests)
  /\ ClientOf \in [Requests -> Clients]
  /\ Limit \in Nat
  /\ Window \in Nat \ {0}
  /\ MaxFaults \in Nat

VARIABLES
  counter,  \* Redis: per client, its count (0: no key) and ttl (0: no expiry)
  faults,   \* how many faults happened
  hit       \* per request: where it is in the limiter and what it saw

limiter == <<counter, faults, hit>>

\* passed and failedOpen let the request through to its handler.
Places == {"new", "ttl", "expire", "passed", "failedOpen", "limited", "lost"}

NoKey == [count |-> 0, ttl |-> 0]

Idle == [at |-> "new", count |-> 0, age |-> Window, fresh |-> FALSE]

LimiterTypeOK ==
  /\ counter \in [Clients -> [count : Nat, ttl : 0 .. Window]]
  /\ faults \in 0 .. MaxFaults
  /\ hit \in [Requests -> [at : Places, count : Nat, age : 0 .. Window, fresh : BOOLEAN]]

LimiterInit ==
  /\ counter = [c \in Clients |-> NoKey]
  /\ faults = 0
  /\ hit = [r \in Requests |-> Idle]

\* A tick of time.  Redis removes the keys whose time to live ends.  A request
\* remembers how long ago its INCR was, up to Window, and whether the counter it
\* incremented is still the one in Redis (fresh).
Older(r) ==
  [hit[r] EXCEPT !.age = IF @ < Window THEN @ + 1 ELSE @,
                 !.fresh = @ /\ counter[ClientOf[r]].ttl # 1]

Tick ==
  /\ counter' = [c \in Clients |->
                   CASE counter[c].ttl = 0 -> counter[c]
                     [] counter[c].ttl = 1 -> NoKey
                     [] OTHER -> [counter[c] EXCEPT !.ttl = @ - 1]]
  /\ hit' = [r \in Requests |-> Older(r)]
  /\ UNCHANGED faults

Incremented(r) == counter[ClientOf[r]].count + 1

\* INCR creates the key without an expiry, and leaves the expiry of one it finds.
Increment(r) ==
  counter' = [counter EXCEPT ![ClientOf[r]].count = Incremented(r)]

Incr(r) ==
  /\ hit[r].at = "new"
  /\ Increment(r)
  /\ hit' = [hit EXCEPT ![r] =
               [at |-> "ttl", count |-> Incremented(r), age |-> 0, fresh |-> TRUE]]
  /\ UNCHANGED faults

\* A bug: the limit is compared with the count before this request.
MutDecision(r) == IF hit[r].count - 1 <= Limit THEN "passed" ELSE "limited"

\* _result: the request passes while its count is within the limit.
Decision(r) == IF hit[r].count <= Limit THEN "passed" ELSE "limited"

\* What is not needed any more is forgotten.
Left(place) == [Idle EXCEPT !.at = place]

Decided(r) ==
  IF Decision(r) = "passed" THEN [hit[r] EXCEPT !.at = "passed", !.count = 0]
                            ELSE [hit[r] EXCEPT !.at = "limited", !.count = 0, !.age = Window]

\* TTL is negative for a key that is not there and for one without an expiry.
Unarmed(c) == counter[c].ttl = 0

\* A bug: only the request that created the counter arms it.
MutTtl(r) ==
  /\ hit[r].at = "ttl"
  /\ hit' = IF hit[r].count = 1 THEN [hit EXCEPT ![r].at = "expire"]
                               ELSE [hit EXCEPT ![r] = Decided(r)]
  /\ UNCHANGED <<counter, faults>>

Ttl(r) ==
  /\ hit[r].at = "ttl"
  /\ hit' = IF Unarmed(ClientOf[r]) THEN [hit EXCEPT ![r].at = "expire"]
                                   ELSE [hit EXCEPT ![r] = Decided(r)]
  /\ UNCHANGED <<counter, faults>>

\* A bug: a window is added to the one that runs.
MutArm(c) == [counter EXCEPT ![c].ttl = IF counter[c].count = 0 THEN 0 ELSE @ + Window]

\* EXPIRE of a key that is not there changes nothing.
Arm(c) == [counter EXCEPT ![c].ttl = IF counter[c].count = 0 THEN 0 ELSE Window]

Expire(r) ==
  /\ hit[r].at = "expire"
  /\ counter' = Arm(ClientOf[r])
  /\ hit' = [hit EXCEPT ![r] = Decided(r)]
  /\ UNCHANGED faults

\* A call to Redis raises, whether or not Redis carried it out: the request is
\* let through.
FailOpen(r) ==
  /\ hit[r].at \in {"new", "ttl", "expire"}
  /\ faults < MaxFaults
  /\ faults' = faults + 1
  /\ \/ UNCHANGED counter
     \/ hit[r].at = "new" /\ Increment(r)
     \/ hit[r].at = "expire" /\ counter' = Arm(ClientOf[r])
  /\ hit' = [hit EXCEPT ![r] = Left("failedOpen")]

\* RateLimit.__call__, for request r.
RateLimit(r) == Incr(r) \/ Ttl(r) \/ Expire(r) \/ FailOpen(r)

\* The API process dies with every request it is serving.
LoseHits(lost) ==
  /\ faults < MaxFaults
  /\ faults' = faults + 1
  /\ hit' = [r \in Requests |-> IF r \in lost THEN Left("lost") ELSE hit[r]]
  /\ UNCHANGED counter

----------------------------------------------------------------------------

(***************************************************************************)
(* A counter without an expiry would lock its client out for ever.  Every  *)
(* request that incremented the present counter and went through the       *)
(* limiter to its end has armed it: one is unarmed only while all the      *)
(* requests it counts are still in the limiter, failed or died there.      *)
(* (hit: "un contador nunca queda pegado")                                 *)
(***************************************************************************)
NeverStuck ==
  \A r \in Requests :
    hit[r].fresh /\ hit[r].at \in {"passed", "limited"} => ~Unarmed(ClientOf[r])

(***************************************************************************)
(* In the last Window ticks, at any moment, a client gets at most twice    *)
(* the limit through by counting: a stretch meets at most two windows,     *)
(* because none is shorter than Window whatever the order of the calls.    *)
(***************************************************************************)
Admitted(c) ==
  {r \in Requests : ClientOf[r] = c /\ hit[r].at = "passed" /\ hit[r].age < Window}

AtMostTwiceTheLimit == \A c \in Clients : Cardinality(Admitted(c)) <= 2 * Limit
=============================================================================
