------------------------------ MODULE TokenCache ------------------------------
(***************************************************************************)
(* The installation tokens GitHub gives the App for an installation, and   *)
(* the copy Redis keeps of the last one.  A task that needs a token takes  *)
(* the cached one or asks GitHub for another and caches it, then uses it.  *)
(* Time passes between any two of these steps, in ticks.                   *)
(***************************************************************************)
EXTENDS Naturals

CONSTANTS
  Tasks,     \* whoever needs a token of the installation, each once
  Life,      \* how long GitHub honours a token (3600 s)
  Slack,     \* _EXPIRY_SLACK_S
  MaxDelay,  \* bound: the time from GitHub's answer to the cache, and from
             \* having a token to using it
  NoToken

\* The margin covers both delays.
ASSUME MarginOK ==
  /\ Life \in Nat /\ Slack \in Nat /\ MaxDelay \in Nat
  /\ 2 * MaxDelay <= Slack /\ Slack < Life

VARIABLES
  cached,  \* Redis: the age of the token it has and how long it keeps it
  holder   \* per task: where it is, the age of its token, how long it has waited

tokens == <<cached, holder>>

Places == {"idle", "missed", "issued", "served", "used", "failed"}

Cached == [age : Nat, ttl : Nat]

ASSUME NoTokenOK == NoToken \notin Cached

TokensTypeOK ==
  /\ cached \in Cached \cup {NoToken}
  /\ holder \in [Tasks -> [at : Places, age : Nat, wait : Nat]]

Holding(place, age) == [at |-> place, age |-> age, wait |-> 0]

TokensInit ==
  /\ cached = NoToken
  /\ holder = [t \in Tasks |-> Holding("idle", 0)]

Waiting(t) == holder[t].at \in {"issued", "served"}

\* Redis forgets the token at the end of its time to live.
Aged == IF cached = NoToken \/ cached.ttl <= 1 THEN NoToken
        ELSE [age |-> cached.age + 1, ttl |-> cached.ttl - 1]

Tick ==
  /\ \A t \in Tasks : Waiting(t) => holder[t].wait < MaxDelay
  /\ cached' = IF cached = NoToken THEN NoToken ELSE Aged
  /\ holder' = [t \in Tasks |->
                  IF Waiting(t) THEN [holder[t] EXCEPT !.age = @ + 1, !.wait = @ + 1]
                                ELSE holder[t]]

\* _try_cache_get: no Redis, a failure of Redis and a value that cannot be
\* decrypted are misses.
TryCacheGet(t) ==
  /\ holder[t].at = "idle"
  /\ \/ /\ cached # NoToken
        /\ holder' = [holder EXCEPT ![t] = Holding("served", cached.age)]
     \/ holder' = [holder EXCEPT ![t] = Holding("missed", 0)]
  /\ UNCHANGED cached

\* _fetch_from_github: a token, or InstallationTokenError.
FetchFromGitHub(t) ==
  /\ holder[t].at = "missed"
  /\ \E place \in {"issued", "failed"} :
       holder' = [holder EXCEPT ![t] = Holding(place, 0)]
  /\ UNCHANGED cached

\* A bug: the cache keeps a token for its whole life.
MutTtl == Life

\* A bug: the difference the other way round.
MutTtlSwapped == Slack - Life

Ttl == Life - Slack

\* _try_cache_set: a failure of Redis leaves the cache as it is.
TryCacheSet(t) ==
  /\ holder[t].at = "issued"
  /\ cached' \in {cached, [age |-> holder[t].age, ttl |-> Ttl]}
  /\ holder' = [holder EXCEPT ![t] = Holding("served", holder[t].age)]

GetInstallationToken(t) == TryCacheGet(t) \/ FetchFromGitHub(t) \/ TryCacheSet(t)

\* The task makes its call with the token.
Use(t) ==
  /\ holder[t].at = "served"
  /\ holder' = [holder EXCEPT ![t] = Holding("used", 0)]
  /\ UNCHANGED cached
----------------------------------------------------------------------------

(***************************************************************************)
(* A token in the hand of a task that is about to use it is alive, whether *)
(* it came from GitHub or from the cache, however late it was cached and   *)
(* however old the entry was.  (_try_cache_set: "el token en caché siempre *)
(* expira ANTES de que GitHub lo invalide")                                *)
(***************************************************************************)
TokenInHandIsAlive ==
  \A t \in Tasks : holder[t].at = "served" => holder[t].age < Life
=============================================================================
