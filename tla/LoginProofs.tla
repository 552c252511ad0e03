----------------------------- MODULE LoginProofs -----------------------------
(***************************************************************************)
(* Signing in, for every number of tabs, accounts and clients, any limit   *)
(* and window and any number of faults: the limiter locks nobody out, a    *)
(* state serves one callback, a session is of the account that opened it.  *)
(***************************************************************************)
EXTENDS Login, FiniteSetTheorems, TLAPS

(* The client whose counter a request increments.                          *)
LEMMA ClientType ==
  ASSUME NEW r \in Requests
  PROVE  ClientOf[r] \in Clients
  BY LimiterOK

-----------------------------------------------------------------------------
(* The limiter.  What the rest of the sign-in does to it is a fault that   *)
(* touches neither a counter nor a request in the limiter.                 *)

OnlyCounts == faults' \in 0 .. MaxFaults /\ UNCHANGED <<counter, hit>>

LimiterNext ==
  \/ Tick
  \/ \E r \in Requests : RateLimit(r)
  \/ \E lost \in SUBSET Requests : LoseHits(lost)
  \/ OnlyCounts

(* The counter that a request incremented has counted it, and is armed by  *)
(* the time the request leaves the limiter.                                *)
Counted ==
  \A r \in Requests : hit[r].fresh => counter[ClientOf[r]].count # 0

LimiterInv == LimiterTypeOK /\ Counted /\ NeverStuck

LEMMA LimiterStarts == LimiterInit => LimiterInv
  BY LimiterOK DEF LimiterInit, LimiterInv, LimiterTypeOK, Counted, NeverStuck, Idle, NoKey, Places

LEMMA ShorterTtl ==
  ASSUME NEW k \in [count : Nat, ttl : 0 .. Window], k.ttl # 0
  PROVE  [k EXCEPT !.ttl = @ - 1] \in [count : Nat, ttl : 0 .. Window]
<1>1. ASSUME NEW n \in 0 .. Window, n # 0
      PROVE  n - 1 \in 0 .. Window
  BY <1>1, LimiterOK
<1>2. k.ttl - 1 \in 0 .. Window
  BY <1>1
<1> QED  BY <1>2

LEMMA LeavesLimiter ==
  ASSUME NEW h \in [at : Places, count : Nat, age : 0 .. Window, fresh : BOOLEAN]
  PROVE  /\ [h EXCEPT !.at = "passed", !.count = 0]
              \in [at : Places, count : Nat, age : 0 .. Window, fresh : BOOLEAN]
         /\ [h EXCEPT !.at = "limited", !.count = 0, !.age = Window]
              \in [at : Places, count : Nat, age : 0 .. Window, fresh : BOOLEAN]
<1> DEFINE Hits == [at : Places, count : Nat, age : 0 .. Window, fresh : BOOLEAN]
<1>1. Window \in 0 .. Window
  BY LimiterOK
<1>2. \A place \in Places : [h EXCEPT !.at = place] \in Hits
  OBVIOUS
<1>3. \A x \in Hits : [x EXCEPT !.count = 0] \in Hits /\ [x EXCEPT !.age = Window] \in Hits
  BY <1>1
<1>4. "passed" \in Places /\ "limited" \in Places
  BY DEF Places
<1> QED  BY <1>2, <1>3, <1>4

LEMMA LimiterTypes ==
  ASSUME LimiterTypeOK, LimiterNext
  PROVE  LimiterTypeOK'
<1> USE LimiterOK, ClientType DEF LimiterTypeOK
<1> DEFINE Hits == [at : Places, count : Nat, age : 0 .. Window, fresh : BOOLEAN]
<1>1. CASE Tick
  <2>1. \A r \in Requests : Older(r) \in Hits
    <3> SUFFICES ASSUME NEW r \in Requests
                 PROVE  Older(r) \in Hits
      OBVIOUS
    <3>1. hit[r] \in Hits
      OBVIOUS
    <3>2. (IF hit[r].age < Window THEN hit[r].age + 1 ELSE hit[r].age) \in 0 .. Window
      BY <3>1
    <3>3. (hit[r].fresh /\ counter[ClientOf[r]].ttl # 1) \in BOOLEAN
      OBVIOUS
    <3> QED  BY <3>1, <3>2, <3>3 DEF Older
  <2>2. counter' \in [Clients -> [count : Nat, ttl : 0 .. Window]]
    <3> SUFFICES ASSUME NEW c \in Clients
                 PROVE  counter'[c] \in [count : Nat, ttl : 0 .. Window]
      BY <1>1 DEF Tick
    <3>1. CASE counter[c].ttl \in {0, 1}
      BY <1>1, <3>1 DEF Tick, NoKey
    <3>2. CASE counter[c].ttl \notin {0, 1}
      <4>1. counter'[c] = [counter[c] EXCEPT !.ttl = @ - 1]
        BY <1>1, <3>2 DEF Tick
      <4>2. counter[c] \in [count : Nat, ttl : 0 .. Window]
        OBVIOUS
      <4> QED  BY <3>2, <4>1, <4>2, ShorterTtl
    <3> QED  BY <3>1, <3>2
  <2> QED  BY <1>1, <2>1, <2>2 DEF Tick
<1>2. ASSUME NEW r \in Requests, Increment(r)
      PROVE  counter' \in [Clients -> [count : Nat, ttl : 0 .. Window]]
  BY <1>2 DEF Increment, Incremented
<1>3. ASSUME NEW r \in Requests
      PROVE  Arm(ClientOf[r]) \in [Clients -> [count : Nat, ttl : 0 .. Window]]
  BY <1>3 DEF Arm
<1>4. ASSUME NEW r \in Requests
      PROVE  Decided(r) \in Hits
  <2>1. hit[r] \in Hits
    OBVIOUS
  <2>2. /\ [hit[r] EXCEPT !.at = "passed", !.count = 0] \in Hits
        /\ [hit[r] EXCEPT !.at = "limited", !.count = 0, !.age = Window] \in Hits
    BY <2>1, LeavesLimiter
  <2> QED  BY <2>2 DEF Decided
<1>9. ASSUME NEW place \in Places
      PROVE  Left(place) \in Hits
  <2>1. Idle \in Hits
    BY DEF Idle, Places
  <2> QED  BY <2>1 DEF Left
<1> USE DEF Places
<1>5. ASSUME NEW r \in Requests, Incr(r) \/ Ttl(r) \/ Expire(r)
      PROVE  LimiterTypeOK'
  <2>1. CASE Incr(r)
    BY <1>2, <2>1 DEF Incr, Incremented
  <2>2. CASE Ttl(r)
    BY <1>4, <2>2 DEF Ttl
  <2>3. CASE Expire(r)
    BY <1>3, <1>4, <2>3 DEF Expire
  <2> QED  BY <1>5, <2>1, <2>2, <2>3
<1>6. ASSUME NEW r \in Requests, FailOpen(r)
      PROVE  LimiterTypeOK'
  <2>1. counter' \in [Clients -> [count : Nat, ttl : 0 .. Window]]
    BY <1>2, <1>3, <1>6 DEF FailOpen
  <2>2. faults' \in 0 .. MaxFaults
    BY <1>6 DEF FailOpen
  <2>3. Left("failedOpen") \in Hits
    BY <1>9
  <2> QED  BY <1>6, <2>1, <2>2, <2>3 DEF FailOpen
<1>7. ASSUME NEW lost \in SUBSET Requests, LoseHits(lost)
      PROVE  LimiterTypeOK'
  <2>1. Left("lost") \in Hits
    BY <1>9
  <2>2. faults' \in 0 .. MaxFaults
    BY <1>7 DEF LoseHits
  <2> QED  BY <1>7, <2>1, <2>2 DEF LoseHits
<1>8. CASE OnlyCounts
  BY <1>8 DEF OnlyCounts
<1> QED  BY <1>1, <1>5, <1>6, <1>7, <1>8 DEF LimiterNext, RateLimit

(* No call to Redis, in any order, leaves a counter of a request that got  *)
(* through the limiter without an expiry.                                  *)
LEMMA LimiterSteps ==
  ASSUME LimiterInv, LimiterNext
  PROVE  LimiterInv'
<1> USE LimiterOK, ClientType DEF LimiterInv, Counted, NeverStuck, Unarmed
<1>0. LimiterTypeOK'
  BY LimiterTypes
<1>1. CASE Tick
  <2> SUFFICES ASSUME NEW r \in Requests, hit'[r].fresh
               PROVE  /\ counter'[ClientOf[r]].count # 0
                      /\ hit'[r].at \in {"passed", "limited"} => counter'[ClientOf[r]].ttl # 0
    BY <1>0
  <2>1. /\ hit[r].fresh /\ counter[ClientOf[r]].ttl # 1
        /\ hit'[r].at = hit[r].at
    BY <1>1 DEF Tick, Older, LimiterTypeOK
  <2>2. CASE counter[ClientOf[r]].ttl = 0
    BY <1>1, <2>1, <2>2 DEF Tick
  <2>3. CASE counter[ClientOf[r]].ttl # 0
    <3>1. counter[ClientOf[r]] \in [count : Nat, ttl : 0 .. Window]
      BY DEF LimiterTypeOK
    <3>2. counter'[ClientOf[r]] = [counter[ClientOf[r]] EXCEPT !.ttl = @ - 1]
      BY <1>1, <2>1, <2>3 DEF Tick
    <3> QED  BY <2>1, <2>3, <3>1, <3>2
  <2> QED  BY <2>2, <2>3
<1>2. ASSUME NEW r \in Requests, Incr(r)
      PROVE  Counted' /\ NeverStuck'
  <2>1. \A c \in Clients : /\ counter'[c].ttl = counter[c].ttl
                           /\ counter[c].count # 0 => counter'[c].count # 0
    BY <1>2 DEF Incr, Increment, Incremented, LimiterTypeOK
  <2>2. counter'[ClientOf[r]].count # 0 /\ hit'[r].at = "ttl"
    BY <1>2 DEF Incr, Increment, Incremented, LimiterTypeOK
  <2>3. \A x \in Requests \ {r} : hit'[x] = hit[x]
    BY <1>2 DEF Incr, LimiterTypeOK
  <2> QED  BY <2>1, <2>2, <2>3
<1>3. ASSUME NEW r \in Requests, Ttl(r)
      PROVE  Counted' /\ NeverStuck'
  <2>1. hit'[r].fresh = hit[r].fresh
    BY <1>3 DEF Ttl, Decided, LimiterTypeOK
  <2>2. hit'[r].at # "expire" => counter[ClientOf[r]].ttl # 0
    BY <1>3 DEF Ttl, LimiterTypeOK
  <2>3. \A x \in Requests \ {r} : hit'[x] = hit[x]
    BY <1>3 DEF Ttl, LimiterTypeOK
  <2> QED  BY <1>3, <2>1, <2>2, <2>3 DEF Ttl
<1>4. ASSUME NEW r \in Requests, counter' = Arm(ClientOf[r])
      PROVE  \A c \in Clients : /\ counter'[c].count = counter[c].count
                                /\ counter[c].count # 0 /\ counter[c].ttl # 0 => counter'[c].ttl # 0
                                /\ counter[c].count # 0 /\ c = ClientOf[r] => counter'[c].ttl # 0
  BY <1>4 DEF Arm, LimiterTypeOK
<1>5. ASSUME NEW r \in Requests, Expire(r)
      PROVE  Counted' /\ NeverStuck'
  <2>1. hit'[r].fresh = hit[r].fresh
    BY <1>5 DEF Expire, Decided, LimiterTypeOK
  <2>2. \A x \in Requests \ {r} : hit'[x] = hit[x]
    BY <1>5 DEF Expire, LimiterTypeOK
  <2> QED  BY <1>4, <1>5, <2>1, <2>2 DEF Expire
<1>6. ASSUME NEW r \in Requests, FailOpen(r)
      PROVE  Counted' /\ NeverStuck'
  <2>1. /\ ~hit'[r].fresh
        /\ \A x \in Requests \ {r} : hit'[x] = hit[x]
    BY <1>6 DEF FailOpen, Left, Idle, LimiterTypeOK
  <2>2. \A c \in Clients : /\ counter[c].count # 0 => counter'[c].count # 0
                           /\ counter[c].count # 0 /\ counter[c].ttl # 0 => counter'[c].ttl # 0
    <3>1. CASE Increment(r)
      BY <3>1 DEF Increment, Incremented, LimiterTypeOK
    <3> QED  BY <1>4, <1>6, <3>1 DEF FailOpen
  <2> QED  BY <2>1, <2>2
<1>7. ASSUME NEW lost \in SUBSET Requests, LoseHits(lost)
      PROVE  Counted' /\ NeverStuck'
  BY <1>7 DEF LoseHits, Left, Idle, LimiterTypeOK
<1>8. CASE OnlyCounts
  <2>1. Counted' /\ NeverStuck'
    BY <1>8 DEF OnlyCounts
  <2> QED  BY <2>1, <1>0
<1> QED  BY <1>0, <1>1, <1>2, <1>3, <1>5, <1>6, <1>7, <1>8 DEF LimiterNext, RateLimit

LEMMA LimiterOfLogin ==
  ASSUME LimiterTypeOK, Next
  PROVE  LimiterNext
<1> USE LimiterOK DEF LimiterNext
<1>1. ASSUME Fails
      PROVE  OnlyCounts
  BY <1>1 DEF Fails, OnlyCounts, LimiterTypeOK
<1>2. ASSUME Works
      PROVE  OnlyCounts
  BY <1>2 DEF Works, limiter, OnlyCounts, LimiterTypeOK
<1>3. CASE Tick /\ UNCHANGED login
  BY <1>3
<1>4. ASSUME NEW r \in Requests, Limiter(r)
      PROVE  LimiterNext
  BY <1>4 DEF Limiter
<1>5. ASSUME NEW r \in Requests, IssueState(r) \/ Callback(r)
      PROVE  OnlyCounts
  BY <1>1, <1>2, <1>5
  DEF IssueState, Callback, ConsumeState, ExchangeCode, FetchIdentity, UpsertUser, OpenSession,
      SetCookie
<1>6. ASSUME NEW t \in Tabs, Decide(t) \/ ExpireState(t)
      PROVE  OnlyCounts
  BY <1>1, <1>2, <1>6 DEF Decide, ExpireState, Works, limiter
<1>7. ASSUME NEW b \in Browsers, Logout(b) \/ ClearCookie(b)
      PROVE  OnlyCounts
  BY <1>1, <1>2, <1>7 DEF Logout, ClearCookie, Works, limiter
<1>8. ASSUME NEW r \in Callbacks, ExpireSession(r)
      PROVE  OnlyCounts
  BY <1>1, <1>8 DEF ExpireSession
<1>9. CASE ApiCrash
  BY <1>9 DEF ApiCrash, Serving
<1> QED  BY <1>3, <1>4, <1>5, <1>6, <1>7, <1>8, <1>9 DEF Next

(* A counter that a finished request incremented has an expiry: the client *)
(* is never locked out for good, whatever fails or overlaps.               *)
THEOREM NobodyLockedOut == Spec => []NeverStuck
<1>1. Init => LimiterInv
  BY LimiterStarts DEF Init
<1>2. LimiterInv /\ [Next]_vars => LimiterInv'
  <2>1. CASE UNCHANGED vars
    BY <2>1 DEF vars, limiter, LimiterInv, LimiterTypeOK, Counted, NeverStuck, Unarmed
  <2> QED  BY <2>1, LimiterOfLogin, LimiterSteps DEF LimiterInv
<1>3. LimiterInv => NeverStuck
  BY DEF LimiterInv
<1> QED  BY <1>1, <1>2, <1>3, PTL DEF Spec

-----------------------------------------------------------------------------
(* Windows.  Of the requests that count within the limit, those of the     *)
(* present counter are at most the limit, and so are those of the counters *)
(* before it that are younger than a window: when the present one expires, *)
(* all of them are older.                                                  *)

MayPass(r) ==
  hit[r].at = "passed" \/ (hit[r].at \in {"ttl", "expire"} /\ hit[r].count <= Limit)

OfCounter(c) == {r \in Requests : ClientOf[r] = c /\ MayPass(r) /\ hit[r].fresh}

OfOlder(c) ==
  {r \in Requests : ClientOf[r] = c /\ MayPass(r) /\ ~hit[r].fresh /\ hit[r].age < Window}

WindowOK(c) ==
  /\ Cardinality(OfCounter(c)) <= counter[c].count
  /\ Cardinality(OfCounter(c)) <= Limit
  /\ Cardinality(OfOlder(c)) <= Limit
  /\ counter[c].ttl # 0 => \A r \in OfOlder(c) : hit[r].age + counter[c].ttl >= Window

WindowsInv == LimiterTypeOK /\ \A c \in Clients : WindowOK(c)

LEMMA FiniteCounts ==
  ASSUME NEW S, S \subseteq Requests
  PROVE  /\ IsFiniteSet(S) /\ Cardinality(S) \in Nat
         /\ \A T \in SUBSET S : Cardinality(T) <= Cardinality(S)
<1>1. IsFiniteSet(S)
  BY LimiterOK, FS_Subset
<1> QED  BY <1>1, FS_Subset, FS_CardinalityType

LEMMA WindowsStart == LimiterInit => WindowsInv
<1> SUFFICES ASSUME LimiterInit PROVE WindowsInv
  OBVIOUS
<1>1. LimiterTypeOK
  BY LimiterStarts DEF LimiterInv
<1>2. ASSUME NEW c \in Clients
      PROVE  WindowOK(c)
  <2>1. OfCounter(c) = {} /\ OfOlder(c) = {}
    BY DEF LimiterInit, OfCounter, OfOlder, MayPass, Idle
  <2>2. Cardinality({}) = 0
    BY FS_EmptySet
  <2>3. counter[c].count = 0 /\ counter[c].ttl = 0
    BY DEF LimiterInit, NoKey
  <2> QED  BY <2>1, <2>2, <2>3, LimiterOK DEF WindowOK
<1> QED  BY <1>1, <1>2 DEF WindowsInv

(* A window that counts nobody more and is not cut short.                  *)
LEMMA WindowKept ==
  ASSUME WindowsInv, LimiterTypeOK', NEW c \in Clients,
         OfCounter(c)' \subseteq OfCounter(c), OfOlder(c)' \subseteq OfOlder(c),
         counter[c].count <= counter'[c].count,
         counter'[c].ttl # 0 =>
           \/ counter'[c].ttl = Window
           \/ counter'[c].ttl = counter[c].ttl /\ \A r \in OfOlder(c)' : hit'[r].age = hit[r].age
  PROVE  WindowOK(c)'
<1>1. OfCounter(c) \subseteq Requests /\ OfOlder(c) \subseteq Requests
  BY DEF OfCounter, OfOlder
<1>2. /\ Cardinality(OfCounter(c)') <= Cardinality(OfCounter(c))
      /\ Cardinality(OfOlder(c)') <= Cardinality(OfOlder(c))
      /\ Cardinality(OfCounter(c)) \in Nat /\ Cardinality(OfOlder(c)) \in Nat
  BY <1>1, FiniteCounts
<1>3. Cardinality(OfCounter(c)') \in Nat /\ Cardinality(OfOlder(c)') \in Nat
  <2>1. OfCounter(c)' \subseteq Requests /\ OfOlder(c)' \subseteq Requests
    BY <1>1
  <2> QED  BY <2>1, FiniteCounts
<1>4. counter[c].count \in Nat /\ counter'[c].count \in Nat
  BY DEF WindowsInv, LimiterTypeOK
<1>5. /\ Cardinality(OfCounter(c)') <= counter'[c].count
      /\ Cardinality(OfCounter(c)') <= Limit /\ Cardinality(OfOlder(c)') <= Limit
  BY <1>2, <1>3, <1>4, LimiterOK DEF WindowsInv, WindowOK
<1>6. ASSUME counter'[c].ttl # 0, NEW r \in OfOlder(c)'
      PROVE  hit'[r].age + counter'[c].ttl >= Window
  <2>1. r \in Requests /\ r \in OfOlder(c) /\ hit'[r].age \in Nat
    BY <1>1, <1>6 DEF LimiterTypeOK
  <2>2. CASE counter'[c].ttl = Window
    BY <2>1, <2>2, LimiterOK
  <2>3. CASE counter'[c].ttl = counter[c].ttl /\ hit'[r].age = hit[r].age
    BY <1>6, <2>1, <2>3 DEF WindowsInv, WindowOK
  <2> QED  BY <1>6, <2>2, <2>3
<1> QED  BY <1>5, <1>6 DEF WindowOK

(* A step of request r that does not make it pass.                         *)
LEMMA WindowKeptBy ==
  ASSUME WindowsInv, LimiterTypeOK', NEW r \in Requests, NEW c \in Clients,
         \A x \in Requests \ {r} : hit'[x] = hit[x],
         MayPass(r)' => MayPass(r) /\ hit'[r].fresh = hit[r].fresh /\ hit'[r].age = hit[r].age,
         counter[c].count <= counter'[c].count,
         counter'[c].ttl # 0 => counter'[c].ttl = Window \/ counter'[c].ttl = counter[c].ttl
  PROVE  WindowOK(c)'
<1>1. OfCounter(c)' \subseteq OfCounter(c)
  BY DEF OfCounter, MayPass
<1>2. OfOlder(c)' \subseteq OfOlder(c) /\ \A x \in OfOlder(c)' : hit'[x].age = hit[x].age
  BY DEF OfOlder, MayPass
<1> QED  BY <1>1, <1>2, WindowKept

LEMMA WindowIncr ==
  ASSUME WindowsInv, LimiterTypeOK', NEW r \in Requests, Incr(r), NEW c \in Clients
  PROVE  WindowOK(c)'
<1> DEFINE n == counter[c].count
<1>0. n \in Nat /\ Limit \in Nat
  BY LimiterOK DEF WindowsInv, LimiterTypeOK
<1>1. /\ \A x \in Requests \ {r} : hit'[x] = hit[x]
      /\ hit[r].at = "new"
      /\ hit'[r] = [at |-> "ttl", count |-> Incremented(r), age |-> 0, fresh |-> TRUE]
  BY DEF Incr, WindowsInv, LimiterTypeOK
<1>2. CASE c # ClientOf[r]
  <2>1. counter'[c] = counter[c]
    BY <1>2 DEF Incr, Increment, WindowsInv, LimiterTypeOK
  <2>2. OfCounter(c)' \subseteq OfCounter(c)
    BY <1>1, <1>2 DEF OfCounter, MayPass
  <2>3. OfOlder(c)' \subseteq OfOlder(c) /\ \A x \in OfOlder(c)' : hit'[x].age = hit[x].age
    BY <1>1, <1>2 DEF OfOlder, MayPass
  <2> QED  BY <1>0, <2>1, <2>2, <2>3, WindowKept
<1>3. CASE c = ClientOf[r]
  <2>1. counter'[c].count = n + 1 /\ counter'[c].ttl = counter[c].ttl /\ Incremented(r) = n + 1
    BY <1>3 DEF Incr, Increment, Incremented, WindowsInv, LimiterTypeOK
  <2>2. OfOlder(c)' \subseteq OfOlder(c) /\ \A x \in OfOlder(c)' : hit'[x].age = hit[x].age
    BY <1>1 DEF OfOlder, MayPass
  <2>3. CASE n + 1 <= Limit
    <3>1. OfCounter(c)' \subseteq OfCounter(c) \union {r}
      BY <1>1 DEF OfCounter, MayPass
    <3>2. OfCounter(c) \subseteq Requests /\ OfCounter(c) \union {r} \subseteq Requests
          /\ OfOlder(c) \subseteq Requests /\ OfCounter(c)' \subseteq Requests
          /\ OfOlder(c)' \subseteq Requests
      BY DEF OfCounter, OfOlder
    <3>3. Cardinality(OfCounter(c) \union {r}) <= Cardinality(OfCounter(c)) + 1
          /\ Cardinality(OfCounter(c)) \in Nat
      BY <3>2, FiniteCounts, FS_AddElement
    <3>4. Cardinality(OfCounter(c)') <= Cardinality(OfCounter(c) \union {r})
          /\ Cardinality(OfCounter(c)') \in Nat /\ Cardinality(OfCounter(c) \union {r}) \in Nat
      BY <3>1, <3>2, FiniteCounts
    <3>5. Cardinality(OfOlder(c)') <= Cardinality(OfOlder(c))
          /\ Cardinality(OfOlder(c)') \in Nat /\ Cardinality(OfOlder(c)) \in Nat
      BY <2>2, <3>2, FiniteCounts
    <3>6. Cardinality(OfCounter(c)) <= n /\ Cardinality(OfOlder(c)) <= Limit
      BY DEF WindowsInv, WindowOK
    <3>7. Cardinality(OfCounter(c)') <= n + 1 /\ Cardinality(OfOlder(c)') <= Limit
      BY <1>0, <3>3, <3>4, <3>5, <3>6
    <3>8. Cardinality(OfCounter(c)') <= Limit
      BY <1>0, <2>3, <3>4, <3>7
    <3>9. counter'[c].ttl # 0 => \A x \in OfOlder(c)' : hit'[x].age + counter'[c].ttl >= Window
      BY <2>1, <2>2 DEF WindowsInv, WindowOK
    <3> QED  BY <2>1, <3>7, <3>8, <3>9 DEF WindowOK
  <2>4. CASE ~(n + 1 <= Limit)
    <3>1. OfCounter(c)' \subseteq OfCounter(c)
      BY <1>1, <2>1, <2>4 DEF OfCounter, MayPass
    <3>2. n <= counter'[c].count
      BY <1>0, <2>1
    <3> QED  BY <2>1, <2>2, <3>1, <3>2, WindowKept
  <2> QED  BY <2>3, <2>4
<1> QED  BY <1>2, <1>3

(* Time: when a counter expires, those it counts become the older ones.    *)
LEMMA WindowTick ==
  ASSUME WindowsInv, LimiterTypeOK', Tick, NEW c \in Clients
  PROVE  WindowOK(c)'
<1> DEFINE k == counter[c].ttl
<1>0. k \in Nat /\ Window \in Nat /\ Limit \in Nat /\ counter[c].count \in Nat
      /\ \A r \in Requests : hit[r].age \in Nat /\ hit'[r].age \in Nat
  BY LimiterOK DEF WindowsInv, LimiterTypeOK
<1>1. \A r \in Requests :
        /\ hit'[r].at = hit[r].at /\ hit'[r].count = hit[r].count
        /\ hit'[r].fresh = (hit[r].fresh /\ counter[ClientOf[r]].ttl # 1)
        /\ hit'[r].age = IF hit[r].age < Window THEN hit[r].age + 1 ELSE hit[r].age
  BY DEF Tick, Older, WindowsInv, LimiterTypeOK
<1>2. \A r \in Requests : MayPass(r)' <=> MayPass(r)
  BY <1>1 DEF MayPass
<1>3. OfCounter(c) \subseteq Requests /\ OfOlder(c) \subseteq Requests
      /\ OfCounter(c)' \subseteq Requests /\ OfOlder(c)' \subseteq Requests
  BY DEF OfCounter, OfOlder
<1>4. CASE k = 1
  <2>1. counter'[c] = NoKey
    BY <1>4 DEF Tick
  <2>2. OfCounter(c)' = {}
    BY <1>1, <1>4 DEF OfCounter
  <2>3. OfOlder(c)' \subseteq OfCounter(c)
    <3> SUFFICES ASSUME NEW r \in OfOlder(c)' PROVE r \in OfCounter(c)
      OBVIOUS
    <3>1. r \in Requests /\ ClientOf[r] = c /\ MayPass(r) /\ hit'[r].age < Window
      BY <1>2 DEF OfOlder
    <3>2. hit[r].age + 1 < Window
      BY <1>0, <1>1, <3>1
    <3>3. r \notin OfOlder(c)
      BY <1>0, <1>4, <3>1, <3>2 DEF WindowsInv, WindowOK
    <3>4. hit[r].age < Window
      BY <1>0, <3>1, <3>2
    <3> QED  BY <3>1, <3>3, <3>4 DEF OfOlder, OfCounter
  <2>4. Cardinality(OfOlder(c)') <= Cardinality(OfCounter(c))
        /\ Cardinality(OfOlder(c)') \in Nat /\ Cardinality(OfCounter(c)) \in Nat
    BY <1>3, <2>3, FiniteCounts
  <2>5. Cardinality(OfOlder(c)') <= Limit
    BY <1>0, <2>4 DEF WindowsInv, WindowOK
  <2>6. Cardinality(OfCounter(c)') = 0
    BY <2>2, FS_EmptySet
  <2> QED  BY <1>0, <2>1, <2>5, <2>6 DEF WindowOK, NoKey
<1>5. CASE k # 1
  <2>1. OfCounter(c)' \subseteq OfCounter(c)
    BY <1>1, <1>2 DEF OfCounter
  <2>2. \A r \in OfOlder(c)' : r \in OfOlder(c) /\ hit'[r].age = hit[r].age + 1
    <3> SUFFICES ASSUME NEW r \in OfOlder(c)'
                 PROVE  r \in OfOlder(c) /\ hit'[r].age = hit[r].age + 1
      OBVIOUS
    <3>1. r \in Requests /\ ClientOf[r] = c /\ MayPass(r) /\ hit'[r].age < Window /\ ~hit'[r].fresh
      BY <1>2 DEF OfOlder
    <3>2. hit[r].age < Window /\ hit'[r].age = hit[r].age + 1
      BY <1>0, <1>1, <3>1
    <3>3. ~hit[r].fresh
      BY <1>1, <1>5, <3>1
    <3> QED  BY <3>1, <3>2, <3>3 DEF OfOlder
  <2>3. CASE k = 0
    <3>1. counter'[c] = counter[c]
      BY <2>3 DEF Tick
    <3>2. OfOlder(c)' \subseteq OfOlder(c)
      BY <2>2
    <3> QED  BY <1>0, <2>1, <2>3, <3>1, <3>2, WindowKept
  <2>4. CASE k # 0
    <3>1. counter'[c] = [counter[c] EXCEPT !.ttl = @ - 1]
      BY <1>5, <2>4 DEF Tick
    <3>2. counter'[c].count = counter[c].count /\ counter'[c].ttl = k - 1
      BY <3>1 DEF WindowsInv, LimiterTypeOK
    <3>3. \A r \in OfOlder(c)' : hit'[r].age + counter'[c].ttl >= Window
      <4> SUFFICES ASSUME NEW r \in OfOlder(c)'
                   PROVE  hit'[r].age + counter'[c].ttl >= Window
        OBVIOUS
      <4>1. hit[r].age + k >= Window /\ hit'[r].age = hit[r].age + 1 /\ r \in Requests
        BY <1>3, <2>2, <2>4 DEF WindowsInv, WindowOK
      <4> QED  BY <1>0, <3>2, <4>1
    <3>4. /\ Cardinality(OfCounter(c)') <= Cardinality(OfCounter(c))
          /\ Cardinality(OfOlder(c)') <= Cardinality(OfOlder(c))
          /\ Cardinality(OfCounter(c)) \in Nat /\ Cardinality(OfOlder(c)) \in Nat
          /\ Cardinality(OfCounter(c)') \in Nat /\ Cardinality(OfOlder(c)') \in Nat
      <4>1. OfOlder(c)' \subseteq OfOlder(c)
        BY <2>2
      <4> QED  BY <1>3, <2>1, <4>1, FiniteCounts
    <3>5. /\ Cardinality(OfCounter(c)') <= counter'[c].count
          /\ Cardinality(OfCounter(c)') <= Limit /\ Cardinality(OfOlder(c)') <= Limit
      BY <1>0, <3>2, <3>4 DEF WindowsInv, WindowOK
    <3> QED  BY <3>3, <3>5 DEF WindowOK
  <2> QED  BY <2>3, <2>4
<1> QED  BY <1>4, <1>5

LEMMA WindowsStep ==
  ASSUME WindowsInv, LimiterNext
  PROVE  WindowsInv'
<1>0. LimiterTypeOK /\ LimiterTypeOK' /\ \A c \in Clients : counter[c].count \in Nat
  BY LimiterTypes DEF WindowsInv, LimiterTypeOK
<1> SUFFICES ASSUME NEW c \in Clients PROVE WindowOK(c)'
  BY <1>0 DEF WindowsInv
<1>1. CASE Tick
  BY <1>0, <1>1, WindowTick
<1>2. ASSUME NEW r \in Requests, Incr(r) PROVE WindowOK(c)'
  BY <1>0, <1>2, WindowIncr
<1>3. ASSUME NEW r \in Requests, counter' = Arm(ClientOf[r])
      PROVE  /\ counter[c].count <= counter'[c].count
             /\ counter'[c].ttl # 0 => counter'[c].ttl = Window \/ counter'[c].ttl = counter[c].ttl
  BY <1>0, <1>3 DEF Arm, LimiterTypeOK
<1>4. ASSUME NEW r \in Requests, hit' = [hit EXCEPT ![r] = Decided(r)], hit[r].at \in {"ttl", "expire"}
      PROVE  /\ \A x \in Requests \ {r} : hit'[x] = hit[x]
             /\ MayPass(r)' => MayPass(r) /\ hit'[r].fresh = hit[r].fresh /\ hit'[r].age = hit[r].age
  BY <1>0, <1>4 DEF Decided, Decision, MayPass, LimiterTypeOK
<1>5. ASSUME NEW r \in Requests, Ttl(r) PROVE WindowOK(c)'
  <2>1. counter[c].count <= counter'[c].count /\ counter'[c].ttl = counter[c].ttl
    BY <1>0, <1>5 DEF Ttl
  <2>2. /\ \A x \in Requests \ {r} : hit'[x] = hit[x]
        /\ MayPass(r)' => MayPass(r) /\ hit'[r].fresh = hit[r].fresh /\ hit'[r].age = hit[r].age
    <3>1. CASE hit' = [hit EXCEPT ![r].at = "expire"]
      BY <1>0, <1>5, <3>1 DEF Ttl, MayPass, LimiterTypeOK
    <3>2. CASE hit' = [hit EXCEPT ![r] = Decided(r)]
      BY <1>4, <1>5, <3>2 DEF Ttl
    <3> QED  BY <1>5, <3>1, <3>2 DEF Ttl
  <2> QED  BY <1>0, <2>1, <2>2, WindowKeptBy
<1>6. ASSUME NEW r \in Requests, Expire(r) PROVE WindowOK(c)'
  <2>1. /\ \A x \in Requests \ {r} : hit'[x] = hit[x]
        /\ MayPass(r)' => MayPass(r) /\ hit'[r].fresh = hit[r].fresh /\ hit'[r].age = hit[r].age
    BY <1>4, <1>6 DEF Expire
  <2>2. /\ counter[c].count <= counter'[c].count
        /\ counter'[c].ttl # 0 => counter'[c].ttl = Window \/ counter'[c].ttl = counter[c].ttl
    BY <1>3, <1>6 DEF Expire
  <2> QED  BY <1>0, <2>1, <2>2, WindowKeptBy
<1>7. ASSUME NEW r \in Requests, FailOpen(r) PROVE WindowOK(c)'
  <2>1. /\ \A x \in Requests \ {r} : hit'[x] = hit[x]
        /\ ~MayPass(r)'
    BY <1>0, <1>7 DEF FailOpen, Left, Idle, MayPass, LimiterTypeOK
  <2>2. /\ counter[c].count <= counter'[c].count
        /\ counter'[c].ttl # 0 => counter'[c].ttl = Window \/ counter'[c].ttl = counter[c].ttl
    <3>1. CASE Increment(r)
      BY <1>0, <3>1 DEF Increment, Incremented, LimiterTypeOK
    <3> QED  BY <1>0, <1>3, <1>7, <3>1 DEF FailOpen
  <2> QED  BY <1>0, <2>1, <2>2, WindowKeptBy
<1>8. ASSUME NEW lost \in SUBSET Requests, LoseHits(lost) PROVE WindowOK(c)'
  <2>1. \A x \in Requests : MayPass(x)' => MayPass(x) /\ hit'[x] = hit[x]
    BY <1>8 DEF LoseHits, Left, Idle, MayPass
  <2>2. OfCounter(c)' \subseteq OfCounter(c) /\ OfOlder(c)' \subseteq OfOlder(c)
        /\ \A x \in OfOlder(c)' : hit'[x].age = hit[x].age
    BY <2>1 DEF OfCounter, OfOlder
  <2>3. counter' = counter
    BY <1>8 DEF LoseHits
  <2> QED  BY <1>0, <2>2, <2>3, WindowKept
<1>9. CASE OnlyCounts
  <2>1. OfCounter(c)' \subseteq OfCounter(c) /\ OfOlder(c)' \subseteq OfOlder(c)
        /\ \A x \in OfOlder(c)' : hit'[x].age = hit[x].age
    BY <1>9 DEF OnlyCounts, OfCounter, OfOlder, MayPass
  <2> QED  BY <1>0, <1>9, <2>1, WindowKept DEF OnlyCounts
<1> QED  BY <1>1, <1>2, <1>5, <1>6, <1>7, <1>8, <1>9 DEF LimiterNext, RateLimit

(* In any Window ticks a client gets at most twice the limit through,      *)
(* whatever calls overlap, expire, fail or arm a counter of another        *)
(* window.                                                                 *)
THEOREM TwiceTheLimit == Spec => []AtMostTwiceTheLimit
<1>1. Init => WindowsInv
  BY WindowsStart DEF Init
<1>2. WindowsInv /\ [Next]_vars => WindowsInv'
  <2>1. CASE UNCHANGED vars
    BY <2>1 DEF vars, limiter, WindowsInv, LimiterTypeOK, WindowOK, OfCounter, OfOlder, MayPass
  <2> QED  BY <2>1, LimiterOfLogin, WindowsStep DEF WindowsInv
<1>3. WindowsInv => AtMostTwiceTheLimit
  <2> SUFFICES ASSUME WindowsInv, NEW c \in Clients
               PROVE  Cardinality(Admitted(c)) <= 2 * Limit
    BY DEF AtMostTwiceTheLimit
  <2>1. Admitted(c) \subseteq OfCounter(c) \union OfOlder(c)
    BY DEF Admitted, OfCounter, OfOlder, MayPass, WindowsInv, LimiterTypeOK
  <2>2. OfCounter(c) \subseteq Requests /\ OfOlder(c) \subseteq Requests
        /\ OfCounter(c) \union OfOlder(c) \subseteq Requests
        /\ OfCounter(c) \intersect OfOlder(c) \subseteq Requests /\ Admitted(c) \subseteq Requests
    BY DEF OfCounter, OfOlder, Admitted
  <2>3. /\ Cardinality(Admitted(c)) <= Cardinality(OfCounter(c) \union OfOlder(c))
        /\ Cardinality(Admitted(c)) \in Nat /\ Cardinality(OfCounter(c) \union OfOlder(c)) \in Nat
        /\ Cardinality(OfCounter(c) \intersect OfOlder(c)) \in Nat
        /\ Cardinality(OfCounter(c)) \in Nat /\ Cardinality(OfOlder(c)) \in Nat
    BY <2>1, <2>2, FiniteCounts
  <2>4. Cardinality(OfCounter(c) \union OfOlder(c))
          = Cardinality(OfCounter(c)) + Cardinality(OfOlder(c))
            - Cardinality(OfCounter(c) \intersect OfOlder(c))
    BY <2>2, FiniteCounts, FS_Union
  <2>5. Cardinality(OfCounter(c)) <= Limit /\ Cardinality(OfOlder(c)) <= Limit
    BY DEF WindowsInv, WindowOK
  <2> QED  BY <2>3, <2>4, <2>5, LimiterOK
<1> QED  BY <1>1, <1>2, <1>3, PTL DEF Spec

-----------------------------------------------------------------------------
(* The sign-in.                                                            *)

LEMMA RequestTypes ==
  /\ \A r \in Requests : TabOf(r) \in Tabs
  /\ \A t \in Tabs : <<t, "login">> \in Requests /\ <<t, "login">> \notin Callbacks
  /\ \A t \in Tabs : <<t, "callback">> \in Callbacks
  /\ \A r \in Requests : BrowserOf[r] \in Browsers
  /\ \A t \in Tabs : TabOf(<<t, "callback">>) = t /\ KindOf(<<t, "callback">>) = "callback"
  /\ \A r \in Callbacks : r \in Requests /\ KindOf(r) \in {"callback", "reload"}
<1> USE LoginOK DEF TabOf, KindOf, Callbacks, Kinds
<1>1. \A r \in Requests : r[1] \in Tabs /\ r[2] \in Kinds
  OBVIOUS
<1>2. \A t \in Tabs : <<t, "login">>[2] = "login" /\ <<t, "callback">>[2] = "callback"
  OBVIOUS
<1> QED  BY <1>1, <1>2

Answered(r) == grant[TabOf(r)] \in Grants

(* A request past the limiter was sent by a user who had answered GitHub.  *)
SentAfterGrant ==
  \A r \in Callbacks : hit[r].at # "new" => Answered(r) \/ grant[TabOf(r)] = Denied

(* A callback past its state is of a sign-in that was approved.            *)
PastState ==
  \A r \in Requests : flow[r].at \notin {"start", "done"} => r \in Callbacks /\ Answered(r)

(* A state is issued once, by the login of its tab, and is gone when its   *)
(* callback goes to GitHub.                                                *)
IssuedOnce ==
  /\ \A t \in states : flow[<<t, "login">>].at = "done"
  /\ \A r \in Callbacks :
       flow[r].sent => TabOf(r) \notin states /\ flow[<<TabOf(r), "login">>].at = "done"

(* The sign-in of r was approved by account a.                             *)
ApprovedBy(r, a) == Answered(r) /\ grant[TabOf(r)].account = a

OneRowEach ==
  /\ \A u, v \in users : u.account = v.account \/ u.id = v.id => u = v
  /\ \A u \in users : ApprovedBy(u.id, u.account) /\ ApprovedBy(u.token, u.account)

StandsFor(r, id) == \E u \in users : u.id = id /\ ApprovedBy(r, u.account)

UsersStand ==
  /\ \A r \in Callbacks : flow[r].at = "open" => StandsFor(r, flow[r].user)
  /\ \A r \in DOMAIN sessions : StandsFor(r, sessions[r])

LoginInv ==
  /\ TypeOK /\ SentAfterGrant /\ PastState /\ IssuedOnce /\ StateConsumedOnce
  /\ OneRowEach /\ UsersStand

LEMMA LoginStarts == Init => LoginInv
  BY LimiterStarts, RequestTypes
  DEF Init, LoginInv, TypeOK, LimiterInv, LimiterInit, Idle, SentAfterGrant, PastState, IssuedOnce,
      StateConsumedOnce, OneRowEach, UsersStand, Steps, Outcomes

(* What GitHub was told stays: only the code of a sign-in is used up.      *)
LEMMA GrantsStay ==
  ASSUME TypeOK, PastState, Next
  PROVE  /\ grant' \in [Tabs -> {NoGrant, Denied} \cup Grants]
         /\ \A t \in Tabs :
              /\ grant[t] # NoGrant => grant'[t] # NoGrant
              /\ grant[t] \in Grants => grant'[t] \in Grants /\ grant'[t].account = grant[t].account
<1> USE NoGrantOK DEF TypeOK
<1>1. ASSUME NEW t \in Tabs, Decide(t)
      PROVE  /\ grant' \in [Tabs -> {NoGrant, Denied} \cup Grants]
             /\ \A x \in Tabs :
                  /\ grant[x] # NoGrant => grant'[x] = grant[x]
                  /\ grant[x] \in Grants => grant'[x] = grant[x]
  <2>1. PICK g \in {Denied} \cup [account : Accounts, code : {TRUE}] :
          grant' = [grant EXCEPT ![t] = g]
    BY <1>1 DEF Decide
  <2>2. g \in {Denied} \cup Grants
    BY DEF Grants
  <2>3. grant[t] = NoGrant
    BY <1>1 DEF Decide
  <2> QED  BY <2>1, <2>2, <2>3
<1>2. ASSUME NEW r \in Requests, ExchangeCode(r), grant' # grant
      PROVE  LET t == TabOf(r) IN
             grant[t] \in Grants /\ grant' = [grant EXCEPT ![t].code = FALSE]
  BY <1>2 DEF ExchangeCode, At, PastState, Answered
<1>3. ASSUME NEW t \in Tabs, grant[t] \in Grants, grant' = [grant EXCEPT ![t].code = FALSE]
      PROVE  /\ grant' \in [Tabs -> {NoGrant, Denied} \cup Grants]
             /\ \A x \in Tabs :
                  /\ grant[x] # NoGrant => grant'[x] # NoGrant
                  /\ grant[x] \in Grants => grant'[x] \in Grants /\ grant'[x].account = grant[x].account
  <2> DEFINE g == [grant[t] EXCEPT !.code = FALSE]
  <2>1. g \in Grants /\ g.account = grant[t].account
    BY <1>3 DEF Grants
  <2>2. grant' = [grant EXCEPT ![t] = g]
    BY <1>3
  <2> HIDE DEF g
  <2> QED  BY <2>1, <2>2
<1>4. \A r \in Requests : TabOf(r) \in Tabs
  BY RequestTypes
<1>5. CASE grant' = grant
  BY <1>5
<1>6. CASE \E t \in Tabs : Decide(t)
  BY <1>1, <1>6
<1>7. CASE \E r \in Requests : ExchangeCode(r)
  BY <1>2, <1>3, <1>4, <1>5, <1>7
<1> QED  BY <1>5, <1>6, <1>7
  DEF Next, login, Limiter, IssueState, Callback, ConsumeState, FetchIdentity, UpsertUser,
      OpenSession, SetCookie, ExpireState, Logout, ClearCookie, ExpireSession, ApiCrash

Flows == [at : Steps, user : Callbacks \cup {NoUser}, outcome : Outcomes, sent : BOOLEAN]

(* What a step may do to the request x.                                    *)
Moves(x) ==
  LET t == TabOf(x)  a == grant[t].account IN
  /\ flow[x].at = "done" => flow'[x].at = "done"
  /\ flow'[x].at \notin {"start", "done"} =>
       \/ flow[x].at \notin {"start", "done"}
       \/ x \in Callbacks /\ LetThrough(x) /\ grant[t] # Denied
  /\ flow'[x].at = "open" =>
       \/ flow[x].at = "open" /\ flow'[x].user = flow[x].user
       \/ flow[x].at = "upsert" /\ users' = Upserted(a, x) /\ flow'[x].user = UserId(a, x)
  /\ flow'[x].sent =>
       \/ flow[x].sent
       \/ /\ t \in states /\ states' = states \ {t} /\ flow[x].at = "start"
          /\ \A y \in Requests \ {x} : flow'[y] = flow[y]

LEMMA AnswerMoves ==
  ASSUME TypeOK, NEW r \in Requests, NEW outcome \in Outcomes, Answer(r, outcome)
  PROVE  flow' \in [Requests -> Flows] /\ \A x \in Requests : Moves(x)
<1> DEFINE n == [flow[r] EXCEPT !.at = "done", !.user = NoUser, !.outcome = outcome]
<1>1. flow[r] \in Flows
  BY DEF TypeOK, Flows
<1>2. n \in Flows /\ n.at = "done" /\ n.sent = flow[r].sent
  BY <1>1 DEF Flows, Steps
<1>3. flow' = [flow EXCEPT ![r] = n] /\ flow \in [Requests -> Flows]
  BY DEF Answer, TypeOK, Flows
<1> HIDE DEF n
<1> QED  BY <1>2, <1>3 DEF Moves

LEMMA GotoMoves ==
  ASSUME TypeOK, NEW r \in Requests, NEW step \in Steps \ {"start", "open"}, Goto(r, step),
         flow[r].at \notin {"start", "done"}
  PROVE  flow' \in [Requests -> Flows] /\ \A x \in Requests : Moves(x)
<1> DEFINE n == [flow[r] EXCEPT !.at = step]
<1>1. flow[r] \in Flows
  BY DEF TypeOK, Flows
<1>2. n \in Flows /\ n.at = step /\ n.sent = flow[r].sent
  BY <1>1 DEF Flows
<1>3. flow' = [flow EXCEPT ![r] = n] /\ flow \in [Requests -> Flows]
  BY DEF Goto, TypeOK, Flows
<1> HIDE DEF n
<1> QED  BY <1>2, <1>3 DEF Moves

(* The row an upsert writes: the one of the account if there is one.       *)
LEMMA UserIdOfRow ==
  ASSUME TypeOK, NEW a, NEW r \in Callbacks
  PROVE  /\ UserId(a, r) \in Callbacks
         /\ \/ UserId(a, r) = r /\ RowsOf(a) = {}
            \/ \E u \in users : u.account = a /\ UserId(a, r) = u.id
<1>1. CASE RowsOf(a) = {}
  BY <1>1 DEF UserId
<1>2. CASE RowsOf(a) # {}
  <2> DEFINE u == CHOOSE x \in RowsOf(a) : TRUE
  <2>1. u \in RowsOf(a) /\ UserId(a, r) = u.id
    BY <1>2 DEF UserId
  <2> HIDE DEF u
  <2> QED  BY <2>1 DEF RowsOf, TypeOK, Users
<1> QED  BY <1>1, <1>2

LEMMA FlowSteps ==
  ASSUME TypeOK, PastState, Next
  PROVE  flow' \in [Requests -> Flows] /\ \A x \in Requests : Moves(x)
<1> USE DEF At
<1> DEFINE Goal == flow' \in [Requests -> Flows] /\ \A x \in Requests : Moves(x)
<1>0. \A r \in Requests : flow[r] \in Flows
  BY DEF TypeOK, Flows
<1>1. CASE flow' = flow
  BY <1>0, <1>1 DEF Moves, TypeOK, Flows
<1>2. ASSUME NEW r \in Requests, IssueState(r)
      PROVE  Goal
  BY <1>2, AnswerMoves DEF IssueState, Outcomes
<1>3. ASSUME NEW r \in Requests, ConsumeState(r)
      PROVE  Goal
  <2> DEFINE n == [flow[r] EXCEPT !.at = "exchange", !.sent = TRUE]
  <2>1. r \in Callbacks /\ LetThrough(r) /\ flow[r].at = "start"
    BY <1>3 DEF ConsumeState
  <2>2. CASE Answer(r, "401") \/ Answer(r, "500")
    BY <2>2, AnswerMoves DEF Outcomes
  <2>3. CASE /\ grant[TabOf(r)] # Denied /\ TabOf(r) \in states /\ states' = states \ {TabOf(r)}
             /\ flow' = [flow EXCEPT ![r].at = "exchange", ![r].sent = TRUE]
    <3>1. n \in Flows /\ n.at = "exchange" /\ n.sent
      BY <1>0 DEF Flows, Steps
    <3>2. flow' = [flow EXCEPT ![r] = n]
      BY <2>3, <1>0 DEF TypeOK, Flows
    <3> HIDE DEF n
    <3>3. /\ flow' \in [Requests -> Flows] /\ flow'[r] = n
          /\ \A y \in Requests \ {r} : flow'[y] = flow[y]
      BY <3>1, <3>2 DEF TypeOK, Flows
    <3>4. Moves(r)
      BY <2>1, <2>3, <3>1, <3>3 DEF Moves
    <3>5. \A y \in Requests \ {r} : Moves(y)
      BY <3>3 DEF Moves
    <3> QED  BY <3>3, <3>4, <3>5
  <2> QED  BY <1>3, <2>2, <2>3 DEF ConsumeState, Consumed
<1>4. ASSUME NEW r \in Requests, ExchangeCode(r)
      PROVE  Goal
  BY <1>4, AnswerMoves, GotoMoves DEF ExchangeCode, Outcomes, Steps
<1>5. ASSUME NEW r \in Requests, FetchIdentity(r)
      PROVE  Goal
  BY <1>5, AnswerMoves, GotoMoves DEF FetchIdentity, Outcomes, Steps
<1>6. ASSUME NEW r \in Requests, UpsertUser(r)
      PROVE  Goal
  <2> DEFINE a == grant[TabOf(r)].account
             n == [flow[r] EXCEPT !.at = "open", !.user = UserId(a, r)]
  <2>0. flow[r].at = "upsert" /\ r \in Callbacks
    BY <1>6 DEF UpsertUser, PastState
  <2>1. CASE \E outcome \in Outcomes : Answer(r, outcome)
    BY <2>1, AnswerMoves
  <2>2. CASE users' = Upserted(a, r) /\ flow' = [flow EXCEPT ![r].at = "open", ![r].user = UserId(a, r)]
    <3>1. n \in Flows /\ n.at = "open" /\ n.user = UserId(a, r) /\ n.sent = flow[r].sent
      BY <1>0, <2>0, UserIdOfRow DEF Flows, Steps
    <3>2. flow' = [flow EXCEPT ![r] = n]
      BY <2>2, <1>0 DEF TypeOK, Flows
    <3> HIDE DEF n
    <3> QED  BY <2>0, <2>2, <3>1, <3>2 DEF TypeOK, Flows, Moves
  <2> QED  BY <1>6, <2>1, <2>2 DEF UpsertUser, Outcomes
<1>7. ASSUME NEW r \in Requests, OpenSession(r)
      PROVE  Goal
  <2> DEFINE n == [flow[r] EXCEPT !.at = "respond", !.user = NoUser]
  <2>0. flow[r].at = "open"
    BY <1>7 DEF OpenSession
  <2>1. CASE \E outcome \in Outcomes : Answer(r, outcome)
    BY <2>1, AnswerMoves
  <2>2. CASE flow' = [flow EXCEPT ![r].at = "respond", ![r].user = NoUser]
    <3>1. n \in Flows /\ n.at = "respond" /\ n.sent = flow[r].sent
      BY <1>0 DEF Flows, Steps
    <3>2. flow' = [flow EXCEPT ![r] = n]
      BY <2>2, <1>0 DEF TypeOK, Flows
    <3> HIDE DEF n
    <3> QED  BY <2>0, <3>1, <3>2 DEF TypeOK, Flows, Moves
  <2> QED  BY <1>7, <2>1, <2>2 DEF OpenSession, Outcomes
<1>8. ASSUME NEW r \in Requests, SetCookie(r)
      PROVE  Goal
  BY <1>8, AnswerMoves DEF SetCookie, Outcomes
<1>9. CASE ApiCrash
  <2>1. \A r \in Requests :
          LET n == [flow[r] EXCEPT !.at = "done", !.user = NoUser, !.outcome = "lost"] IN
          n \in Flows /\ n.at = "done" /\ n.sent = flow[r].sent
    BY <1>0 DEF Flows, Steps, Outcomes
  <2>2. flow' \in [Requests -> Flows]
    BY <1>0, <1>9, <2>1 DEF ApiCrash
  <2>3. \A r \in Requests : flow'[r] = flow[r] \/ (flow'[r].at = "done" /\ flow'[r].sent = flow[r].sent)
    BY <1>9, <2>1 DEF ApiCrash
  <2> QED  BY <2>2, <2>3 DEF Moves
<1> QED  BY <1>1, <1>2, <1>3, <1>4, <1>5, <1>6, <1>7, <1>8, <1>9
  DEF Next, login, Limiter, Callback, Decide, ExpireState, Logout, ClearCookie, ExpireSession

(* What was approved stays approved by the same account.                   *)
LEMMA ApprovalsStay ==
  ASSUME TypeOK, PastState, Next, NEW r \in Requests
  PROVE  /\ Answered(r) => Answered(r)'
         /\ \A a : ApprovedBy(r, a) => ApprovedBy(r, a)'
  BY GrantsStay, RequestTypes DEF Answered, ApprovedBy

(* Who has left "new" had left it, or was let in by MaySend.               *)
LEMMA SentStep ==
  ASSUME LoginInv, Next
  PROVE  SentAfterGrant'
<1> USE DEF LoginInv
<1> SUFFICES ASSUME NEW r \in Callbacks, hit'[r].at # "new"
             PROVE  grant'[TabOf(r)] \in Grants \cup {Denied}
  BY DEF SentAfterGrant, Answered
<1>0. r \in Requests /\ TabOf(r) \in Tabs /\ <<TabOf(r), "callback">> \in Callbacks
  BY RequestTypes
<1>1. ASSUME grant[TabOf(r)] # NoGrant
      PROVE  grant'[TabOf(r)] \in Grants \cup {Denied}
  BY <1>0, <1>1, GrantsStay
<1>2. CASE hit[r].at # "new"
  BY <1>0, <1>1, <1>2, NoGrantOK DEF SentAfterGrant, Answered
<1>3. CASE hit[r].at = "new"
  <2>1. ASSUME NEW x \in Requests, Limiter(x)
        PROVE  x = r
    <3>1. \A y \in Requests \ {x} : hit'[y] = hit[y]
      BY <2>1 DEF Limiter, RateLimit, Incr, Ttl, Expire, FailOpen, TypeOK, LimiterTypeOK
    <3> QED  BY <1>0, <1>3, <3>1
  <2>2. CASE Limiter(r)
    <3>1. MaySend(r) /\ KindOf(r) \in {"callback", "reload"}
      BY <1>3, <2>2, RequestTypes DEF Limiter
    <3>2. CASE grant[TabOf(r)] # NoGrant
      BY <1>1, <3>2
    <3>3. CASE KindOf(r) = "reload"
      <4>1. hit[<<TabOf(r), "callback">>].at # "new"
        BY <3>1, <3>3 DEF MaySend
      <4>2. TabOf(<<TabOf(r), "callback">>) = TabOf(r)
        BY <1>0, RequestTypes
      <4> QED  BY <1>0, <1>1, <4>1, <4>2, NoGrantOK DEF SentAfterGrant, Answered
    <3> QED  BY <3>1, <3>2, <3>3 DEF MaySend
  <2>3. CASE Tick
    BY <1>0, <1>3, <2>3 DEF Tick, Older, TypeOK, LimiterTypeOK
  <2>4. CASE ApiCrash
    BY <1>0, <1>3, <2>4 DEF ApiCrash, LoseHits, Serving
  <2>5. CASE hit' = hit
    BY <1>3, <2>5
  <2> QED  BY <2>1, <2>2, <2>3, <2>4, <2>5
    DEF Next, Callback, IssueState, ConsumeState, ExchangeCode, FetchIdentity, UpsertUser,
        OpenSession, SetCookie, Decide, ExpireState, Logout, ClearCookie, ExpireSession,
        Works, Fails, limiter
<1> QED  BY <1>2, <1>3

LEMMA PastStateStep ==
  ASSUME LoginInv, Next
  PROVE  PastState'
<1> USE DEF LoginInv
<1> SUFFICES ASSUME NEW x \in Requests, flow'[x].at \notin {"start", "done"}
             PROVE  x \in Callbacks /\ Answered(x)'
  BY DEF PastState
<1>1. CASE flow[x].at \notin {"start", "done"}
  BY <1>1, ApprovalsStay DEF PastState
<1>2. CASE x \in Callbacks /\ LetThrough(x) /\ grant[TabOf(x)] # Denied
  BY <1>2, ApprovalsStay DEF SentAfterGrant, LetThrough
<1> QED  BY <1>1, <1>2, FlowSteps DEF Moves

(* A state appears when the login of its tab issues it.                    *)
LEMMA StatesAppear ==
  ASSUME TypeOK, Next, NEW t \in states' \ states
  PROVE  /\ t \in Tabs /\ flow[<<t, "login">>].at = "start" /\ flow'[<<t, "login">>].at = "done"
         /\ \A x \in Requests \ {<<t, "login">>} : flow'[x] = flow[x]
<1>1. ASSUME NEW r \in Requests, IssueState(r)
      PROVE  /\ states' \subseteq states \cup {TabOf(r)} /\ flow[r].at = "start"
             /\ flow'[r].at = "done" /\ r = <<TabOf(r), "login">> /\ TabOf(r) \in Tabs
             /\ \A x \in Requests \ {r} : flow'[x] = flow[x]
  <2>1. r = <<TabOf(r), "login">>
    BY <1>1, LoginOK DEF IssueState, TabOf, KindOf, Kinds
  <2>2. flow'[r].at = "done" /\ \A x \in Requests \ {r} : flow'[x] = flow[x]
    BY <1>1 DEF IssueState, Answer, TypeOK
  <2> QED  BY <1>1, <2>1, <2>2, RequestTypes DEF IssueState, At
<1>2. PICK r \in Requests : IssueState(r)
  BY DEF Next, login, Limiter, Callback, ConsumeState, Consumed, ExchangeCode, FetchIdentity,
         UpsertUser, OpenSession, SetCookie, Decide, ExpireState, Logout, ClearCookie,
         ExpireSession, ApiCrash
<1> QED  BY <1>1, <1>2

(* No state is consumed twice, at whatever point callbacks fail or die.    *)
LEMMA ConsumedOnceStep ==
  ASSUME LoginInv, Next
  PROVE  IssuedOnce' /\ StateConsumedOnce'
<1> USE DEF LoginInv
<1>0. states \subseteq Tabs /\ \A t \in Tabs : <<t, "login">> \in Requests
  BY RequestTypes DEF TypeOK
<1>1. \A t \in states' : flow'[<<t, "login">>].at = "done"
  BY <1>0, StatesAppear, FlowSteps DEF IssuedOnce, Moves
<1>2. ASSUME NEW r \in Callbacks, flow[r].sent
      PROVE  TabOf(r) \notin states' /\ flow'[<<TabOf(r), "login">>].at = "done"
  <2>1. TabOf(r) \in Tabs /\ TabOf(r) \notin states /\ flow[<<TabOf(r), "login">>].at = "done"
    BY <1>2, RequestTypes DEF IssuedOnce
  <2> QED  BY <1>0, <2>1, StatesAppear, FlowSteps DEF Moves
<1>3. ASSUME NEW r \in Callbacks, flow'[r].sent, ~flow[r].sent
      PROVE  /\ TabOf(r) \in states /\ states' = states \ {TabOf(r)}
             /\ flow'[<<TabOf(r), "login">>].at = "done"
             /\ \A y \in Requests \ {r} : flow'[y] = flow[y]
  <2>1. /\ TabOf(r) \in states /\ states' = states \ {TabOf(r)}
        /\ \A y \in Requests \ {r} : flow'[y] = flow[y]
    BY <1>3, FlowSteps, RequestTypes DEF Moves
  <2>2. flow[<<TabOf(r), "login">>].at = "done"
    BY <2>1 DEF IssuedOnce
  <2> QED  BY <1>0, <2>1, <2>2, FlowSteps DEF Moves
<1>4. IssuedOnce'
  BY <1>1, <1>2, <1>3 DEF IssuedOnce
<1>5. ASSUME NEW r1 \in Callbacks, NEW r2 \in Callbacks, r1 # r2, TabOf(r1) = TabOf(r2),
             flow'[r1].sent, ~flow[r1].sent
      PROVE  ~flow'[r2].sent
  <2>1. TabOf(r2) \in states /\ flow'[r2] = flow[r2]
    BY <1>3, <1>5, RequestTypes
  <2> QED  BY <2>1 DEF IssuedOnce
<1>6. StateConsumedOnce'
  BY <1>5 DEF StateConsumedOnce
<1> QED  BY <1>4, <1>6

(* An upsert replaces the row of an account, or adds one, in its own name. *)
LEMMA UpsertKeepsRows ==
  ASSUME LoginInv, Next, NEW r \in Callbacks, NEW a,
         users' = Upserted(a, r), ApprovedBy(r, a), a \in Accounts
  PROVE  /\ OneRowEach' /\ users' \subseteq Users
         /\ \A u \in users : \E v \in users' : v.id = u.id /\ v.account = u.account
         /\ \E v \in users' : v.id = UserId(a, r) /\ v.account = a
<1> USE DEF LoginInv
<1> DEFINE w == [id |-> UserId(a, r), account |-> a, token |-> r]
<1>1. w \in Users /\ w.id = UserId(a, r) /\ w.account = a /\ w.token = r
  BY UserIdOfRow DEF Users
<1>2. users' = {u \in users : u.account # a} \cup {w}
  BY DEF Upserted, RowsOf
<1> HIDE DEF w
<1>3. users \subseteq Users /\ \A u \in users : u.id \in Callbacks /\ u.token \in Callbacks
  BY DEF TypeOK, Users
<1>4. ApprovedBy(w.id, a)
  BY <1>1, UserIdOfRow DEF OneRowEach
<1>5. ASSUME NEW u \in users, u.id = w.id
      PROVE  u.account = a
  BY <1>4, <1>5 DEF OneRowEach, ApprovedBy
<1>6. \A u, v \in users' : u.account = v.account \/ u.id = v.id => u = v
  BY <1>1, <1>2, <1>5 DEF OneRowEach
<1>7. ASSUME NEW u \in users'
      PROVE  ApprovedBy(u.id, u.account)' /\ ApprovedBy(u.token, u.account)'
  <2>1. ApprovedBy(u.id, u.account) /\ ApprovedBy(u.token, u.account)
    BY <1>1, <1>2, <1>4 DEF OneRowEach
  <2>2. u.id \in Requests /\ u.token \in Requests
    BY <1>1, <1>2, <1>3, UserIdOfRow, RequestTypes
  <2>3. \A x \in Requests : \A b : ApprovedBy(x, b) => ApprovedBy(x, b)'
    BY ApprovalsStay
  <2> QED  BY <2>1, <2>2, <2>3 DEF ApprovedBy, Answered
<1>8. \A u \in users : u.account = a => u.id = w.id
  BY <1>1, UserIdOfRow DEF OneRowEach, RowsOf
<1>9. ASSUME NEW u \in users
      PROVE  \E v \in users' : v.id = u.id /\ v.account = u.account
  <2>1. CASE u.account = a
    BY <1>1, <1>2, <1>8, <2>1
  <2>2. CASE u.account # a
    BY <1>2, <2>2
  <2> QED  BY <2>1, <2>2
<1> QED  BY <1>1, <1>2, <1>3, <1>6, <1>7, <1>9 DEF OneRowEach

LEMMA UsersChange ==
  ASSUME LoginInv, Next
  PROVE  \/ users' = users
         \/ \E r \in Callbacks : LET a == grant[TabOf(r)].account IN
              users' = Upserted(a, r) /\ ApprovedBy(r, a) /\ a \in Accounts
<1>1. ASSUME NEW r \in Requests, UpsertUser(r), users' # users
      PROVE  LET a == grant[TabOf(r)].account IN
             r \in Callbacks /\ users' = Upserted(a, r) /\ ApprovedBy(r, a) /\ a \in Accounts
  BY <1>1 DEF UpsertUser, At, LoginInv, PastState, Answered, ApprovedBy, Grants
<1> QED  BY <1>1
  DEF Next, login, Limiter, Callback, IssueState, ConsumeState, ExchangeCode, FetchIdentity,
      OpenSession, SetCookie, Decide, ExpireState, Logout, ClearCookie, ExpireSession, ApiCrash

(* The rows, through any step: one for each account, and none is lost.     *)
LEMMA RowsStep ==
  ASSUME LoginInv, Next
  PROVE  /\ OneRowEach' /\ users' \subseteq Users
         /\ \A u \in users : \E v \in users' : v.id = u.id /\ v.account = u.account
<1>1. CASE users' = users
  <2>1. \A x \in Requests : \A b : ApprovedBy(x, b) => ApprovedBy(x, b)'
    BY ApprovalsStay DEF LoginInv
  <2>2. \A u \in users : u.id \in Requests /\ u.token \in Requests
    BY RequestTypes DEF LoginInv, TypeOK, Users
  <2>3. \A u \in users : ApprovedBy(u.id, u.account)' /\ ApprovedBy(u.token, u.account)'
    BY <2>1, <2>2 DEF LoginInv, OneRowEach, ApprovedBy, Answered
  <2>4. users \subseteq Users /\ \A u, v \in users : u.account = v.account \/ u.id = v.id => u = v
    BY DEF LoginInv, TypeOK, OneRowEach
  <2> QED  BY <1>1, <2>3, <2>4 DEF OneRowEach
<1> QED  BY <1>1, UsersChange, UpsertKeepsRows

LEMMA StandsForStays ==
  ASSUME LoginInv, Next, NEW r \in Requests, NEW id, StandsFor(r, id)
  PROVE  StandsFor(r, id)'
<1>1. PICK u \in users : u.id = id /\ ApprovedBy(r, u.account)
  BY DEF StandsFor
<1>2. PICK v \in users' : v.id = id /\ v.account = u.account
  BY <1>1, RowsStep
<1>3. ApprovedBy(r, v.account)'
  BY <1>1, <1>2, ApprovalsStay DEF LoginInv, ApprovedBy, Answered
<1> QED  BY <1>2, <1>3 DEF StandsFor, ApprovedBy, Answered

LEMMA SessionsChange ==
  ASSUME TypeOK, Next
  PROVE  \A s \in DOMAIN sessions' :
           \/ s \in DOMAIN sessions /\ sessions'[s] = sessions[s]
           \/ s \in Requests /\ At(s, "open") /\ sessions'[s] = flow[s].user
<1>1. CASE sessions' = sessions
  BY <1>1
<1>2. ASSUME NEW s, sessions' = Without(s)
      PROVE  \A x \in DOMAIN sessions' : x \in DOMAIN sessions /\ sessions'[x] = sessions[x]
  BY <1>2 DEF Without
<1>3. ASSUME NEW r \in Requests, OpenSession(r), sessions' # sessions
      PROVE  \A x \in DOMAIN sessions' :
               \/ x \in DOMAIN sessions /\ sessions'[x] = sessions[x]
               \/ x = r /\ At(r, "open") /\ sessions'[x] = flow[r].user
  <2>1. sessions' = WithSession(r) /\ At(r, "open")
    BY <1>3 DEF OpenSession
  <2> QED  BY <2>1 DEF WithSession
<1>4. CASE \E b \in Browsers : Logout(b)
  BY <1>1, <1>2, <1>4 DEF Logout
<1>5. CASE \E r \in Callbacks : ExpireSession(r)
  BY <1>2, <1>5 DEF ExpireSession
<1>6. CASE \E r \in Requests : OpenSession(r)
  BY <1>1, <1>3, <1>6
<1> QED  BY <1>1, <1>4, <1>5, <1>6
  DEF Next, login, Limiter, Callback, IssueState, ConsumeState, ExchangeCode, FetchIdentity,
      UpsertUser, SetCookie, Decide, ExpireState, ClearCookie, ApiCrash

(* A session, and a callback about to open one, stand for a row of the     *)
(* account that approved the sign-in.                                      *)
LEMMA StandStep ==
  ASSUME LoginInv, Next
  PROVE  UsersStand'
<1> USE DEF LoginInv
<1>1. ASSUME NEW r \in Callbacks, NEW id, flow'[r].at = "open", id = flow'[r].user
      PROVE  StandsFor(r, id)'
  <2>0. r \in Requests
    BY RequestTypes
  <2>1. CASE flow[r].at = "open" /\ flow'[r].user = flow[r].user
    <3>1. StandsFor(r, id)
      BY <1>1, <2>1 DEF UsersStand
    <3> QED  BY <2>0, <3>1, StandsForStays
  <2>2. CASE LET a == grant[TabOf(r)].account IN
             flow[r].at = "upsert" /\ users' = Upserted(a, r) /\ flow'[r].user = UserId(a, r)
    <3> DEFINE a == grant[TabOf(r)].account
    <3>1. ApprovedBy(r, a) /\ a \in Accounts
      BY <2>0, <2>2 DEF PastState, Answered, ApprovedBy, Grants
    <3>2. PICK v \in users' : v.id = UserId(a, r) /\ v.account = a
      BY <2>2, <3>1, UpsertKeepsRows
    <3>3. ApprovedBy(r, v.account)'
      BY <2>0, <3>1, <3>2, ApprovalsStay DEF ApprovedBy, Answered
    <3> QED  BY <1>1, <2>2, <3>2, <3>3 DEF StandsFor, ApprovedBy, Answered
  <2> QED  BY <1>1, <2>0, <2>1, <2>2, FlowSteps DEF Moves
<1>2. ASSUME NEW s \in DOMAIN sessions', NEW id, id = sessions'[s]
      PROVE  StandsFor(s, id)'
  <2>2. s \in Requests /\ StandsFor(s, id)
    <3>1. CASE s \in DOMAIN sessions /\ sessions'[s] = sessions[s]
      BY <1>2, <3>1, RequestTypes DEF TypeOK, UsersStand
    <3>2. CASE s \in Requests /\ At(s, "open") /\ sessions'[s] = flow[s].user
      BY <1>2, <3>2 DEF At, PastState, UsersStand
    <3> QED  BY <3>1, <3>2, SessionsChange
  <2> QED  BY <2>2, StandsForStays
<1> QED  BY <1>1, <1>2 DEF UsersStand, StandsFor, ApprovedBy, Answered

LEMMA TypeStep ==
  ASSUME LoginInv, Next
  PROVE  TypeOK'
<1> USE DEF LoginInv
<1>1. LimiterTypeOK'
  BY LimiterOfLogin, LimiterTypes DEF TypeOK
<1>2. states' \subseteq Tabs
  BY StatesAppear DEF TypeOK
<1>3. grant' \in [Tabs -> {NoGrant, Denied} \cup Grants]
  BY GrantsStay
<1>4. users' \subseteq Users
  BY RowsStep
<1>5. ASSUME NEW s \in DOMAIN sessions'
      PROVE  s \in Callbacks /\ sessions'[s] \in Callbacks
  <2>1. CASE s \in DOMAIN sessions /\ sessions'[s] = sessions[s]
    BY <2>1 DEF TypeOK
  <2>2. CASE s \in Requests /\ At(s, "open") /\ sessions'[s] = flow[s].user
    <3>1. s \in Callbacks /\ StandsFor(s, flow[s].user)
      BY <2>2 DEF At, PastState, UsersStand
    <3> QED  BY <2>2, <3>1 DEF StandsFor, TypeOK, Users
  <2> QED  BY <2>1, <2>2, SessionsChange
<1>6. jar' \in [Browsers -> Callbacks \cup {NoCookie}]
  <2>1. ASSUME NEW r \in Requests, SetCookie(r)
        PROVE  r \in Callbacks /\ BrowserOf[r] \in Browsers
    BY <2>1, RequestTypes DEF SetCookie, At, PastState
  <2> QED  BY <2>1
    DEF TypeOK, Next, login, Limiter, Callback, IssueState, ConsumeState, ExchangeCode,
        FetchIdentity, UpsertUser, OpenSession, SetCookie, Decide, ExpireState, Logout,
        ClearCookie, ExpireSession, ApiCrash
<1>7. leaving' \subseteq Browsers
  BY DEF TypeOK, Next, login, Limiter, Callback, IssueState, ConsumeState, ExchangeCode,
         FetchIdentity, UpsertUser, OpenSession, SetCookie, Decide, ExpireState, Logout,
         ClearCookie, ExpireSession, ApiCrash
<1>8. flow' \in [Requests -> Flows]
  BY FlowSteps
<1> QED  BY <1>1, <1>2, <1>3, <1>4, <1>5, <1>6, <1>7, <1>8 DEF TypeOK, Flows

LEMMA LoginStays ==
  ASSUME LoginInv, UNCHANGED vars
  PROVE  LoginInv'
<1>1. TypeOK' /\ SentAfterGrant' /\ PastState'
  BY DEF vars, limiter, login, LoginInv, TypeOK, LimiterTypeOK, SentAfterGrant, PastState, Answered
<1>2. IssuedOnce' /\ StateConsumedOnce' /\ OneRowEach'
  BY DEF vars, login, LoginInv, IssuedOnce, StateConsumedOnce, OneRowEach, ApprovedBy, Answered
<1>3. UsersStand'
  BY DEF vars, login, LoginInv, UsersStand, StandsFor, ApprovedBy, Answered
<1> QED  BY <1>1, <1>2, <1>3 DEF LoginInv

LEMMA LoginInvariant == Spec => []LoginInv
<1>1. LoginInv /\ [Next]_vars => LoginInv'
  BY LoginStays, TypeStep, SentStep, PastStateStep, ConsumedOnceStep, RowsStep, StandStep
  DEF LoginInv
<1> QED  BY LoginStarts, <1>1, PTL DEF Spec

(* Every variable of the sign-in keeps its type.                           *)
THEOREM LoginTyped == Spec => []TypeOK
<1>1. LoginInv => TypeOK
  BY DEF LoginInv
<1> QED  BY LoginInvariant, <1>1, PTL

(* However many callbacks race for a state, one goes on to GitHub with it. *)
THEOREM OneCallbackPerState == Spec => []StateConsumedOnce
<1>1. LoginInv => StateConsumedOnce
  BY DEF LoginInv
<1> QED  BY LoginInvariant, <1>1, PTL

(* Nobody is ever signed in as somebody else: sign-ins of any number of    *)
(* accounts may overlap, fail half way and repeat.                         *)
THEOREM NobodyAsSomebodyElse == Spec => []SessionsOfTheirAccount
<1>1. LoginInv => SessionsOfTheirAccount
  <2> SUFFICES ASSUME LoginInv, NEW r \in DOMAIN sessions
               PROVE  \E u \in users :
                        /\ RequireUser(r) = {u}
                        /\ u.account = grant[TabOf(r)].account
                        /\ u.account = grant[TabOf(u.token)].account
    BY DEF SessionsOfTheirAccount
  <2>1. PICK u \in users : u.id = sessions[r] /\ ApprovedBy(r, u.account)
    BY DEF LoginInv, UsersStand, StandsFor
  <2>2. RequireUser(r) = {u}
    BY <2>1 DEF RequireUser, LoginInv, OneRowEach
  <2> QED  BY <2>1, <2>2 DEF LoginInv, OneRowEach, ApprovedBy
<1> QED  BY LoginInvariant, <1>1, PTL

=============================================================================
