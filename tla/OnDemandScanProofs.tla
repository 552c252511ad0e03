-------------------------- MODULE OnDemandScanProofs --------------------------
(***************************************************************************)
(* Scans on demand, for every number of requests, users and threads, any   *)
(* size of page, any life of a token and any number of crashes.            *)
(***************************************************************************)
EXTENDS OnDemandScan, FiniteSetTheorems, TLAPS

-----------------------------------------------------------------------------
(* The tokens.  GitHub's answer waits at most MaxDelay to be cached, and a *)
(* token at most MaxDelay in a hand: the entry's age and what is left of   *)
(* its time in the cache stay within Ttl + MaxDelay.                       *)

EntryOK == cached # NoToken => cached.ttl > 0 /\ cached.age + cached.ttl <= Ttl + MaxDelay

HandOK(h) ==
  /\ h.at = "issued" => h.age = h.wait /\ h.wait <= MaxDelay
  /\ h.at = "served" => h.wait <= MaxDelay /\ h.age < Ttl + MaxDelay + h.wait

HandsOK == \A t \in Tasks : HandOK(holder[t])

TokensInv == TokensTypeOK /\ EntryOK /\ HandsOK

(* What a scan does with tokens.                                           *)
TokensNext ==
  \/ Tick
  \/ \E t \in Tasks : GetInstallationToken(t) \/ Use(t)
  \/ /\ UNCHANGED cached
     /\ \E lost \in SUBSET Tasks :
          holder' = [t \in Tasks |-> IF t \in lost THEN Holding("failed", 0) ELSE holder[t]]
  \/ UNCHANGED tokens

Hands == [at : Places, age : Nat, wait : Nat]

LEMMA TokensStart == TokensInit => TokensInv
  BY DEF TokensInit, TokensInv, TokensTypeOK, Holding, Places, EntryOK, HandsOK, HandOK

(* A task that takes another place with a token of some age.               *)
LEMMA NewHand ==
  ASSUME TokensInv, NEW t \in Tasks, NEW place \in Places, NEW age \in Nat,
         HandOK(Holding(place, age)), holder' = [holder EXCEPT ![t] = Holding(place, age)]
  PROVE  holder' \in [Tasks -> Hands] /\ HandsOK'
<1>1. Holding(place, age) \in Hands
  BY DEF Holding, Hands
<1> QED  BY <1>1 DEF TokensInv, TokensTypeOK, Hands, HandsOK

LEMMA TokensSteps ==
  ASSUME TokensInv, TokensNext
  PROVE  TokensInv'
<1> USE MarginOK DEF Ttl
<1>0. /\ cached \in Cached \cup {NoToken} /\ holder \in [Tasks -> Hands]
      /\ \A t \in Tasks : holder[t] \in Hands /\ HandOK(holder[t])
  BY DEF TokensInv, TokensTypeOK, Hands, HandsOK
<1> DEFINE Goal == /\ cached' \in Cached \cup {NoToken} /\ holder' \in [Tasks -> Hands]
                   /\ EntryOK' /\ HandsOK'
<1> SUFFICES Goal
  BY DEF TokensInv, TokensTypeOK, Hands
<1>1. CASE Tick
  <2>1. cached' \in Cached \cup {NoToken} /\ EntryOK'
    <3>1. CASE cached' = NoToken
      BY <3>1 DEF EntryOK
    <3>2. CASE cached' # NoToken
      <4>1. cached \in Cached /\ ~(cached.ttl <= 1) /\ cached' = [age |-> cached.age + 1, ttl |-> cached.ttl - 1]
        BY <1>0, <1>1, <3>2 DEF Tick, Aged
      <4>2. cached.age \in Nat /\ cached.ttl \in Nat /\ cached.age + cached.ttl <= Ttl + MaxDelay
        BY <4>1, NoTokenOK DEF Cached, TokensInv, EntryOK
      <4> QED  BY <4>1, <4>2 DEF Cached, EntryOK
    <3> QED  BY <3>1, <3>2
  <2>2. ASSUME NEW t \in Tasks
        PROVE  holder'[t] \in Hands /\ HandOK(holder'[t])
    <3>1. CASE ~Waiting(t)
      BY <1>0, <1>1, <3>1 DEF Tick
    <3>2. CASE Waiting(t)
      <4>1. /\ holder[t].wait < MaxDelay
            /\ holder'[t] = [holder[t] EXCEPT !.age = @ + 1, !.wait = @ + 1]
        BY <1>1, <3>2 DEF Tick
      <4>2. /\ holder'[t] = [at |-> holder[t].at, age |-> holder[t].age + 1, wait |-> holder[t].wait + 1]
            /\ holder[t].age \in Nat /\ holder[t].wait \in Nat /\ holder[t].at \in Places
        BY <1>0, <4>1 DEF Hands
      <4> QED  BY <1>0, <3>2, <4>1, <4>2 DEF Hands, HandOK, Waiting
    <3> QED  BY <3>1, <3>2
  <2>3. holder' \in [Tasks -> Hands] /\ HandsOK'
    BY <1>1, <2>2 DEF Tick, HandsOK
  <2> QED  BY <2>1, <2>3
<1>2. ASSUME NEW t \in Tasks, TryCacheGet(t)
      PROVE  Goal
  <2>1. CASE cached # NoToken /\ holder' = [holder EXCEPT ![t] = Holding("served", cached.age)]
    <3>1. /\ cached.age \in Nat /\ cached.ttl \in Nat /\ cached.ttl > 0
          /\ cached.age + cached.ttl <= Ttl + MaxDelay
      BY <1>0, <2>1 DEF Cached, TokensInv, EntryOK
    <3>2. HandOK(Holding("served", cached.age))
      BY <3>1 DEF HandOK, Holding
    <3> QED  BY <1>0, <1>2, <2>1, <3>1, <3>2, NewHand DEF TryCacheGet, Places, TokensInv, EntryOK
  <2>2. CASE holder' = [holder EXCEPT ![t] = Holding("missed", 0)]
    <3>1. HandOK(Holding("missed", 0))
      BY DEF HandOK, Holding
    <3> QED  BY <1>0, <1>2, <2>2, <3>1, NewHand DEF TryCacheGet, Places, TokensInv, EntryOK
  <2> QED  BY <1>2, <2>1, <2>2 DEF TryCacheGet
<1>3. ASSUME NEW t \in Tasks, FetchFromGitHub(t)
      PROVE  Goal
  <2>1. HandOK(Holding("issued", 0)) /\ HandOK(Holding("failed", 0))
    BY DEF HandOK, Holding
  <2> QED  BY <1>0, <1>3, <2>1, NewHand DEF FetchFromGitHub, Places, TokensInv, EntryOK
<1>4. ASSUME NEW t \in Tasks, TryCacheSet(t)
      PROVE  Goal
  <2> DEFINE entry == [age |-> holder[t].age, ttl |-> Ttl]
  <2>1. holder[t].at = "issued" /\ holder[t].age \in Nat /\ holder[t].age <= MaxDelay
    BY <1>0, <1>4 DEF TryCacheSet, HandOK, Hands
  <2>2. entry \in Cached /\ entry.ttl > 0 /\ entry.age + entry.ttl <= Ttl + MaxDelay
    BY <2>1 DEF Cached
  <2>3. HandOK(Holding("served", holder[t].age))
    BY <2>1 DEF HandOK, Holding
  <2>4. cached' \in Cached \cup {NoToken} /\ EntryOK'
    BY <1>0, <1>4, <2>2 DEF TryCacheSet, TokensInv, EntryOK
  <2> QED  BY <1>4, <2>1, <2>3, <2>4, NewHand DEF TryCacheSet, Places
<1>5. ASSUME NEW t \in Tasks, Use(t)
      PROVE  Goal
  <2>1. HandOK(Holding("used", 0))
    BY DEF HandOK, Holding
  <2> QED  BY <1>0, <1>5, <2>1, NewHand DEF Use, Places, TokensInv, EntryOK
<1>6. ASSUME NEW lost \in SUBSET Tasks, UNCHANGED cached,
             holder' = [t \in Tasks |-> IF t \in lost THEN Holding("failed", 0) ELSE holder[t]]
      PROVE  Goal
  <2>1. HandOK(Holding("failed", 0)) /\ Holding("failed", 0) \in Hands
    BY DEF HandOK, Holding, Hands, Places
  <2> QED  BY <1>0, <1>6, <2>1 DEF TokensInv, EntryOK, HandsOK
<1>7. CASE UNCHANGED tokens
  BY <1>0, <1>7 DEF tokens, TokensInv, EntryOK, HandsOK
<1> QED  BY <1>1, <1>2, <1>3, <1>4, <1>5, <1>6, <1>7
  DEF TokensNext, GetInstallationToken

LEMMA TokensOfScan ==
  ASSUME [Next]_vars
  PROVE  TokensNext
<1>1. CASE ApiCrash
  <2>1. Pending \in SUBSET Tasks
    BY DEF Pending
  <2> QED  BY <1>1, <2>1 DEF ApiCrash, TokensNext
<1> QED  BY <1>1
  DEF TokensNext, Next, vars, tokens, CreateScan, Receive, ResolveTarget, ObtainToken, FetchManifest,
      Refuse, StartEngine, StartSave, Commit, Respond, EngineEnds, Timeout, AbandonedEnds,
      StartWalk, ReadPage

(* Whatever the order in which requests ask for tokens and cache them, one *)
(* that is about to be used is alive, as long as the margin is at least    *)
(* twice the longest delay.                                                *)
THEOREM TokensAlive == Spec => []TokenInHandIsAlive
<1>1. TokensInv /\ [Next]_vars => TokensInv'
  BY TokensOfScan, TokensSteps
<1>2. TokensInv => TokenInHandIsAlive
  BY MarginOK DEF TokensInv, TokensTypeOK, HandsOK, HandOK, TokenInHandIsAlive, Ttl
<1>3. Init => TokensInv
  BY TokensStart DEF Init
<1> QED  BY <1>1, <1>2, <1>3, PTL DEF Spec

-----------------------------------------------------------------------------
(* The scans.                                                              *)

ScansTypeOK ==
  /\ step \in [Tasks -> Steps]
  /\ outcome \in [Tasks -> Outcomes]
  /\ abandoned \subseteq Tasks
  /\ created \in [Tasks -> Nat]
  /\ rows \subseteq Tasks

(* No two reports have the same stamp, and one has the latest.             *)
Stamped ==
  /\ Latest # {}
  /\ \A x, y \in Tasks : x # y /\ created[x] = created[y] => created[x] = 0

(* A request says how far its row is: stamped before it is saved, saved    *)
(* before it is answered with 200.                                         *)
RowOK(s, o, stamp, saved) ==
  /\ s # "done" => o = "none"
  /\ s \in {"persist", "saving", "respond"} => stamp # 0
  /\ s = "respond" \/ o = "200" => saved
  /\ saved => stamp # 0 /\ (s = "respond" \/ (s = "done" /\ o \in {"200", "500", "lost"}))

RowsOK == \A r \in Tasks : RowOK(step[r], outcome[r], created[r], r \in rows)

ScansInv == ScansTypeOK /\ Stamped /\ RowsOK

LEMMA ScansStart == Init => ScansInv
<1> SUFFICES ASSUME Init
             PROVE  ScansInv
  OBVIOUS
<1>1. ScansTypeOK /\ RowsOK
  BY DEF Init, ScansTypeOK, RowsOK, RowOK, Steps, Outcomes
<1>2. Latest = Tasks
  BY DEF Init, Latest
<1> QED  BY <1>1, <1>2, RequestsOK DEF Init, ScansInv, Stamped

LEMMA StampIsNew ==
  ASSUME ScansInv
  PROVE  NextStamp \in Nat \ {0} /\ \A x \in Tasks : created[x] < NextStamp
<1> DEFINE x == CHOOSE x \in Latest : TRUE
<1>1. x \in Latest
  BY DEF ScansInv, Stamped
<1>2. x \in Tasks /\ created[x] \in Nat /\ \A y \in Tasks : created[y] \in Nat /\ created[y] <= created[x]
  BY <1>1 DEF Latest, ScansInv, ScansTypeOK
<1>3. NextStamp = 1 + created[x]
  BY DEF NextStamp
<1> HIDE DEF x
<1> QED  BY <1>2, <1>3

LEMMA StampsStep ==
  ASSUME ScansInv, [Next]_vars
  PROVE  Stamped' /\ created' \in [Tasks -> Nat]
<1>1. CASE created' = created
  BY <1>1 DEF ScansInv, ScansTypeOK, Stamped, Latest
<1>2. ASSUME NEW r \in Tasks, created' = [created EXCEPT ![r] = NextStamp]
      PROVE  Stamped' /\ created' \in [Tasks -> Nat]
  <2> DEFINE n == NextStamp
  <2>1. n \in Nat \ {0} /\ \A x \in Tasks : created[x] < n /\ created[x] \in Nat
    BY StampIsNew DEF ScansInv, ScansTypeOK
  <2>2. created' \in [Tasks -> Nat] /\ created'[r] = n /\ \A x \in Tasks \ {r} : created'[x] = created[x]
    BY <1>2, <2>1 DEF ScansInv, ScansTypeOK
  <2> HIDE DEF n
  <2>3. r \in Latest'
    BY <2>1, <2>2 DEF Latest
  <2> QED  BY <2>1, <2>2, <2>3 DEF ScansInv, Stamped
<1>3. CASE \E r \in Tasks : EngineEnds(r)
  BY <1>1, <1>2, <1>3 DEF EngineEnds
<1> QED  BY <1>1, <1>3
  DEF Next, vars, pool, CreateScan, Receive, ResolveTarget, ObtainToken, FetchManifest,
      Refuse, StartEngine, StartSave, Commit, Respond, Timeout, AbandonedEnds, ApiCrash,
      StartWalk, ReadPage

LEMMA RowsStep ==
  ASSUME ScansInv, Next
  PROVE  ScansTypeOK' /\ RowsOK'
<1> USE DEF ScansInv, ScansTypeOK, RowsOK, Steps, Outcomes, Goto, Answer, pool
<1> DEFINE Goal == ScansTypeOK' /\ RowsOK'
<1>0. created' \in [Tasks -> Nat]
  BY StampsStep
<1>1. ASSUME NEW r \in Tasks,
             Receive(r) \/ ResolveTarget(r) \/ ObtainToken(r) \/ FetchManifest(r) \/ Refuse(r)
      PROVE  Goal
  BY <1>1 DEF Receive, ResolveTarget, ObtainToken, FetchManifest, Refuse, RowOK
<1>2. ASSUME NEW r \in Tasks, StartEngine(r) \/ StartSave(r) \/ Timeout(r) \/ Respond(r)
      PROVE  Goal
  BY <1>2 DEF StartEngine, StartSave, Timeout, Respond, RowOK
<1>3. ASSUME NEW r \in Tasks, EngineEnds(r)
      PROVE  Goal
  <2>1. CASE Answer(r, "502") /\ UNCHANGED created
    BY <1>3, <2>1 DEF EngineEnds, RowOK
  <2>2. CASE Goto(r, "persist") /\ created' = [created EXCEPT ![r] = NextStamp]
    <3>1. NextStamp # 0
      BY StampIsNew
    <3>2. created'[r] # 0 /\ \A x \in Tasks \ {r} : created'[x] = created[x]
      BY <2>2, <3>1
    <3> QED  BY <1>0, <1>3, <2>2, <3>2 DEF EngineEnds, RowOK
  <2> QED  BY <1>3, <2>1, <2>2 DEF EngineEnds
<1>4. ASSUME NEW r \in Tasks, AbandonedEnds(r)
      PROVE  Goal
  BY <1>4 DEF AbandonedEnds, LateReport, RowOK
<1>5. ASSUME NEW r \in Tasks, Commit(r)
      PROVE  Goal
  BY <1>5 DEF Commit, RowOK
<1>6. CASE ApiCrash
  BY <1>6 DEF ApiCrash, Pending, RowOK
<1>7. CASE UNCHANGED <<step, outcome, pool>>
  BY <1>7 DEF RowOK
<1> QED  BY <1>1, <1>2, <1>3, <1>4, <1>5, <1>6, <1>7
  DEF Next, CreateScan, StartWalk, ReadPage

LEMMA ScansSteps ==
  ASSUME ScansInv, [Next]_vars
  PROVE  ScansInv'
<1>1. CASE UNCHANGED vars
  BY <1>1 DEF vars, pool, ScansInv, ScansTypeOK, Stamped, Latest, RowsOK
<1> QED  BY <1>1, StampsStep, RowsStep DEF ScansInv

(* The history has every scan that was answered, and none of a request     *)
(* refused, failed or timed out, for all that engines still finish.        *)
THEOREM HistoryOfAnswers == Spec => []HistoryHoldsTheAnswers
<1>1. ScansInv => HistoryHoldsTheAnswers
  BY DEF ScansInv, RowsOK, RowOK, HistoryHoldsTheAnswers
<1> QED  BY ScansStart, ScansSteps, <1>1, PTL DEF Spec

-----------------------------------------------------------------------------
(* The pages.                                                              *)

(* The rows from the newest down to r.                                     *)
DownTo(r, u) == {x \in HistoryOf(u) : created[x] >= created[r]}

LEMMA HistoryFinite ==
  ASSUME ScansInv, NEW u
  PROVE  /\ IsFiniteSet(HistoryOf(u)) /\ Cardinality(HistoryOf(u)) \in Nat
         /\ \A x \in HistoryOf(u) : x \in Tasks /\ x \in rows /\ created[x] \in Nat \ {0}
<1>1. HistoryOf(u) \in SUBSET Tasks
  BY DEF HistoryOf, ScansInv, ScansTypeOK
<1>2. \A x \in HistoryOf(u) : x \in rows /\ created[x] \in Nat \ {0}
  BY DEF HistoryOf, ScansInv, ScansTypeOK, RowsOK, RowOK
<1> QED  BY <1>1, <1>2, RequestsOK, FS_Subset, FS_CardinalityType

(* Each row has a position of its own, from 1 to the length of the history.*)
LEMMA PositionsDiffer ==
  ASSUME ScansInv, NEW u
  PROVE  /\ \A r \in HistoryOf(u) : Position(r, u) \in 1 .. Cardinality(HistoryOf(u))
         /\ \A r, s \in HistoryOf(u) : Position(r, u) = Position(s, u) => r = s
<1> DEFINE H == HistoryOf(u)
<1>1. IsFiniteSet(H) /\ \A x \in H : x \in Tasks /\ created[x] \in Nat \ {0}
  BY HistoryFinite
<1>2. ASSUME NEW r \in H
      PROVE  /\ DownTo(r, u) \in SUBSET H /\ r \in DownTo(r, u) /\ IsFiniteSet(DownTo(r, u))
             /\ Position(r, u) = Cardinality(DownTo(r, u)) /\ Position(r, u) \in Nat
             /\ Position(r, u) <= Cardinality(H)
  <2>1. DownTo(r, u) \in SUBSET H /\ r \in DownTo(r, u)
    BY <1>1 DEF DownTo
  <2> QED  BY <1>1, <2>1, FS_Subset, FS_CardinalityType DEF Position, DownTo
<1>3. \A r \in H : Position(r, u) \in 1 .. Cardinality(H)
  <2> SUFFICES ASSUME NEW r \in H
               PROVE  Position(r, u) \in 1 .. Cardinality(H)
    OBVIOUS
  <2>1. Position(r, u) # 0
    BY <1>2, FS_EmptySet
  <2> QED  BY <1>2, <2>1, HistoryFinite
<1>4. ASSUME NEW r \in H, NEW s \in H, created[s] < created[r]
      PROVE  Position(r, u) < Position(s, u)
  <2>1. DownTo(r, u) \in SUBSET DownTo(s, u) /\ s \in DownTo(s, u) /\ s \notin DownTo(r, u)
    BY <1>1, <1>4 DEF DownTo
  <2>2. /\ Cardinality(DownTo(r, u)) <= Cardinality(DownTo(s, u))
        /\ Cardinality(DownTo(s, u)) # Cardinality(DownTo(r, u))
    BY <1>2, <2>1, FS_Subset
  <2> QED  BY <1>2, <2>2
<1>5. ASSUME NEW r \in H, NEW s \in H, Position(r, u) = Position(s, u)
      PROVE  r = s
  <2>1. ~(created[s] < created[r]) /\ ~(created[r] < created[s])
    BY <1>2, <1>4, <1>5
  <2>2. created[r] = created[s] /\ created[r] # 0
    BY <1>1, <2>1
  <2> QED  BY <1>1, <2>2 DEF ScansInv, Stamped
<1> QED  BY <1>3, <1>5

(* A page that is not the last one is full.                                *)
LEMMA PageIsFull ==
  ASSUME ScansInv, NEW u, NEW page \in Nat \ {0}, NEW r \in HistoryOf(u),
         Position(r, u) > Offset(page) + PageSize
  PROVE  Cardinality(Page(u, page)) >= PageSize
<1> DEFINE H == HistoryOf(u)
           n == Cardinality(H)
           P == [x \in H |-> Position(x, u)]
           o == Offset(page)
           wanted == (o + 1) .. (o + PageSize)
<1>0. IsFiniteSet(H) /\ n \in Nat
  BY HistoryFinite
<1>1. P \in Surjection(H, 1 .. n)
  <2>1. P \in Injection(H, 1 .. n)
    BY PositionsDiffer DEF Injection, IsInjective
  <2>2. IsFiniteSet(1 .. n) /\ Cardinality(1 .. n) = n
    BY <1>0, FS_Interval
  <2> HIDE DEF P, n
  <2>3. Cardinality(H) = Cardinality(1 .. n) <=> P \in Surjection(H, 1 .. n)
    BY <2>1, <2>2, FS_Injection
  <2> QED  BY <2>2, <2>3 DEF n
<1>2. o \in Nat /\ o + PageSize <= n
  <2>1. page - 1 \in Nat /\ PageSize \in Nat
    BY RequestsOK
  <2>2. (page - 1) * PageSize \in Nat
    BY <2>1
  <2>3. Position(r, u) \in 1 .. n
    BY PositionsDiffer
  <2> HIDE DEF n
  <2> QED  BY <1>0, <2>1, <2>2, <2>3 DEF Offset
<1>3. \A k \in wanted : \E x \in Page(u, page) : Position(x, u) = k
  <2> SUFFICES ASSUME NEW k \in wanted
               PROVE  \E x \in Page(u, page) : Position(x, u) = k
    OBVIOUS
  <2>1. k \in 1 .. n /\ k > o /\ k <= o + PageSize
    BY <1>0, <1>2, RequestsOK
  <2>2. \E x \in H : P[x] = k
    <3> HIDE DEF P, n
    <3> QED  BY <1>1, <2>1 DEF Surjection
  <2> QED  BY <2>1, <2>2 DEF Page
<1>4. IsFiniteSet(Page(u, page))
  BY <1>0, FS_Subset DEF Page
<1> DEFINE Q == [x \in Page(u, page) |-> Position(x, u)]
<1>5. Q \in Surjection(Page(u, page), wanted)
  <2>1. \A x \in Page(u, page) : Position(x, u) \in wanted
    <3>1. \A x \in Page(u, page) :
            Position(x, u) \in 1 .. n /\ Position(x, u) > o /\ Position(x, u) <= o + PageSize
      BY PositionsDiffer DEF Page
    <3> QED  BY <1>0, <1>2, <3>1, RequestsOK
  <2> QED  BY <1>3, <2>1 DEF Surjection
<1>6. Cardinality(wanted) = PageSize
  BY <1>2, RequestsOK, FS_Interval
<1>7. Cardinality(wanted) <= Cardinality(Page(u, page))
  <2> HIDE DEF Q, wanted
  <2> QED  BY <1>4, <1>5, FS_Surjection
<1>8. Cardinality(Page(u, page)) \in Nat
  BY <1>4, FS_CardinalityType
<1> QED  BY <1>6, <1>7, <1>8, RequestsOK

(* A saved row keeps its stamp, and the history only grows.                *)
LEMMA HistoryGrows ==
  ASSUME ScansInv, [Next]_vars
  PROVE  rows \subseteq rows' /\ rows' \subseteq Tasks /\ \A x \in rows : created'[x] = created[x]
<1>1. rows' \subseteq Tasks
  BY ScansSteps DEF ScansInv, ScansTypeOK
<1>2. CASE created' = created /\ rows \subseteq rows'
  BY <1>1, <1>2
<1>3. ASSUME NEW r \in Tasks, EngineEnds(r)
      PROVE  rows \subseteq rows' /\ \A x \in rows : created'[x] = created[x]
  <2>1. r \notin rows
    BY <1>3 DEF EngineEnds, ScansInv, RowsOK, RowOK
  <2> QED  BY <1>3, <2>1 DEF EngineEnds, ScansInv, ScansTypeOK
<1> QED  BY <1>1, <1>2, <1>3
  DEF Next, vars, pool, CreateScan, Receive, ResolveTarget, ObtainToken, FetchManifest,
      Refuse, StartEngine, StartSave, Commit, Respond, Timeout, AbandonedEnds, LateReport,
      ApiCrash, StartWalk, ReadPage

(* So a row only moves towards the end.                                    *)
LEMMA PositionsGrow ==
  ASSUME ScansInv, [Next]_vars, NEW u, NEW r \in HistoryOf(u)
  PROVE  r \in HistoryOf(u)' /\ Position(r, u)' \in Nat /\ Position(r, u)' >= Position(r, u)
<1>1. /\ rows \subseteq rows' /\ rows' \subseteq Tasks /\ rows \subseteq Tasks
      /\ \A x \in rows : created'[x] = created[x]
  BY HistoryGrows DEF ScansInv, ScansTypeOK
<1>2. r \in HistoryOf(u)' /\ DownTo(r, u) \in SUBSET (DownTo(r, u)')
  BY <1>1 DEF HistoryOf, DownTo
<1>3. DownTo(r, u)' \in SUBSET Tasks
  BY <1>1 DEF HistoryOf, DownTo
<1>4. IsFiniteSet(DownTo(r, u)')
  BY <1>3, RequestsOK, FS_Subset
<1>5. /\ Cardinality(DownTo(r, u)) <= Cardinality(DownTo(r, u)')
      /\ Cardinality(DownTo(r, u)') \in Nat
  BY <1>2, <1>4, FS_Subset, FS_CardinalityType
<1> QED  BY <1>2, <1>5 DEF Position, DownTo

(* What the reader has not seen yet of the first history is still ahead.   *)
WalkInv ==
  /\ reader \in Readers
  /\ reader.at # "idle" =>
       /\ reader.page \in Nat \ {0}
       /\ reader.first \subseteq HistoryOf(reader.user)
       /\ \A r \in reader.first \ reader.seen :
            reader.at = "walking" /\ Position(r, reader.user) > Offset(reader.page)

LEMMA WalkStarts == Init => WalkInv
<1> SUFFICES ASSUME Init
             PROVE  NobodyReads \in Readers
  BY DEF Init, WalkInv, NobodyReads
<1>1. Users # {}
  BY RequestsOK
<1> QED  BY <1>1 DEF NobodyReads, Readers

LEMMA WalkSteps ==
  ASSUME ScansInv, WalkInv, [Next]_vars
  PROVE  WalkInv'
<1> USE DEF WalkInv
<1>1. CASE reader' = reader
  <2> SUFFICES ASSUME reader.at # "idle"
               PROVE  /\ reader.first \subseteq HistoryOf(reader.user)'
                      /\ \A r \in reader.first \ reader.seen :
                           Position(r, reader.user)' > Offset(reader.page)
    BY <1>1 DEF Offset, Position, HistoryOf
  <2>1. /\ reader.page \in Nat \ {0} /\ reader.first \subseteq HistoryOf(reader.user)
        /\ \A r \in reader.first \ reader.seen : Position(r, reader.user) > Offset(reader.page)
    OBVIOUS
  <2>2. Offset(reader.page) \in Nat
    BY <2>1, RequestsOK DEF Offset
  <2>3. \A u : \A r \in HistoryOf(u) : Position(r, u) \in Nat
    BY PositionsDiffer, HistoryFinite
  <2>4. \A u : \A r \in HistoryOf(u) :
          r \in HistoryOf(u)' /\ Position(r, u)' \in Nat /\ Position(r, u)' >= Position(r, u)
    BY PositionsGrow
  <2> QED  BY <1>1, <2>1, <2>2, <2>3, <2>4
<1>2. ASSUME NEW u \in Users, StartWalk(u)
      PROVE  WalkInv'
  <2>1. HistoryOf(u)' = HistoryOf(u) /\ HistoryOf(u) \in SUBSET Tasks
    BY <1>2 DEF StartWalk, pool, HistoryOf, ScansInv, ScansTypeOK
  <2>2. \A r \in HistoryOf(u) : Position(r, u)' = Position(r, u) /\ Position(r, u) > 0
    BY <1>2, <2>1, PositionsDiffer, HistoryFinite DEF StartWalk, pool, Position
  <2>3. Offset(1) = 0
    BY RequestsOK DEF Offset
  <2>4. reader' = [at |-> "walking", user |-> u, page |-> 1, first |-> HistoryOf(u), seen |-> {}]
    BY <1>2 DEF StartWalk
  <2>5. reader' \in Readers
    BY <2>1, <2>4 DEF Readers
  <2> QED  BY <2>1, <2>2, <2>3, <2>4, <2>5
<1>3. CASE ReadPage
  <2> DEFINE u == reader.user
             items == Page(u, reader.page)
  <2>1. /\ reader.at = "walking" /\ reader \in Readers /\ reader.page \in Nat \ {0}
        /\ reader.first \subseteq HistoryOf(u) /\ UNCHANGED <<rows, created>>
    BY <1>3 DEF ReadPage, pool
  <2>2. reader' = [at |-> IF Cardinality(items) < PageSize THEN "ended" ELSE "walking",
                   user |-> u, page |-> reader.page + 1, first |-> reader.first,
                   seen |-> reader.seen \cup items]
    BY <1>3, <2>1 DEF ReadPage, Readers
  <2>3. items \in SUBSET Tasks
    BY DEF Page, HistoryOf, ScansInv, ScansTypeOK
  <2>4. reader' \in Readers
    BY <2>1, <2>2, <2>3 DEF Readers
  <2>5. Offset(reader.page + 1) = Offset(reader.page) + PageSize /\ Offset(reader.page) \in Nat
    <3>1. \A n \in Nat \ {0} : /\ ((n + 1) - 1) * PageSize = (n - 1) * PageSize + PageSize
                               /\ (n - 1) * PageSize \in Nat
      BY RequestsOK
    <3> QED  BY <2>1, <3>1 DEF Offset
  <2>6. ASSUME NEW r \in reader.first \ (reader.seen \cup items)
        PROVE  /\ Position(r, u) > Offset(reader.page) + PageSize
               /\ Cardinality(items) >= PageSize /\ Cardinality(items) \in Nat
    <3>1. r \in HistoryOf(u) /\ Position(r, u) > Offset(reader.page) /\ Position(r, u) \in Nat
      BY <2>1, <2>6, PositionsDiffer, HistoryFinite
    <3>2. Position(r, u) > Offset(reader.page) + PageSize
      BY <2>5, <2>6, <3>1, RequestsOK DEF Page
    <3>3. Cardinality(items) \in Nat
      BY <2>3, RequestsOK, FS_Subset, FS_CardinalityType
    <3> QED  BY <2>1, <3>1, <3>2, <3>3, PageIsFull
  <2>7. HistoryOf(u)' = {x \in rows : UserOf[x] = u} /\ HistoryOf(u) = {x \in rows : UserOf[x] = u}
    BY <2>1, <2>2 DEF HistoryOf
  <2>8. \A r \in HistoryOf(u) : (Position(r, reader.user))' = Position(r, u)
    BY <2>1, <2>2 DEF Position, HistoryOf
  <2>9. \A r \in reader'.first \ reader'.seen :
          reader'.at = "walking" /\ Position(r, u) > Offset(reader'.page)
    BY <2>2, <2>5, <2>6, RequestsOK
  <2> HIDE DEF items
  <2>10. reader'.user = u /\ reader'.first = reader.first /\ reader'.page \in Nat \ {0}
    BY <2>1, <2>2
  <2>11. (HistoryOf(reader.user))' = HistoryOf(u)
    BY <2>1, <2>10 DEF HistoryOf
  <2> QED  BY <2>1, <2>4, <2>8, <2>9, <2>10, <2>11 DEF Offset
<1> QED  BY <1>1, <1>2, <1>3
  DEF Next, vars, CreateScan, Receive, ResolveTarget, ObtainToken, FetchManifest, Refuse,
      StartEngine, StartSave, Commit, Respond, EngineEnds, Timeout, AbandonedEnds, ApiCrash

(* A client that reads the history page by page misses no scan that was in *)
(* it at the start, whatever is saved between two pages.                   *)
THEOREM NoScanMissed == Spec => []WalkMissesNothing
<1>1. ScansInv /\ WalkInv /\ [Next]_vars => WalkInv'
  BY WalkSteps
<1>2. WalkInv => WalkMissesNothing
  BY DEF WalkInv, WalkMissesNothing
<1> QED  BY ScansStart, ScansSteps, WalkStarts, <1>1, <1>2, PTL DEF Spec

CrashesOK == crashes \in 0 .. MaxCrashes

(* Every variable keeps its type.                                          *)
THEOREM ScansTyped == Spec => []TypeOK
<1>1. Init => CrashesOK
  BY RequestsOK DEF Init, CrashesOK
<1>2. CrashesOK /\ [Next]_vars => CrashesOK'
  BY RequestsOK
  DEF CrashesOK, Next, vars, pool, CreateScan, Receive, ResolveTarget, ObtainToken, FetchManifest,
      Refuse, StartEngine, StartSave, Commit, Respond, EngineEnds, Timeout, AbandonedEnds,
      ApiCrash, StartWalk, ReadPage
<1>3. TokensInv /\ ScansInv /\ WalkInv /\ CrashesOK => TypeOK
  BY DEF TokensInv, ScansInv, ScansTypeOK, WalkInv, CrashesOK, TypeOK
<1>4. Init => TokensInv
  BY TokensStart DEF Init
<1>5. TokensInv /\ [Next]_vars => TokensInv'
  BY TokensOfScan, TokensSteps
<1>6. ScansInv /\ WalkInv /\ [Next]_vars => WalkInv'
  BY WalkSteps
<1> QED  BY ScansStart, ScansSteps, WalkStarts, <1>1, <1>2, <1>3, <1>4, <1>5, <1>6, PTL DEF Spec

=============================================================================
