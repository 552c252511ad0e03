----------------------------- MODULE LookupProofs -----------------------------
(***************************************************************************)
(* Lookups, for any number of them and of names, any budget, timeout, size *)
(* of body, time to live and number of retries: none begins an attempt     *)
(* past its budget, the cache they share is never half written, and what   *)
(* they answer is, or was until a short while ago, what the server said.   *)
(***************************************************************************)
EXTENDS Lookup, Recursion

(* A record with the fields of a job, whatever they hold.                  *)
IsJob(j) ==
  /\ j = [at |-> j.at, todo |-> j.todo, ask |-> j.ask, body |-> j.body,
          tried |-> j.tried, spent |-> j.spent, pause |-> j.pause]
  /\ j.tried \in Nat /\ j.spent \in Nat /\ j.pause \in Int

(* How long a job may have taken.                                          *)
JobInTime(j) ==
  /\ j.at \in {"new", "cache", "try"} => j.spent < Budget /\ j.pause = 0
  /\ j.at = "sleep" => j.spent + j.pause <= Budget
  /\ j.at = "http" => j.spent <= Late /\ j.pause = 0
  /\ j.at \notin {"new", "cache", "try", "sleep", "http"} => j.spent = 0 /\ j.pause = 0

(* A request is open while its job is at it, and only then.                *)
Matched(j, c) == j.at = "http" <=> c.at # "idle"

JobOK(j, c) == IsJob(j) /\ JobInTime(j) /\ Matched(j, c)

IsEntry(e) == e = [says |-> e.says, shown |-> e.shown]

(* Temporary files are those of jobs that are writing or died, and hold    *)
(* whole entries once they are renamed.                                    *)
TempOK(e, at) ==
  /\ e # NoEntry => (e = Unreadable \/ IsEntry(e)) /\ at \in {"write", "rename", "dead"}
  /\ at = "rename" => IsEntry(e)

LookupInv ==
  /\ HttpTypeOK
  /\ job = [l \in Lookups |-> job[l]]
  /\ temp = [l \in Lookups |-> temp[l]]
  /\ \A l \in Lookups : JobOK(job[l], conn[l])
  /\ \A l \in Lookups : TempOK(temp[l], job[l].at)

LEMMA LookupStarts == Init => LookupInv
<1> SUFFICES ASSUME Init
             PROVE  LookupInv
  OBVIOUS
<1> USE LookupOK, HttpOK DEF Init, NamesOf
<1>1. HttpTypeOK /\ \A l \in Lookups : conn[l] = Idle
  BY DEF HttpInit, HttpTypeOK, Idle
<1>2. job = [l \in Lookups |-> job[l]] /\ \A l \in Lookups : JobOK(job[l], conn[l])
  BY <1>1 DEF Job, JobOK, IsJob, JobInTime, Matched, Idle
<1>3. temp = [l \in Lookups |-> temp[l]] /\ \A l \in Lookups : TempOK(temp[l], job[l].at)
  BY DEF CacheInit, TempOK, Job
<1> QED  BY <1>1, <1>2, <1>3 DEF LookupInv

(* A job with another place, or a new one.                                 *)
LEMMA MovedJob ==
  ASSUME NEW j, IsJob(j), NEW place
  PROVE  /\ IsJob([j EXCEPT !.at = place])
         /\ [j EXCEPT !.at = place].at = place
         /\ [j EXCEPT !.at = place].spent = j.spent /\ [j EXCEPT !.at = place].pause = j.pause
  BY DEF IsJob

LEMMA NewJob ==
  ASSUME NEW place, NEW todo, NEW body
  PROVE  /\ IsJob(Job(place, todo)) /\ IsJob([Job(place, todo) EXCEPT !.body = body])
         /\ Job(place, todo).at = place /\ [Job(place, todo) EXCEPT !.body = body].at = place
         /\ Job(place, todo).spent = 0 /\ [Job(place, todo) EXCEPT !.body = body].spent = 0
         /\ Job(place, todo).pause = 0 /\ [Job(place, todo) EXCEPT !.body = body].pause = 0
  BY DEF Job, IsJob

LEMMA PutJob ==
  ASSUME NEW todo, NEW body, NEW n, n = [Job("put", todo) EXCEPT !.body = body]
  PROVE  IsJob(n) /\ n.at = "put" /\ n.spent = 0 /\ n.pause = 0
  BY DEF Job, IsJob

LEMMA EntriesDiffer ==
  ASSUME NEW e, IsEntry(e)
  PROVE  e # Unreadable
  BY DEF IsEntry, Unreadable

-----------------------------------------------------------------------------
(* What becomes of a job when its request has ended.                       *)
Ended(n) ==
  /\ IsJob(n)
  /\ \/ n.at \in {"put", "done"} /\ n.spent = 0 /\ n.pause = 0
     \/ n.at = "sleep" /\ n.spent + n.pause <= Budget

LEMMA GiveUpEnds ==
  ASSUME NEW l \in Lookups, GiveUp(l)
  PROVE  \E n : Ended(n) /\ job' = [job EXCEPT ![l] = n]
<1>1. job' = [job EXCEPT ![l] = Job("done", <<>>)]
  BY DEF GiveUp, Finish
<1>2. Ended(Job("done", <<>>))
  BY NewJob DEF Ended
<1> QED  BY <1>1, <1>2

LEMMA TakeEnds ==
  ASSUME NEW l \in Lookups, NEW says, NEW S, Take(l, says, S)
  PROVE  \E n : Ended(n) /\ job' = [job EXCEPT ![l] = n]
<1>1. Ended(Job("done", <<>>))
  BY NewJob DEF Ended
<1>2. Ended(Job("put", job[l].ask))
  BY DEF Job, IsJob, Ended
<1>3. Ended([Job("put", <<Head(job[l].ask)>>) EXCEPT !.body = job[l].body])
  <2> DEFINE todo == <<Head(job[l].ask)>>
             body == job[l].body
             n == [Job("put", todo) EXCEPT !.body = body]
  <2>0. n = [Job("put", todo) EXCEPT !.body = body]
    OBVIOUS
  <2> HIDE DEF n, todo, body
  <2>1. IsJob(n) /\ n.at = "put" /\ n.spent = 0 /\ n.pause = 0
    BY <2>0, PutJob
  <2>2. Ended(n)
    BY <2>1 DEF Ended
  <2> QED  BY <2>2 DEF n, todo, body
<1>4. CASE ~caching
  BY <1>1, <1>4 DEF Take, Finish
<1>5. CASE caching /\ source = "watchlist"
  BY <1>3, <1>5 DEF Take
<1>6. CASE caching /\ source # "watchlist"
  BY <1>2, <1>6 DEF Take
<1> QED  BY <1>4, <1>5, <1>6

LEMMA OtherBody ==
  ASSUME NEW j, IsJob(j), NEW body
  PROVE  /\ IsJob([j EXCEPT !.body = body]) /\ [j EXCEPT !.body = body].at = j.at
         /\ [j EXCEPT !.body = body].spent = j.spent /\ [j EXCEPT !.body = body].pause = j.pause
  BY DEF IsJob

LEMMA ChangedJob ==
  ASSUME NEW j, IsJob(j), NEW p \in Int
  PROVE  /\ IsJob([j EXCEPT !.tried = @ + 1]) /\ [j EXCEPT !.tried = @ + 1].at = j.at
         /\ [j EXCEPT !.tried = @ + 1].spent = j.spent
         /\ IsJob([j EXCEPT !.pause = p]) /\ [j EXCEPT !.pause = p].at = j.at
         /\ [j EXCEPT !.pause = p].spent = j.spent /\ [j EXCEPT !.pause = p].pause = p
  BY DEF IsJob

LEMMA OtherNames ==
  ASSUME NEW j, IsJob(j), NEW names
  PROVE  /\ IsJob([j EXCEPT !.todo = names]) /\ [j EXCEPT !.todo = names].at = j.at
         /\ [j EXCEPT !.todo = names].spent = j.spent /\ [j EXCEPT !.todo = names].pause = j.pause
         /\ IsJob([j EXCEPT !.ask = names]) /\ [j EXCEPT !.ask = names].at = j.at
         /\ [j EXCEPT !.ask = names].spent = j.spent /\ [j EXCEPT !.ask = names].pause = j.pause
  BY DEF IsJob

SameTimes(n, j, place) ==
  IsJob(n) /\ n.at = place /\ n.spent = j.spent /\ n.pause = j.pause

LEMMA RenamedJob ==
  ASSUME NEW j, IsJob(j), NEW todo, NEW ask
  PROVE  SameTimes([j EXCEPT !.todo = todo, !.ask = ask], j, j.at)
<1> DEFINE m == [j EXCEPT !.todo = todo]
           n == [m EXCEPT !.ask = ask]
<1>1. IsJob(m) /\ m.at = j.at /\ m.spent = j.spent /\ m.pause = j.pause
  BY OtherNames
<1> HIDE DEF m
<1>2. IsJob(n) /\ n.at = m.at /\ n.spent = m.spent /\ n.pause = m.pause
  BY <1>1, OtherNames
<1> HIDE DEF n
<1>3. SameTimes(n, j, j.at)
  BY <1>1, <1>2 DEF SameTimes
<1> QED  BY <1>3 DEF m, n

LEMMA RenamedMovedJob ==
  ASSUME NEW j, IsJob(j), NEW place, NEW todo, NEW ask
  PROVE  SameTimes([j EXCEPT !.at = place, !.todo = todo, !.ask = ask], j, place)
<1> DEFINE k == [j EXCEPT !.at = place]
           n == [k EXCEPT !.todo = todo, !.ask = ask]
<1>1. IsJob(k) /\ k.at = place /\ k.spent = j.spent /\ k.pause = j.pause
  BY MovedJob
<1> HIDE DEF k
<1>2. SameTimes(n, k, k.at)
  BY <1>1, RenamedJob
<1> HIDE DEF n
<1>3. SameTimes(n, j, place)
  BY <1>1, <1>2 DEF SameTimes
<1> QED  BY <1>3 DEF k, n

LEMMA SleepingJob ==
  ASSUME NEW j, NEW p \in Int, IsJob(j), p <= Budget - j.spent
  PROVE  Ended([j EXCEPT !.at = "sleep", !.tried = @ + 1, !.pause = p, !.body = NoBody])
<1> DEFINE n1 == [j EXCEPT !.at = "sleep"]
           n2 == [n1 EXCEPT !.tried = @ + 1]
           n3 == [n2 EXCEPT !.pause = p]
           n4 == [n3 EXCEPT !.body = NoBody]
<1>1. IsJob(n1) /\ n1.at = "sleep" /\ n1.spent = j.spent
  BY MovedJob
<1>2. n4 = [j EXCEPT !.at = "sleep", !.tried = @ + 1, !.pause = p, !.body = NoBody]
  BY DEF IsJob
<1> HIDE DEF n1
<1>3. IsJob(n2) /\ n2.at = "sleep" /\ n2.spent = j.spent
  BY <1>1, ChangedJob
<1> HIDE DEF n2
<1>4. IsJob(n3) /\ n3.at = "sleep" /\ n3.spent = j.spent /\ n3.pause = p
  BY <1>3, ChangedJob
<1> HIDE DEF n3
<1>5. IsJob(n4) /\ n4.at = "sleep" /\ n4.spent = j.spent /\ n4.pause = p
  BY <1>4, OtherBody
<1> HIDE DEF n4
<1>6. Ended(n4)
  BY <1>5, LookupOK DEF Ended, IsJob
<1> QED  BY <1>2, <1>6

(* Each pause is twice the one before it.                                  *)
LEMMA PausesNat == \A n \in Nat : Pauses[n] \in Nat
<1> DEFINE step == [n \in Nat |-> [x \in Nat |-> 2 * x]]
           T == {n \in Nat : Pauses[n] \in Nat}
<1>1. step \in StepsOver(Nat) /\ 1 \in Nat /\ \A n, x \in Nat : step[n][x] = 2 * x
  BY DEF StepsOver
<1> HIDE DEF step
<1>2. PICK g : g \in [Nat -> Nat] /\ g[0] = 1 /\ \A n \in Nat \ {0} : g[n] = step[n][g[n - 1]]
  <2>1. \E g : Iterates(Nat, 1, step, g)
    BY <1>1, IteratesExist
  <2> QED  BY <2>1 DEF Iterates
<1>3. g = [n \in Nat |-> IF n = 0 THEN 1 ELSE 2 * g[n - 1]]
  <2>1. ASSUME NEW n \in Nat
        PROVE  g[n] = IF n = 0 THEN 1 ELSE 2 * g[n - 1]
    <3>1. CASE n = 0
      BY <1>2, <3>1
    <3>2. CASE n # 0
      <4>1. n - 1 \in Nat /\ g[n - 1] \in Nat /\ g[n] = step[n][g[n - 1]]
        BY <1>2, <3>2
      <4> QED  BY <1>1, <3>2, <4>1
    <3> QED  BY <3>1, <3>2
  <2> QED  BY <1>2, <2>1
<1>4. Pauses = [n \in Nat |-> IF n = 0 THEN 1 ELSE 2 * Pauses[n - 1]]
  BY <1>3 DEF Pauses
<1>5. 0 \in T
  BY <1>4
<1>6. ASSUME NEW n \in T
      PROVE  n + 1 \in T
  BY <1>4
<1>7. T \in SUBSET Nat
  OBVIOUS
<1>8. T = Nat
  <2> HIDE DEF T
  <2> QED  BY <1>5, <1>6, <1>7, AllNumbers
<1> QED  BY <1>8

LEMMA RetryEnds ==
  ASSUME LookupInv, NEW l \in Lookups, job[l].at = "http", Retry(l)
  PROVE  \E n : Ended(n) /\ job' = [job EXCEPT ![l] = n]
<1>1. CASE MayRetry(l)
  <2>1. IsJob(job[l])
    BY DEF LookupInv, JobOK
  <2>2. Backoff(l) \in Int /\ Backoff(l) <= Budget - job[l].spent
    BY <1>1, <2>1, PausesNat DEF MayRetry, Fits, Backoff, IsJob
  <2> DEFINE n == [job[l] EXCEPT !.at = "sleep", !.tried = @ + 1, !.pause = Backoff(l),
                                 !.body = NoBody]
  <2>4. Ended(n)
    BY <2>1, <2>2, SleepingJob
  <2>5. job' = [job EXCEPT ![l] = n]
    BY <1>1 DEF Retry
  <2> HIDE DEF n
  <2> QED  BY <2>4, <2>5
<1>2. CASE ~MayRetry(l)
  BY <1>2, GiveUpEnds DEF Retry
<1> QED  BY <1>1, <1>2

LEMMA DigestEnds ==
  ASSUME LookupInv, NEW l \in Lookups, job[l].at = "http", NEW result, Digest(l, result)
  PROVE  \E n : Ended(n) /\ job' = [job EXCEPT ![l] = n]
<1>1. CASE \E says, S : Take(l, says, S)
  BY <1>1, TakeEnds
<1>2. CASE Retry(l)
  BY <1>2, RetryEnds
<1>3. CASE GiveUp(l)
  BY <1>3, GiveUpEnds
<1> QED  BY <1>1, <1>2, <1>3 DEF Digest

(* A step of one lookup, its request and its temporary file.               *)
LEMMA OneLookup ==
  ASSUME LookupInv, NEW l \in Lookups, NEW n, NEW e,
         job' = [job EXCEPT ![l] = n],
         temp' = [temp EXCEPT ![l] = e],
         HttpTypeOK', \A x \in Lookups \ {l} : conn'[x] = conn[x],
         JobOK(n, conn'[l]), TempOK(e, n.at)
  PROVE  LookupInv'
<1>1. job' = [x \in Lookups |-> job'[x]] /\ job'[l] = n /\ \A x \in Lookups \ {l} : job'[x] = job[x]
  BY DEF LookupInv
<1>2. temp' = [x \in Lookups |-> temp'[x]] /\ temp'[l] = e /\ \A x \in Lookups \ {l} : temp'[x] = temp[x]
  BY DEF LookupInv
<1>3. \A x \in Lookups : JobOK(job'[x], conn'[x])
  BY <1>1 DEF LookupInv
<1>4. \A x \in Lookups : TempOK(temp'[x], job'[x].at)
  BY <1>1, <1>2 DEF LookupInv
<1> QED  BY <1>1, <1>2, <1>3, <1>4 DEF LookupInv

-----------------------------------------------------------------------------
(* Each step, in turn.                                                     *)

(* The lookup of the cache leaves the times of a job as they are.          *)
LEMMA ReadCacheStep ==
  ASSUME LookupInv, NEW l \in Lookups, ReadCache(l)
  PROVE  LookupInv'
<1> DEFINE j == job[l]
<1>1. IsJob(j) /\ j.at \in {"new", "cache"} /\ JobOK(j, conn[l]) /\ TempOK(temp[l], j.at)
  BY DEF LookupInv, ReadCache, JobOK
<1>2. PICK n : /\ job' = [job EXCEPT ![l] = n] /\ IsJob(n)
               /\ \/ n.at \in {"cache", "try"} /\ n.spent = j.spent /\ n.pause = j.pause
                  \/ n.at = "done" /\ n.spent = 0 /\ n.pause = 0
  <2>1. PICK left, ask :
          \/ job' = [job EXCEPT ![l] = [j EXCEPT !.at = "cache", !.todo = left, !.ask = ask]]
          \/ job' = [job EXCEPT ![l] = [j EXCEPT !.at = "try", !.todo = left, !.ask = ask]]
          \/ job' = [job EXCEPT ![l] = Job("done", <<>>)]
    BY DEF ReadCache, Finish
  <2>2. CASE job' = [job EXCEPT ![l] = [j EXCEPT !.at = "cache", !.todo = left, !.ask = ask]]
    <3> DEFINE m == [j EXCEPT !.at = "cache", !.todo = left, !.ask = ask]
    <3>1. SameTimes(m, j, "cache")
      BY <1>1, RenamedMovedJob
    <3>2. job' = [job EXCEPT ![l] = m]
      BY <2>2
    <3> HIDE DEF m
    <3> QED  BY <3>1, <3>2 DEF SameTimes
  <2>3. CASE job' = [job EXCEPT ![l] = [j EXCEPT !.at = "try", !.todo = left, !.ask = ask]]
    <3> DEFINE m == [j EXCEPT !.at = "try", !.todo = left, !.ask = ask]
    <3>1. SameTimes(m, j, "try")
      BY <1>1, RenamedMovedJob
    <3>2. job' = [job EXCEPT ![l] = m]
      BY <2>3
    <3> HIDE DEF m
    <3> QED  BY <3>1, <3>2 DEF SameTimes
  <2>4. CASE job' = [job EXCEPT ![l] = Job("done", <<>>)]
    <3> DEFINE m == Job("done", <<>>)
    <3>1. IsJob(m) /\ m.at = "done" /\ m.spent = 0 /\ m.pause = 0
      BY NewJob
    <3>2. job' = [job EXCEPT ![l] = m]
      BY <2>4
    <3> HIDE DEF m
    <3> QED  BY <3>1, <3>2
  <2> QED  BY <2>1, <2>2, <2>3, <2>4
<1>3. JobInTime(n) /\ n.at # "http" /\ n.at # "rename"
  BY <1>1, <1>2 DEF JobOK, JobInTime
<1>4. JobOK(n, conn[l]) /\ TempOK(temp[l], n.at)
  BY <1>1, <1>2, <1>3 DEF JobOK, Matched, TempOK
<1>5. temp' = [temp EXCEPT ![l] = temp[l]] /\ conn' = conn /\ HttpTypeOK'
  BY DEF LookupInv, ReadCache, cache, HttpTypeOK
<1> QED  BY <1>2, <1>4, <1>5, OneLookup

Conns == [at : {"idle", "opening", "reading"}, wait : 0 .. Timeout, got : 0 .. MaxBytes]

(* A step of lookup l that leaves the others' requests alone.              *)
LEMMA NewConn ==
  ASSUME LookupInv, NEW l \in Lookups, NEW c \in Conns, conn' = [conn EXCEPT ![l] = c]
  PROVE  HttpTypeOK' /\ conn'[l] = c /\ \A x \in Lookups \ {l} : conn'[x] = conn[x]
  BY DEF LookupInv, HttpTypeOK, Conns

LEMMA ConnTypes ==
  ASSUME LookupInv
  PROVE  \A l \in Lookups : conn[l] \in Conns
  BY DEF LookupInv, HttpTypeOK, Conns

LEMMA IdleConn == Idle \in Conns /\ Idle.at = "idle" /\ Idle.wait = 0 /\ Idle.got = 0
  BY HttpOK DEF Idle, Conns

LEMMA SameTemp ==
  ASSUME LookupInv, NEW l \in Lookups, temp' = temp
  PROVE  temp' = [temp EXCEPT ![l] = temp[l]]
  BY DEF LookupInv

LEMMA AskStep ==
  ASSUME LookupInv, NEW l \in Lookups, Ask(l)
  PROVE  LookupInv'
<1> DEFINE j == job[l]
<1>1. IsJob(j) /\ j.at = "try" /\ JobOK(j, conn[l]) /\ TempOK(temp[l], j.at) /\ conn[l] \in Conns
  BY ConnTypes DEF LookupInv, Ask, JobOK
<1>2. temp' = [temp EXCEPT ![l] = temp[l]]
  BY SameTemp DEF Ask, cache
<1>3. CASE Open(l) /\ Move(l, "http")
  <2> DEFINE n == [j EXCEPT !.at = "http"]
             c == [conn[l] EXCEPT !.at = "opening"]
  <2>1. IsJob(n) /\ n.at = "http" /\ n.spent = j.spent /\ n.pause = j.pause
    BY <1>1, MovedJob
  <2>2. c \in Conns /\ c.at = "opening" /\ c.wait = conn[l].wait /\ c.wait \in Nat
    BY <1>1 DEF Conns
  <2>3. job' = [job EXCEPT ![l] = n] /\ conn' = [conn EXCEPT ![l] = c]
    BY <1>3 DEF Open, Move
  <2> HIDE DEF n, c
  <2>4. /\ HttpTypeOK' /\ conn'[l] = c /\ \A x \in Lookups \ {l} : conn'[x] = conn[x]
    BY <2>2, <2>3, NewConn
  <2>5. JobOK(n, conn'[l])
    BY <1>1, <2>1, <2>2, <2>4, LookupOK DEF JobOK, IsJob, JobInTime, Matched
  <2>6. TempOK(temp[l], n.at)
    BY <1>1, <2>1 DEF TempOK
  <2> QED  BY <1>2, <2>3, <2>4, <2>5, <2>6, OneLookup
<1>4. CASE GiveUp(l) /\ UNCHANGED conn
  <2>1. PICK n : Ended(n) /\ job' = [job EXCEPT ![l] = n]
    BY <1>4, GiveUpEnds
  <2>2. HttpTypeOK' /\ \A x \in Lookups : conn'[x] = conn[x]
    BY <1>4 DEF LookupInv, HttpTypeOK
  <2>3. JobOK(n, conn'[l]) /\ TempOK(temp[l], n.at)
    BY <1>1, <2>1, <2>2 DEF JobOK, Ended, JobInTime, Matched, TempOK
  <2> QED  BY <1>2, <2>1, <2>2, <2>3, OneLookup
<1> QED  BY <1>3, <1>4 DEF Ask

(* A request that goes on goes on where it was.                            *)
LEMMA RequestLasts ==
  ASSUME LookupInv, NEW l \in Lookups,
         OpeningGoesOn(l, "none") \/ Chunk(l, "none") \/ BodyEnds(l, "none") \/ SocketFails(l, "none")
  PROVE  \E c \in Conns : c.at = conn[l].at /\ c.at # "idle" /\ conn' = [conn EXCEPT ![l] = c]
<1> DEFINE d == conn[l]
           c1 == [d EXCEPT !.wait = 0]
           c2 == [d EXCEPT !.got = @ + 1, !.wait = 0]
<1>1. d \in Conns /\ d.at # "idle"
  BY ConnTypes DEF OpeningGoesOn, Chunk, BodyEnds, SocketFails
<1>2. conn' = [conn EXCEPT ![l] = c1] \/ (d.got < MaxBytes /\ conn' = [conn EXCEPT ![l] = c2])
  BY DEF OpeningGoesOn, Chunk, BodyEnds, SocketFails
<1> HIDE DEF d
<1>3. c1 \in Conns /\ c1.at = d.at
  BY <1>1, HttpOK DEF Conns
<1>4. d.got < MaxBytes => c2 \in Conns /\ c2.at = d.at
  <2> DEFINE m == [d EXCEPT !.got = @ + 1]
             n == [m EXCEPT !.wait = 0]
  <2>1. d.got < MaxBytes => m \in Conns /\ m.at = d.at
    BY <1>1, HttpOK DEF Conns
  <2>2. n = c2
    BY <1>1 DEF Conns
  <2> HIDE DEF m
  <2>3. d.got < MaxBytes => n \in Conns /\ n.at = m.at
    BY <2>1, HttpOK DEF Conns
  <2> QED  BY <2>1, <2>2, <2>3
<1> HIDE DEF c1, c2
<1> QED  BY <1>1, <1>2, <1>3, <1>4 DEF d

(* A request is where its job is, whatever its socket operation brings.    *)
LEMMA ReceiveStep ==
  ASSUME LookupInv, NEW l \in Lookups, Receive(l)
  PROVE  LookupInv'
<1> DEFINE j == job[l]
<1>1. /\ IsJob(j) /\ j.at = "http" /\ JobOK(j, conn[l]) /\ TempOK(temp[l], j.at)
      /\ conn[l] \in Conns /\ temp[l] = NoEntry
  BY ConnTypes DEF LookupInv, Receive, JobOK, TempOK
<1>2. temp' = [temp EXCEPT ![l] = temp[l]]
  BY SameTemp DEF Receive, cache
<1>3. ASSUME Close(l), NEW result, Digest(l, result)
      PROVE  LookupInv'
  <2>1. PICK n : Ended(n) /\ job' = [job EXCEPT ![l] = n]
    BY <1>1, <1>3, DigestEnds
  <2>2. HttpTypeOK' /\ conn'[l] = Idle /\ \A x \in Lookups \ {l} : conn'[x] = conn[x]
    BY <1>3, IdleConn, NewConn DEF Close
  <2>3. JobOK(n, conn'[l]) /\ TempOK(temp[l], n.at)
    BY <1>1, <2>1, <2>2, IdleConn DEF JobOK, Ended, JobInTime, Matched, TempOK
  <2> QED  BY <1>2, <2>1, <2>2, <2>3, OneLookup
<1>4. ASSUME StatusLine(l, "200", "none"), job' = [job EXCEPT ![l].body = truth]
      PROVE  LookupInv'
  <2> DEFINE n == [j EXCEPT !.body = truth]
             c == [Idle EXCEPT !.at = "reading"]
  <2>1. IsJob(n) /\ n.at = "http" /\ n.spent = j.spent /\ n.pause = j.pause
    BY <1>1, OtherBody
  <2>2. c \in Conns /\ c.at = "reading" /\ c.wait = 0 /\ c.got = 0
    BY HttpOK DEF Conns, Idle
  <2>3. job' = [job EXCEPT ![l] = n] /\ conn' = [conn EXCEPT ![l] = c] /\ conn[l].at = "opening"
    BY <1>4 DEF StatusLine
  <2> HIDE DEF n, c
  <2>4. HttpTypeOK' /\ conn'[l] = c /\ \A x \in Lookups \ {l} : conn'[x] = conn[x]
    BY <2>2, <2>3, NewConn
  <2>5. JobOK(n, conn'[l]) /\ TempOK(temp[l], n.at)
    BY <1>1, <2>1, <2>2, <2>4 DEF JobOK, JobInTime, Matched, TempOK
  <2> QED  BY <1>2, <2>3, <2>4, <2>5, OneLookup
<1>5. ASSUME NEW c \in Conns, c.at # "idle", conn' = [conn EXCEPT ![l] = c], UNCHANGED job
      PROVE  LookupInv'
  <2>1. HttpTypeOK' /\ conn'[l] = c /\ \A x \in Lookups \ {l} : conn'[x] = conn[x]
    BY <1>5, NewConn
  <2>2. job' = [job EXCEPT ![l] = j] /\ JobOK(j, conn'[l])
    BY <1>1, <1>5, <2>1 DEF LookupInv, JobOK, JobInTime, Matched
  <2> QED  BY <1>1, <1>2, <2>1, <2>2, OneLookup
<1>6. ASSUME NEW result \in Results \cup {"none"}, NEW code \in Codes, Answer(l, code, result)
      PROVE  LookupInv'
  <2>1. CASE result = "none"
    <3>1. code = "200"
      BY <1>6, <2>1 DEF Answer, StatusLine, OfStatus
    <3> QED  BY <1>4, <1>6, <2>1, <3>1 DEF Answer
  <2>2. CASE result # "none"
    BY <1>3, <1>6, <2>2 DEF Answer, StatusLine
  <2> QED  BY <2>1, <2>2
<1>7. ASSUME NEW result \in Results \cup {"none"},
             OpeningGoesOn(l, result) \/ Chunk(l, result) \/ BodyEnds(l, result) \/ SocketFails(l, result),
             IF result = "none" THEN UNCHANGED <<job, found>> ELSE Digest(l, result)
      PROVE  LookupInv'
  <2>1. CASE result = "none"
    <3>1. PICK c \in Conns : c.at = conn[l].at /\ c.at # "idle" /\ conn' = [conn EXCEPT ![l] = c]
      BY <1>1, <1>7, <2>1, RequestLasts
    <3> QED  BY <1>5, <1>7, <2>1, <3>1
  <2>2. CASE result # "none"
    BY <1>3, <1>7, <2>2 DEF OpeningGoesOn, Chunk, BodyEnds, SocketFails
  <2> QED  BY <2>1, <2>2
<1> QED  BY <1>6, <1>7 DEF Receive

LEMMA WokenJob ==
  ASSUME NEW j, IsJob(j)
  PROVE  SameTimes([j EXCEPT !.at = "try"], j, "try")
  BY MovedJob DEF SameTimes

(* An attempt begins while there is time left.                             *)
LEMMA WakeStep ==
  ASSUME LookupInv, NEW l \in Lookups, Wake(l)
  PROVE  LookupInv'
<1> DEFINE j == job[l]
<1>1. /\ IsJob(j) /\ j.at = "sleep" /\ JobOK(j, conn[l]) /\ temp[l] = NoEntry /\ j.pause = 0
      /\ conn[l].at = "idle"
  BY DEF LookupInv, Wake, JobOK, TempOK, Matched
<1>2. /\ temp' = [temp EXCEPT ![l] = temp[l]] /\ HttpTypeOK'
      /\ \A x \in Lookups : conn'[x] = conn[x]
  BY SameTemp DEF Wake, cache, LookupInv, HttpTypeOK
<1>3. CASE GiveUp(l)
  <2>1. PICK n : Ended(n) /\ job' = [job EXCEPT ![l] = n]
    BY <1>3, GiveUpEnds
  <2>2. JobOK(n, conn'[l]) /\ TempOK(temp[l], n.at)
    BY <1>1, <1>2, <2>1 DEF JobOK, Ended, JobInTime, Matched, TempOK
  <2> QED  BY <1>2, <2>1, <2>2, OneLookup
<1>4. ASSUME ~(j.spent >= Budget),
             NEW n, job' = [job EXCEPT ![l] = n],
             SameTimes(n, j, "cache") \/ SameTimes(n, j, "try")
      PROVE  LookupInv'
  <2>1. IsJob(n) /\ n.at \in {"cache", "try"} /\ n.spent = j.spent /\ n.pause = 0
    BY <1>1, <1>4 DEF SameTimes
  <2>2. n.spent < Budget
    BY <1>1, <1>4, <2>1, LookupOK DEF IsJob
  <2>3. JobOK(n, conn'[l]) /\ TempOK(temp[l], n.at)
    BY <1>1, <1>2, <2>1, <2>2 DEF JobOK, JobInTime, Matched, TempOK
  <2> QED  BY <1>2, <1>4, <2>3, OneLookup
<1>5. CASE /\ ~(j.spent >= Budget)
           /\ job' = [job EXCEPT ![l] = [@ EXCEPT !.at = "cache", !.todo = j.ask, !.ask = <<>>]]
  <2> DEFINE n == [j EXCEPT !.at = "cache", !.todo = j.ask, !.ask = <<>>]
  <2>1. SameTimes(n, j, "cache")
    BY <1>1, RenamedMovedJob
  <2>2. job' = [job EXCEPT ![l] = n]
    BY <1>5
  <2> HIDE DEF n
  <2> QED  BY <1>4, <1>5, <2>1, <2>2
<1>6. CASE ~(j.spent >= Budget) /\ job' = [job EXCEPT ![l] = [@ EXCEPT !.at = "try"]]
  <2> DEFINE n == [j EXCEPT !.at = "try"]
  <2>1. SameTimes(n, j, "try")
    BY <1>1, WokenJob
  <2>2. job' = [job EXCEPT ![l] = n]
    BY <1>6
  <2> HIDE DEF n
  <2> QED  BY <1>4, <1>6, <2>1, <2>2
<1> QED  BY <1>3, <1>5, <1>6 DEF Wake

LEMMA NextPutEnds ==
  ASSUME NEW l \in Lookups, IsJob(job[l]), job[l].spent = 0, job[l].pause = 0, NextPut(l)
  PROVE  \E n : /\ job' = [job EXCEPT ![l] = n] /\ IsJob(n)
                /\ n.at \in {"put", "done"} /\ n.spent = 0 /\ n.pause = 0
<1>1. CASE Finish(l)
  <2> DEFINE n == Job("done", <<>>)
  <2>1. IsJob(n) /\ n.at = "done" /\ n.spent = 0 /\ n.pause = 0
    BY NewJob
  <2>2. job' = [job EXCEPT ![l] = n]
    BY <1>1 DEF Finish
  <2> HIDE DEF n
  <2> QED  BY <2>1, <2>2
<1>2. CASE job' = [job EXCEPT ![l].at = "put", ![l].todo = Tail(@)]
  <2> DEFINE k == [job[l] EXCEPT !.at = "put"]
             n == [k EXCEPT !.todo = Tail(job[l].todo)]
  <2>1. IsJob(k) /\ k.at = "put" /\ k.spent = 0 /\ k.pause = 0
    BY MovedJob
  <2>2. job' = [job EXCEPT ![l] = n]
    BY <1>2 DEF IsJob
  <2> HIDE DEF k
  <2>3. IsJob(n) /\ n.at = "put" /\ n.spent = 0 /\ n.pause = 0
    BY <2>1, OtherNames
  <2> HIDE DEF n
  <2> QED  BY <2>2, <2>3
<1> QED  BY <1>1, <1>2 DEF NextPut

(* A write goes to the temporary file and from there, or is undone.        *)
LEMMA PutStep ==
  ASSUME LookupInv, NEW l \in Lookups, Put(l)
  PROVE  LookupInv'
<1> USE LookupOK
<1> DEFINE j == job[l]
<1>1. /\ IsJob(j) /\ j.at \in {"put", "write", "rename"} /\ JobOK(j, conn[l])
      /\ j.spent = 0 /\ j.pause = 0 /\ conn[l].at = "idle"
  BY DEF LookupInv, Put, JobOK, JobInTime, Matched
<1>2. HttpTypeOK' /\ \A x \in Lookups : conn'[x] = conn[x]
  BY DEF Put, LookupInv, HttpTypeOK
<1>3. ASSUME NEW place \in {"write", "rename"}, Move(l, place),
             NEW e, temp' = [temp EXCEPT ![l] = e], TempOK(e, place)
      PROVE  LookupInv'
  <2> DEFINE n == [j EXCEPT !.at = place]
  <2>1. IsJob(n) /\ n.at = place /\ n.spent = 0 /\ n.pause = 0
    BY <1>1, MovedJob
  <2>2. job' = [job EXCEPT ![l] = n]
    BY <1>3 DEF Move
  <2> HIDE DEF n
  <2>3. JobOK(n, conn'[l]) /\ TempOK(e, n.at)
    BY <1>1, <1>2, <1>3, <2>1 DEF JobOK, JobInTime, Matched
  <2> QED  BY <1>2, <1>3, <2>2, <2>3, OneLookup
<1>4. CASE CreateTemp(l) /\ Move(l, "write")
  <2>1. temp' = [temp EXCEPT ![l] = Unreadable] /\ TempOK(Unreadable, "write")
    BY <1>4 DEF CreateTemp, TempOK
  <2> QED  BY <1>3, <1>4, <2>1
<1>5. CASE WriteTemp(l, PutAnswer(l)) /\ Move(l, "rename")
  <2>1. PICK d : temp' = [temp EXCEPT ![l] = [says |-> PutAnswer(l), shown |-> -d]]
    BY <1>5 DEF WriteTemp
  <2> DEFINE e == [says |-> PutAnswer(l), shown |-> -d]
  <2>2. IsEntry(e) /\ temp' = [temp EXCEPT ![l] = e]
    BY <2>1 DEF IsEntry
  <2> HIDE DEF e
  <2>3. TempOK(e, "rename")
    BY <2>2 DEF TempOK
  <2> QED  BY <1>3, <1>5, <2>2, <2>3
<1>6. CASE temp' = [temp EXCEPT ![l] = NoEntry] /\ NextPut(l)
  <2>1. PICK n : /\ job' = [job EXCEPT ![l] = n] /\ IsJob(n)
                 /\ n.at \in {"put", "done"} /\ n.spent = 0 /\ n.pause = 0
    BY <1>1, <1>6, NextPutEnds
  <2>2. JobOK(n, conn'[l]) /\ TempOK(NoEntry, n.at)
    BY <1>1, <1>2, <2>1 DEF JobOK, JobInTime, Matched, TempOK
  <2> QED  BY <1>2, <1>6, <2>1, <2>2, OneLookup
<1>7. CASE job[l].at = "put" /\ UNCHANGED cache /\ NextPut(l)
  <2>1. temp[l] = NoEntry
    BY <1>7 DEF LookupInv, TempOK
  <2>2. temp' = [temp EXCEPT ![l] = NoEntry]
    BY <1>7, <2>1, SameTemp DEF cache
  <2> QED  BY <1>6, <1>7, <2>2
<1> QED  BY <1>4, <1>5, <1>6, <1>7 DEF Put, Replace, WriteFails, Unlinked

(* A process dies anywhere and leaves its temporary file.                  *)
LEMMA DieStep ==
  ASSUME LookupInv, NEW l \in Lookups, Die(l)
  PROVE  LookupInv'
<1> DEFINE n == Job("dead", <<>>)
<1>1. IsJob(n) /\ n.at = "dead" /\ n.spent = 0 /\ n.pause = 0
  BY NewJob
<1>2. job' = [job EXCEPT ![l] = n] /\ temp' = [temp EXCEPT ![l] = temp[l]]
  BY SameTemp DEF Die
<1> HIDE DEF n
<1>3. HttpTypeOK' /\ conn'[l] = Idle /\ \A x \in Lookups \ {l} : conn'[x] = conn[x]
  BY IdleConn, NewConn DEF Die, Close
<1>4. JobOK(n, conn'[l])
  BY <1>1, <1>3, IdleConn DEF JobOK, JobInTime, Matched
<1>5. TempOK(temp[l], n.at)
  BY <1>1 DEF LookupInv, TempOK
<1> QED  BY <1>2, <1>3, <1>4, <1>5, OneLookup

-----------------------------------------------------------------------------
(* Time passes for all lookups together.                                   *)

LEMMA WaitingConn ==
  ASSUME NEW c \in Conns, c.wait < Timeout
  PROVE  /\ [c EXCEPT !.wait = @ + 1] \in Conns
         /\ [c EXCEPT !.wait = @ + 1].at = c.at /\ [c EXCEPT !.wait = @ + 1].got = c.got
         /\ [c EXCEPT !.wait = @ + 1].wait = c.wait + 1
  BY HttpOK DEF Conns

LEMMA SpendingJob ==
  ASSUME NEW j, IsJob(j), NEW t \in Nat
  PROVE  LET n == [j EXCEPT !.spent = t]
         IN IsJob(n) /\ n.at = j.at /\ n.spent = t /\ n.pause = j.pause
  BY DEF IsJob

LEMMA OlderJob ==
  ASSUME NEW j, IsJob(j)
  PROVE  /\ IsJob([j EXCEPT !.spent = @ + 1]) /\ [j EXCEPT !.spent = @ + 1].at = j.at
         /\ [j EXCEPT !.spent = @ + 1].spent = j.spent + 1
         /\ [j EXCEPT !.spent = @ + 1].pause = j.pause
  BY DEF IsJob

LEMMA PausingJob ==
  ASSUME NEW j, IsJob(j), NEW n, n = [j EXCEPT !.spent = @ + 1, !.pause = @ - 1]
  PROVE  IsJob(n) /\ n.at = j.at /\ n.spent = j.spent + 1 /\ n.pause = j.pause - 1
<1> DEFINE k == [j EXCEPT !.spent = @ + 1]
           m == [k EXCEPT !.pause = j.pause - 1]
<1>1. IsJob(k) /\ k.at = j.at /\ k.spent = j.spent + 1 /\ k.pause = j.pause
  BY OlderJob
<1>2. n = m
  BY DEF IsJob
<1> HIDE DEF k
<1>3. j.pause - 1 \in Int
  BY DEF IsJob
<1>4. IsJob(m) /\ m.at = k.at /\ m.spent = k.spent /\ m.pause = j.pause - 1
  BY <1>1, <1>3, ChangedJob
<1> HIDE DEF m
<1> QED  BY <1>1, <1>2, <1>4

LEMMA ShiftedEntry ==
  ASSUME NEW e, NEW d, NEW at, TempOK(e, at)
  PROVE  TempOK(Shift(e, d), at)
<1>1. CASE e \in {NoEntry, Unreadable}
  BY <1>1 DEF Shift
<1>2. CASE e \notin {NoEntry, Unreadable}
  <2>1. IsEntry(e)
    BY <1>2 DEF TempOK
  <2>2. IsEntry([e EXCEPT !.shown = IF @ + d > OldAge THEN OldAge ELSE @ + d])
    BY <2>1 DEF IsEntry
  <2> QED  BY <1>2, <2>2 DEF Shift, TempOK
<1> QED  BY <1>1, <1>2

LEMMA ClockStep ==
  ASSUME LookupInv, NEW d, ClockMoves(d)
  PROVE  /\ temp' = [l \in Lookups |-> temp'[l]]
         /\ \A l \in Lookups : TempOK(temp'[l], job[l].at)
<1>1. temp' = [l \in Lookups |-> Shift(temp[l], d)]
  BY LookupOK DEF ClockMoves
<1> QED  BY <1>1, ShiftedEntry DEF LookupInv

(* What one tick does to a lookup and its request.                         *)
OlderConn(c) == IF c.at = "idle" THEN c ELSE [c EXCEPT !.wait = @ + 1]

LEMMA TickedJob ==
  ASSUME LookupInv, Tick, NEW l \in Lookups
  PROVE  OlderConn(conn[l]) \in Conns /\ JobOK(job'[l], OlderConn(conn[l])) /\ job'[l].at = job[l].at
<1> DEFINE j == job[l]
           c == conn[l]
           d == OlderConn(c)
           n == job'[l]
<1>0. Timeout \in Nat /\ Budget \in Nat
  BY LookupOK, HttpOK
<1>1. IsJob(j) /\ JobOK(j, c) /\ c \in Conns
  BY ConnTypes DEF LookupInv, JobOK
<1>2. /\ j.at = "http" => n = [j EXCEPT !.spent = IF @ < Late THEN @ + 1 ELSE Late]
      /\ j.at = "sleep" => n = [j EXCEPT !.spent = @ + 1, !.pause = @ - 1]
      /\ j.at \notin {"http", "sleep"} => n = j
      /\ Waits(l) /\ (c.at = "idle" \/ c.wait < Timeout)
  BY DEF Tick, SocketsCanWait, j, c
<1> HIDE DEF j, c, n
<1>3. CASE j.at = "http"
  <2>1. c.at # "idle" /\ d = [c EXCEPT !.wait = @ + 1] /\ c.wait < Timeout
    BY <1>1, <1>2, <1>3 DEF JobOK, Matched, OlderConn
  <2> HIDE DEF d
  <2>2. d \in Conns /\ d.at = c.at
    BY <1>1, <2>1, WaitingConn
  <2> DEFINE t == IF j.spent < Late THEN j.spent + 1 ELSE Late
  <2>3. t \in Nat /\ t <= Late
    BY <1>1, LookupOK DEF IsJob
  <2>4. n = [j EXCEPT !.spent = t]
    BY <1>2, <1>3
  <2> HIDE DEF t
  <2>5. IsJob(n) /\ n.at = "http" /\ n.spent = t /\ n.pause = j.pause
    BY <1>1, <1>3, <2>3, <2>4, SpendingJob
  <2>6. JobInTime(n) /\ Matched(n, d)
    BY <1>1, <1>3, <2>1, <2>2, <2>3, <2>5 DEF JobOK, JobInTime, Matched
  <2> QED  BY <1>3, <2>2, <2>5, <2>6 DEF JobOK, d, n, j, c
<1>4. CASE j.at = "sleep"
  <2>1. c.at = "idle" /\ d = c /\ j.spent + j.pause <= Budget
    BY <1>1, <1>4 DEF JobOK, Matched, OlderConn, JobInTime
  <2> HIDE DEF d
  <2>2. IsJob(n) /\ n.at = "sleep" /\ n.spent = j.spent + 1 /\ n.pause = j.pause - 1
    BY <1>1, <1>2, <1>4, PausingJob
  <2>3. n.spent + n.pause <= Budget
    BY <1>1, <2>1, <2>2 DEF IsJob
  <2>4. JobOK(n, d)
    BY <2>1, <2>2, <2>3 DEF JobOK, JobInTime, Matched
  <2> QED  BY <1>1, <1>4, <2>1, <2>2, <2>4 DEF d, n, j, c
<1>5. CASE j.at \notin {"http", "sleep"}
  <2>1. c.at = "idle" /\ d = c /\ n = j
    BY <1>1, <1>2, <1>5 DEF JobOK, Matched, OlderConn
  <2> QED  BY <1>1, <2>1 DEF n, j, c, d
<1> QED  BY <1>3, <1>4, <1>5

LEMMA TickStep ==
  ASSUME LookupInv, Tick
  PROVE  LookupInv'
<1>1. conn' = [l \in Lookups |-> OlderConn(conn[l])]
  BY DEF Tick, SocketsWait, OlderConn
<1>2. HttpTypeOK'
  BY <1>1, TickedJob DEF HttpTypeOK, Conns
<1>3. job' = [l \in Lookups |-> job'[l]]
  BY DEF Tick
<1>4. \A l \in Lookups : JobOK(job'[l], conn'[l])
  BY <1>1, TickedJob
<1>5. temp' = [l \in Lookups |-> temp'[l]] /\ \A l \in Lookups : TempOK(temp'[l], job[l].at)
  BY ClockStep DEF Tick, EntriesAge
<1>6. \A l \in Lookups : TempOK(temp'[l], job'[l].at)
  BY <1>5, TickedJob
<1> QED  BY <1>2, <1>3, <1>4, <1>5, <1>6 DEF LookupInv

(* Every step keeps the invariant.                                         *)
LEMMA LookupGoesOn == LookupInv /\ [Next]_vars => LookupInv'
<1> SUFFICES ASSUME LookupInv, [Next]_vars
             PROVE  LookupInv'
  OBVIOUS
<1>1. ASSUME NEW l \in Lookups, Step(l)
      PROVE  LookupInv'
  BY <1>1, ReadCacheStep, AskStep, ReceiveStep, WakeStep, PutStep DEF Step
<1>2. ASSUME NEW l \in Lookups, Die(l)
      PROVE  LookupInv'
  BY <1>2, DieStep
<1>3. CASE Tick
  BY <1>3, TickStep
<1>4. CASE ClockCorrected
  <2>1. temp' = [l \in Lookups |-> temp'[l]] /\ \A l \in Lookups : TempOK(temp'[l], job[l].at)
    BY <1>4, ClockStep DEF ClockCorrected, SetClockBack
  <2>2. conn' = conn /\ job' = job
    BY <1>4 DEF ClockCorrected, lookup
  <2> QED  BY <2>1, <2>2 DEF LookupInv, HttpTypeOK
<1>5. ASSUME UNCHANGED <<conn, temp, job>>
      PROVE  LookupInv'
  BY <1>5 DEF LookupInv, HttpTypeOK
<1>6. CASE \E n \in Changing : FactChanges(n)
  BY <1>5, <1>6 DEF FactChanges, cache
<1>7. CASE UNCHANGED vars
  BY <1>5, <1>7 DEF vars, cache, lookup
<1> QED  BY <1>1, <1>2, <1>3, <1>4, <1>6, <1>7 DEF Next

-----------------------------------------------------------------------------
(***************************************************************************)
(* Whatever a lookup waits for, and however long its requests take, it     *)
(* begins no attempt and ends no pause past its budget.                    *)
(***************************************************************************)
THEOREM AttemptsBeginInTime == Spec => []BegunInTime
<1>1. LookupInv => BegunInTime
  <2> SUFFICES ASSUME LookupInv, NEW l \in Lookups
               PROVE  /\ job[l].at \in {"new", "cache", "try"} => job[l].spent < Budget
                      /\ job[l].spent + job[l].pause > Budget => job[l].at = "http"
    BY DEF BegunInTime
  <2>1. IsJob(job[l]) /\ JobInTime(job[l]) /\ Budget \in Nat
    BY LookupOK DEF LookupInv, JobOK
  <2> QED  BY <2>1 DEF IsJob, JobInTime
<1> QED  BY <1>1, LookupStarts, LookupGoesOn, PTL DEF Spec

(***************************************************************************)
(* A temporary file is left behind by a death only: a write that fails, or *)
(* that another writer overtakes, removes its own.                         *)
(***************************************************************************)
THEOREM NoOrphans == Spec => []OnlyDeathLeavesTemps
<1>1. LookupInv => OnlyDeathLeavesTemps
  BY DEF LookupInv, TempOK, OnlyDeathLeavesTemps
<1> QED  BY <1>1, LookupStarts, LookupGoesOn, PTL DEF Spec

(* What the cache holds of a key: nothing, damage or a whole entry.        *)
FileOK(e) == e \in {NoEntry, Unreadable} \/ IsEntry(e)

FilesWhole ==
  /\ file = [k \in Keys |-> file[k]]
  /\ \A k \in Keys : FileOK(file[k])

LEMMA ShiftedFile ==
  ASSUME NEW e, NEW d, FileOK(e)
  PROVE  FileOK(Shift(e, d)) /\ (Shift(e, d) = Unreadable => e = Unreadable)
<1>1. CASE e \in {NoEntry, Unreadable}
  BY <1>1 DEF Shift, FileOK
<1>2. CASE e \notin {NoEntry, Unreadable}
  <2> DEFINE n == [e EXCEPT !.shown = IF @ + d > OldAge THEN OldAge ELSE @ + d]
  <2>1. IsEntry(e) /\ Shift(e, d) = n
    BY <1>2 DEF FileOK, Shift
  <2>2. IsEntry(n)
    BY <2>1 DEF IsEntry
  <2> HIDE DEF n
  <2> QED  BY <2>1, <2>2, EntriesDiffer DEF FileOK
<1> QED  BY <1>1, <1>2

(* A file is replaced by a temporary file, which is whole, or ages.        *)
LEMMA FilesStep ==
  ASSUME LookupInv, FilesWhole, [Next]_vars
  PROVE  FilesWhole' /\ \A k \in Keys : file'[k] = Unreadable => file[k] = Unreadable
<1> DEFINE Kept == FilesWhole' /\ \A k \in Keys : file'[k] = Unreadable => file[k] = Unreadable
<1>1. ASSUME UNCHANGED file
      PROVE  Kept
  BY <1>1 DEF FilesWhole
<1>2. ASSUME NEW d, ClockMoves(d)
      PROVE  Kept
  <2>1. file' = [k \in Keys |-> Shift(file[k], d)]
    BY <1>2 DEF ClockMoves
  <2>2. \A k \in Keys : FileOK(Shift(file[k], d)) /\ (Shift(file[k], d) = Unreadable => file[k] = Unreadable)
    BY ShiftedFile DEF FilesWhole
  <2> QED  BY <2>1, <2>2 DEF FilesWhole
<1>3. ASSUME NEW l \in Lookups, NEW x, Replace(l, x), job[l].at = "rename"
      PROVE  Kept
  <2>1. IsEntry(temp[l]) /\ file' = [file EXCEPT ![x] = temp[l]]
    BY <1>3 DEF Replace, LookupInv, TempOK
  <2>2. temp[l] # Unreadable /\ FileOK(temp[l])
    BY <2>1, EntriesDiffer DEF FileOK
  <2>3. \A k \in Keys : file'[k] = temp[l] \/ file'[k] = file[k]
    BY <2>1 DEF FilesWhole
  <2>4. file' = [k \in Keys |-> file'[k]]
    BY <2>1 DEF FilesWhole
  <2> QED  BY <2>2, <2>3, <2>4 DEF FilesWhole
<1>4. ASSUME NEW l \in Lookups, Step(l) \/ Die(l)
      PROVE  Kept
  <2>1. UNCHANGED file \/ \E x : Replace(l, x) /\ job[l].at = "rename"
    BY <1>4 DEF Step, ReadCache, Ask, Receive, Wake, Put, CreateTemp, WriteTemp, WriteFails, Die, cache
  <2> QED  BY <1>1, <1>3, <2>1
<1>5. CASE Tick
  BY <1>2, <1>5 DEF Tick, EntriesAge
<1>6. CASE ClockCorrected
  BY <1>2, <1>6 DEF ClockCorrected, SetClockBack
<1>7. CASE (\E n \in Changing : FactChanges(n)) \/ UNCHANGED vars
  BY <1>1, <1>7 DEF FactChanges, vars, cache
<1> QED  BY <1>4, <1>5, <1>6, <1>7 DEF Next

(***************************************************************************)
(* At whatever point of its write a writer fails or dies, and whoever      *)
(* overtakes it, a file of the cache that could be read is only ever       *)
(* replaced by one that can: what is renamed over it has been written and  *)
(* flushed whole.                                                          *)
(***************************************************************************)
THEOREM CacheStaysReadable == Spec => NeverHalfWritten
<1>1. Init => FilesWhole
  BY DEF Init, CacheInit, FilesWhole, FileOK
<1>2. LookupInv /\ FilesWhole /\ [Next]_vars => FilesWhole'
  BY FilesStep
<1>3. LookupInv /\ FilesWhole /\ [Next]_vars
        => [\A k \in Keys : file'[k] = Unreadable => file[k] = Unreadable]_file
  BY FilesStep
<1> QED  BY <1>1, <1>2, <1>3, LookupStarts, LookupGoesOn, PTL DEF Spec, NeverHalfWritten

-----------------------------------------------------------------------------
(* Whether v is true of n, or was until d ago, or is what a malformed entry *)
(* of OSV comes to.                                                        *)
TrueOf(v, n, d) ==
  v = truth[n] \/ since[n] <= d \/ (source = "osv" /\ n \in Malformed /\ v = "plain")

(* An entry that can still be hit says what is true, or was.               *)
EntryGood(e, n) ==
  e \notin {NoEntry, Unreadable} =>
    /\ e.shown \in Int /\ e.shown + setback >= 0
    /\ \/ TrueOf(e.says[n], n, e.shown + setback)
       \/ e.shown + setback > Ttl + MaxMishaps

Listing(j) ==
  /\ j.todo \in Seq(Names) /\ j.ask \in Seq(Names)
  /\ j.at \in {"new", "cache", "put", "write", "rename"} => j.todo # <<>>
  /\ j.at \in {"try", "http", "sleep"} => j.ask # <<>>

BodyGood(j, c) ==
  j.at = "http" /\ c.at = "reading" =>
    DOMAIN j.body = Names /\ \A n \in Names : TrueOf(j.body[n], n, 0)

(* What is about to be cached.                                             *)
PutGood(j, f) ==
  /\ j.at \in {"put", "write", "rename"} =>
       IF source = "watchlist" THEN \A n \in Names : TrueOf(j.body[n], n, 0)
       ELSE \A i \in 1 .. Len(j.todo) :
              f[j.todo[i]] # "unverifiable" => TrueOf(f[j.todo[i]], j.todo[i], 0)
  /\ j.at = "write" => f[Head(j.todo)] # "unverifiable"

TempGood(j, e) ==
  j.at = "rename" => \A n \in Names : KeyOf(n) = KeyOf(Head(j.todo)) => EntryGood(e, n)

JobGood(j, c, f, e) == Listing(j) /\ BodyGood(j, c) /\ PutGood(j, f) /\ TempGood(j, e)

World ==
  /\ truth = [n \in Names |-> truth[n]]
  /\ since \in [Names -> 0 .. Ages]
  /\ mishaps \in 0 .. MaxMishaps /\ setback \in 0 .. mishaps

FilesGood == file = [k \in Keys |-> file[k]] /\ \A n \in Names : EntryGood(file[KeyOf(n)], n)

RecentInv ==
  /\ World /\ FilesGood
  /\ found = [l \in Lookups |-> found[l]]
  /\ \A l \in Lookups : JobGood(job[l], conn[l], found[l], temp[l])

LEMMA RecentNat == Ttl \in Nat /\ MaxMishaps \in Nat /\ Recent \in Nat /\ Ages = Recent + 1
  BY CacheOK DEF Recent, Ages

LEMMA Later ==
  ASSUME World, NEW v, NEW n \in Names, NEW d \in Int, NEW e \in Int, d <= e, TrueOf(v, n, d)
  PROVE  TrueOf(v, n, e)
  BY RecentNat DEF World, TrueOf

LEMMA RecentStarts == Init => RecentInv
<1> SUFFICES ASSUME Init
             PROVE  RecentInv
  OBVIOUS
<1> USE LookupOK, HttpOK, RecentNat DEF Init
<1>1. World
  BY CacheOK DEF World, CacheInit
<1>2. FilesGood
  <2>1. \A n \in Names : KeyOf(n) \in Keys
    BY DEF KeyOf
  <2> QED  BY <2>1 DEF FilesGood, CacheInit, EntryGood
<1>3. found = [l \in Lookups |-> found[l]]
  OBVIOUS
<1>4. ASSUME NEW l \in Lookups
      PROVE  JobGood(job[l], conn[l], found[l], temp[l])
  <2> DEFINE todo == NamesOf(l)
  <2>1. todo \in Seq(Names) /\ todo # <<>>
    BY DEF NamesOf
  <2>2. job[l] = Job("new", todo)
    OBVIOUS
  <2> HIDE DEF todo
  <2>3. job[l].at = "new" /\ job[l].todo = todo /\ job[l].ask = <<>>
    BY <2>2 DEF Job
  <2>4. <<>> \in Seq(Names)
    OBVIOUS
  <2>5. Listing(job[l])
    BY <2>1, <2>3, <2>4 DEF Listing
  <2> QED  BY <2>3, <2>5 DEF JobGood, BodyGood, PutGood, TempGood
<1> QED  BY <1>1, <1>2, <1>3, <1>4 DEF RecentInv
-----------------------------------------------------------------------------
(* A step of one lookup, in which the world stands still.                  *)
Still == Stay /\ setback' = setback /\ (mishaps' = mishaps \/ Mishap)

LEMMA SameWorld ==
  ASSUME World, Still
  PROVE  World'
  BY CacheOK DEF World, Still, Stay, Mishap

LEMMA SameEntry ==
  ASSUME Still, NEW e, NEW n, EntryGood(e, n)
  PROVE  EntryGood(e, n)'
  BY DEF Still, Stay, EntryGood, TrueOf

LEMMA SameFiles ==
  ASSUME FilesGood, Still, UNCHANGED file
  PROVE  FilesGood'
<1>1. \A n \in Names : KeyOf(n)' = KeyOf(n)
  BY DEF KeyOf, Still, Stay
<1> QED  BY <1>1, SameEntry DEF FilesGood

LEMMA SameJob ==
  ASSUME Still, NEW j, NEW c, NEW f, NEW e, JobGood(j, c, f, e)
  PROVE  JobGood(j, c, f, e)'
<1>1. BodyGood(j, c)'
  BY DEF JobGood, BodyGood, TrueOf, Still, Stay
<1>2. PutGood(j, f)'
  BY DEF JobGood, PutGood, TrueOf, Still, Stay
<1>3. \A n : KeyOf(n)' = KeyOf(n)
  BY DEF KeyOf, Still, Stay
<1>4. TempGood(j, e)'
  BY <1>3, SameEntry DEF JobGood, TempGood
<1>5. Listing(j)
  BY DEF JobGood
<1> QED  BY <1>1, <1>2, <1>4, <1>5 DEF JobGood

LEMMA OneRecent ==
  ASSUME RecentInv, NEW l \in Lookups, Still, FilesGood',
         \A x \in Lookups \ {l} : /\ job'[x] = job[x] /\ conn'[x] = conn[x]
                                  /\ found'[x] = found[x] /\ temp'[x] = temp[x],
         found' = [x \in Lookups |-> found'[x]],
         JobGood(job[l], conn[l], found[l], temp[l])'
  PROVE  RecentInv'
<1>1. ASSUME NEW x \in Lookups \ {l}
      PROVE  JobGood(job[x], conn[x], found[x], temp[x])'
  <2>1. PICK j, c, f, e : j = job[x] /\ c = conn[x] /\ f = found[x] /\ e = temp[x]
    OBVIOUS
  <2>2. JobGood(j, c, f, e)
    BY <2>1 DEF RecentInv
  <2>3. JobGood(j, c, f, e)'
    BY <2>2, SameJob
  <2>4. j = job'[x] /\ c = conn'[x] /\ f = found'[x] /\ e = temp'[x]
    BY <2>1
  <2> QED  BY <2>3, <2>4
<1> QED  BY <1>1, SameWorld DEF RecentInv
-----------------------------------------------------------------------------
(* What a lookup learns, it learns for itself.                             *)
LEMMA Learned ==
  ASSUME RecentInv, NEW l \in Lookups, NEW S, NEW says, Learn(l, S, says)
  PROVE  /\ found' = [x \in Lookups |-> found'[x]]
         /\ \A x \in Lookups \ {l} : found'[x] = found[x]
         /\ \A n \in Names : found'[l][n] = IF n \in S THEN says[n] ELSE found[l][n]
  BY DEF RecentInv, Learn

(* What lookup l finds out is true, or was until a short while ago.        *)
Told(l) ==
  \A n \in Names :
    found'[l][n] # found[l][n] /\ found'[l][n] # "unverifiable" => TrueOf(found'[l][n], n, Recent)

LEMMA HitRecent ==
  ASSUME RecentInv, NEW n \in Names, Hit(KeyOf(n))
  PROVE  TrueOf(file[KeyOf(n)].says[n], n, Recent)
<1> DEFINE e == file[KeyOf(n)]
<1>1. e \notin {NoEntry, Unreadable} /\ EntryGood(e, n) /\ ~Expired(e)
  BY DEF RecentInv, FilesGood, Hit
<1>2. e.shown \in Int /\ 0 <= e.shown /\ e.shown <= Ttl
  BY <1>1, RecentNat DEF EntryGood, Expired
<1>3. setback \in Int /\ setback <= MaxMishaps /\ World
  BY RecentNat DEF RecentInv, World
<1>4. TrueOf(e.says[n], n, e.shown + setback)
  BY <1>1, <1>2, <1>3, RecentNat DEF EntryGood
<1> HIDE DEF e
<1>5. e.shown + setback \in Int /\ e.shown + setback <= Recent
  BY <1>2, <1>3, RecentNat DEF Recent
<1>6. TrueOf(e.says[n], n, Recent)
  BY <1>3, <1>4, <1>5, RecentNat, Later
<1> QED  BY <1>6 DEF e

LEMMA LookedRecent ==
  ASSUME RecentInv, NEW n \in Names, Looked(n) \notin {"miss", "unverifiable"}
  PROVE  TrueOf(Looked(n), n, Recent)
<1>1. caching /\ Hit(KeyOf(n)) /\ Looked(n) = file[KeyOf(n)].says[n]
  BY DEF Looked
<1> QED  BY <1>1, HitRecent

LEMMA ListedJob ==
  ASSUME NEW j, IsJob(j), NEW place, NEW todo, NEW ask
  PROVE  LET n == [j EXCEPT !.at = place, !.todo = todo, !.ask = ask]
         IN n.at = place /\ n.todo = todo /\ n.ask = ask
  BY DEF IsJob

LEMMA ReadCacheRecent ==
  ASSUME LookupInv, RecentInv, NEW l \in Lookups, ReadCache(l)
  PROVE  RecentInv' /\ Told(l)
<1> DEFINE j == job[l]
           now == ReadNow(l)
           left == SubSeq(j.todo, Len(now) + 1, Len(j.todo))
           ask == IF Looked(Head(now)) = "miss" THEN j.ask \o now ELSE j.ask
           S == {n \in Range(now) : Looked(n) # "miss"}
           says == [n \in Names |-> Looked(n)]
<1>1. Still /\ UNCHANGED <<conn, file, temp>>
  BY DEF ReadCache, Still, cache
<1>2. /\ found' = [x \in Lookups |-> found'[x]]
      /\ \A x \in Lookups \ {l} : found'[x] = found[x]
      /\ \A n \in Names : found'[l][n] = IF n \in S THEN says[n] ELSE found[l][n]
  <2>1. Learn(l, S, says)
    BY DEF ReadCache
  <2> HIDE DEF S, says
  <2> QED  BY <2>1, Learned
<1>3. Told(l)
  BY <1>2, LookedRecent DEF Told
<1>4. IsJob(j) /\ job = [x \in Lookups |-> job[x]] /\ Listing(j) /\ j.at \in {"new", "cache"}
  BY DEF LookupInv, JobOK, RecentInv, JobGood, ReadCache
<1>5. left \in Seq(Names) /\ ask \in Seq(Names)
  <2>1. now \in Seq(Names) /\ Len(now) >= 1
    BY <1>4 DEF ReadNow, Listing
  <2> HIDE DEF now
  <2> QED  BY <1>4, <2>1 DEF Listing
<1>6. \E n : job' = [job EXCEPT ![l] = n] /\ Listing(n) /\ n.at \in {"cache", "try", "done"}
  <2>1. \/ left # <<>> /\ job' = [job EXCEPT ![l] = [j EXCEPT !.at = "cache", !.todo = left, !.ask = ask]]
        \/ ask # <<>> /\ job' = [job EXCEPT ![l] = [j EXCEPT !.at = "try", !.todo = left, !.ask = ask]]
        \/ job' = [job EXCEPT ![l] = Job("done", <<>>)]
    BY DEF ReadCache, Finish
  <2>2. <<>> \in Seq(Names)
    OBVIOUS
  <2> HIDE DEF left, ask
  <2>3. left # <<>> => Listing([j EXCEPT !.at = "cache", !.todo = left, !.ask = ask])
                       /\ [j EXCEPT !.at = "cache", !.todo = left, !.ask = ask].at = "cache"
    BY <1>4, <1>5, ListedJob DEF Listing
  <2>4. ask # <<>> => Listing([j EXCEPT !.at = "try", !.todo = left, !.ask = ask])
                      /\ [j EXCEPT !.at = "try", !.todo = left, !.ask = ask].at = "try"
    BY <1>4, <1>5, ListedJob DEF Listing
  <2>5. Listing(Job("done", <<>>)) /\ Job("done", <<>>).at = "done"
    BY <2>2 DEF Listing, Job
  <2> QED  BY <2>1, <2>3, <2>4, <2>5
<1>7. PICK n : job' = [job EXCEPT ![l] = n] /\ Listing(n) /\ n.at \in {"cache", "try", "done"}
  BY <1>6
<1>8. job'[l] = n /\ \A x \in Lookups \ {l} : job'[x] = job[x]
  BY <1>4, <1>7
<1>9. JobGood(job[l], conn[l], found[l], temp[l])'
  BY <1>7, <1>8 DEF JobGood, BodyGood, PutGood, TempGood, Listing
<1>10. FilesGood'
  BY <1>1, SameFiles DEF RecentInv
<1> HIDE DEF j, now, left, ask, S, says
<1> QED  BY <1>1, <1>2, <1>3, <1>8, <1>9, <1>10, OneRecent

(* A step after which the job is neither at a request nor at the disk.     *)
LEMMA AwayStep ==
  ASSUME LookupInv, RecentInv, NEW l \in Lookups, Still, UNCHANGED file,
         \A x \in Lookups \ {l} : conn'[x] = conn[x] /\ found'[x] = found[x] /\ temp'[x] = temp[x],
         found' = [x \in Lookups |-> found'[x]],
         NEW n, job' = [job EXCEPT ![l] = n], Listing(n), n.at \notin {"http", "put", "write", "rename"}
  PROVE  RecentInv'
<1>1. job'[l] = n /\ \A x \in Lookups \ {l} : job'[x] = job[x]
  BY DEF LookupInv
<1>2. JobGood(job[l], conn[l], found[l], temp[l])'
  BY <1>1 DEF JobGood, BodyGood, PutGood, TempGood, Listing
<1>3. FilesGood'
  BY SameFiles DEF RecentInv
<1> QED  BY <1>1, <1>2, <1>3, OneRecent

LEMMA DoneJob == Listing(Job("done", <<>>)) /\ Job("done", <<>>).at = "done"
<1>1. <<>> \in Seq(Names)
  OBVIOUS
<1> QED  BY <1>1 DEF Listing, Job

LEMMA GiveUpRecent ==
  ASSUME RecentInv, NEW l \in Lookups, GiveUp(l)
  PROVE  /\ Told(l) /\ job' = [job EXCEPT ![l] = Job("done", <<>>)]
         /\ found' = [x \in Lookups |-> found'[x]]
         /\ \A x \in Lookups \ {l} : found'[x] = found[x]
<1> DEFINE S == Asked(l)
           says == [n \in Names |-> "unverifiable"]
<1>1. Learn(l, S, says) /\ \A n \in Names : says[n] = "unverifiable"
  BY DEF GiveUp
<1> HIDE DEF S, says
<1>2. /\ found' = [x \in Lookups |-> found'[x]]
      /\ \A x \in Lookups \ {l} : found'[x] = found[x]
      /\ \A n \in Names : found'[l][n] = IF n \in S THEN says[n] ELSE found[l][n]
  BY <1>1, Learned
<1> QED  BY <1>1, <1>2 DEF Told, GiveUp, Finish

(* A step in which nothing is learnt.                                      *)
LEMMA NothingTold ==
  ASSUME RecentInv, NEW l \in Lookups, UNCHANGED found
  PROVE  Told(l) /\ found' = [x \in Lookups |-> found'[x]]
  BY DEF Told, RecentInv

LEMMA MovedListing ==
  ASSUME NEW j, IsJob(j), NEW place
  PROVE  LET n == [j EXCEPT !.at = place]
         IN n.at = place /\ n.todo = j.todo /\ n.ask = j.ask /\ n.body = j.body
  BY DEF IsJob

LEMMA AskRecent ==
  ASSUME LookupInv, RecentInv, NEW l \in Lookups, Ask(l)
  PROVE  RecentInv' /\ Told(l)
<1> DEFINE j == job[l]
<1>1. Still /\ UNCHANGED <<file, temp>> /\ j.at = "try"
  BY DEF Ask, Still, cache
<1>2. IsJob(j) /\ job = [x \in Lookups |-> job[x]] /\ Listing(j) /\ JobOK(j, conn[l])
  BY DEF LookupInv, JobOK, RecentInv, JobGood
<1>3. CASE Open(l) /\ Move(l, "http") /\ UNCHANGED found
  <2> DEFINE n == [j EXCEPT !.at = "http"]
  <2>1. n.at = "http" /\ n.todo = j.todo /\ n.ask = j.ask
    BY <1>2, MovedListing
  <2>2. job' = [job EXCEPT ![l] = n]
    BY <1>3 DEF Move
  <2> HIDE DEF n
  <2>3. job'[l] = n /\ \A x \in Lookups \ {l} : job'[x] = job[x]
    BY <1>2, <2>2
  <2>4. conn'[l].at = "opening" /\ \A x \in Lookups \ {l} : conn'[x] = conn[x]
    BY <1>3, ConnTypes DEF Open, LookupInv, HttpTypeOK
  <2>5. Listing(n)
    BY <1>1, <1>2, <2>1 DEF Listing
  <2>6. JobGood(job[l], conn[l], found[l], temp[l])'
    BY <2>1, <2>3, <2>4, <2>5 DEF JobGood, BodyGood, PutGood, TempGood, Listing
  <2>7. FilesGood'
    BY <1>1, SameFiles DEF RecentInv
  <2>8. Told(l) /\ found' = [x \in Lookups |-> found'[x]]
    BY <1>3, NothingTold
  <2> QED  BY <1>1, <1>3, <2>3, <2>4, <2>6, <2>7, <2>8, OneRecent
<1>4. CASE GiveUp(l) /\ UNCHANGED conn
  <2>1. /\ Told(l) /\ job' = [job EXCEPT ![l] = Job("done", <<>>)]
        /\ found' = [x \in Lookups |-> found'[x]]
        /\ \A x \in Lookups \ {l} : found'[x] = found[x]
    BY <1>4, GiveUpRecent
  <2>2. RecentInv'
    BY <1>1, <1>4, <2>1, DoneJob, AwayStep
  <2> QED  BY <2>1, <2>2
<1> QED  BY <1>3, <1>4 DEF Ask

LEMMA WakeRecent ==
  ASSUME LookupInv, RecentInv, NEW l \in Lookups, Wake(l)
  PROVE  RecentInv' /\ Told(l)
<1> DEFINE j == job[l]
<1>1. Still /\ UNCHANGED <<conn, file, temp>> /\ j.at = "sleep"
  BY DEF Wake, Still, cache
<1>2. IsJob(j) /\ Listing(j)
  BY DEF LookupInv, JobOK, RecentInv, JobGood
<1>3. CASE GiveUp(l)
  <2>1. /\ Told(l) /\ job' = [job EXCEPT ![l] = Job("done", <<>>)]
        /\ found' = [x \in Lookups |-> found'[x]]
        /\ \A x \in Lookups \ {l} : found'[x] = found[x]
    BY <1>3, GiveUpRecent
  <2>2. RecentInv'
    BY <1>1, <2>1, DoneJob, AwayStep
  <2> QED  BY <2>1, <2>2
<1>4. CASE UNCHANGED found /\ \E n : job' = [job EXCEPT ![l] = n] /\ Listing(n) /\ n.at \in {"cache", "try"}
  <2>1. PICK n : job' = [job EXCEPT ![l] = n] /\ Listing(n) /\ n.at \in {"cache", "try"}
    BY <1>4
  <2>2. Told(l) /\ found' = [x \in Lookups |-> found'[x]]
    BY <1>4, NothingTold
  <2> QED  BY <1>1, <1>4, <2>1, <2>2, AwayStep
<1>5. <<>> \in Seq(Names)
  OBVIOUS
<1>6. Listing([j EXCEPT !.at = "cache", !.todo = j.ask, !.ask = <<>>])
      /\ [j EXCEPT !.at = "cache", !.todo = j.ask, !.ask = <<>>].at = "cache"
  BY <1>1, <1>2, <1>5, ListedJob DEF Listing
<1>7. Listing([j EXCEPT !.at = "try"]) /\ [j EXCEPT !.at = "try"].at = "try"
  BY <1>1, <1>2, MovedListing DEF Listing
<1>8. GiveUp(l) \/ (UNCHANGED found /\ \/ job' = [job EXCEPT ![l] = [j EXCEPT !.at = "cache", !.todo = j.ask, !.ask = <<>>]]
                                       \/ job' = [job EXCEPT ![l] = [j EXCEPT !.at = "try"]])
  BY DEF Wake
<1> QED  BY <1>3, <1>4, <1>6, <1>7, <1>8

LEMMA DieRecent ==
  ASSUME LookupInv, RecentInv, NEW l \in Lookups, Die(l)
  PROVE  RecentInv' /\ Told(l)
<1>1. Still /\ UNCHANGED <<file, temp, found>> /\ \A x \in Lookups \ {l} : conn'[x] = conn[x]
  BY DEF Die, Still, Close, LookupInv, HttpTypeOK
<1>2. Told(l) /\ found' = [x \in Lookups |-> found'[x]]
  BY <1>1, NothingTold
<1>3. Listing(Job("dead", <<>>)) /\ Job("dead", <<>>).at = "dead"
  <2>1. <<>> \in Seq(Names)
    OBVIOUS
  <2> QED  BY <2>1 DEF Listing, Job
<1>4. job' = [job EXCEPT ![l] = Job("dead", <<>>)]
  BY DEF Die
<1> QED  BY <1>1, <1>2, <1>3, <1>4, AwayStep

-----------------------------------------------------------------------------
(* What is put is what was found.                                          *)

LEMMA PutListing ==
  ASSUME LookupInv, RecentInv, NEW l \in Lookups, job[l].at \in {"put", "write", "rename"}
  PROVE  /\ IsJob(job[l]) /\ job = [x \in Lookups |-> job[x]]
         /\ job[l].todo \in Seq(Names) /\ job[l].todo # <<>> /\ job[l].ask \in Seq(Names)
         /\ Head(job[l].todo) \in Names /\ Head(job[l].todo) = job[l].todo[1]
         /\ 1 \in 1 .. Len(job[l].todo)
         /\ PutGood(job[l], found[l])
<1>1. /\ IsJob(job[l]) /\ job = [x \in Lookups |-> job[x]]
      /\ job[l].todo \in Seq(Names) /\ job[l].todo # <<>> /\ job[l].ask \in Seq(Names)
      /\ PutGood(job[l], found[l])
  BY DEF LookupInv, JobOK, RecentInv, JobGood, Listing
<1> QED  BY <1>1

(* The entry of what was found a moment ago, stamped before the clock was  *)
(* set back or after.                                                      *)
LEMMA PutEntry ==
  ASSUME LookupInv, RecentInv, NEW l \in Lookups, job[l].at = "write",
         NEW n \in Names, KeyOf(n) = PutKey(l), NEW d \in 0 .. setback
  PROVE  EntryGood([says |-> PutAnswer(l), shown |-> -d], n)
<1>1. World /\ setback \in Nat
  BY CacheOK DEF RecentInv, World
<1>2. TrueOf(PutAnswer(l)[n], n, 0)
  <2>1. CASE source = "watchlist"
    BY <2>1, PutListing DEF PutGood, PutAnswer
  <2>2. CASE source # "watchlist"
    <3>1. n = Head(job[l].todo)
      BY <2>2 DEF KeyOf, PutKey
    <3>2. PutAnswer(l)[n] = found[l][n] /\ found[l][n] # "unverifiable"
      BY <2>2, <3>1, PutListing DEF PutAnswer, PutGood
    <3>3. n = job[l].todo[1] /\ 1 \in 1 .. Len(job[l].todo) /\ PutGood(job[l], found[l])
      BY <3>1, PutListing
    <3> QED  BY <2>2, <3>2, <3>3 DEF PutGood
  <2> QED  BY <2>1, <2>2
<1>3. -d \in Int /\ -d + setback \in Int /\ 0 <= -d + setback
  BY <1>1
<1> DEFINE says == PutAnswer(l)
<1> HIDE DEF says
<1>4. TrueOf(says[n], n, -d + setback)
  BY <1>1, <1>2, <1>3, Later DEF says
<1>5. EntryGood([says |-> says, shown |-> -d], n)
  BY <1>3, <1>4 DEF EntryGood
<1> QED  BY <1>5 DEF says

(* The rest of what is to be put.                                          *)
LEMMA NextPutGood ==
  ASSUME LookupInv, RecentInv, NEW l \in Lookups, job[l].at \in {"put", "write", "rename"}, NextPut(l)
  PROVE  \E n : /\ job' = [job EXCEPT ![l] = n] /\ Listing(n) /\ n.at \in {"put", "done"}
                /\ PutGood(n, found[l])
<1> DEFINE j == job[l]
           n == [j EXCEPT !.at = "put", !.todo = Tail(j.todo), !.ask = j.ask]
<1>1. /\ IsJob(j) /\ j.todo \in Seq(Names) /\ j.todo # <<>> /\ j.ask \in Seq(Names)
      /\ PutGood(j, found[l])
  BY PutListing
<1>2. CASE Finish(l)
  <2>1. PutGood(Job("done", <<>>), found[l])
    BY DoneJob DEF PutGood
  <2> QED  BY <1>2, <2>1, DoneJob DEF Finish
<1>3. CASE Len(j.todo) # 1 /\ job' = [job EXCEPT ![l].at = "put", ![l].todo = Tail(@)]
  <2>1. job' = [job EXCEPT ![l] = n]
    BY <1>1, <1>3 DEF IsJob
  <2>2. n.at = "put" /\ n.todo = Tail(j.todo) /\ n.ask = j.ask
    BY <1>1, ListedJob
  <2>3. n.body = j.body
    BY <1>1 DEF IsJob
  <2> HIDE DEF n
  <2>4. /\ Tail(j.todo) \in Seq(Names) /\ Tail(j.todo) # <<>>
        /\ \A i \in 1 .. Len(Tail(j.todo)) : Tail(j.todo)[i] = j.todo[i + 1] /\ i + 1 \in 1 .. Len(j.todo)
    <3> DEFINE s == j.todo
    <3>1. s \in Seq(Names) /\ s # <<>> /\ Len(s) # 1
      BY <1>1, <1>3
    <3> HIDE DEF s
    <3>2. Len(s) \in Nat /\ Len(s) > 1
      <4>1. Len(s) \in Nat /\ (Len(s) = 0 => s = <<>>)
        BY <3>1
      <4>2. \A k \in Nat : k # 0 /\ k # 1 => k > 1
        OBVIOUS
      <4> QED  BY <3>1, <4>1, <4>2
    <3>3. Tail(s) \in Seq(Names) /\ Len(Tail(s)) = Len(s) - 1
      BY <3>1
    <3>4. \A i \in 1 .. Len(Tail(s)) : Tail(s)[i] = s[i + 1]
      BY <3>1
    <3>5. Tail(s) # <<>>
      <4>1. Len(<<>>) = 0
        OBVIOUS
      <4>2. \A k \in Nat : k > 1 => k - 1 # 0
        OBVIOUS
      <4> QED  BY <3>2, <3>3, <4>1, <4>2
    <3>6. \A i \in 1 .. Len(Tail(s)) : i + 1 \in 1 .. Len(s)
      BY <3>2, <3>3
    <3> QED  BY <3>3, <3>4, <3>5, <3>6 DEF s
  <2>5. Listing(n)
    BY <1>1, <2>2, <2>4 DEF Listing
  <2>6. PutGood(n, found[l])
    BY <1>1, <2>2, <2>3, <2>4 DEF PutGood
  <2> QED  BY <2>1, <2>2, <2>5, <2>6
<1> QED  BY <1>2, <1>3 DEF NextPut

LEMMA PutRecent ==
  ASSUME LookupInv, RecentInv, NEW l \in Lookups, Put(l)
  PROVE  RecentInv' /\ Told(l)
<1> DEFINE j == job[l]
<1>1. Still /\ UNCHANGED <<conn, found>> /\ j.at \in {"put", "write", "rename"}
  BY DEF Put, Still, CreateTemp, WriteTemp, Replace, WriteFails, cache
<1>2. Told(l) /\ found' = [x \in Lookups |-> found'[x]]
  BY <1>1, NothingTold
<1>3. ASSUME FilesGood', NextPut(l), \A x \in Lookups \ {l} : temp'[x] = temp[x]
      PROVE  RecentInv'
  <2>1. PICK n : /\ job' = [job EXCEPT ![l] = n] /\ Listing(n) /\ n.at \in {"put", "done"}
                 /\ PutGood(n, found[l])
    BY <1>1, <1>3, NextPutGood
  <2>2. job'[l] = n /\ \A x \in Lookups \ {l} : job'[x] = job[x]
    BY <2>1 DEF LookupInv
  <2>3. PutGood(n, found[l])'
    BY <1>1, <2>1 DEF PutGood, TrueOf, Still, Stay
  <2>4. JobGood(job[l], conn[l], found[l], temp[l])'
    BY <1>1, <2>1, <2>2, <2>3 DEF JobGood, BodyGood, TempGood, Listing
  <2> QED  BY <1>1, <1>2, <1>3, <2>2, <2>4, OneRecent
<1>4. ASSUME NEW place \in {"write", "rename"}, Move(l, place), UNCHANGED file,
             place = "write" => found[l][Head(j.todo)] # "unverifiable",
             NEW e, temp' = [temp EXCEPT ![l] = e],
             place = "rename" => \A x \in Names : KeyOf(x) = KeyOf(Head(j.todo)) => EntryGood(e, x)
      PROVE  RecentInv'
  <2> DEFINE n == [j EXCEPT !.at = place]
  <2>1. /\ IsJob(j) /\ job = [x \in Lookups |-> job[x]] /\ temp = [x \in Lookups |-> temp[x]]
        /\ JobGood(j, conn[l], found[l], temp[l])
    BY DEF LookupInv, JobOK, RecentInv
  <2>2. n.at = place /\ n.todo = j.todo /\ n.ask = j.ask /\ n.body = j.body
    BY <2>1, MovedListing
  <2>3. job' = [job EXCEPT ![l] = n]
    BY <1>4 DEF Move
  <2> HIDE DEF n
  <2>4. /\ job'[l] = n /\ \A x \in Lookups \ {l} : job'[x] = job[x]
        /\ temp'[l] = e /\ \A x \in Lookups \ {l} : temp'[x] = temp[x]
    BY <1>4, <2>1, <2>3
  <2>5. Listing(n) /\ BodyGood(n, conn[l]) /\ TempGood(n, e)
    BY <1>1, <1>4, <2>1, <2>2 DEF JobGood, Listing, BodyGood, TempGood
  <2>6. PutGood(n, found[l])
    BY <1>1, <1>4, <2>1, <2>2 DEF JobGood, PutGood
  <2>7. PICK m, c, f, d : m = n /\ c = conn[l] /\ f = found[l] /\ d = e
    OBVIOUS
  <2>8. JobGood(m, c, f, d)'
    BY <1>1, <2>5, <2>6, <2>7, SameJob DEF JobGood
  <2>9. m = job'[l] /\ c = conn'[l] /\ f = found'[l] /\ d = temp'[l]
    BY <1>1, <2>4, <2>7
  <2>10. JobGood(job[l], conn[l], found[l], temp[l])'
    BY <2>8, <2>9
  <2>11. FilesGood'
    BY <1>1, <1>4, SameFiles DEF RecentInv
  <2> QED  BY <1>1, <1>2, <2>4, <2>10, <2>11, OneRecent
<1>8. CASE Cacheable(l) /\ CreateTemp(l) /\ Move(l, "write")
  <2>1. UNCHANGED file /\ temp' = [temp EXCEPT ![l] = Unreadable]
    BY <1>8 DEF CreateTemp
  <2>2. found[l][Head(j.todo)] # "unverifiable"
    BY <1>8 DEF Cacheable
  <2> QED  BY <1>2, <1>4, <1>8, <2>1, <2>2
<1>9. CASE j.at = "write" /\ WriteTemp(l, PutAnswer(l)) /\ Move(l, "rename")
  <2>1. PICK d \in 0 .. setback : temp' = [temp EXCEPT ![l] = [says |-> PutAnswer(l), shown |-> -d]]
    BY <1>9 DEF WriteTemp
  <2> DEFINE e == [says |-> PutAnswer(l), shown |-> -d]
  <2>2. \A x \in Names : KeyOf(x) = KeyOf(Head(j.todo)) => EntryGood(e, x)
    BY <1>9, PutEntry DEF PutKey
  <2>3. temp' = [temp EXCEPT ![l] = e] /\ UNCHANGED file
    BY <1>9, <2>1 DEF WriteTemp
  <2> HIDE DEF e
  <2> QED  BY <1>2, <1>4, <1>9, <2>2, <2>3
<1>5. CASE UNCHANGED cache /\ NextPut(l)
  <2>1. FilesGood'
    BY <1>1, <1>5, SameFiles DEF RecentInv, cache
  <2> QED  BY <1>2, <1>3, <1>5, <2>1 DEF cache
<1>6. CASE j.at = "rename" /\ Replace(l, PutKey(l)) /\ NextPut(l)
  <2>1. FilesGood /\ TempGood(j, temp[l])
    BY DEF RecentInv, JobGood
  <2>2. \A n \in Names : KeyOf(n)' = KeyOf(n)
    BY <1>1 DEF KeyOf, Still, Stay
  <2>3. file' = [file EXCEPT ![PutKey(l)] = temp[l]]
    BY <1>6 DEF Replace
  <2>4. ASSUME NEW n \in Names
        PROVE  EntryGood(file'[KeyOf(n)], n)
    BY <1>6, <2>1, <2>3 DEF FilesGood, TempGood, PutKey
  <2>5. ASSUME NEW n \in Names
        PROVE  EntryGood(file[KeyOf(n)], n)'
    <3>1. PICK e : e = file'[KeyOf(n)]
      OBVIOUS
    <3>2. EntryGood(e, n)'
      BY <1>1, <2>4, <3>1, SameEntry
    <3> QED  BY <2>2, <3>1, <3>2
  <2>6. file' = [k \in Keys |-> file'[k]]
    BY <2>1, <2>3 DEF FilesGood
  <2>7. FilesGood'
    BY <2>5, <2>6 DEF FilesGood
  <2>8. \A x \in Lookups \ {l} : temp'[x] = temp[x]
    BY <1>6 DEF Replace, LookupInv
  <2> QED  BY <1>2, <1>3, <1>6, <2>7, <2>8
<1>7. CASE WriteFails(l) /\ NextPut(l)
  <2>1. FilesGood'
    BY <1>1, <1>7, SameFiles DEF RecentInv, WriteFails
  <2>2. \A x \in Lookups \ {l} : temp'[x] = temp[x]
    BY <1>7 DEF WriteFails, Unlinked, LookupInv
  <2> QED  BY <1>2, <1>3, <1>7, <2>1, <2>2
<1>10. RecentInv'
  BY <1>5, <1>6, <1>7, <1>8, <1>9 DEF Put
<1> QED  BY <1>2, <1>10
-----------------------------------------------------------------------------
(* What an answer says of the names asked about.                           *)
LEMMA ResultIsBody ==
  ASSUME NEW l \in Lookups, job[l].ask \in Seq(Names), NEW n \in Asked(l)
  PROVE  ResultOf(l, n) = job[l].body[n]
<1> DEFINE ask == job[l].ask
           body == job[l].body
           i == CHOOSE k \in DOMAIN ask : ask[k] = n
<1>1. \E k \in DOMAIN ask : ask[k] = n
  BY DEF Asked, Range
<1>2. i \in DOMAIN ask /\ ask[i] = n
  BY <1>1
<1>3. ResultOf(l, n) = [k \in DOMAIN ask |-> body[ask[k]]][i]
  BY DEF ResultOf
<1> HIDE DEF ask, body, i
<1>4. [k \in DOMAIN ask |-> body[ask[k]]][i] = body[n]
  BY <1>2
<1> QED  BY <1>3, <1>4 DEF body

(* A job that goes on to the disk with what it has just found out.         *)
LEMMA PutBegins ==
  ASSUME LookupInv, RecentInv, NEW l \in Lookups, Still, UNCHANGED <<file, temp>>,
         \A x \in Lookups \ {l} : conn'[x] = conn[x] /\ found'[x] = found[x],
         found' = [x \in Lookups |-> found'[x]],
         NEW n, job' = [job EXCEPT ![l] = n], Listing(n), n.at = "put", PutGood(n, found'[l])
  PROVE  RecentInv'
<1>1. job'[l] = n /\ \A x \in Lookups \ {l} : job'[x] = job[x]
  BY DEF LookupInv
<1>2. PICK c, f, e : c = conn'[l] /\ f = found'[l] /\ e = temp'[l]
  OBVIOUS
<1>3. JobGood(n, c, f, e)
  BY <1>2 DEF JobGood, BodyGood, TempGood
<1>4. JobGood(n, c, f, e)'
  BY <1>3, SameJob
<1>5. JobGood(job[l], conn[l], found[l], temp[l])'
  BY <1>1, <1>2, <1>4
<1>6. FilesGood'
  BY SameFiles DEF RecentInv
<1> QED  BY <1>1, <1>5, <1>6, OneRecent

(* What an answer is for.                                                  *)
LEMMA AskedNames ==
  ASSUME RecentInv, NEW l \in Lookups, job[l].at = "http"
  PROVE  /\ job[l].ask \in Seq(Names) /\ job[l].ask # <<>>
         /\ Asked(l) = {job[l].ask[i] : i \in 1 .. Len(job[l].ask)}
         /\ Asked(l) \subseteq Names
<1> DEFINE ask == job[l].ask
<1>1. Listing(job[l])
  BY DEF RecentInv, JobGood
<1>2. ask \in Seq(Names) /\ ask # <<>>
  BY <1>1 DEF Listing
<1>3. DOMAIN ask = 1 .. Len(ask) /\ \A i \in 1 .. Len(ask) : ask[i] \in Names
  BY <1>2
<1>4. Asked(l) = {ask[i] : i \in 1 .. Len(ask)}
  BY <1>3 DEF Asked, Range
<1> QED  BY <1>2, <1>3, <1>4

LEMMA TakeRecent ==
  ASSUME LookupInv, RecentInv, NEW l \in Lookups, Still, UNCHANGED <<file, temp>>,
         \A x \in Lookups \ {l} : conn'[x] = conn[x],
         job[l].at = "http", NEW says, NEW S, Take(l, says, S),
         \A n \in Asked(l) : n \in S => TrueOf(says[n], n, 0),
         source = "watchlist" => \A n \in Names : TrueOf(job[l].body[n], n, 0)
  PROVE  RecentInv' /\ Told(l)
<1> DEFINE A == Asked(l)
           f == [n \in Names |-> IF n \in S THEN says[n] ELSE Unspoken]
           ask == job[l].ask
           body == job[l].body
<1>1. /\ ask \in Seq(Names) /\ ask # <<>> /\ A = {ask[i] : i \in 1 .. Len(ask)}
      /\ A \subseteq Names
  BY AskedNames
<1>2. Learn(l, A, f)
  BY DEF Take
<1>3. \A n \in A : f[n] # "unverifiable" => TrueOf(f[n], n, 0)
  BY <1>1 DEF Unspoken
<1>4. \/ job' = [job EXCEPT ![l] = Job("done", <<>>)]
      \/ source = "watchlist" /\ job' = [job EXCEPT ![l] = [Job("put", <<Head(ask)>>) EXCEPT !.body = body]]
      \/ source # "watchlist" /\ job' = [job EXCEPT ![l] = Job("put", ask)]
  BY DEF Take, Finish
<1>5. source = "watchlist" => \A n \in Names : TrueOf(body[n], n, 0)
  OBVIOUS
<1> HIDE DEF A, f, ask, body
<1>6. /\ found' = [x \in Lookups |-> found'[x]]
      /\ \A x \in Lookups \ {l} : found'[x] = found[x]
      /\ \A n \in Names : found'[l][n] = IF n \in A THEN f[n] ELSE found[l][n]
  BY <1>2, Learned
<1>7. Told(l)
  <2>1. \A n \in A : f[n] # "unverifiable" => TrueOf(f[n], n, Recent)
    BY <1>1, <1>3, RecentNat, Later DEF RecentInv, Recent
  <2> QED  BY <1>6, <2>1 DEF Told
<1>8. CASE job' = [job EXCEPT ![l] = Job("done", <<>>)]
  BY <1>6, <1>7, <1>8, DoneJob, AwayStep
<1>9. CASE source = "watchlist" /\ job' = [job EXCEPT ![l] = [Job("put", <<Head(ask)>>) EXCEPT !.body = body]]
  <2> DEFINE todo == <<Head(ask)>>
  <2>1. todo \in Seq(Names) /\ todo # <<>> /\ <<>> \in Seq(Names)
    BY <1>1
  <2>2. job' = [job EXCEPT ![l] = [Job("put", todo) EXCEPT !.body = body]]
    BY <1>9
  <2> HIDE DEF todo
  <2> DEFINE n == [Job("put", todo) EXCEPT !.body = body]
  <2>3. n.at = "put" /\ n.todo = todo /\ n.ask = <<>> /\ n.body = body
    BY DEF Job
  <2>4. job' = [job EXCEPT ![l] = n]
    BY <2>2
  <2> HIDE DEF n
  <2>5. Listing(n) /\ PutGood(n, found'[l])
    BY <1>5, <1>9, <2>1, <2>3 DEF Listing, PutGood
  <2> QED  BY <1>6, <1>7, <2>3, <2>4, <2>5, PutBegins
<1>10. CASE source # "watchlist" /\ job' = [job EXCEPT ![l] = Job("put", ask)]
  <2> DEFINE n == Job("put", ask)
  <2>1. n.at = "put" /\ n.todo = ask /\ n.ask = <<>> /\ <<>> \in Seq(Names)
    BY DEF Job
  <2>2. job' = [job EXCEPT ![l] = n]
    BY <1>10
  <2> HIDE DEF n
  <2>3. Listing(n) /\ PutGood(n, found'[l])
    BY <1>1, <1>3, <1>6, <1>10, <2>1 DEF Listing, PutGood
  <2> QED  BY <1>6, <1>7, <2>1, <2>2, <2>3, PutBegins
<1> QED  BY <1>4, <1>8, <1>9, <1>10

LEMMA SleepingListing ==
  ASSUME NEW j, IsJob(j), NEW p
  PROVE  LET n == [j EXCEPT !.at = "sleep", !.tried = @ + 1, !.pause = p, !.body = NoBody]
         IN n.at = "sleep" /\ n.todo = j.todo /\ n.ask = j.ask
  BY DEF IsJob

LEMMA RetryRecent ==
  ASSUME LookupInv, RecentInv, NEW l \in Lookups, Still, UNCHANGED <<file, temp>>,
         \A x \in Lookups \ {l} : conn'[x] = conn[x],
         job[l].at = "http", Retry(l)
  PROVE  RecentInv' /\ Told(l)
<1>1. CASE MayRetry(l)
  <2> DEFINE p == Backoff(l)
             n == [job[l] EXCEPT !.at = "sleep", !.tried = @ + 1, !.pause = p, !.body = NoBody]
  <2>1. IsJob(job[l]) /\ Listing(job[l])
    BY DEF LookupInv, JobOK, RecentInv, JobGood
  <2>2. job' = [job EXCEPT ![l] = n] /\ UNCHANGED found
    BY <1>1 DEF Retry
  <2> HIDE DEF p
  <2>3. n.at = "sleep" /\ n.todo = job[l].todo /\ n.ask = job[l].ask
    BY <2>1, SleepingListing
  <2> HIDE DEF n
  <2>4. Listing(n)
    BY <2>1, <2>3 DEF Listing
  <2>5. Told(l) /\ found' = [x \in Lookups |-> found'[x]]
    BY <2>2, NothingTold
  <2> QED  BY <2>2, <2>3, <2>4, <2>5, AwayStep
<1>2. CASE GiveUp(l)
  <2>1. /\ Told(l) /\ job' = [job EXCEPT ![l] = Job("done", <<>>)]
        /\ found' = [x \in Lookups |-> found'[x]]
        /\ \A x \in Lookups \ {l} : found'[x] = found[x]
    BY <1>2, GiveUpRecent
  <2> QED  BY <2>1, DoneJob, AwayStep
<1> QED  BY <1>1, <1>2 DEF Retry

LEMMA DigestRecent ==
  ASSUME LookupInv, RecentInv, NEW l \in Lookups, Still, UNCHANGED <<file, temp>>,
         \A x \in Lookups \ {l} : conn'[x] = conn[x],
         job[l].at = "http", NEW result, Digest(l, result),
         result = "json" => \A n \in Names : TrueOf(job[l].body[n], n, 0),
         result = "404" /\ source \in Registries => \A n \in Asked(l) : truth[n] = "flagged"
  PROVE  RecentInv' /\ Told(l)
<1>1. job[l].ask \in Seq(Names) /\ Asked(l) \subseteq Names
  BY AskedNames
<1>2. ASSUME result = "json", NEW S \in Spoken(l), NEW broken \in Broken(l),
             Take(l, [n \in Names |-> IF n \in S THEN EntryOf(l, n, broken) ELSE "plain"], S)
      PROVE  RecentInv' /\ Told(l)
  <2> DEFINE says == [n \in Names |-> IF n \in S THEN EntryOf(l, n, broken) ELSE "plain"]
  <2>1. ASSUME NEW n \in Asked(l), n \in S
        PROVE  TrueOf(says[n], n, 0)
    <3>1. says[n] = EntryOf(l, n, broken) /\ n \in Names
      BY <1>1, <2>1
    <3>2. CASE n \in broken
      <4>1. EntryOf(l, n, broken) = "plain" /\ source = "osv" /\ n \in Malformed
        BY <1>2, <3>2 DEF EntryOf, Broken
      <4> QED  BY <3>1, <4>1 DEF TrueOf
    <3>3. CASE n \notin broken
      <4>1. EntryOf(l, n, broken) = job[l].body[n]
        BY <1>1, <3>3, ResultIsBody DEF EntryOf
      <4> QED  BY <1>2, <3>1, <4>1
    <3> QED  BY <3>2, <3>3
  <2>2. Take(l, says, S)
    BY <1>2
  <2> HIDE DEF says
  <2> QED  BY <1>2, <2>1, <2>2, TakeRecent
<1>3. ASSUME result = "404", source \in Registries,
             Take(l, [n \in Names |-> "flagged"], Asked(l))
      PROVE  RecentInv' /\ Told(l)
  <2> DEFINE says == [n \in Names |-> "flagged"]
             S == Asked(l)
  <2>1. \A n \in Asked(l) : n \in S => TrueOf(says[n], n, 0)
    BY <1>1, <1>3 DEF TrueOf
  <2>2. Take(l, says, S) /\ source # "watchlist"
    BY <1>3 DEF Registries
  <2> HIDE DEF says, S
  <2> QED  BY <2>1, <2>2, TakeRecent
<1>4. CASE Retry(l)
  BY <1>4, RetryRecent
<1>5. CASE GiveUp(l)
  <2>1. /\ Told(l) /\ job' = [job EXCEPT ![l] = Job("done", <<>>)]
        /\ found' = [x \in Lookups |-> found'[x]]
        /\ \A x \in Lookups \ {l} : found'[x] = found[x]
    BY <1>5, GiveUpRecent
  <2> QED  BY <2>1, DoneJob, AwayStep
<1> QED  BY <1>2, <1>3, <1>4, <1>5 DEF Digest

(* A step of a request that goes on.                                       *)
LEMMA RequestGoesOn ==
  ASSUME LookupInv, RecentInv, NEW l \in Lookups, Still, UNCHANGED <<file, temp, found>>,
         \A x \in Lookups \ {l} : conn'[x] = conn[x],
         NEW n, job' = [job EXCEPT ![l] = n], Listing(n), n.at = "http",
         BodyGood(n, conn'[l])
  PROVE  RecentInv' /\ Told(l)
<1>1. job'[l] = n /\ \A x \in Lookups \ {l} : job'[x] = job[x]
  BY DEF LookupInv
<1>2. PICK c, f, e : c = conn'[l] /\ f = found'[l] /\ e = temp'[l]
  OBVIOUS
<1>3. JobGood(n, c, f, e)
  BY <1>2 DEF JobGood, PutGood, TempGood
<1>4. JobGood(n, c, f, e)'
  BY <1>3, SameJob
<1>5. JobGood(job[l], conn[l], found[l], temp[l])'
  BY <1>1, <1>2, <1>4
<1>6. FilesGood'
  BY SameFiles DEF RecentInv
<1>7. Told(l) /\ found' = [x \in Lookups |-> found'[x]]
  BY NothingTold
<1> QED  BY <1>1, <1>5, <1>6, <1>7, OneRecent

LEMMA ReceiveRecent ==
  ASSUME LookupInv, RecentInv, NEW l \in Lookups, Receive(l)
  PROVE  RecentInv' /\ Told(l)
<1> DEFINE j == job[l]
<1>1. /\ Still /\ UNCHANGED <<file, temp>> /\ j.at = "http"
  BY DEF Receive, Still, cache
<1>2. IsJob(j) /\ conn[l] \in Conns /\ Listing(j) /\ BodyGood(j, conn[l]) /\ World
  BY ConnTypes DEF LookupInv, JobOK, RecentInv, JobGood
<1>3. ASSUME Close(l)
      PROVE  \A x \in Lookups \ {l} : conn'[x] = conn[x]
  BY <1>3 DEF Close, LookupInv, HttpTypeOK
<1>4. ASSUME NEW result \in Results \cup {"none"}, NEW code \in Codes, Answer(l, code, result)
      PROVE  RecentInv' /\ Told(l)
  <2>1. CASE result = "none"
    <3> DEFINE n == [j EXCEPT !.body = truth]
               c == [Idle EXCEPT !.at = "reading"]
    <3>1. n.at = "http" /\ n.todo = j.todo /\ n.ask = j.ask /\ n.body = truth
      BY <1>1, <1>2 DEF IsJob
    <3>2. job' = [job EXCEPT ![l] = n] /\ conn' = [conn EXCEPT ![l] = c] /\ UNCHANGED found
      BY <1>4, <2>1 DEF Answer, StatusLine, OfStatus
    <3>3. c \in Conns
      BY HttpOK DEF Conns, Idle
    <3> HIDE DEF n, c
    <3>4. conn'[l] = c /\ \A x \in Lookups \ {l} : conn'[x] = conn[x]
      BY <3>2, <3>3, NewConn
    <3>5. Listing(n) /\ BodyGood(n, conn'[l])
      BY <1>1, <1>2, <3>1 DEF Listing, BodyGood, TrueOf, World
    <3> QED  BY <1>1, <3>1, <3>2, <3>4, <3>5, RequestGoesOn
  <2>2. CASE result # "none"
    <3>1. /\ Close(l) /\ Digest(l, result) /\ MayAnswer(l, code)
          /\ result = "permanent" \/ result = OfStatus(code)
      BY <1>4, <2>2 DEF Answer, StatusLine
    <3>2. result # "json" /\ (result = "404" => code = "404")
      BY <3>1 DEF OfStatus
    <3>3. result = "404" /\ source \in Registries => \A n \in Asked(l) : truth[n] = "flagged"
      BY <3>1, <3>2 DEF MayAnswer
    <3> QED  BY <1>1, <1>3, <3>1, <3>2, <3>3, DigestRecent
  <2> QED  BY <2>1, <2>2
<1>5. ASSUME NEW result \in Results \cup {"none"},
             OpeningGoesOn(l, result) \/ Chunk(l, result) \/ BodyEnds(l, result) \/ SocketFails(l, result),
             IF result = "none" THEN UNCHANGED <<job, found>> ELSE Digest(l, result)
      PROVE  RecentInv' /\ Told(l)
  <2>1. CASE result = "none"
    <3>1. PICK c \in Conns : c.at = conn[l].at /\ conn' = [conn EXCEPT ![l] = c]
      BY <1>5, <2>1, RequestLasts
    <3>2. conn'[l] = c /\ \A x \in Lookups \ {l} : conn'[x] = conn[x]
      BY <3>1, NewConn
    <3>3. BodyGood(j, conn'[l]) /\ job' = [job EXCEPT ![l] = j] /\ UNCHANGED found
      BY <1>2, <1>5, <2>1, <3>1, <3>2 DEF BodyGood, LookupInv
    <3> HIDE DEF j
    <3> QED  BY <1>1, <1>2, <3>2, <3>3, RequestGoesOn
  <2>2. CASE result # "none"
    <3>1. Close(l) /\ Digest(l, result) /\ result # "404"
      BY <1>5, <2>2 DEF OpeningGoesOn, Chunk, BodyEnds, SocketFails
    <3>2. result = "json" => conn[l].at = "reading"
      BY <1>5, <2>2 DEF OpeningGoesOn, Chunk, BodyEnds, SocketFails
    <3>3. result = "json" => \A n \in Names : TrueOf(j.body[n], n, 0)
      BY <1>1, <1>2, <3>2 DEF BodyGood
    <3> QED  BY <1>1, <1>3, <3>1, <3>3, DigestRecent
  <2> QED  BY <2>1, <2>2
<1> QED  BY <1>4, <1>5 DEF Receive
-----------------------------------------------------------------------------
(* A step of the world: what was true k ago was true k + d ago after it.   *)
Fades(d) == \A v : \A n \in Names, k \in Nat : TrueOf(v, n, k) => TrueOf(v, n, k + d)'

LEMMA TickFades == World /\ Tick => Fades(1)
<1> SUFFICES ASSUME World, Tick, NEW v, NEW n \in Names, NEW k \in Nat, TrueOf(v, n, k)
             PROVE  TrueOf(v, n, k + 1)'
  BY DEF Fades
<1>1. /\ truth' = truth /\ source' = source
      /\ since'[n] = 0 \/ since'[n] = IF since[n] < Ages THEN since[n] + 1 ELSE Ages
  BY DEF Tick
<1>2. since[n] \in 0 .. Ages /\ Ages \in Nat
  BY RecentNat DEF World
<1> QED  BY <1>1, <1>2 DEF TrueOf

LEMMA FactFades ==
  ASSUME World, NEW x \in Changing, FactChanges(x)
  PROVE  Fades(0)
<1> SUFFICES ASSUME NEW v, NEW n \in Names, NEW k \in Nat, TrueOf(v, n, k)
             PROVE  TrueOf(v, n, k + 0)'
  BY DEF Fades
<1>1. /\ n # x => truth'[n] = truth[n] /\ since'[n] = since[n]
      /\ n = x => since'[n] = 0
      /\ source' = source
  BY DEF World, FactChanges
<1> QED  BY <1>1 DEF TrueOf

LEMMA ClockFades == ClockCorrected => Fades(0)
<1> SUFFICES ASSUME ClockCorrected, NEW v, NEW n \in Names, NEW k \in Nat, TrueOf(v, n, k)
             PROVE  TrueOf(v, n, k + 0)'
  BY DEF Fades
<1> QED  BY DEF TrueOf, ClockCorrected, lookup

LEMMA ShiftedFields ==
  ASSUME NEW e, NEW d, IsEntry(e), e # NoEntry
  PROVE  /\ Shift(e, d).says = e.says
         /\ Shift(e, d).shown = IF e.shown + d > OldAge THEN OldAge ELSE e.shown + d
<1>1. e \notin {NoEntry, Unreadable}
  BY EntriesDiffer
<1> QED  BY <1>1 DEF Shift, IsEntry

LEMMA AgesAdd ==
  ASSUME NEW x \in Int, NEW d \in Int, NEW s \in Nat, NEW t \in Nat, NEW b \in Nat,
         d + t = b + s, x + s >= 0, NEW old \in Nat,
         NEW y, y = IF x + d > old THEN old ELSE x + d
  PROVE  /\ y \in Int /\ y + t >= 0
         /\ x + d > old => y + t >= old
         /\ ~(x + d > old) => y + t = x + s + b
  OBVIOUS

(* The age an entry shows and the setback of the clock give its true age.  *)
LEMMA ShiftedGood ==
  ASSUME World, NEW n \in Names, NEW e, FileOK(e), EntryGood(e, n),
         NEW d \in Int, NEW b \in Nat, d + setback' = b + setback, setback' \in Nat, Fades(b),
         NEW g, g = Shift(e, d)
  PROVE  EntryGood(g, n)'
<1>1. CASE e \in {NoEntry, Unreadable}
  BY <1>1 DEF Shift, EntryGood
<1>2. CASE e \notin {NoEntry, Unreadable}
  <2> DEFINE m == Ttl + MaxMishaps
             x == e.shown
             y == g.shown
             u == e.says[n]
  <2>1. g.says = e.says /\ y = IF x + d > OldAge THEN OldAge ELSE x + d
    BY <1>2, ShiftedFields DEF FileOK
  <2>2. setback \in Nat /\ x \in Int /\ x + setback >= 0
    BY <1>2, CacheOK DEF World, EntryGood
  <2>3. OldAge = m + 1 /\ OldAge \in Nat /\ m \in Nat
    BY RecentNat DEF OldAge
  <2>4. TrueOf(u, n, x + setback) \/ x + setback > m
    BY <1>2 DEF EntryGood
  <2>5. PICK s, t, X, Y, v : s = setback /\ t = setback' /\ X = x /\ Y = y /\ v = u
    OBVIOUS
  <2> HIDE DEF m, x, y, u
  <2>6. s \in Nat /\ t \in Nat /\ X \in Int /\ d + t = b + s /\ X + s >= 0
    BY <2>2, <2>5
  <2>7. Y = IF X + d > OldAge THEN OldAge ELSE X + d
    BY <2>1, <2>5
  <2>8. /\ Y \in Int /\ Y + t >= 0
        /\ X + d > OldAge => Y + t >= OldAge
        /\ ~(X + d > OldAge) => Y + t = X + s + b
    BY <2>3, <2>6, <2>7, AgesAdd
  <2>9. Y + t > m \/ TrueOf(v, n, Y + t)'
    <3>1. CASE X + d > OldAge
      BY <2>3, <2>6, <2>8, <3>1
    <3>2. CASE ~(X + d > OldAge) /\ X + s > m
      BY <2>3, <2>6, <2>8, <3>2
    <3>3. CASE ~(X + d > OldAge) /\ TrueOf(v, n, X + s)
      <4>1. X + s \in Nat
        BY <2>3, <2>6
      <4>2. TrueOf(v, n, X + s + b)'
        BY <3>3, <4>1 DEF Fades
      <4> QED  BY <2>8, <3>3, <4>2
    <3> QED  BY <2>4, <2>5, <3>1, <3>2, <3>3
  <2>10. t = setback' /\ Y = g.shown /\ v = g.says[n]
    BY <2>1, <2>5 DEF y, u
  <2> QED  BY <2>8, <2>9, <2>10 DEF EntryGood, m
<1> QED  BY <1>1, <1>2

LEMMA ShiftedFiles ==
  ASSUME World, FilesGood, FilesWhole, source' = source, NEW d \in Int, ClockMoves(d),
         NEW b \in Nat, d + setback' = b + setback, setback' \in Nat, Fades(b)
  PROVE  FilesGood'
<1>1. file' = [k \in Keys |-> Shift(file[k], d)]
  BY DEF ClockMoves
<1>2. ASSUME NEW n \in Names
      PROVE  EntryGood(file[KeyOf(n)], n)'
  <2>1. KeyOf(n) \in Keys /\ KeyOf(n)' = KeyOf(n)
    BY LookupOK DEF KeyOf
  <2>2. PICK e, g : e = file[KeyOf(n)] /\ g = Shift(e, d)
    OBVIOUS
  <2>3. g = file'[KeyOf(n)']
    BY <1>1, <2>1, <2>2
  <2>4. FileOK(e) /\ EntryGood(e, n)
    BY <2>1, <2>2 DEF FilesGood, FilesWhole
  <2>5. EntryGood(g, n)'
    BY <2>2, <2>4, ShiftedGood
  <2> QED  BY <2>3, <2>5
<1>3. file' = [k \in Keys |-> file'[k]]
  BY <1>1
<1> QED  BY <1>2, <1>3 DEF FilesGood

LEMMA TickRecent ==
  ASSUME LookupInv, FilesWhole, RecentInv, Tick
  PROVE  RecentInv'
<1>1. /\ World /\ FilesGood /\ found = [l \in Lookups |-> found[l]]
      /\ \A l \in Lookups : JobGood(job[l], conn[l], found[l], temp[l])
  BY DEF RecentInv
<1>2. Fades(1) /\ ClockMoves(1) /\ 1 + setback' = 1 + setback /\ setback' \in Nat /\ source' = source
  <2>1. setback \in Nat
    BY <1>1, CacheOK DEF World
  <2>2. ClockMoves(1) /\ setback' = setback /\ source' = source
    BY DEF Tick, EntriesAge
  <2> QED  BY <1>1, <2>1, <2>2, TickFades
<1>3. FilesGood'
  BY <1>1, <1>2, ShiftedFiles
<1>4. World'
  <2>1. truth' = truth /\ mishaps' = mishaps /\ setback' = setback
    BY DEF Tick, EntriesAge
  <2>2. since' = [n \in Names |-> IF OnItsWay(n) THEN 0
                                  ELSE IF since[n] < Ages THEN since[n] + 1 ELSE Ages]
    BY DEF Tick
  <2>3. \A n \in Names : since[n] \in 0 .. Ages /\ Ages \in Nat
    BY <1>1, RecentNat DEF World
  <2>4. since' \in [Names -> 0 .. Ages]
    <3> HIDE DEF OnItsWay
    <3> QED  BY <2>2, <2>3
  <2> QED  BY <1>1, <2>1, <2>4 DEF World
<1>5. found' = found
  BY DEF Tick
<1>6. ASSUME NEW l \in Lookups
      PROVE  JobGood(job[l], conn[l], found[l], temp[l])'
  <2>1. PICK j, c, m, d : j = job[l] /\ c = conn[l] /\ m = job'[l] /\ d = conn'[l]
    OBVIOUS
  <2>2. IsJob(j) /\ c \in Conns /\ Listing(j) /\ BodyGood(j, c)
    BY <1>1, <2>1, ConnTypes DEF LookupInv, JobOK, JobGood
  <2>3. d = OlderConn(c) /\ d \in Conns
    BY <2>1, TickedJob DEF Tick, SocketsWait, OlderConn
  <2>4. /\ j.at = "http" => m = [j EXCEPT !.spent = IF @ < Late THEN @ + 1 ELSE Late]
        /\ j.at = "sleep" => m = [j EXCEPT !.spent = @ + 1, !.pause = @ - 1]
        /\ j.at \notin {"http", "sleep"} => m = j
    BY <2>1 DEF Tick
  <2>5. m.at = j.at /\ m.todo = j.todo /\ m.ask = j.ask /\ m.body = j.body
    BY <2>2, <2>4 DEF IsJob
  <2>6. m.at \notin {"put", "write", "rename"}
    BY <2>1, <2>5 DEF Tick, Waits
  <2>7. Listing(m)
    BY <2>2, <2>5 DEF Listing
  <2>8. BodyGood(m, d)'
    <3>1. SUFFICES ASSUME m.at = "http", d.at = "reading"
                   PROVE  DOMAIN m.body = Names /\ \A n \in Names : TrueOf(m.body[n], n, 0)'
      BY DEF BodyGood
    <3>2. c.at = "reading"
      BY <2>2, <2>3, <3>1 DEF OlderConn, Conns
    <3>3. DOMAIN m.body = Names
      BY <2>2, <2>5, <3>1, <3>2 DEF BodyGood
    <3>4. ASSUME NEW n \in Names
          PROVE  TrueOf(m.body[n], n, 0)'
      <4>1. CASE m.body[n] = truth[n]
        BY <4>1 DEF TrueOf, Tick
      <4>2. CASE m.body[n] # truth[n]
        <5>1. OnItsWay(n)
          BY <2>1, <2>5, <3>2, <3>3, <4>2 DEF OnItsWay
        <5>2. since'[n] = 0
          BY <5>1 DEF Tick
        <5> QED  BY <5>2 DEF TrueOf
      <4> QED  BY <4>1, <4>2
    <3> QED  BY <3>3, <3>4
  <2>9. PICK f, e : f = found'[l] /\ e = temp'[l]
    OBVIOUS
  <2>10. JobGood(m, d, f, e)'
    BY <2>6, <2>7, <2>8 DEF JobGood, PutGood, TempGood
  <2> QED  BY <2>1, <2>9, <2>10
<1> QED  BY <1>1, <1>3, <1>4, <1>5, <1>6 DEF RecentInv

(* A step of the world in which nothing ages.                              *)
LEMMA FadedTruth ==
  ASSUME Fades(0), NEW v, NEW n \in Names, TrueOf(v, n, 0)
  PROVE  TrueOf(v, n, 0)'
<1>1. TrueOf(v, n, 0 + 0)'
  BY DEF Fades
<1>2. 0 + 0 = 0
  OBVIOUS
<1> QED  BY <1>1, <1>2

LEMMA FadedBody ==
  ASSUME Fades(0), NEW j, NEW c, BodyGood(j, c)
  PROVE  BodyGood(j, c)'
  BY FadedTruth DEF BodyGood

LEMMA FadedPut ==
  ASSUME Fades(0), source' = source, NEW j, NEW f, Listing(j), PutGood(j, f)
  PROVE  PutGood(j, f)'
<1>1. j.at \in {"put", "write", "rename"} => \A i \in 1 .. Len(j.todo) : j.todo[i] \in Names
  BY DEF Listing
<1> QED  BY <1>1, FadedTruth DEF PutGood

LEMMA FactRecent ==
  ASSUME LookupInv, RecentInv, NEW x \in Changing, FactChanges(x)
  PROVE  RecentInv'
<1>1. /\ World /\ FilesGood /\ found = [l \in Lookups |-> found[l]]
      /\ \A l \in Lookups : JobGood(job[l], conn[l], found[l], temp[l])
  BY DEF RecentInv
<1>2. UNCHANGED <<conn, file, temp, mishaps, setback, source, job, found>>
  BY DEF FactChanges, cache
<1>3. Fades(0)
  BY <1>1, FactFades
<1>4. World'
  <2>1. truth' = [truth EXCEPT ![x] = IF @ = "plain" THEN "flagged" ELSE "plain"]
        /\ since' = [since EXCEPT ![x] = 0]
    BY DEF FactChanges
  <2>2. 0 \in 0 .. Ages
    BY RecentNat
  <2>3. truth' = [n \in Names |-> truth'[n]]
    BY <1>1, <2>1 DEF World
  <2>4. since' \in [Names -> 0 .. Ages]
    BY <1>1, <2>1, <2>2 DEF World
  <2> QED  BY <1>1, <1>2, <2>3, <2>4 DEF World
<1>5. ASSUME NEW n \in Names, NEW e, EntryGood(e, n)
      PROVE  EntryGood(e, n)'
  <2>1. CASE e \notin {NoEntry, Unreadable} /\ TrueOf(e.says[n], n, e.shown + setback)
    <3>1. PICK k, v : k = e.shown + setback /\ v = e.says[n]
      OBVIOUS
    <3>2. k \in Nat /\ k + 0 = k
      BY <1>1, <1>5, <2>1, <3>1, RecentNat, CacheOK DEF EntryGood, World
    <3>3. TrueOf(v, n, k + 0)'
      BY <1>3, <2>1, <3>1, <3>2 DEF Fades
    <3> QED  BY <1>2, <1>5, <3>1, <3>2, <3>3 DEF EntryGood
  <2>2. CASE e \in {NoEntry, Unreadable} \/ e.shown + setback > Ttl + MaxMishaps
    BY <1>2, <1>5, <2>2 DEF EntryGood
  <2> QED  BY <1>5, <2>1, <2>2 DEF EntryGood
<1>6. \A k : KeyOf(k)' = KeyOf(k)
  BY <1>2 DEF KeyOf
<1>7. FilesGood'
  BY <1>1, <1>2, <1>5, <1>6 DEF FilesGood
<1>8. ASSUME NEW l \in Lookups
      PROVE  JobGood(job[l], conn[l], found[l], temp[l])'
  <2>1. PICK j, c, f, e : j = job[l] /\ c = conn[l] /\ f = found[l] /\ e = temp[l]
    OBVIOUS
  <2>2. JobGood(j, c, f, e) /\ c \in Conns
    BY <1>1, <2>1, ConnTypes
  <2>3. Listing(j) /\ BodyGood(j, c)' /\ PutGood(j, f)'
    BY <1>2, <1>3, <2>2, FadedBody, FadedPut DEF JobGood
  <2>4. TempGood(j, e)'
    BY <1>5, <1>6, <2>2 DEF JobGood, TempGood
  <2>5. JobGood(j, c, f, e)'
    BY <2>3, <2>4 DEF JobGood
  <2>6. j = job'[l] /\ c = conn'[l] /\ f = found'[l] /\ e = temp'[l]
    BY <1>2, <2>1
  <2> QED  BY <2>5, <2>6
<1> QED  BY <1>1, <1>2, <1>4, <1>7, <1>8 DEF RecentInv

LEMMA ClockRecent ==
  ASSUME LookupInv, FilesWhole, RecentInv, ClockCorrected
  PROVE  RecentInv'
<1>1. /\ World /\ FilesGood /\ found = [l \in Lookups |-> found[l]]
      /\ \A l \in Lookups : JobGood(job[l], conn[l], found[l], temp[l])
  BY DEF RecentInv
<1>2. UNCHANGED <<conn, source, truth, since, job, found>>
  BY DEF ClockCorrected, lookup
<1>3. /\ Fades(0) /\ ClockMoves(-1) /\ -1 \in Int /\ 0 \in Nat
      /\ -1 + setback' = 0 + setback /\ setback' \in Nat
  BY <1>1, ClockFades, CacheOK DEF ClockCorrected, SetClockBack, World
<1>4. World'
  BY <1>1, <1>2, CacheOK DEF World, ClockCorrected, SetClockBack, Mishap
<1>5. FilesGood'
  BY <1>1, <1>2, <1>3, ShiftedFiles
<1>6. \A k : KeyOf(k)' = KeyOf(k)
  BY <1>2 DEF KeyOf
<1>7. ASSUME NEW l \in Lookups
      PROVE  JobGood(job[l], conn[l], found[l], temp[l])'
  <2>1. PICK j, c, f, e, g : /\ j = job[l] /\ c = conn[l] /\ f = found[l] /\ e = temp[l]
                             /\ g = Shift(e, -1)
    OBVIOUS
  <2>2. JobGood(j, c, f, e) /\ c \in Conns /\ FileOK(e)
    BY <1>1, <2>1, ConnTypes DEF LookupInv, TempOK, FileOK
  <2>3. Listing(j) /\ BodyGood(j, c)' /\ PutGood(j, f)'
    BY <1>2, <1>3, <2>2, FadedBody, FadedPut DEF JobGood
  <2>4. ASSUME NEW n \in Names, EntryGood(e, n)
        PROVE  EntryGood(g, n)'
    BY <1>1, <1>3, <2>1, <2>2, <2>4, ShiftedGood
  <2>5. TempGood(j, g)'
    BY <1>6, <2>2, <2>4 DEF JobGood, TempGood
  <2>6. JobGood(j, c, f, g)'
    BY <2>3, <2>5 DEF JobGood
  <2>7. j = job'[l] /\ c = conn'[l] /\ f = found'[l] /\ g = temp'[l]
    BY <1>2, <1>3, <2>1, LookupOK DEF ClockMoves
  <2> QED  BY <2>6, <2>7
<1> QED  BY <1>1, <1>2, <1>4, <1>5, <1>7 DEF RecentInv

LEMMA LearnsAlone ==
  ASSUME RecentInv, NEW l \in Lookups, Step(l) \/ Die(l), NEW x \in Lookups \ {l}
  PROVE  found'[x] = found[x]
<1>1. UNCHANGED found \/ \E S, says : Learn(l, S, says)
  <2>1. ReadCache(l) => \E S, says : Learn(l, S, says)
    BY DEF ReadCache
  <2>2. GiveUp(l) => \E S, says : Learn(l, S, says)
    BY DEF GiveUp
  <2>3. ASSUME NEW result, Digest(l, result)
        PROVE  UNCHANGED found \/ \E S, says : Learn(l, S, says)
    BY <2>2, <2>3 DEF Digest, Take, Retry
  <2>4. Receive(l) => UNCHANGED found \/ \E S, says : Learn(l, S, says)
    BY <2>3 DEF Receive, Answer
  <2> QED  BY <2>1, <2>2, <2>4 DEF Step, Ask, Wake, Put, Die
<1> QED  BY <1>1, Learned

LEMMA RecentGoesOn ==
  ASSUME LookupInv, FilesWhole, RecentInv, [Next]_vars
  PROVE  RecentInv' /\ \A l \in Lookups : Told(l)
<1>1. ASSUME NEW l \in Lookups, Step(l) \/ Die(l)
      PROVE  RecentInv' /\ \A x \in Lookups : Told(x)
  <2>1. RecentInv' /\ Told(l)
    BY <1>1, ReadCacheRecent, AskRecent, ReceiveRecent, WakeRecent, PutRecent, DieRecent DEF Step
  <2>2. \A x \in Lookups \ {l} : Told(x)
    BY <1>1, LearnsAlone DEF Told
  <2> QED  BY <2>1, <2>2
<1>2. ASSUME UNCHANGED found
      PROVE  \A x \in Lookups : Told(x)
  BY <1>2 DEF Told
<1>3. CASE Tick
  BY <1>2, <1>3, TickRecent DEF Tick
<1>4. CASE \E n \in Changing : FactChanges(n)
  BY <1>2, <1>4, FactRecent DEF FactChanges
<1>5. CASE ClockCorrected
  BY <1>2, <1>5, ClockRecent DEF ClockCorrected, lookup
<1>6. CASE UNCHANGED vars
  <2>1. Still /\ UNCHANGED <<file, temp, job, conn, found>>
    BY <1>6 DEF vars, cache, lookup, Still, Stay
  <2>2. World' /\ FilesGood'
    BY <2>1, SameWorld, SameFiles DEF RecentInv
  <2>3. ASSUME NEW x \in Lookups
        PROVE  JobGood(job[x], conn[x], found[x], temp[x])'
    <3>1. PICK j, c, f, e : j = job[x] /\ c = conn[x] /\ f = found[x] /\ e = temp[x]
      OBVIOUS
    <3>2. JobGood(j, c, f, e)'
      BY <2>1, <3>1, SameJob DEF RecentInv
    <3> QED  BY <2>1, <3>1, <3>2
  <2> QED  BY <1>2, <2>1, <2>2, <2>3 DEF RecentInv
<1> QED  BY <1>1, <1>3, <1>4, <1>5, <1>6 DEF Next

(***************************************************************************)
(* However lookups overlap, retry, fail or die, whatever they cache for    *)
(* each other, however long their requests take and however the clock is   *)
(* set back: a definite answer is true when it is given, or was a short    *)
(* while before the last moment it was on its way from the server; or it   *)
(* is the clean one that a malformed entry of OSV comes to.                *)
(***************************************************************************)
THEOREM AnswersStayRecent == Spec => AnswersAreRecent
<1> DEFINE Recently == \A l \in Lookups, n \in Names :
             found'[l][n] # found[l][n] /\ found'[l][n] # "unverifiable" =>
               \/ found'[l][n] = truth[n] \/ since[n] <= Recent
               \/ source = "osv" /\ n \in Malformed /\ found'[l][n] = "plain"
<1>1. Init => FilesWhole
  BY DEF Init, CacheInit, FilesWhole, FileOK
<1>2. LookupInv /\ FilesWhole /\ [Next]_vars => FilesWhole'
  BY FilesStep
<1>3. LookupInv /\ FilesWhole /\ RecentInv /\ [Next]_vars => RecentInv' /\ [Recently]_found
  <2>1. (\A l \in Lookups : Told(l)) => Recently
    BY DEF Told, TrueOf
  <2> QED  BY <2>1, RecentGoesOn
<1> QED  BY <1>1, <1>2, <1>3, LookupStarts, LookupGoesOn, RecentStarts, PTL DEF Spec, AnswersAreRecent

-----------------------------------------------------------------------------
(* Types.                                                                  *)

Says == Facts \cup {"unknown", "unverifiable"}

(* An entry speaks of the names its key stands for, and no clock that was  *)
(* set back makes it older or younger than Entries allows.                 *)
EntryTyped(e, k) ==
  /\ IsEntry(e) /\ e.shown \in -setback .. OldAge
  /\ IF source = "watchlist" THEN e.says \in [Names -> Facts]
     ELSE k \in Names /\ e.says \in [{k} -> Facts]

FileTyped(e, k) == e \in {NoEntry, Unreadable} \/ EntryTyped(e, k)

(* What a lookup puts, it has found out or received.                       *)
PutTyped(j, f) ==
  j.at \in {"put", "write", "rename"} =>
    IF source = "watchlist" THEN j.body \in [Names -> Facts]
    ELSE \A i \in 1 .. Len(j.todo) : f[j.todo[i]] # "unknown"

TempTyped(j, e) ==
  e \notin {NoEntry, Unreadable} =>
    /\ \E k \in Keys : EntryTyped(e, k)
    /\ j.at = "rename" => EntryTyped(e, KeyOf(Head(j.todo)))

JobTyped(j, c, f, e) ==
  /\ j \in Jobs /\ f \in [Names -> Says]
  /\ j.at = "http" /\ c.at = "reading" => j.body \in [Names -> Facts]
  /\ PutTyped(j, f) /\ TempTyped(j, e)

TypedInv ==
  /\ source \in Sources /\ caching \in BOOLEAN
  /\ truth \in [Names -> Facts]
  /\ \A l \in Lookups : JobTyped(job[l], conn[l], found[l], temp[l])
  /\ \A k \in Keys : FileTyped(file[k], k)

LEMMA KeysOfNames == \A n \in Names : KeyOf(n) \in Keys /\ (source # "watchlist" => KeyOf(n) = n)
  BY LookupOK DEF KeyOf

LEMMA EmptyBody == NoBody \in Answers /\ <<>> \in Seq(Names)
<1>1. NoBody \in [{} -> Facts] /\ {} \in SUBSET Names
  BY DEF NoBody
<1>2. <<>> \in Seq(Names)
  OBVIOUS
<1> QED  BY <1>1, <1>2 DEF Answers

LEMMA FullBody == [Names -> Facts] \subseteq Answers
<1>1. Names \in SUBSET Names
  OBVIOUS
<1> QED  BY <1>1 DEF Answers

LEMMA NewTyped ==
  ASSUME NEW place \in Steps, NEW todo \in Seq(Names), NEW body \in Answers
  PROVE  Job(place, todo) \in Jobs /\ [Job(place, todo) EXCEPT !.body = body] \in Jobs
<1>1. 0 \in 0 .. Retries /\ 0 \in 0 .. Late
  BY LookupOK
<1> QED  BY <1>1, EmptyBody DEF Job, Jobs

LEMMA TypedStarts == Init => TypedInv
<1> SUFFICES ASSUME Init
             PROVE  TypedInv
  OBVIOUS
<1>1. source \in Sources /\ caching \in BOOLEAN /\ truth \in [Names -> Facts]
  BY DEF Init
<1>2. \A k \in Keys : FileTyped(file[k], k)
  BY DEF Init, CacheInit, FileTyped
<1>3. ASSUME NEW l \in Lookups
      PROVE  JobTyped(job[l], conn[l], found[l], temp[l])
  <2> DEFINE todo == NamesOf(l)
  <2>1. todo \in Seq(Names) /\ todo # <<>>
    BY LookupOK DEF NamesOf
  <2>2. job[l] = Job("new", todo) /\ temp[l] = NoEntry /\ found[l] = [n \in Names |-> "unknown"]
    BY LookupOK DEF Init, CacheInit
  <2> HIDE DEF todo
  <2>3. "new" \in Steps /\ job[l].at = "new"
    BY <2>2 DEF Steps, Job
  <2>4. job[l] \in Jobs
    BY <2>1, <2>2, <2>3, EmptyBody, NewTyped
  <2>5. found[l] \in [Names -> Says]
    BY <2>2 DEF Says
  <2> QED  BY <2>2, <2>3, <2>4, <2>5 DEF JobTyped, PutTyped, TempTyped
<1> QED  BY <1>1, <1>2, <1>3 DEF TypedInv

(* A step of one lookup, in which the world stands still.                  *)
LEMMA SameTyped ==
  ASSUME Still
  PROVE  /\ \A e, k : EntryTyped(e, k) => EntryTyped(e, k)'
         /\ \A e, k : FileTyped(e, k) => FileTyped(e, k)'
         /\ \A j, f : PutTyped(j, f) => PutTyped(j, f)'
         /\ \A j, e : TempTyped(j, e) => TempTyped(j, e)'
<1>1. \A e, k : EntryTyped(e, k) => EntryTyped(e, k)'
  BY DEF EntryTyped, Still, Stay
<1>2. \A e, k : FileTyped(e, k) => FileTyped(e, k)'
  BY <1>1 DEF FileTyped
<1>3. \A j, f : PutTyped(j, f) => PutTyped(j, f)'
  BY DEF PutTyped, Still, Stay
<1>4. \A n : KeyOf(n)' = KeyOf(n)
  BY DEF KeyOf, Still, Stay
<1>5. \A j, e : TempTyped(j, e) => TempTyped(j, e)'
  <2> SUFFICES ASSUME NEW j, NEW e, TempTyped(j, e), e \notin {NoEntry, Unreadable}
               PROVE  /\ \E k \in Keys : EntryTyped(e, k)'
                      /\ j.at = "rename" => EntryTyped(e, KeyOf(Head(j.todo)))'
    BY DEF TempTyped
  <2>1. PICK k \in Keys : EntryTyped(e, k)
    BY DEF TempTyped
  <2>2. PICK x : x = KeyOf(Head(j.todo))
    OBVIOUS
  <2>3. j.at = "rename" => EntryTyped(e, x)'
    BY <1>1, <2>2 DEF TempTyped
  <2>4. x = KeyOf(Head(j.todo))'
    BY <1>4, <2>2
  <2> QED  BY <1>1, <2>1, <2>3, <2>4
<1> QED  BY <1>1, <1>2, <1>3, <1>5

LEMMA SameTypedJob ==
  ASSUME Still, NEW j, NEW c, NEW f, NEW e, JobTyped(j, c, f, e)
  PROVE  JobTyped(j, c, f, e)'
<1>1. PutTyped(j, f)' /\ TempTyped(j, e)'
  BY SameTyped DEF JobTyped
<1> QED  BY <1>1 DEF JobTyped

LEMMA OneTyped ==
  ASSUME TypedInv, NEW l \in Lookups, Still,
         \A k \in Keys : FileTyped(file'[k], k),
         \A x \in Lookups \ {l} : /\ job'[x] = job[x] /\ conn'[x] = conn[x]
                                  /\ found'[x] = found[x] /\ temp'[x] = temp[x],
         JobTyped(job'[l], conn'[l], found'[l], temp'[l])
  PROVE  TypedInv'
<1>1. ASSUME NEW x \in Lookups
      PROVE  JobTyped(job[x], conn[x], found[x], temp[x])'
  <2>1. PICK j, c, f, e : j = job'[x] /\ c = conn'[x] /\ f = found'[x] /\ e = temp'[x]
    OBVIOUS
  <2>2. JobTyped(j, c, f, e)
    BY <2>1 DEF TypedInv
  <2>3. JobTyped(j, c, f, e)'
    BY <2>2, SameTypedJob
  <2> QED  BY <2>1, <2>3
<1>2. ASSUME NEW k \in Keys
      PROVE  FileTyped(file[k], k)'
  <2>1. PICK e : e = file'[k]
    OBVIOUS
  <2>2. FileTyped(e, k)'
    BY <2>1, SameTyped
  <2> QED  BY <2>1, <2>2
<1> QED  BY <1>1, <1>2 DEF TypedInv, Still, Stay

(* A step of a lookup that does not write the cache.                       *)
LEMMA DryStep ==
  ASSUME TypedInv, LookupInv, NEW l \in Lookups, Still, UNCHANGED <<file, temp>>,
         \A x \in Lookups \ {l} : conn'[x] = conn[x] /\ found'[x] = found[x],
         found'[l] \in [Names -> Says],
         NEW n \in Jobs, job' = [job EXCEPT ![l] = n], PutTyped(n, found'[l]), n.at # "rename",
         n.at = "http" /\ conn'[l].at = "reading" => n.body \in [Names -> Facts]
  PROVE  TypedInv'
<1>1. job'[l] = n /\ \A x \in Lookups \ {l} : job'[x] = job[x]
  BY DEF LookupInv
<1>2. TempTyped(n, temp[l])
  BY DEF TypedInv, JobTyped, TempTyped
<1>3. JobTyped(job'[l], conn'[l], found'[l], temp'[l])
  BY <1>1, <1>2 DEF JobTyped
<1>4. \A k \in Keys : FileTyped(file'[k], k)
  BY DEF TypedInv
<1> QED  BY <1>1, <1>3, <1>4, OneTyped

(* A step after which the job is neither at a request nor at the disk.     *)
LEMMA AwayTyped ==
  ASSUME TypedInv, LookupInv, NEW l \in Lookups, Still, UNCHANGED <<file, temp>>,
         \A x \in Lookups \ {l} : conn'[x] = conn[x] /\ found'[x] = found[x],
         found'[l] \in [Names -> Says],
         NEW n \in Jobs, job' = [job EXCEPT ![l] = n], n.at \notin {"http", "put", "write", "rename"}
  PROVE  TypedInv'
<1>1. PutTyped(n, found'[l])
  BY DEF PutTyped
<1> QED  BY <1>1, DryStep

(* What a lookup learns has the type of what it is told.                   *)
LEMMA LearnedTyped ==
  ASSUME TypedInv, RecentInv, NEW l \in Lookups, NEW S, NEW says, Learn(l, S, says),
         \A n \in Names : n \in S => says[n] \in Says
  PROVE  found'[l] \in [Names -> Says]
<1>1. found[l] \in [Names -> Says] /\ found = [x \in Lookups |-> found[x]]
  BY DEF TypedInv, JobTyped, RecentInv
<1>2. found'[l] = [n \in Names |-> IF n \in S THEN says[n] ELSE found[l][n]]
  BY <1>1 DEF Learn
<1> QED  BY <1>1, <1>2

LEMMA LookedTyped ==
  ASSUME TypedInv, NEW n \in Names, Looked(n) # "miss"
  PROVE  Looked(n) \in Says
<1>1. CASE Looked(n) = "unverifiable"
  BY <1>1 DEF Says
<1>2. CASE Looked(n) # "unverifiable"
  <2>1. Hit(KeyOf(n)) /\ Looked(n) = file[KeyOf(n)].says[n]
    BY <1>2 DEF Looked
  <2>2. EntryTyped(file[KeyOf(n)], KeyOf(n))
    BY <2>1, KeysOfNames DEF Hit, TypedInv, FileTyped
  <2>3. file[KeyOf(n)].says[n] \in Facts
    BY <2>2, KeysOfNames DEF EntryTyped
  <2> QED  BY <2>1, <2>3 DEF Says
<1> QED  BY <1>1, <1>2

LEMMA JobFields ==
  ASSUME NEW j \in Jobs, NEW place \in Steps, NEW todo \in Seq(Names), NEW ask \in Seq(Names)
  PROVE  /\ [j EXCEPT !.at = place] \in Jobs
         /\ [j EXCEPT !.at = place, !.todo = todo, !.ask = ask] \in Jobs
         /\ [j EXCEPT !.at = place].at = place
         /\ [j EXCEPT !.at = place, !.todo = todo, !.ask = ask].at = place
  BY DEF Jobs

LEMMA DoneTyped ==
  /\ Job("done", <<>>) \in Jobs /\ Job("done", <<>>).at = "done"
  /\ Job("dead", <<>>) \in Jobs /\ Job("dead", <<>>).at = "dead"
<1>1. "done" \in Steps /\ "dead" \in Steps
  BY DEF Steps
<1>2. Job("done", <<>>) \in Jobs /\ Job("dead", <<>>) \in Jobs
  BY <1>1, EmptyBody, NewTyped
<1> QED  BY <1>2 DEF Job

LEMMA ReadCacheTyped ==
  ASSUME LookupInv, RecentInv, TypedInv, NEW l \in Lookups, ReadCache(l)
  PROVE  TypedInv'
<1> DEFINE j == job[l]
           now == ReadNow(l)
           left == SubSeq(j.todo, Len(now) + 1, Len(j.todo))
           ask == IF Looked(Head(now)) = "miss" THEN j.ask \o now ELSE j.ask
           S == {n \in Range(now) : Looked(n) # "miss"}
           says == [n \in Names |-> Looked(n)]
<1>1. Still /\ UNCHANGED <<conn, file, temp>>
  BY DEF ReadCache, Still, cache
<1>2. Listing(j) /\ j.at \in {"new", "cache"} /\ j \in Jobs
  BY DEF RecentInv, JobGood, ReadCache, TypedInv, JobTyped
<1>3. left \in Seq(Names) /\ ask \in Seq(Names)
  <2>1. now \in Seq(Names) /\ Len(now) >= 1
    BY <1>2 DEF ReadNow, Listing
  <2> HIDE DEF now
  <2> QED  BY <1>2, <2>1 DEF Listing
<1>4. /\ \A x \in Lookups \ {l} : found'[x] = found[x]
      /\ found'[l] \in [Names -> Says]
  <2>1. Learn(l, S, says)
    BY DEF ReadCache
  <2>2. \A n \in Names : n \in S => says[n] \in Says
    BY LookedTyped
  <2> HIDE DEF S, says
  <2> QED  BY <2>1, <2>2, Learned, LearnedTyped
<1>5. \/ job' = [job EXCEPT ![l] = [j EXCEPT !.at = "cache", !.todo = left, !.ask = ask]]
      \/ job' = [job EXCEPT ![l] = [j EXCEPT !.at = "try", !.todo = left, !.ask = ask]]
      \/ job' = [job EXCEPT ![l] = Job("done", <<>>)]
  BY DEF ReadCache, Finish
<1>6. "cache" \in Steps /\ "try" \in Steps
  BY DEF Steps
<1> HIDE DEF left, ask, S, says, now
<1>7. ASSUME NEW n \in Jobs, job' = [job EXCEPT ![l] = n], n.at \in {"cache", "try", "done"}
      PROVE  TypedInv'
  BY <1>1, <1>4, <1>7, AwayTyped
<1>8. ASSUME NEW place \in {"cache", "try"},
             job' = [job EXCEPT ![l] = [j EXCEPT !.at = place, !.todo = left, !.ask = ask]]
      PROVE  TypedInv'
  <2> DEFINE n == [j EXCEPT !.at = place, !.todo = left, !.ask = ask]
  <2>1. n \in Jobs /\ n.at = place
    BY <1>2, <1>3, <1>6 DEF Jobs
  <2>2. job' = [job EXCEPT ![l] = n]
    BY <1>8
  <2> HIDE DEF n, j
  <2> QED  BY <1>7, <2>1, <2>2
<1>9. CASE job' = [job EXCEPT ![l] = Job("done", <<>>)]
  BY <1>7, <1>9, DoneTyped
<1> QED  BY <1>5, <1>8, <1>9

LEMMA GiveUpTyped ==
  ASSUME TypedInv, LookupInv, RecentInv, NEW l \in Lookups, GiveUp(l), Still,
         UNCHANGED <<file, temp>>, \A x \in Lookups \ {l} : conn'[x] = conn[x]
  PROVE  TypedInv'
<1> DEFINE S == Asked(l)
           says == [n \in Names |-> "unverifiable"]
<1>1. Learn(l, S, says) /\ \A n \in Names : n \in S => says[n] \in Says
  BY DEF GiveUp, Says
<1> HIDE DEF S, says
<1>2. /\ \A x \in Lookups \ {l} : found'[x] = found[x]
      /\ found'[l] \in [Names -> Says]
  BY <1>1, Learned, LearnedTyped
<1>3. job' = [job EXCEPT ![l] = Job("done", <<>>)]
  BY DEF GiveUp, Finish
<1> QED  BY <1>2, <1>3, DoneTyped, AwayTyped

LEMMA AskTyped ==
  ASSUME LookupInv, RecentInv, TypedInv, NEW l \in Lookups, Ask(l)
  PROVE  TypedInv'
<1> DEFINE j == job[l]
<1>1. Still /\ UNCHANGED <<file, temp>> /\ j \in Jobs /\ found[l] \in [Names -> Says]
  BY DEF Ask, Still, cache, TypedInv, JobTyped
<1>2. CASE Open(l) /\ Move(l, "http") /\ UNCHANGED found
  <2> DEFINE n == [j EXCEPT !.at = "http"]
  <2>1. n \in Jobs /\ n.at = "http"
    <3>1. "http" \in Steps
      BY DEF Steps
    <3> QED  BY <1>1, <3>1 DEF Jobs
  <2>2. job' = [job EXCEPT ![l] = n]
    BY <1>2 DEF Move
  <2> HIDE DEF n
  <2>3. conn'[l].at = "opening" /\ \A x \in Lookups \ {l} : conn'[x] = conn[x]
    BY <1>2, ConnTypes DEF Open, LookupInv, HttpTypeOK
  <2>4. PutTyped(n, found'[l])
    BY <2>1 DEF PutTyped
  <2> QED  BY <1>1, <1>2, <2>1, <2>2, <2>3, <2>4, DryStep
<1>3. CASE GiveUp(l) /\ UNCHANGED conn
  BY <1>1, <1>3, GiveUpTyped
<1> QED  BY <1>2, <1>3 DEF Ask

LEMMA WakeTyped ==
  ASSUME LookupInv, RecentInv, TypedInv, NEW l \in Lookups, Wake(l)
  PROVE  TypedInv'
<1> DEFINE j == job[l]
<1>1. /\ Still /\ UNCHANGED <<conn, file, temp>> /\ Listing(j) /\ j \in Jobs
      /\ found[l] \in [Names -> Says]
  BY DEF Wake, Still, cache, RecentInv, JobGood, TypedInv, JobTyped
<1>2. CASE GiveUp(l)
  BY <1>1, <1>2, GiveUpTyped
<1>3. ASSUME UNCHANGED found, NEW n \in Jobs, job' = [job EXCEPT ![l] = n],
             n.at \in {"cache", "try"}
      PROVE  TypedInv'
  BY <1>1, <1>3, AwayTyped
<1>4. "cache" \in Steps /\ "try" \in Steps /\ <<>> \in Seq(Names)
  BY DEF Steps
<1>5. CASE UNCHANGED found
           /\ job' = [job EXCEPT ![l] = [j EXCEPT !.at = "cache", !.todo = j.ask, !.ask = <<>>]]
  <2> DEFINE n == [j EXCEPT !.at = "cache", !.todo = j.ask, !.ask = <<>>]
  <2>1. n \in Jobs /\ n.at = "cache"
    BY <1>1, <1>4 DEF Listing, Jobs
  <2>2. job' = [job EXCEPT ![l] = n]
    BY <1>5
  <2> HIDE DEF n, j
  <2> QED  BY <1>3, <1>5, <2>1, <2>2
<1>6. CASE UNCHANGED found /\ job' = [job EXCEPT ![l] = [j EXCEPT !.at = "try"]]
  <2> DEFINE n == [j EXCEPT !.at = "try"]
  <2>1. n \in Jobs /\ n.at = "try"
    BY <1>1, <1>4 DEF Jobs
  <2>2. job' = [job EXCEPT ![l] = n]
    BY <1>6
  <2> HIDE DEF n, j
  <2> QED  BY <1>3, <1>6, <2>1, <2>2
<1> QED  BY <1>2, <1>5, <1>6 DEF Wake

LEMMA DieTyped ==
  ASSUME LookupInv, RecentInv, TypedInv, NEW l \in Lookups, Die(l)
  PROVE  TypedInv'
<1>1. /\ Still /\ UNCHANGED <<file, temp, found>> /\ \A x \in Lookups \ {l} : conn'[x] = conn[x]
      /\ found[l] \in [Names -> Says] /\ job' = [job EXCEPT ![l] = Job("dead", <<>>)]
  BY DEF Die, Still, Close, LookupInv, HttpTypeOK, TypedInv, JobTyped
<1> QED  BY <1>1, DoneTyped, AwayTyped

-----------------------------------------------------------------------------
(* The answers.                                                            *)

LEMMA TakeTyped ==
  ASSUME LookupInv, RecentInv, TypedInv, NEW l \in Lookups, Still, UNCHANGED <<file, temp>>,
         \A x \in Lookups \ {l} : conn'[x] = conn[x],
         job[l].at = "http", NEW says, NEW S, Take(l, says, S),
         \A n \in Asked(l) : n \in S => says[n] \in Facts,
         source = "watchlist" => job[l].body \in [Names -> Facts]
  PROVE  TypedInv'
<1> DEFINE A == Asked(l)
           f == [n \in Names |-> IF n \in S THEN says[n] ELSE Unspoken]
           ask == job[l].ask
           body == job[l].body
<1>1. /\ ask \in Seq(Names) /\ ask # <<>> /\ A = {ask[i] : i \in 1 .. Len(ask)}
      /\ A \subseteq Names
  BY AskedNames
<1>2. Learn(l, A, f)
  BY DEF Take
<1>3. \A n \in Names : n \in A => f[n] \in Says /\ f[n] # "unknown"
  BY DEF Unspoken, Says, Facts
<1>4. \/ job' = [job EXCEPT ![l] = Job("done", <<>>)]
      \/ source = "watchlist" /\ job' = [job EXCEPT ![l] = [Job("put", <<Head(ask)>>) EXCEPT !.body = body]]
      \/ source # "watchlist" /\ job' = [job EXCEPT ![l] = Job("put", ask)]
  BY DEF Take, Finish
<1>5. source = "watchlist" => body \in [Names -> Facts]
  OBVIOUS
<1>6. "put" \in Steps
  BY DEF Steps
<1> HIDE DEF A, f, ask, body
<1>7. /\ \A x \in Lookups \ {l} : found'[x] = found[x]
      /\ \A n \in Names : found'[l][n] = IF n \in A THEN f[n] ELSE found[l][n]
      /\ found'[l] \in [Names -> Says]
  BY <1>2, <1>3, Learned, LearnedTyped
<1>8. CASE job' = [job EXCEPT ![l] = Job("done", <<>>)]
  BY <1>7, <1>8, DoneTyped, AwayTyped
<1>9. CASE source = "watchlist" /\ job' = [job EXCEPT ![l] = [Job("put", <<Head(ask)>>) EXCEPT !.body = body]]
  <2> DEFINE todo == <<Head(ask)>>
  <2>1. todo \in Seq(Names) /\ body \in Answers
    BY <1>1, <1>5, <1>9, FullBody
  <2> HIDE DEF todo
  <2> DEFINE n == [Job("put", todo) EXCEPT !.body = body]
  <2>2. n \in Jobs
    BY <1>6, <2>1, NewTyped
  <2>3. n.at = "put" /\ n.body = body
    BY DEF Job
  <2>4. job' = [job EXCEPT ![l] = n]
    BY <1>9 DEF todo
  <2> HIDE DEF n
  <2>5. PutTyped(n, found'[l])
    BY <1>5, <1>9, <2>3 DEF PutTyped
  <2> QED  BY <1>7, <2>2, <2>3, <2>4, <2>5, DryStep
<1>10. CASE source # "watchlist" /\ job' = [job EXCEPT ![l] = Job("put", ask)]
  <2> DEFINE n == Job("put", ask)
  <2>1. n \in Jobs
    BY <1>1, <1>6, EmptyBody, NewTyped
  <2>2. n.at = "put" /\ n.todo = ask
    BY DEF Job
  <2>3. job' = [job EXCEPT ![l] = n]
    BY <1>10
  <2> HIDE DEF n
  <2>4. PutTyped(n, found'[l])
    BY <1>1, <1>3, <1>7, <1>10, <2>2 DEF PutTyped
  <2> QED  BY <1>7, <2>1, <2>2, <2>3, <2>4, DryStep
<1> QED  BY <1>4, <1>8, <1>9, <1>10

LEMMA RetryTyped ==
  ASSUME LookupInv, RecentInv, TypedInv, NEW l \in Lookups, Still, UNCHANGED <<file, temp>>,
         \A x \in Lookups \ {l} : conn'[x] = conn[x],
         job[l].at = "http", Retry(l)
  PROVE  TypedInv'
<1>1. CASE MayRetry(l)
  <2> DEFINE p == Backoff(l)
             j == job[l]
             n == [j EXCEPT !.at = "sleep", !.tried = @ + 1, !.pause = p, !.body = NoBody]
  <2>1. j \in Jobs /\ found[l] \in [Names -> Says]
    BY DEF TypedInv, JobTyped
  <2>2. job' = [job EXCEPT ![l] = n] /\ UNCHANGED found
    BY <1>1 DEF Retry
  <2>3. j.tried \in Nat /\ j.tried < Retries
    BY <1>1, <2>1, LookupOK DEF MayRetry, Jobs
  <2>4. p \in Nat
    BY <2>3, PausesNat DEF Backoff
  <2>5. "sleep" \in Steps /\ j.tried + 1 \in 0 .. Retries
    BY <2>3, LookupOK DEF Steps
  <2> HIDE DEF p, j
  <2>6. n \in Jobs /\ n.at = "sleep"
    BY <2>1, <2>4, <2>5, EmptyBody DEF Jobs
  <2>7. job' = [job EXCEPT ![l] = n]
    BY <2>2
  <2> HIDE DEF n
  <2> QED  BY <2>1, <2>2, <2>6, <2>7, AwayTyped
<1>2. CASE GiveUp(l)
  BY <1>2, GiveUpTyped
<1> QED  BY <1>1, <1>2 DEF Retry

LEMMA DigestTyped ==
  ASSUME LookupInv, RecentInv, TypedInv, NEW l \in Lookups, Still, UNCHANGED <<file, temp>>,
         \A x \in Lookups \ {l} : conn'[x] = conn[x],
         job[l].at = "http", NEW result, Digest(l, result),
         result = "json" => job[l].body \in [Names -> Facts]
  PROVE  TypedInv'
<1>1. job[l].ask \in Seq(Names) /\ Asked(l) \subseteq Names
  BY AskedNames
<1>2. ASSUME result = "json", NEW S, NEW broken,
             Take(l, [n \in Names |-> IF n \in S THEN EntryOf(l, n, broken) ELSE "plain"], S)
      PROVE  TypedInv'
  <2> DEFINE says == [n \in Names |-> IF n \in S THEN EntryOf(l, n, broken) ELSE "plain"]
  <2>1. ASSUME NEW n \in Asked(l), n \in S
        PROVE  says[n] \in Facts
    <3>1. n \in Names /\ (says[n] = "plain" \/ says[n] = job[l].body[n])
      BY <1>1, <2>1, ResultIsBody DEF EntryOf
    <3> QED  BY <1>2, <3>1 DEF Facts
  <2>2. Take(l, says, S)
    BY <1>2
  <2> HIDE DEF says
  <2> QED  BY <1>2, <2>1, <2>2, TakeTyped
<1>3. ASSUME source \in Registries, Take(l, [n \in Names |-> "flagged"], Asked(l))
      PROVE  TypedInv'
  <2> DEFINE says == [n \in Names |-> "flagged"]
             S == Asked(l)
  <2>1. \A n \in Asked(l) : n \in S => says[n] \in Facts
    BY <1>1 DEF Facts
  <2>2. Take(l, says, S) /\ source # "watchlist"
    BY <1>3 DEF Registries
  <2> HIDE DEF says, S
  <2> QED  BY <2>1, <2>2, TakeTyped
<1>4. CASE Retry(l)
  BY <1>4, RetryTyped
<1>5. CASE GiveUp(l)
  BY <1>5, GiveUpTyped
<1> QED  BY <1>2, <1>3, <1>4, <1>5 DEF Digest

LEMMA ReceiveTyped ==
  ASSUME LookupInv, RecentInv, TypedInv, NEW l \in Lookups, Receive(l)
  PROVE  TypedInv'
<1> DEFINE j == job[l]
<1>1. /\ Still /\ UNCHANGED <<file, temp>> /\ j.at = "http" /\ j \in Jobs
      /\ found[l] \in [Names -> Says] /\ conn[l] \in Conns /\ job = [x \in Lookups |-> job[x]]
      /\ conn[l].at = "reading" => j.body \in [Names -> Facts]
  BY ConnTypes DEF Receive, Still, cache, TypedInv, JobTyped, LookupInv
<1>2. ASSUME Close(l)
      PROVE  \A x \in Lookups \ {l} : conn'[x] = conn[x]
  BY <1>2 DEF Close, LookupInv, HttpTypeOK
<1>3. ASSUME NEW n \in Jobs, n.at = "http", n.body \in [Names -> Facts], job' = [job EXCEPT ![l] = n],
             UNCHANGED found, \A x \in Lookups \ {l} : conn'[x] = conn[x]
      PROVE  TypedInv'
  <2>1. PutTyped(n, found'[l])
    BY <1>3 DEF PutTyped
  <2> QED  BY <1>1, <1>3, <2>1, DryStep
<1>4. ASSUME NEW result, NEW code, Answer(l, code, result)
      PROVE  TypedInv'
  <2>1. CASE result = "none"
    <3> DEFINE n == [j EXCEPT !.body = truth]
    <3>1. truth \in [Names -> Facts] /\ truth \in Answers
      BY FullBody DEF TypedInv
    <3>2. n \in Jobs /\ n.at = "http" /\ n.body = truth
      BY <1>1, <3>1 DEF Jobs
    <3>3. job' = [job EXCEPT ![l] = n] /\ UNCHANGED found
      BY <1>4, <2>1 DEF Answer
    <3> HIDE DEF n
    <3>4. conn' = [conn EXCEPT ![l] = [Idle EXCEPT !.at = "reading"]] \/ Close(l)
      BY <1>4, <2>1 DEF Answer, StatusLine
    <3>5. \A x \in Lookups \ {l} : conn'[x] = conn[x]
      BY <3>4 DEF Close, LookupInv, HttpTypeOK
    <3> QED  BY <1>3, <3>1, <3>2, <3>3, <3>5
  <2>2. CASE result # "none"
    <3>1. /\ Close(l) /\ Digest(l, result)
          /\ result = "permanent" \/ result = OfStatus(code)
      BY <1>4, <2>2 DEF Answer, StatusLine
    <3>2. result # "json"
      BY <3>1 DEF OfStatus
    <3> QED  BY <1>1, <1>2, <3>1, <3>2, DigestTyped
  <2> QED  BY <2>1, <2>2
<1>5. ASSUME NEW result,
             OpeningGoesOn(l, result) \/ Chunk(l, result) \/ BodyEnds(l, result) \/ SocketFails(l, result),
             IF result = "none" THEN UNCHANGED <<job, found>> ELSE Digest(l, result)
      PROVE  TypedInv'
  <2>1. CASE result = "none"
    <3>1. PICK c \in Conns : c.at = conn[l].at /\ conn' = [conn EXCEPT ![l] = c]
      BY <1>5, <2>1, RequestLasts
    <3>2. conn'[l] = c /\ \A x \in Lookups \ {l} : conn'[x] = conn[x]
      BY <3>1, NewConn
    <3>3. job' = [job EXCEPT ![l] = j] /\ UNCHANGED found
      BY <1>1, <1>5, <2>1
    <3>4. PutTyped(j, found'[l])
      BY <1>1 DEF PutTyped
    <3>5. conn'[l].at = "reading" => j.body \in [Names -> Facts]
      BY <1>1, <3>1, <3>2
    <3> HIDE DEF j
    <3> QED  BY <1>1, <3>2, <3>3, <3>4, <3>5, DryStep
  <2>2. CASE result # "none"
    <3>1. Close(l) /\ Digest(l, result) /\ (result = "json" => conn[l].at = "reading")
      BY <1>5, <2>2 DEF OpeningGoesOn, Chunk, BodyEnds, SocketFails
    <3> QED  BY <1>1, <1>2, <3>1, DigestTyped
  <2> QED  BY <2>1, <2>2
<1> QED  BY <1>4, <1>5 DEF Receive

(* What is put has the type of an entry of its key.                        *)
LEMMA PutEntryTyped ==
  ASSUME LookupInv, RecentInv, TypedInv, NEW l \in Lookups, job[l].at = "write",
         NEW d \in 0 .. setback
  PROVE  EntryTyped([says |-> PutAnswer(l), shown |-> -d], PutKey(l))
<1> DEFINE says == PutAnswer(l)
           key == PutKey(l)
           x == Head(job[l].todo)
<1>1. -d \in -setback .. OldAge
  BY CacheOK DEF RecentInv, World, OldAge
<1>2. /\ x \in Names /\ x = job[l].todo[1] /\ 1 \in 1 .. Len(job[l].todo)
      /\ PutTyped(job[l], found[l]) /\ found[l] \in [Names -> Says]
      /\ found[l][x] # "unverifiable"
  BY PutListing DEF TypedInv, JobTyped, PutGood
<1>3. CASE source = "watchlist"
  <2>1. says \in [Names -> Facts]
    BY <1>2, <1>3 DEF PutTyped, PutAnswer
  <2> HIDE DEF says
  <2>2. EntryTyped([says |-> says, shown |-> -d], key)
    BY <1>1, <1>3, <2>1 DEF EntryTyped, IsEntry
  <2> QED  BY <2>2 DEF says
<1>4. CASE source # "watchlist"
  <2>1. key = x /\ says = [n \in {x} |-> found[l][n]]
    BY <1>4 DEF PutAnswer, PutKey, KeyOf
  <2>2. found[l][x] \in Facts
    BY <1>2, <1>4 DEF PutTyped, Says
  <2>3. says \in [{x} -> Facts] /\ key \in Names /\ key = x
    BY <1>2, <2>1, <2>2
  <2> HIDE DEF says, key, x
  <2>4. EntryTyped([says |-> says, shown |-> -d], key)
    BY <1>1, <1>4, <2>3 DEF EntryTyped, IsEntry
  <2> QED  BY <2>4 DEF says, key
<1> QED  BY <1>3, <1>4

LEMMA NextPutTyped ==
  ASSUME LookupInv, RecentInv, TypedInv, NEW l \in Lookups,
         job[l].at \in {"put", "write", "rename"}, NextPut(l)
  PROVE  \E n \in Jobs : /\ job' = [job EXCEPT ![l] = n] /\ n.at \in {"put", "done"}
                         /\ PutTyped(n, found[l])
<1> DEFINE j == job[l]
           s == j.todo
<1>1. /\ j \in Jobs /\ s \in Seq(Names) /\ s # <<>> /\ PutTyped(j, found[l])
  BY PutListing DEF TypedInv, JobTyped
<1>2. CASE Finish(l)
  <2>1. PutTyped(Job("done", <<>>), found[l])
    BY DoneTyped DEF PutTyped
  <2> QED  BY <1>2, <2>1, DoneTyped DEF Finish
<1>3. CASE job' = [job EXCEPT ![l].at = "put", ![l].todo = Tail(@)]
  <2> DEFINE n == [j EXCEPT !.at = "put", !.todo = Tail(j.todo)]
  <2>1. "put" \in Steps
    BY DEF Steps
  <2>2. Tail(s) \in Seq(Names) /\ \A i \in 1 .. Len(Tail(s)) : Tail(s)[i] = s[i + 1] /\ i + 1 \in 1 .. Len(s)
    <3> HIDE DEF s
    <3>1. Tail(s) \in Seq(Names) /\ Len(Tail(s)) = Len(s) - 1 /\ Len(s) \in Nat
      BY <1>1
    <3>2. \A i \in 1 .. Len(Tail(s)) : Tail(s)[i] = s[i + 1]
      BY <1>1
    <3>3. \A i \in 1 .. Len(Tail(s)) : i + 1 \in 1 .. Len(s)
      BY <3>1
    <3> QED  BY <3>1, <3>2, <3>3
  <2>3. job' = [job EXCEPT ![l] = n]
    BY <1>3 DEF LookupInv
  <2>4. n \in Jobs /\ n.at = "put" /\ n.todo = Tail(s) /\ n.body = j.body
    BY <1>1, <2>1, <2>2 DEF Jobs
  <2> HIDE DEF n, s
  <2>5. PutTyped(n, found[l])
    BY <1>1, <2>2, <2>4 DEF PutTyped, s
  <2> QED  BY <2>3, <2>4, <2>5
<1> QED  BY <1>2, <1>3 DEF NextPut

LEMMA PutStepTyped ==
  ASSUME LookupInv, RecentInv, TypedInv, NEW l \in Lookups, Put(l)
  PROVE  TypedInv'
<1> DEFINE j == job[l]
<1>1. /\ Still /\ UNCHANGED <<conn, found>> /\ j.at \in {"put", "write", "rename"} /\ j \in Jobs
      /\ found[l] \in [Names -> Says] /\ job = [x \in Lookups |-> job[x]]
      /\ temp = [x \in Lookups |-> temp[x]]
      /\ PutTyped(j, found[l]) /\ TempTyped(j, temp[l]) /\ \A k \in Keys : FileTyped(file[k], k)
  BY DEF Put, Still, CreateTemp, WriteTemp, Replace, WriteFails, cache, TypedInv, JobTyped, LookupInv
<1>2. ASSUME NextPut(l), temp' = [temp EXCEPT ![l] = NoEntry], \A k \in Keys : FileTyped(file'[k], k)
      PROVE  TypedInv'
  <2>1. PICK n \in Jobs : /\ job' = [job EXCEPT ![l] = n] /\ n.at \in {"put", "done"}
                          /\ PutTyped(n, found[l])
    BY <1>1, <1>2, NextPutTyped
  <2>2. /\ job'[l] = n /\ \A x \in Lookups \ {l} : job'[x] = job[x]
        /\ temp'[l] = NoEntry /\ \A x \in Lookups \ {l} : temp'[x] = temp[x]
    BY <1>1, <1>2, <2>1
  <2>3. JobTyped(job'[l], conn'[l], found'[l], temp'[l])
    BY <1>1, <2>1, <2>2 DEF JobTyped, TempTyped
  <2> QED  BY <1>1, <1>2, <2>2, <2>3, OneTyped
<1>3. ASSUME NEW place \in {"write", "rename"}, Move(l, place), UNCHANGED file,
             NEW e, temp' = [temp EXCEPT ![l] = e],
             e = Unreadable \/ EntryTyped(e, PutKey(l))
      PROVE  TypedInv'
  <2> DEFINE n == [j EXCEPT !.at = place]
  <2>1. PutKey(l) = KeyOf(Head(j.todo)) /\ PutKey(l) \in Keys
    BY <1>1, PutListing, KeysOfNames DEF PutKey
  <2>2. place \in Steps
    BY <1>3 DEF Steps
  <2>3. n \in Jobs /\ n.at = place /\ n.todo = j.todo /\ n.body = j.body
    BY <1>1, <2>2 DEF Jobs
  <2>4. job' = [job EXCEPT ![l] = n]
    BY <1>3 DEF Move
  <2> HIDE DEF n
  <2>5. /\ job'[l] = n /\ \A x \in Lookups \ {l} : job'[x] = job[x]
        /\ temp'[l] = e /\ \A x \in Lookups \ {l} : temp'[x] = temp[x]
    BY <1>1, <1>3, <2>4
  <2>6. PutTyped(n, found[l])
    BY <1>1, <2>3 DEF PutTyped
  <2>9. TempTyped(n, e)
    BY <1>3, <2>1, <2>3 DEF TempTyped
  <2>7. JobTyped(job'[l], conn'[l], found'[l], temp'[l])
    BY <1>1, <1>3, <2>3, <2>5, <2>6, <2>9 DEF JobTyped
  <2>8. \A k \in Keys : FileTyped(file'[k], k)
    BY <1>1, <1>3
  <2> QED  BY <1>1, <2>5, <2>7, <2>8, OneTyped
<1>7. CASE CreateTemp(l) /\ Move(l, "write")
  <2>1. UNCHANGED file /\ temp' = [temp EXCEPT ![l] = Unreadable]
    BY <1>7 DEF CreateTemp
  <2> QED  BY <1>3, <1>7, <2>1
<1>8. CASE j.at = "write" /\ WriteTemp(l, PutAnswer(l)) /\ Move(l, "rename")
  <2>1. PICK d \in 0 .. setback : temp' = [temp EXCEPT ![l] = [says |-> PutAnswer(l), shown |-> -d]]
    BY <1>8 DEF WriteTemp
  <2> DEFINE e == [says |-> PutAnswer(l), shown |-> -d]
  <2>2. EntryTyped(e, PutKey(l))
    BY <1>8, PutEntryTyped
  <2>3. temp' = [temp EXCEPT ![l] = e] /\ UNCHANGED file
    BY <1>8, <2>1 DEF WriteTemp
  <2> HIDE DEF e
  <2> QED  BY <1>3, <1>8, <2>2, <2>3
<1>4. CASE j.at = "put" /\ UNCHANGED cache /\ NextPut(l)
  <2>1. temp[l] = NoEntry
    BY <1>4 DEF LookupInv, TempOK
  <2>2. temp' = [temp EXCEPT ![l] = NoEntry] /\ UNCHANGED file
    BY <1>1, <1>4, <2>1 DEF cache
  <2> QED  BY <1>1, <1>2, <1>4, <2>2
<1>5. CASE j.at = "rename" /\ Replace(l, PutKey(l)) /\ NextPut(l)
  <2>1. FileTyped(temp[l], PutKey(l))
    BY <1>1, <1>5 DEF TempTyped, FileTyped, PutKey
  <2>2. file' = [file EXCEPT ![PutKey(l)] = temp[l]] /\ file = [k \in Keys |-> file[k]]
    BY <1>5 DEF Replace, RecentInv, FilesGood
  <2>3. \A k \in Keys : FileTyped(file'[k], k)
    BY <1>1, <2>1, <2>2
  <2> QED  BY <1>2, <1>5, <2>3 DEF Replace
<1>6. CASE WriteFails(l) /\ NextPut(l)
  BY <1>1, <1>2, <1>6 DEF WriteFails, Unlinked
<1> QED  BY <1>4, <1>5, <1>6, <1>7, <1>8 DEF Put

-----------------------------------------------------------------------------
(* The clock, and what it makes of the entries.                            *)

(* An entry grows older, and no clock that is set back undoes more than    *)
(* setback.                                                                *)
LEMMA ShiftedTyped ==
  ASSUME NEW e, NEW k, EntryTyped(e, k), source' = source, setback \in Nat, setback' \in Nat,
         NEW d \in {-1, 1}, setback <= setback', d = -1 => setback' = setback + 1
  PROVE  EntryTyped(Shift(e, d), k)'
<1>1. CASE e \in {NoEntry, Unreadable}
  <2>1. Shift(e, d) = e
    BY <1>1 DEF Shift
  <2>2. EntryTyped(e, k)'
    BY CacheOK DEF EntryTyped, OldAge
  <2> QED  BY <2>1, <2>2
<1>2. CASE e \notin {NoEntry, Unreadable}
  <2>1. PICK g : g = Shift(e, d)
    OBVIOUS
  <2>2. IsEntry(e) /\ g = [e EXCEPT !.shown = IF @ + d > OldAge THEN OldAge ELSE @ + d]
    BY <1>2, <2>1 DEF Shift, EntryTyped
  <2>3. /\ IsEntry(g) /\ g.says = e.says
        /\ g.shown = IF e.shown + d > OldAge THEN OldAge ELSE e.shown + d
    BY <2>2 DEF IsEntry
  <2>4. e.shown \in -setback .. OldAge /\ OldAge \in Nat
    BY CacheOK DEF EntryTyped, OldAge
  <2>5. g.shown \in -setback' .. OldAge
    BY <2>3, <2>4
  <2>6. EntryTyped(g, k)'
    BY <2>3, <2>5 DEF EntryTyped, OldAge
  <2> QED  BY <2>1, <2>6
<1> QED  BY <1>1, <1>2

LEMMA ShiftedTemp ==
  ASSUME source' = source, setback \in Nat, setback' \in Nat,
         NEW d \in {-1, 1}, setback <= setback', d = -1 => setback' = setback + 1,
         NEW j, NEW m, m.at = "rename" => j.at = "rename" /\ m.todo = j.todo,
         NEW e, TempTyped(j, e), NEW g, g = Shift(e, d)
  PROVE  TempTyped(m, g)'
<1> SUFFICES ASSUME g \notin {NoEntry, Unreadable}
             PROVE  TempTyped(m, g)'
  BY DEF TempTyped
<1>1. e \notin {NoEntry, Unreadable}
  BY DEF Shift
<1>2. PICK k \in Keys : EntryTyped(e, k)
  BY <1>1 DEF TempTyped
<1>3. EntryTyped(g, k)'
  BY <1>2, ShiftedTyped
<1>4. PICK x : x = KeyOf(Head(m.todo))
  OBVIOUS
<1>5. m.at = "rename" => EntryTyped(e, x)
  BY <1>1, <1>4 DEF TempTyped
<1>6. m.at = "rename" => EntryTyped(g, x)'
  BY <1>5, ShiftedTyped
<1>7. x = KeyOf(Head(m.todo))'
  BY <1>4 DEF KeyOf
<1> QED  BY <1>3, <1>6, <1>7 DEF TempTyped

(* The files and what is left in the temporary files, when the clock moves.*)
LEMMA ClockTyped ==
  ASSUME TypedInv, source' = source, setback \in Nat, setback' \in Nat,
         NEW d \in {-1, 1}, ClockMoves(d), setback <= setback', d = -1 => setback' = setback + 1
  PROVE  \A k \in Keys : FileTyped(file[k], k)'
<1> SUFFICES ASSUME NEW k \in Keys
             PROVE  FileTyped(file[k], k)'
  OBVIOUS
<1>1. PICK e, g : e = file[k] /\ g = Shift(e, d)
  OBVIOUS
<1>2. file'[k] = g /\ FileTyped(e, k)
  BY <1>1 DEF ClockMoves, TypedInv
<1>3. FileTyped(g, k)'
  <2>1. CASE e \in {NoEntry, Unreadable}
    BY <1>1, <2>1 DEF Shift, FileTyped
  <2>2. CASE EntryTyped(e, k)
    <3>1. EntryTyped(g, k)'
      BY <1>1, <2>2, ShiftedTyped
    <3> QED  BY <3>1 DEF FileTyped
  <2> QED  BY <1>2, <2>1, <2>2 DEF FileTyped
<1>4. PICK h : h = file'[k]
  OBVIOUS
<1> QED  BY <1>2, <1>3

LEMMA TickTyped ==
  ASSUME LookupInv, RecentInv, TypedInv, Tick
  PROVE  TypedInv'
<1>0. setback \in Nat
  BY DEF RecentInv, World
<1>1. /\ ClockMoves(1) /\ setback' = setback
      /\ UNCHANGED <<source, caching, truth, found>>
  BY DEF Tick, EntriesAge, World
<1>2. \A k \in Keys : FileTyped(file[k], k)'
  BY <1>0, <1>1, ClockTyped
<1>3. ASSUME NEW l \in Lookups
      PROVE  JobTyped(job[l], conn[l], found[l], temp[l])'
  <2>1. PICK j, m, c, f, e, g :
          /\ j = job[l] /\ m = job'[l] /\ c = conn'[l] /\ f = found'[l]
          /\ e = temp[l] /\ g = Shift(e, 1)
    OBVIOUS
  <2>2. JobTyped(j, conn[l], f, e) /\ g = temp'[l]
    BY <1>1, <2>1, LookupOK DEF TypedInv, ClockMoves
  <2>3. /\ j.at = "http" => m = [j EXCEPT !.spent = IF @ < Late THEN @ + 1 ELSE Late]
        /\ j.at = "sleep" => m = [j EXCEPT !.spent = @ + 1, !.pause = @ - 1] /\ j.pause > 0
        /\ j.at \notin {"http", "sleep"} => m = j
        /\ j.at \notin {"put", "write", "rename"}
    BY <2>1 DEF Tick, Waits
  <2>4. j \in Jobs /\ f \in [Names -> Says]
    BY <2>2 DEF JobTyped
  <2>5. m \in Jobs /\ m.at = j.at /\ m.body = j.body /\ m.todo = j.todo
    <3>1. CASE j.at = "http"
      <4>1. (IF j.spent < Late THEN j.spent + 1 ELSE Late) \in 0 .. Late
        BY <2>4, LookupOK DEF Jobs
      <4> QED  BY <2>3, <2>4, <3>1, <4>1 DEF Jobs
    <3>2. CASE j.at = "sleep"
      <4>1. j.spent + j.pause <= Budget
        BY <2>1, <3>2 DEF LookupInv, JobOK, JobInTime
      <4>2. j.pause - 1 \in Nat /\ j.spent + 1 \in 0 .. Late
        BY <2>3, <2>4, <3>2, <4>1, LookupOK DEF Jobs
      <4> QED  BY <2>3, <2>4, <3>2, <4>2 DEF Jobs
    <3> QED  BY <2>3, <2>4, <3>1, <3>2
  <2>6. j.at = "http" /\ c.at = "reading" => j.body \in [Names -> Facts]
    <3>1. c.at = conn[l].at
      BY <2>1, ConnTypes DEF Tick, SocketsWait, Conns
    <3> QED  BY <2>2, <3>1 DEF JobTyped
  <2>7. TempTyped(m, g)'
    BY <1>0, <1>1, <2>1, <2>2, <2>5, ShiftedTemp DEF JobTyped
  <2>8. PutTyped(m, f)'
    BY <2>3, <2>5 DEF PutTyped
  <2>9. JobTyped(m, c, f, g)'
    BY <2>4, <2>5, <2>6, <2>7, <2>8 DEF JobTyped
  <2> QED  BY <2>1, <2>2, <2>9
<1> QED  BY <1>1, <1>2, <1>3 DEF TypedInv

LEMMA ClockCorrectedTyped ==
  ASSUME LookupInv, RecentInv, TypedInv, ClockCorrected
  PROVE  TypedInv'
<1>1. /\ ClockMoves(-1) /\ setback' = setback + 1 /\ setback \in Nat /\ -1 \in {-1, 1}
      /\ setback' \in Nat /\ setback <= setback'
      /\ UNCHANGED <<conn, source, caching, truth, job, found>>
  BY CacheOK DEF ClockCorrected, SetClockBack, RecentInv, World, lookup
<1>2. \A k \in Keys : FileTyped(file[k], k)'
  BY <1>1, ClockTyped
<1>3. ASSUME NEW l \in Lookups
      PROVE  JobTyped(job[l], conn[l], found[l], temp[l])'
  <2>1. PICK j, c, f, e, g :
          j = job[l] /\ c = conn[l] /\ f = found[l] /\ e = temp[l] /\ g = Shift(e, -1)
    OBVIOUS
  <2>2. JobTyped(j, c, f, e) /\ g = temp'[l]
    BY <1>1, <2>1, LookupOK DEF TypedInv, ClockMoves
  <2>3. TempTyped(j, g)'
    BY <1>1, <2>1, <2>2, ShiftedTemp DEF JobTyped
  <2>4. PutTyped(j, f)'
    BY <1>1, <2>2 DEF JobTyped, PutTyped
  <2>5. JobTyped(j, c, f, g)'
    BY <2>2, <2>3, <2>4 DEF JobTyped
  <2> QED  BY <1>1, <2>1, <2>2, <2>5
<1> QED  BY <1>1, <1>2, <1>3 DEF TypedInv

LEMMA FactTyped ==
  ASSUME LookupInv, RecentInv, TypedInv, NEW n \in Changing, FactChanges(n)
  PROVE  TypedInv'
<1>1. UNCHANGED <<conn, file, temp, setback, source, caching, job, found>>
  BY DEF FactChanges, cache
<1>2. truth' \in [Names -> Facts]
  BY DEF FactChanges, TypedInv, Facts
<1>3. \A e, k : EntryTyped(e, k)' <=> EntryTyped(e, k)
  BY <1>1 DEF EntryTyped
<1>4. \A k \in Keys : FileTyped(file[k], k)'
  BY <1>1, <1>3 DEF TypedInv, FileTyped
<1>5. ASSUME NEW l \in Lookups
      PROVE  JobTyped(job[l], conn[l], found[l], temp[l])'
  <2>1. JobTyped(job[l], conn[l], found[l], temp[l])
    BY DEF TypedInv
  <2>2. PutTyped(job[l], found[l])'
    BY <1>1, <2>1 DEF JobTyped, PutTyped
  <2>3. TempTyped(job[l], temp[l])'
    <3>1. KeyOf(Head(job[l].todo))' = KeyOf(Head(job[l].todo))
      BY <1>1 DEF KeyOf
    <3> QED  BY <1>1, <1>3, <2>1, <3>1 DEF JobTyped, TempTyped
  <2> QED  BY <1>1, <2>1, <2>2, <2>3 DEF JobTyped
<1> QED  BY <1>1, <1>2, <1>4, <1>5 DEF TypedInv

LEMMA TypedGoesOn == LookupInv /\ RecentInv /\ TypedInv /\ [Next]_vars => TypedInv'
<1> SUFFICES ASSUME LookupInv, RecentInv, TypedInv, [Next]_vars
             PROVE  TypedInv'
  OBVIOUS
<1>1. ASSUME NEW l \in Lookups, Step(l) \/ Die(l)
      PROVE  TypedInv'
  BY <1>1, ReadCacheTyped, AskTyped, ReceiveTyped, WakeTyped, PutStepTyped, DieTyped DEF Step
<1>2. CASE Tick
  BY <1>2, TickTyped
<1>3. CASE \E n \in Changing : FactChanges(n)
  BY <1>3, FactTyped
<1>4. CASE ClockCorrected
  BY <1>4, ClockCorrectedTyped
<1>5. CASE UNCHANGED vars
  <2>1. Still /\ UNCHANGED <<file, temp, job, conn, found>>
    BY <1>5 DEF vars, cache, lookup, Still, Stay
  <2>2. ASSUME NEW l \in Lookups
        PROVE  JobTyped(job[l], conn[l], found[l], temp[l])'
    <3>1. PICK j, c, f, e : j = job[l] /\ c = conn[l] /\ f = found[l] /\ e = temp[l]
      OBVIOUS
    <3>2. JobTyped(j, c, f, e)'
      BY <2>1, <3>1, SameTypedJob DEF TypedInv
    <3> QED  BY <2>1, <3>1, <3>2
  <2>3. ASSUME NEW k \in Keys
        PROVE  FileTyped(file[k], k)'
    <3>1. PICK e : e = file[k]
      OBVIOUS
    <3>2. FileTyped(e, k)'
      BY <2>1, <3>1, SameTyped DEF TypedInv
    <3> QED  BY <2>1, <3>1, <3>2
  <2> QED  BY <2>1, <2>2, <2>3 DEF TypedInv, Still, Stay
<1> QED  BY <1>1, <1>2, <1>3, <1>4, <1>5 DEF Next

(* The entries of the cache are of the type that is written there.         *)
LEMMA EntriesTyped ==
  ASSUME World, source \in Sources, NEW e, NEW k, EntryTyped(e, k)
  PROVE  e \in Entries(Answers)
<1>1. e.shown \in -MaxMishaps .. OldAge
  BY CacheOK DEF World, EntryTyped, OldAge
<1>2. e.says \in Answers
  <2>1. CASE source = "watchlist"
    BY <2>1, FullBody DEF EntryTyped
  <2>2. CASE source # "watchlist"
    <3>1. e.says \in [{k} -> Facts] /\ {k} \in SUBSET Names
      BY <2>2 DEF EntryTyped
    <3> QED  BY <3>1 DEF Answers
  <2> QED  BY <2>1, <2>2
<1> QED  BY <1>1, <1>2 DEF EntryTyped, IsEntry, Entries

(***************************************************************************)
(* Whatever the disk holds, the server answers and the clock does, the     *)
(* entries that are kept speak of the names they are kept for, a lookup    *)
(* works on lists of names, never counts past its retries and never waits  *)
(* a negative time.                                                        *)
(***************************************************************************)
THEOREM LookupTyped == Spec => []TypeOK
<1>1. Init => FilesWhole
  BY DEF Init, CacheInit, FilesWhole, FileOK
<1>2. LookupInv /\ FilesWhole /\ [Next]_vars => FilesWhole'
  BY FilesStep
<1>3. LookupInv /\ FilesWhole /\ RecentInv /\ [Next]_vars => RecentInv'
  BY RecentGoesOn
<1>4. LookupInv /\ RecentInv /\ TypedInv => TypeOK
  <2> SUFFICES ASSUME LookupInv, RecentInv, TypedInv
               PROVE  TypeOK
    OBVIOUS
  <2>1. HttpTypeOK /\ World /\ source \in Sources /\ caching \in BOOLEAN /\ truth \in [Names -> Facts]
    BY DEF LookupInv, RecentInv, TypedInv
  <2>2. file \in [Keys -> Entries(Answers) \cup {NoEntry, Unreadable}]
    <3>1. \A k \in Keys : file[k] \in Entries(Answers) \cup {NoEntry, Unreadable}
      BY <2>1, EntriesTyped DEF TypedInv, FileTyped
    <3> QED  BY <3>1 DEF RecentInv, FilesGood
  <2>3. temp \in [Writers -> Entries(Answers) \cup {NoEntry, Unreadable}]
    <3>1. \A l \in Lookups : temp[l] \in Entries(Answers) \cup {NoEntry, Unreadable}
      BY <2>1, EntriesTyped DEF TypedInv, JobTyped, TempTyped
    <3> QED  BY <3>1, LookupOK DEF LookupInv
  <2>4. CacheTypeOK(Answers)
    BY <2>1, <2>2, <2>3 DEF CacheTypeOK, World
  <2>5. job \in [Lookups -> Jobs] /\ found \in [Lookups -> [Names -> Facts \cup {"unknown", "unverifiable"}]]
    BY DEF LookupInv, RecentInv, TypedInv, JobTyped, Says
  <2> QED  BY <2>1, <2>4, <2>5 DEF TypeOK, World
<1> QED  BY <1>1, <1>2, <1>3, <1>4, LookupStarts, LookupGoesOn, RecentStarts, TypedStarts, TypedGoesOn,
            PTL DEF Spec

-----------------------------------------------------------------------------
(* The steps a lookup has left.                                            *)

(* What is left of an attempt, and the attempts after it.                  *)
Base(t, b) == 3 * b + (Retries - t) * (3 + b)

(* StepsLeft, of a job.                                                    *)
Left(j, b) ==
  CASE j.at \in {"done", "dead"} -> 0
    [] j.at = "put"              -> 3 * Len(j.todo)
    [] j.at = "write"            -> 3 * Len(j.todo) - 1
    [] j.at = "rename"           -> 3 * Len(j.todo) - 2
    [] OTHER -> Base(j.tried, b) +
                (CASE j.at \in {"new", "cache"} -> 2 + Len(j.todo)
                   [] j.at = "try"   -> 2
                   [] j.at = "http"  -> 1
                   [] j.at = "sleep" -> 3 + Len(j.ask))

(* A lookup has no more names before it than its batch.                    *)
Fit(j, b) == Len(j.todo) + Len(j.ask) <= b

AllFit == \A l \in Lookups : Fit(job[l], Len(Batch[l]))

LEMMA LessAdded == \A a, x, y \in Nat : x < y => a + x < a + y
  OBVIOUS

LEMMA Sums ==
  \A n \in Nat :
    /\ 2 < 3 + n /\ (n > 0 => 2 < 2 + n)
    /\ 2 + n \in Nat /\ 2 + n > 0 /\ 2 + n < 3 + n
    /\ 3 + n \in Nat /\ 3 + n > 0
    /\ \A k \in Nat : k < n => n > 0 /\ 2 + k < 2 + n
  OBVIOUS

LEMMA Bases ==
  ASSUME NEW t \in 0 .. Retries, NEW b \in Nat
  PROVE  /\ Base(t, b) \in Nat /\ Base(t, b) >= 3 * b
         /\ t < Retries => Base(t, b) = Base(t + 1, b) + (3 + b)
<1>1. \A a, r \in Nat : a * r \in Nat /\ (a + 1) * r = a * r + r
  OBVIOUS
<1> DEFINE r == 3 + b
<1>2. r \in Nat /\ Retries - t \in Nat /\ t \in Nat /\ Retries \in Nat
  BY LookupOK
<1>3. Base(t, b) = 3 * b + (Retries - t) * r /\ Base(t + 1, b) = 3 * b + (Retries - (t + 1)) * r
  BY DEF Base
<1>4. (Retries - t) * r \in Nat
  BY <1>1, <1>2
<1>5. ASSUME t < Retries
      PROVE  (Retries - t) * r = (Retries - (t + 1)) * r + r
  <2>1. Retries - (t + 1) \in Nat /\ (Retries - (t + 1)) + 1 = Retries - t
    BY <1>2, <1>5
  <2> QED  BY <1>1, <1>2, <2>1
<1>6. (Retries - (t + 1)) * r \in Int
  BY <1>2
<1>7. r = 3 + b
  OBVIOUS
<1> HIDE DEF r
<1>8. Base(t, b) \in Nat /\ Base(t, b) >= 3 * b
  BY <1>3, <1>4
<1>9. ASSUME t < Retries
      PROVE  Base(t, b) = Base(t + 1, b) + (3 + b)
  <2> DEFINE x == (Retries - t) * r
             y == (Retries - (t + 1)) * r
  <2>1. x = y + r /\ Base(t, b) = 3 * b + x /\ Base(t + 1, b) = 3 * b + y /\ y \in Int /\ r \in Nat
    BY <1>2, <1>3, <1>5, <1>6, <1>9
  <2> HIDE DEF x, y
  <2> QED  BY <2>1, <1>7
<1> QED  BY <1>8, <1>9

LEMMA LeftAt ==
  ASSUME NEW j, NEW b
  PROVE  /\ j.at \in {"done", "dead"} => Left(j, b) = 0
         /\ j.at = "put" => Left(j, b) = 3 * Len(j.todo)
         /\ j.at = "write" => Left(j, b) = 3 * Len(j.todo) - 1
         /\ j.at = "rename" => Left(j, b) = 3 * Len(j.todo) - 2
         /\ j.at \in {"new", "cache"} => Left(j, b) = Base(j.tried, b) + (2 + Len(j.todo))
         /\ j.at = "try" => Left(j, b) = Base(j.tried, b) + 2
         /\ j.at = "http" => Left(j, b) = Base(j.tried, b) + 1
         /\ j.at = "sleep" => Left(j, b) = Base(j.tried, b) + (3 + Len(j.ask))
  BY DEF Left

(* A job that is not over has a step left.                                 *)
LEMMA SomeLeft ==
  ASSUME NEW j \in Jobs, Listing(j), NEW b \in Nat
  PROVE  /\ Left(j, b) \in Nat /\ (j.at \notin {"done", "dead"} => Left(j, b) > 0)
         /\ j.at = "http" => Left(j, b) > Base(j.tried, b)
<1>1. Base(j.tried, b) \in Nat
  BY Bases DEF Jobs
<1>2. Len(j.todo) \in Nat /\ Len(j.ask) \in Nat
  BY DEF Listing
<1>3. j.at \in {"put", "write", "rename"} => Len(j.todo) > 0
  BY DEF Listing
<1>4. j.at \in Steps
  BY DEF Jobs
<1> DEFINE B == Base(j.tried, b)
           L == Left(j, b)
<1>5. CASE j.at \in {"done", "dead"}
  BY <1>5, LeftAt
<1>6. CASE j.at \in {"put", "write", "rename"}
  <2>1. L = 3 * Len(j.todo) \/ L = 3 * Len(j.todo) - 1 \/ L = 3 * Len(j.todo) - 2
    BY <1>6, LeftAt
  <2> HIDE DEF L
  <2> QED  BY <1>2, <1>3, <1>6, <2>1 DEF L
<1>7. CASE j.at \in {"new", "cache", "try", "http", "sleep"}
  <2>1. \A x, y \in Nat : x > 0 => y + x \in Nat /\ y + x > 0 /\ y + x > y
    OBVIOUS
  <2>2. \E x \in Nat : x > 0 /\ L = B + x
    <3>1. CASE j.at \in {"new", "cache"}
      <4>1. 2 + Len(j.todo) \in Nat /\ 2 + Len(j.todo) > 0
        BY <1>2, Sums
      <4>2. L = B + (2 + Len(j.todo))
        BY <3>1, LeftAt
      <4> QED  BY <4>1, <4>2
    <3>2. CASE j.at = "try"
      <4>1. L = B + 2
        BY <3>2, LeftAt
      <4> QED  BY <4>1
    <3>3. CASE j.at = "http"
      <4>1. L = B + 1
        BY <3>3, LeftAt
      <4> QED  BY <4>1
    <3>4. CASE j.at = "sleep"
      <4>1. 3 + Len(j.ask) \in Nat /\ 3 + Len(j.ask) > 0
        BY <1>2, Sums
      <4>2. L = B + (3 + Len(j.ask))
        BY <3>4, LeftAt
      <4> QED  BY <4>1, <4>2
    <3> QED  BY <1>7, <3>1, <3>2, <3>3, <3>4
  <2> HIDE DEF L, B
  <2>3. B \in Nat
    BY <1>1 DEF B
  <2>4. L \in Nat /\ L > 0 /\ L > B
    BY <2>1, <2>2, <2>3
  <2> QED  BY <1>7, <2>4 DEF L, B
<1> QED  BY <1>4, <1>5, <1>6, <1>7 DEF Steps

(* The step a lookup takes: its job becomes n, which has less left.        *)
Uses(l, n) ==
  /\ job' = [job EXCEPT ![l] = n]
  /\ Fit(n, Len(Batch[l]))
  /\ Left(n, Len(Batch[l])) < Left(job[l], Len(Batch[l]))

(* What is known of a lookup before its step.                              *)
LEMMA Known ==
  ASSUME LookupInv, RecentInv, TypedInv, AllFit, NEW l \in Lookups
  PROVE  /\ job[l] \in Jobs /\ IsJob(job[l]) /\ Listing(job[l])
         /\ Len(Batch[l]) \in Nat /\ Fit(job[l], Len(Batch[l]))
         /\ Len(job[l].todo) \in Nat /\ Len(job[l].ask) \in Nat
         /\ Base(job[l].tried, Len(Batch[l])) \in Nat
         /\ Base(job[l].tried, Len(Batch[l])) >= 3 * Len(Batch[l])
<1>1. job[l] \in Jobs /\ IsJob(job[l]) /\ Listing(job[l])
  BY DEF TypedInv, JobTyped, LookupInv, JobOK, RecentInv, JobGood
<1>2. Len(Batch[l]) \in Nat
  BY LookupOK
<1>3. job[l].tried \in 0 .. Retries
  BY <1>1 DEF Jobs
<1>4. Base(job[l].tried, Len(Batch[l])) \in Nat /\ Base(job[l].tried, Len(Batch[l])) >= 3 * Len(Batch[l])
  BY <1>2, <1>3, Bases
<1>5. Len(job[l].todo) \in Nat /\ Len(job[l].ask) \in Nat
  BY <1>1 DEF Listing
<1> QED  BY <1>1, <1>2, <1>4, <1>5 DEF AllFit

LEMMA FinishUses ==
  ASSUME LookupInv, RecentInv, TypedInv, AllFit, NEW l \in Lookups,
         job[l].at \notin {"done", "dead"}, NEW place \in {"done", "dead"},
         job' = [job EXCEPT ![l] = Job(place, <<>>)]
  PROVE  \E n : Uses(l, n)
<1> DEFINE n == Job(place, <<>>)
<1>1. Left(job[l], Len(Batch[l])) > 0
  BY Known, SomeLeft
<1>2. n.at = place /\ Len(n.todo) = 0 /\ Len(n.ask) = 0
  BY DEF Job
<1> HIDE DEF n
<1>3. Left(n, Len(Batch[l])) = 0
  BY <1>2, LeftAt
<1>4. Fit(n, Len(Batch[l]))
  BY <1>2, Known DEF Fit
<1>5. Uses(l, n)
  BY <1>1, <1>3, <1>4 DEF Uses, n
<1> QED  BY <1>5

LEMMA ReadCacheUses ==
  ASSUME LookupInv, RecentInv, TypedInv, AllFit, NEW l \in Lookups, ReadCache(l)
  PROVE  \E n : Uses(l, n)
<1> DEFINE j == job[l]
           b == Len(Batch[l])
           now == ReadNow(l)
           left == SubSeq(j.todo, Len(now) + 1, Len(j.todo))
           ask == IF Looked(Head(now)) = "miss" THEN j.ask \o now ELSE j.ask
<1>1. /\ j \in Jobs /\ IsJob(j) /\ Listing(j) /\ b \in Nat /\ Fit(j, b)
      /\ Len(j.todo) \in Nat /\ Len(j.ask) \in Nat /\ Base(j.tried, b) \in Nat
      /\ j.at \in {"new", "cache"}
  BY Known DEF ReadCache
<1>2. /\ Len(left) \in Nat /\ Len(ask) \in Nat /\ Len(left) < Len(j.todo)
      /\ Len(left) + Len(ask) <= Len(j.todo) + Len(j.ask)
  <2>1. PICK s, a : s = j.todo /\ a = j.ask
    OBVIOUS
  <2>2. s \in Seq(Names) /\ s # <<>> /\ a \in Seq(Names) /\ (now = s \/ now = <<Head(s)>>)
    BY <1>1, <2>1 DEF Listing, ReadNow
  <2> HIDE DEF now
  <2>3. now \in Seq(Names) /\ Len(now) \in 1 .. Len(s) /\ Len(s) \in Nat /\ Len(a) \in Nat
    <3>1. Len(s) \in Nat /\ Len(s) >= 1 /\ Len(a) \in Nat
      BY <2>2
    <3>2. CASE now = s
      BY <2>2, <3>1, <3>2
    <3>3. CASE now = <<Head(s)>>
      BY <2>2, <3>1, <3>3
    <3> QED  BY <2>2, <3>2, <3>3
  <2>4. Len(SubSeq(s, Len(now) + 1, Len(s))) = Len(s) - Len(now)
    BY <2>2, <2>3
  <2>5. Len(a \o now) = Len(a) + Len(now)
    BY <2>2, <2>3
  <2>6. Len(left) = Len(s) - Len(now) /\ (Len(ask) = Len(a) + Len(now) \/ Len(ask) = Len(a))
    BY <2>1, <2>4, <2>5
  <2>7. \A x, y, z \in Nat : z >= 1 /\ z <= x =>
          /\ x - z \in Nat /\ y + z \in Nat /\ x - z < x
          /\ (x - z) + (y + z) <= x + y /\ (x - z) + y <= x + y
    OBVIOUS
  <2>8. Len(now) \in Nat /\ Len(now) >= 1 /\ Len(now) <= Len(s)
    BY <2>3
  <2> HIDE DEF left, ask
  <2>9. /\ Len(left) \in Nat /\ Len(ask) \in Nat /\ Len(left) < Len(s)
        /\ Len(left) + Len(ask) <= Len(s) + Len(a)
    BY <2>3, <2>6, <2>7, <2>8
  <2> QED  BY <2>1, <2>9
<1>3. \/ job' = [job EXCEPT ![l] = [j EXCEPT !.at = "cache", !.todo = left, !.ask = ask]]
      \/ job' = [job EXCEPT ![l] = [j EXCEPT !.at = "try", !.todo = left, !.ask = ask]]
      \/ job' = [job EXCEPT ![l] = Job("done", <<>>)]
  BY DEF ReadCache, Finish
<1> HIDE DEF left, ask, now
<1>4. ASSUME NEW place \in {"cache", "try"},
             job' = [job EXCEPT ![l] = [j EXCEPT !.at = place, !.todo = left, !.ask = ask]]
      PROVE  \E n : Uses(l, n)
  <2> DEFINE n == [j EXCEPT !.at = place, !.todo = left, !.ask = ask]
  <2>1. n.at = place /\ n.todo = left /\ n.ask = ask /\ n.tried = j.tried
    BY <1>1 DEF Jobs
  <2> HIDE DEF n
  <2>2. Fit(n, b)
    <3>1. \A x, y, z \in Nat : x + y <= z => \A u, v \in Nat : u + v <= x + y => u + v <= z
      OBVIOUS
    <3> QED  BY <1>1, <1>2, <2>1, <3>1, Zenon DEF Fit
  <2>3. \E x \in Nat : Left(n, b) = Base(j.tried, b) + x /\ x < 2 + Len(j.todo)
    <3>1. CASE place = "cache"
      <4>1. Left(n, b) = Base(j.tried, b) + (2 + Len(left))
        BY <2>1, <3>1, LeftAt
      <4>2. 2 + Len(left) \in Nat /\ 2 + Len(left) < 2 + Len(j.todo)
        BY <1>1, <1>2, Sums
      <4> QED  BY <4>1, <4>2
    <3>2. CASE place = "try"
      <4>1. Left(n, b) = Base(j.tried, b) + (2)
        BY <2>1, <3>2, LeftAt
      <4>2. 2 \in Nat /\ 2 < 2 + Len(j.todo)
        BY <1>1, <1>2, Sums
      <4> QED  BY <4>1, <4>2
    <3> QED  BY <3>1, <3>2
  <2>4. Left(j, b) = Base(j.tried, b) + (2 + Len(j.todo))
    <3>1. j.at \in {"new", "cache"}
      BY <1>1
    <3> HIDE DEF j, b
    <3> QED  BY <3>1, LeftAt
  <2>5. Left(n, b) < Left(j, b)
    <3>1. 2 + Len(j.todo) \in Nat
      BY <1>1, Sums
    <3> QED  BY <1>1, <2>3, <2>4, <3>1, LessAdded
  <2>6. Uses(l, n)
    BY <1>4, <2>2, <2>5 DEF Uses, n
  <2> QED  BY <2>6
<1>5. CASE job' = [job EXCEPT ![l] = Job("done", <<>>)]
  BY <1>1, <1>5, FinishUses
<1> QED  BY <1>3, <1>4, <1>5

(* A job that is still at its attempt has a smaller part of it left.       *)
LEMMA GoesOnUses ==
  ASSUME LookupInv, RecentInv, TypedInv, AllFit, NEW l \in Lookups,
         NEW n, job' = [job EXCEPT ![l] = n],
         n.tried = job[l].tried, n.todo = job[l].todo, n.ask = job[l].ask,
         NEW x \in Nat, NEW y \in Nat, x < y,
         Left(n, Len(Batch[l])) = Base(n.tried, Len(Batch[l])) + x,
         Left(job[l], Len(Batch[l])) = Base(job[l].tried, Len(Batch[l])) + y
  PROVE  Uses(l, n)
<1>1. Fit(n, Len(Batch[l]))
  BY Known DEF Fit
<1>2. Base(n.tried, Len(Batch[l])) = Base(job[l].tried, Len(Batch[l]))
  OBVIOUS
<1>3. Left(n, Len(Batch[l])) < Left(job[l], Len(Batch[l]))
  BY <1>2, Known, LessAdded, Zenon
<1> QED  BY <1>1, <1>3 DEF Uses

LEMMA GiveUpUses ==
  ASSUME LookupInv, RecentInv, TypedInv, AllFit, NEW l \in Lookups,
         job[l].at \notin {"done", "dead"}, GiveUp(l) \/ Finish(l)
  PROVE  \E n : Uses(l, n)
<1>1. job' = [job EXCEPT ![l] = Job("done", <<>>)]
  BY DEF GiveUp, Finish
<1> QED  BY <1>1, FinishUses

LEMMA AskUses ==
  ASSUME LookupInv, RecentInv, TypedInv, AllFit, NEW l \in Lookups, Ask(l)
  PROVE  \E n : Uses(l, n)
<1> DEFINE j == job[l]
           b == Len(Batch[l])
<1>1. j \in Jobs /\ j.at = "try"
  BY Known DEF Ask
<1>2. CASE Move(l, "http")
  <2> DEFINE n == [j EXCEPT !.at = "http"]
  <2>1. n.at = "http" /\ n.tried = j.tried /\ n.todo = j.todo /\ n.ask = j.ask
    BY <1>1 DEF Jobs
  <2>2. job' = [job EXCEPT ![l] = n]
    BY <1>2 DEF Move
  <2> HIDE DEF n
  <2>3. Left(n, b) = Base(n.tried, b) + 1
    BY <2>1, LeftAt
  <2>4. Left(j, b) = Base(j.tried, b) + 2
    <3>1. j.at = "try"
      BY <1>1
    <3> HIDE DEF j, b
    <3> QED  BY <3>1, LeftAt
  <2>5. 1 \in Nat /\ 2 \in Nat /\ 1 < 2
    OBVIOUS
  <2>6. Uses(l, n)
    BY <2>1, <2>2, <2>3, <2>4, <2>5, GoesOnUses
  <2> QED  BY <2>6
<1>3. CASE GiveUp(l)
  BY <1>1, <1>3, GiveUpUses
<1> QED  BY <1>2, <1>3 DEF Ask

LEMMA RetryUses ==
  ASSUME LookupInv, RecentInv, TypedInv, AllFit, NEW l \in Lookups, job[l].at = "http", Retry(l)
  PROVE  \E n : Uses(l, n)
<1>1. CASE MayRetry(l)
  <2> DEFINE p == Backoff(l)
             j == job[l]
             b == Len(Batch[l])
             n == [j EXCEPT !.at = "sleep", !.tried = @ + 1, !.pause = p, !.body = NoBody]
  <2>1. /\ j \in Jobs /\ b \in Nat /\ Fit(j, b) /\ Len(j.todo) \in Nat /\ Len(j.ask) \in Nat
        /\ Listing(j)
    BY Known
  <2>2. job' = [job EXCEPT ![l] = n]
    BY <1>1 DEF Retry
  <2>3. j.tried \in 0 .. Retries /\ j.tried < Retries
    BY <1>1, <2>1 DEF MayRetry, Jobs
  <2>4. n.at = "sleep" /\ n.todo = j.todo /\ n.ask = j.ask /\ n.tried = j.tried + 1
    BY <2>1 DEF Jobs
  <2>5. Fit(n, b)
    <3> HIDE DEF n, j, b
    <3> QED  BY <2>1, <2>4 DEF Fit
  <2>6. Base(j.tried, b) = Base(j.tried + 1, b) + (3 + b) /\ Base(j.tried + 1, b) \in Nat
    <3>1. j.tried + 1 \in 0 .. Retries
      BY <2>3, LookupOK
    <3> HIDE DEF j, b
    <3> QED  BY <2>1, <2>3, <3>1, Bases
  <2>7. Left(n, b) = Base(j.tried + 1, b) + (3 + Len(j.ask))
    <3> HIDE DEF n, b
    <3> QED  BY <2>4, LeftAt
  <2>8. Left(j, b) > Base(j.tried, b) /\ Left(j, b) \in Nat
    BY <2>1, SomeLeft
  <2>9. Len(j.ask) <= b
    <3>1. \A x, y, z \in Nat : x + y <= z => y <= z
      OBVIOUS
    <3> QED  BY <2>1, <3>1, Zenon DEF Fit
  <2>10. Left(n, b) < Left(j, b)
    <3>1. \A k, x, y, z \in Nat : k <= y /\ z > x + (3 + y) => x + (3 + k) < z
      OBVIOUS
    <3>2. Left(j, b) > Base(j.tried + 1, b) + (3 + b)
      BY <2>6, <2>8, Zenon
    <3>3. /\ Len(j.ask) \in Nat /\ Base(j.tried + 1, b) \in Nat /\ b \in Nat
          /\ Left(j, b) \in Nat /\ Len(j.ask) <= b
      BY <2>1, <2>6, <2>8, <2>9
    <3> HIDE DEF n, j, b
    <3>4. Base(j.tried + 1, b) + (3 + Len(j.ask)) < Left(j, b)
      BY <3>1, <3>2, <3>3, Zenon
    <3> QED  BY <2>7, <3>4, Zenon
  <2>11. Uses(l, n)
    <3> HIDE DEF n
    <3> QED  BY <2>2, <2>5, <2>10 DEF Uses, j, b
  <2> QED  BY <2>11
<1>2. CASE GiveUp(l)
  BY <1>2, GiveUpUses
<1> QED  BY <1>1, <1>2 DEF Retry

LEMMA TakeUses ==
  ASSUME LookupInv, RecentInv, TypedInv, AllFit, NEW l \in Lookups, job[l].at = "http",
         NEW says, NEW S, Take(l, says, S)
  PROVE  \E n : Uses(l, n)
<1> DEFINE j == job[l]
           b == Len(Batch[l])
<1>1. /\ j \in Jobs /\ b \in Nat /\ Fit(j, b) /\ Len(j.todo) \in Nat /\ Len(j.ask) \in Nat
      /\ Listing(j) /\ Base(j.tried, b) \in Nat /\ Base(j.tried, b) >= 3 * b
  BY Known
<1>2. Len(j.ask) >= 1 /\ Len(j.ask) <= b
  <2>1. \A x, y, z \in Nat : x + y <= z => y <= z
    OBVIOUS
  <2>2. Len(j.ask) <= b
    BY <1>1, <2>1, Zenon DEF Fit
  <2>3. Len(j.ask) >= 1
    BY <1>1 DEF Listing
  <2> QED  BY <2>2, <2>3
<1>3. Left(j, b) \in Nat /\ Left(j, b) > Base(j.tried, b)
  BY <1>1, SomeLeft
<1>4. ASSUME NEW n, job' = [job EXCEPT ![l] = n], n.at = "put", n.ask = <<>>,
             Len(n.todo) \in Nat, Len(n.todo) <= b
      PROVE  \E m : Uses(l, m)
  <2>1. Left(n, b) = 3 * Len(n.todo)
    <3> HIDE DEF b
    <3> QED  BY <1>4, LeftAt
  <2>2. \A x, y, z, w \in Nat : x <= y /\ z >= 3 * y /\ w > z => 3 * x < w
    OBVIOUS
  <2>3. Left(n, b) < Left(j, b)
    BY <1>1, <1>3, <1>4, <2>1, <2>2, Zenon
  <2>4. Fit(n, b)
    <3>1. Len(n.ask) = 0
      BY <1>4
    <3>2. \A x, y \in Nat : x <= y => x + 0 <= y
      OBVIOUS
    <3> QED  BY <1>1, <1>4, <3>1, <3>2, Zenon DEF Fit
  <2>5. Uses(l, n)
    BY <1>4, <2>3, <2>4 DEF Uses
  <2> QED  BY <2>5
<1>5. \/ job' = [job EXCEPT ![l] = Job("done", <<>>)]
      \/ job' = [job EXCEPT ![l] = [Job("put", <<Head(j.ask)>>) EXCEPT !.body = j.body]]
      \/ job' = [job EXCEPT ![l] = Job("put", j.ask)]
  BY DEF Take, Finish
<1>6. CASE job' = [job EXCEPT ![l] = Job("done", <<>>)]
  BY <1>6, FinishUses
<1>7. CASE job' = [job EXCEPT ![l] = [Job("put", <<Head(j.ask)>>) EXCEPT !.body = j.body]]
  <2> DEFINE todo == <<Head(j.ask)>>
             n == [Job("put", todo) EXCEPT !.body = j.body]
  <2>1. n.at = "put" /\ n.ask = <<>> /\ n.todo = todo
    BY DEF Job
  <2>2. Len(todo) = 1
    OBVIOUS
  <2>3. job' = [job EXCEPT ![l] = n]
    BY <1>7
  <2>4. Len(todo) \in Nat /\ Len(todo) <= b
    <3>1. \A x, y, z \in Nat : x >= 1 /\ x <= y => 1 <= y
      OBVIOUS
    <3>2. 1 \in Nat
      OBVIOUS
    <3> QED  BY <1>1, <1>2, <2>2, <3>1, <3>2, Zenon
  <2> HIDE DEF n, todo, b
  <2> QED  BY <1>4, <2>1, <2>3, <2>4
<1>8. CASE job' = [job EXCEPT ![l] = Job("put", j.ask)]
  <2> DEFINE n == Job("put", j.ask)
  <2>1. n.at = "put" /\ n.ask = <<>> /\ n.todo = j.ask
    BY DEF Job
  <2>2. job' = [job EXCEPT ![l] = n]
    BY <1>8
  <2> HIDE DEF n
  <2> QED  BY <1>1, <1>2, <1>4, <2>1, <2>2
<1> QED  BY <1>5, <1>6, <1>7, <1>8

LEMMA DigestUses ==
  ASSUME LookupInv, RecentInv, TypedInv, AllFit, NEW l \in Lookups, job[l].at = "http",
         NEW result, Digest(l, result)
  PROVE  \E n : Uses(l, n)
<1>1. ASSUME NEW says, NEW S, Take(l, says, S)
      PROVE  \E n : Uses(l, n)
  BY <1>1, TakeUses
<1> QED  BY <1>1, RetryUses, GiveUpUses DEF Digest

(* A request that goes on: its job stays at it, with as much left.         *)
Asks(l, n) ==
  /\ job' = [job EXCEPT ![l] = n]
  /\ job[l].at = "http" /\ n.at = "http"
  /\ n.tried = job[l].tried /\ n.todo = job[l].todo /\ n.ask = job[l].ask

LEMMA ReceiveUses ==
  ASSUME LookupInv, RecentInv, TypedInv, AllFit, NEW l \in Lookups, Receive(l)
  PROVE  \E n : Uses(l, n) \/ Asks(l, n)
<1>1. job[l].at = "http" /\ job[l] \in Jobs /\ job = [x \in Lookups |-> job[x]]
  BY Known DEF Receive, LookupInv
<1>2. CASE job' = [job EXCEPT ![l].body = truth]
  <2> DEFINE n == [job[l] EXCEPT !.body = truth]
  <2>1. job' = [job EXCEPT ![l] = n]
    BY <1>2
  <2>2. n.at = job[l].at /\ n.tried = job[l].tried /\ n.todo = job[l].todo /\ n.ask = job[l].ask
    BY <1>1 DEF Jobs
  <2> HIDE DEF n
  <2>3. Asks(l, n)
    BY <1>1, <2>1, <2>2 DEF Asks
  <2> QED  BY <2>3
<1>3. CASE job' = job
  <2>1. job' = [job EXCEPT ![l] = job[l]]
    BY <1>1, <1>3
  <2> QED  BY <1>1, <2>1 DEF Asks
<1>4. ASSUME NEW result, Digest(l, result)
      PROVE  \E n : Uses(l, n)
  BY <1>1, <1>4, DigestUses
<1> QED  BY <1>2, <1>3, <1>4 DEF Receive, Answer

LEMMA WakeUses ==
  ASSUME LookupInv, RecentInv, TypedInv, AllFit, NEW l \in Lookups, Wake(l)
  PROVE  \E n : Uses(l, n)
<1> DEFINE j == job[l]
           b == Len(Batch[l])
<1>1. /\ j.at = "sleep" /\ j \in Jobs /\ b \in Nat /\ Fit(j, b)
      /\ Len(j.todo) \in Nat /\ Len(j.ask) \in Nat /\ Base(j.tried, b) \in Nat
  BY Known DEF Wake
<1>2. Left(j, b) = Base(j.tried, b) + (3 + Len(j.ask))
  <2>1. j.at = "sleep"
    BY <1>1
  <2> HIDE DEF j, b
  <2> QED  BY <2>1, LeftAt
<1>3. CASE job' = [job EXCEPT ![l] = [j EXCEPT !.at = "cache", !.todo = j.ask, !.ask = <<>>]]
  <2> DEFINE n == [j EXCEPT !.at = "cache", !.todo = j.ask, !.ask = <<>>]
  <2>1. n.at = "cache" /\ n.tried = j.tried /\ n.todo = j.ask /\ n.ask = <<>>
    BY <1>1 DEF Jobs
  <2>2. job' = [job EXCEPT ![l] = n]
    BY <1>3
  <2> HIDE DEF n
  <2>3. Left(n, b) = Base(j.tried, b) + (2 + Len(j.ask))
    BY <2>1, LeftAt
  <2>4. /\ 2 + Len(j.ask) \in Nat /\ 3 + Len(j.ask) \in Nat
        /\ 2 + Len(j.ask) < 3 + Len(j.ask)
    BY <1>1, Sums
  <2>5. Left(n, b) < Left(j, b)
    BY <1>1, <1>2, <2>3, <2>4, LessAdded, Zenon
  <2>6. Fit(n, b)
    <3>1. \A x, y, z \in Nat : x + y <= z => y + 0 <= z
      OBVIOUS
    <3>2. Len(n.ask) = 0
      BY <2>1
    <3> QED  BY <1>1, <2>1, <3>1, <3>2, Zenon DEF Fit
  <2>7. Uses(l, n)
    BY <2>2, <2>5, <2>6 DEF Uses
  <2> QED  BY <2>7
<1>4. CASE job' = [job EXCEPT ![l] = [j EXCEPT !.at = "try"]]
  <2> DEFINE n == [j EXCEPT !.at = "try"]
  <2>1. n.at = "try" /\ n.tried = j.tried /\ n.todo = j.todo /\ n.ask = j.ask
    BY <1>1 DEF Jobs
  <2>2. job' = [job EXCEPT ![l] = n]
    BY <1>4
  <2> HIDE DEF n
  <2>3. Left(n, b) = Base(n.tried, b) + (2)
    BY <2>1, LeftAt
  <2>4. /\ 2 \in Nat /\ 3 + Len(j.ask) \in Nat
        /\ 2 < 3 + Len(j.ask)
    BY <1>1, Sums
  <2>5. Uses(l, n)
    BY <1>2, <2>1, <2>2, <2>3, <2>4, GoesOnUses
  <2> QED  BY <2>5
<1>5. CASE GiveUp(l)
  BY <1>1, <1>5, GiveUpUses
<1> QED  BY <1>3, <1>4, <1>5 DEF Wake

LEMMA NextPutUses ==
  ASSUME LookupInv, RecentInv, TypedInv, AllFit, NEW l \in Lookups,
         job[l].at \in {"put", "write", "rename"}, NextPut(l)
  PROVE  \E n : Uses(l, n)
<1> DEFINE j == job[l]
           b == Len(Batch[l])
<1>1. CASE Finish(l)
  BY <1>1, GiveUpUses
<1>2. CASE job' = [job EXCEPT ![l].at = "put", ![l].todo = Tail(@)]
  <2> DEFINE n == [j EXCEPT !.at = "put", !.todo = Tail(j.todo)]
  <2>1. j \in Jobs /\ b \in Nat /\ Fit(j, b) /\ Len(j.todo) \in Nat /\ Len(j.ask) \in Nat
    BY Known
  <2>2. Len(Tail(j.todo)) = Len(j.todo) - 1 /\ Len(j.todo) >= 1
    <3>1. PICK s : s = j.todo
      OBVIOUS
    <3>2. s \in Seq(Names) /\ s # <<>>
      BY <3>1, PutListing
    <3>3. Len(Tail(s)) = Len(s) - 1 /\ Len(s) >= 1
      BY <3>2
    <3> QED  BY <3>1, <3>3
  <2>3. job' = [job EXCEPT ![l] = n]
    BY <1>2 DEF LookupInv
  <2>4. n.at = "put" /\ n.todo = Tail(j.todo) /\ n.ask = j.ask
    BY <2>1 DEF Jobs
  <2> HIDE DEF n
  <2>5. Left(n, b) = 3 * (Len(j.todo) - 1)
    <3> HIDE DEF b
    <3> QED  BY <2>2, <2>4, LeftAt
  <2>6. \/ Left(j, b) = 3 * Len(j.todo) \/ Left(j, b) = 3 * Len(j.todo) - 1
        \/ Left(j, b) = 3 * Len(j.todo) - 2
    <3>1. j.at = "put" \/ j.at = "write" \/ j.at = "rename"
      OBVIOUS
    <3> HIDE DEF j, b
    <3> QED  BY <3>1, LeftAt
  <2>7. \A x \in Nat : x >= 1 =>
          3 * (x - 1) < 3 * x - 2 /\ 3 * (x - 1) < 3 * x - 1 /\ 3 * (x - 1) < 3 * x
    OBVIOUS
  <2>8. Left(n, b) < Left(j, b)
    BY <2>1, <2>2, <2>5, <2>6, <2>7, Zenon
  <2>9. Fit(n, b)
    <3>1. \A x, y, z \in Nat : x >= 1 /\ x + y <= z => (x - 1) + y <= z
      OBVIOUS
    <3> QED  BY <2>1, <2>2, <2>4, <3>1, Zenon DEF Fit
  <2>10. Uses(l, n)
    BY <2>3, <2>8, <2>9 DEF Uses
  <2> QED  BY <2>10
<1> QED  BY <1>1, <1>2 DEF NextPut

LEMMA PutUses ==
  ASSUME LookupInv, RecentInv, TypedInv, AllFit, NEW l \in Lookups, Put(l)
  PROVE  \E n : Uses(l, n)
<1> DEFINE j == job[l]
           b == Len(Batch[l])
<1>1. j.at \in {"put", "write", "rename"}
  BY DEF Put
<1>2. ASSUME NEW place, Move(l, place),
             \/ j.at = "put" /\ place = "write"
             \/ j.at = "write" /\ place = "rename"
      PROVE  \E n : Uses(l, n)
  <2> DEFINE n == [j EXCEPT !.at = place]
  <2>1. j \in Jobs /\ b \in Nat /\ Fit(j, b) /\ Len(j.todo) \in Nat /\ Len(j.ask) \in Nat
    BY Known
  <2>2. n.at = place /\ n.todo = j.todo /\ n.ask = j.ask
    BY <2>1 DEF Jobs
  <2>3. job' = [job EXCEPT ![l] = n]
    BY <1>2 DEF Move
  <2> HIDE DEF n
  <2>4. \/ Left(n, b) = 3 * Len(j.todo) - 1 /\ Left(j, b) = 3 * Len(j.todo)
        \/ Left(n, b) = 3 * Len(j.todo) - 2 /\ Left(j, b) = 3 * Len(j.todo) - 1
    <3>1. \/ j.at = "put" /\ n.at = "write"
          \/ j.at = "write" /\ n.at = "rename"
      BY <1>2, <2>2
    <3>2. n.todo = j.todo
      BY <2>2
    <3> HIDE DEF j, b
    <3> QED  BY <3>1, <3>2, LeftAt
  <2>5. \A x \in Nat : 3 * x - 1 < 3 * x /\ 3 * x - 2 < 3 * x - 1
    OBVIOUS
  <2>6. Left(n, b) < Left(j, b) /\ Fit(n, b)
    BY <2>1, <2>2, <2>4, <2>5, Zenon DEF Fit
  <2>7. Uses(l, n)
    BY <2>3, <2>6 DEF Uses
  <2> QED  BY <2>7
<1>3. CASE NextPut(l)
  BY <1>1, <1>3, NextPutUses
<1> QED  BY <1>2, <1>3 DEF Put

LEMMA DieUses ==
  ASSUME LookupInv, RecentInv, TypedInv, AllFit, NEW l \in Lookups, Die(l)
  PROVE  \E n : Uses(l, n)
<1>1. job' = [job EXCEPT ![l] = Job("dead", <<>>)] /\ job[l].at \notin {"done", "dead"}
  BY DEF Die
<1> QED  BY <1>1, FinishUses

(* A step of a lookup touches no other one's request.                      *)
LEMMA OthersWait ==
  ASSUME LookupInv, NEW l \in Lookups, Step(l) \/ Die(l)
  PROVE  \A x \in Lookups \ {l} : conn'[x] = conn[x]
<1>1. conn = [x \in Lookups |-> conn[x]]
  BY DEF LookupInv, HttpTypeOK
<1>2. CASE conn' = conn
  BY <1>2
<1>3. ASSUME NEW c, conn' = [conn EXCEPT ![l] = c]
      PROVE  \A x \in Lookups \ {l} : conn'[x] = conn[x]
  BY <1>1, <1>3
<1>4. CASE ReadCache(l) \/ Wake(l) \/ Put(l)
  BY <1>2, <1>4 DEF ReadCache, Wake, Put
<1>5. CASE Ask(l)
  BY <1>2, <1>3, <1>5 DEF Ask, Open
<1>6. CASE Receive(l)
  <2>1. PICK result :
          \/ \E code \in Codes : StatusLine(l, code, result)
          \/ OpeningGoesOn(l, result) \/ Chunk(l, result)
          \/ BodyEnds(l, result) \/ SocketFails(l, result)
    BY <1>6 DEF Receive, Answer
  <2> QED  BY <1>3, <2>1 DEF StatusLine, OpeningGoesOn, Chunk, BodyEnds, SocketFails, Close
<1>7. CASE Die(l)
  BY <1>3, <1>7 DEF Die, Close
<1> QED  BY <1>4, <1>5, <1>6, <1>7 DEF Step

LEMMA FitStarts == Init => AllFit
<1> SUFFICES ASSUME Init, NEW l \in Lookups
             PROVE  Fit(job[l], Len(Batch[l]))
  BY DEF AllFit
<1>1. PICK s : s = Batch[l]
  OBVIOUS
<1>2. s \in Seq(Names) /\ s # <<>>
  BY <1>1, LookupOK
<1>3. Len(s) \in Nat /\ Len(s) >= 1 /\ Len(<<Head(s)>>) = 1 /\ Len(<<>>) = 0
  BY <1>2
<1>4. job[l].ask = <<>> /\ (job[l].todo = s \/ job[l].todo = <<Head(s)>>)
  BY <1>1 DEF Init, Job, NamesOf
<1>5. \A x \in Nat : x >= 1 => x + 0 <= x /\ 1 + 0 <= x
  OBVIOUS
<1> QED  BY <1>1, <1>3, <1>4, <1>5, Zenon DEF Fit

(* StepsRunOut, of one lookup.                                             *)
Counted(l) ==
  \/ job'[l] = job[l] /\ conn'[l] = conn[l]
  \/ Left(job'[l], Len(Batch[l])) < Left(job[l], Len(Batch[l]))
  \/ /\ Left(job'[l], Len(Batch[l])) = Left(job[l], Len(Batch[l]))
     /\ \/ job[l].at = "http" /\ job'[l].at = "http"
        \/ /\ job[l].at = "sleep" /\ job'[l].at = "sleep"
           /\ job'[l].pause = job[l].pause - 1

LEMMA StepCounts ==
  ASSUME LookupInv, RecentInv, TypedInv, AllFit, NEW l \in Lookups, Step(l) \/ Die(l)
  PROVE  AllFit' /\ \A x \in Lookups : Counted(x)
<1>1. PICK n : Uses(l, n) \/ Asks(l, n)
  BY ReadCacheUses, AskUses, ReceiveUses, WakeUses, PutUses, DieUses DEF Step
<1>2. job' = [job EXCEPT ![l] = n] /\ job = [x \in Lookups |-> job[x]]
  BY <1>1 DEF Uses, Asks, LookupInv
<1>3. job'[l] = n /\ \A x \in Lookups \ {l} : job'[x] = job[x]
  BY <1>2
<1>4. Fit(job'[l], Len(Batch[l])) /\ Counted(l)
  <2>1. CASE Uses(l, n)
    BY <1>3, <2>1 DEF Uses, Counted
  <2>2. CASE Asks(l, n)
    <3>1. Fit(n, Len(Batch[l]))
      BY <2>2, Known DEF Asks, Fit
    <3>2. Left(n, Len(Batch[l])) = Left(job[l], Len(Batch[l]))
      BY <2>2, LeftAt DEF Asks
    <3> QED  BY <1>3, <2>2, <3>1, <3>2 DEF Asks, Counted
  <2> QED  BY <1>1, <2>1, <2>2
<1>5. ASSUME NEW x \in Lookups \ {l}
      PROVE  Fit(job'[x], Len(Batch[x])) /\ Counted(x)
  BY <1>3, OthersWait DEF AllFit, Counted
<1> QED  BY <1>4, <1>5 DEF AllFit

(* Waiting uses up nothing but time.                                       *)
LEMMA TickCounts ==
  ASSUME LookupInv, RecentInv, TypedInv, AllFit, Tick, NEW l \in Lookups
  PROVE  Fit(job'[l], Len(Batch[l])) /\ Counted(l)
<1> DEFINE j == job[l]
           b == Len(Batch[l])
           c == conn[l]
           d == conn'[l]
           n == job'[l]
<1>1. j \in Jobs /\ Matched(j, c) /\ Fit(j, b)
  BY Known DEF LookupInv, JobOK
<1>2. /\ j.at = "http" => \E s : n = [j EXCEPT !.spent = s]
      /\ j.at = "sleep" => n = [j EXCEPT !.spent = @ + 1, !.pause = @ - 1]
      /\ j.at \notin {"http", "sleep"} => n = j
      /\ c.at = "idle" => d = c
  BY DEF Tick, SocketsWait
<1> HIDE DEF j, c, d, n, b
<1>3. CASE j.at \in {"http", "sleep"}
  <2>1. /\ n.at = j.at /\ n.todo = j.todo /\ n.ask = j.ask /\ n.tried = j.tried
        /\ j.at = "sleep" => n.pause = j.pause - 1
    <3>1. CASE j.at = "http"
      BY <1>1, <1>2, <3>1 DEF Jobs
    <3>2. CASE j.at = "sleep"
      BY <1>1, <1>2, <3>2 DEF Jobs
    <3> QED  BY <1>3, <3>1, <3>2
  <2>2. Left(n, b) = Left(j, b)
    BY <2>1 DEF Left
  <2>3. Fit(n, b)
    BY <1>1, <2>1 DEF Fit
  <2> QED  BY <1>3, <2>1, <2>2, <2>3 DEF Counted, n, d, j, c, b
<1>4. CASE j.at \notin {"http", "sleep"}
  <2>1. n = j /\ d = c
    BY <1>1, <1>2, <1>4 DEF Matched
  <2> QED  BY <1>1, <2>1 DEF Counted, n, d, j, c, b
<1> QED  BY <1>3, <1>4

(***************************************************************************)
(* Outside of its requests a lookup makes no more steps than its batch and *)
(* the retries allow, whatever the server answers: it asks at most Retries *)
(* + 1 times, and it cannot retry or write for ever, for any values of the *)
(* two.  How long a request takes is the server's.                         *)
(***************************************************************************)
THEOREM LookupRunsOut == Spec => StepsRunOut
<1>1. Init => FilesWhole
  BY DEF Init, CacheInit, FilesWhole, FileOK
<1>2. LookupInv /\ FilesWhole /\ [Next]_vars => FilesWhole'
  BY FilesStep
<1>3. LookupInv /\ FilesWhole /\ RecentInv /\ [Next]_vars => RecentInv'
  BY RecentGoesOn
<1> DEFINE Runs == \A l \in Lookups :
             \/ job'[l] = job[l] /\ conn'[l] = conn[l]
             \/ StepsLeft(l)' < StepsLeft(l)
             \/ /\ StepsLeft(l)' = StepsLeft(l)
                /\ \/ job[l].at = "http" /\ job'[l].at = "http"
                   \/ /\ job[l].at = "sleep" /\ job'[l].at = "sleep"
                      /\ job'[l].pause = job[l].pause - 1
<1>4. (\A l \in Lookups : Counted(l)) => Runs
  <2>1. ASSUME NEW l \in Lookups
        PROVE  /\ StepsLeft(l) = Left(job[l], Len(Batch[l]))
               /\ StepsLeft(l)' = Left(job'[l], Len(Batch[l]))
    BY Zenon DEF StepsLeft, RoundLeft, Round, Left, Base
  <2> QED  BY <2>1 DEF Counted
<1>5. LookupInv /\ RecentInv /\ TypedInv /\ AllFit /\ [Next]_vars => AllFit' /\ [Runs]_<<conn, job>>
  <2> SUFFICES ASSUME LookupInv, RecentInv, TypedInv, AllFit, [Next]_vars
               PROVE  AllFit' /\ [Runs]_<<conn, job>>
    OBVIOUS
  <2> HIDE DEF Runs
  <2>1. ASSUME NEW l \in Lookups, Step(l) \/ Die(l)
        PROVE  AllFit' /\ Runs
    BY <1>4, <2>1, StepCounts
  <2>2. CASE Tick
    <3>1. \A l \in Lookups : Fit(job'[l], Len(Batch[l])) /\ Counted(l)
      BY <2>2, TickCounts
    <3> QED  BY <1>4, <3>1 DEF AllFit
  <2>3. CASE UNCHANGED <<conn, job>>
    BY <2>3 DEF AllFit
  <2>4. CASE (\E n \in Changing : FactChanges(n)) \/ ClockCorrected \/ UNCHANGED vars
    <3>1. UNCHANGED <<conn, job>>
      BY <2>4 DEF FactChanges, ClockCorrected, lookup, vars
    <3> QED  BY <2>3, <3>1
  <2> QED  BY <2>1, <2>2, <2>4 DEF Next
<1> QED  BY <1>1, <1>2, <1>3, <1>5, LookupStarts, LookupGoesOn, RecentStarts, TypedStarts, TypedGoesOn,
            FitStarts, PTL DEF Spec, StepsRunOut

=============================================================================
