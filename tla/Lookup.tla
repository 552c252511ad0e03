-------------------------------- MODULE Lookup --------------------------------
(***************************************************************************)
(* What is known of a batch of packages: each source (PyPI, npm, OSV, the  *)
(* watchlist, the LLM) looks into the disk cache, asks its server for the  *)
(* rest within a budget of time and retries, and caches what it learns.    *)
(* Lookups of one source run at the same time, in threads or processes     *)
(* that share the cache, while the facts at the server change.             *)
(***************************************************************************)
EXTENDS SecureHttp, DiskCache, Sequences, FiniteSets, SequencesExt

CONSTANTS
  Names,    \* normalized package names
  Invalid,  \* the names whose characters npm and OSV are not asked about
  Batch,    \* the names a lookup is for, where the source takes batches
  Corpus,   \* the key of the watchlist in the cache
  Budget,   \* timeout_total_por_dep_s, osv_timeout_total_por_lote_s, ..., in ticks
  Retries,  \* reintentos_red, osv_reintentos, llm_reintentos
  Malformed,  \* bound: the names whose entry in an answer of OSV may be malformed
  Changing,   \* bound: the names whose facts change
  Late        \* bound: a lookup that has taken this long or longer is not told apart

ASSUME LookupOK ==
  /\ Invalid \subseteq Names
  /\ Batch \in [Lookups -> Seq(Names)]
  /\ \A l \in Lookups : Batch[l] # <<>>
  /\ Writers = Lookups
  /\ Keys = Names \cup {Corpus} /\ Corpus \notin Names
  /\ Budget \in Nat \ {0} /\ Retries \in Nat /\ Late \in Nat /\ Late > Budget
  /\ Malformed \subseteq Names /\ Changing \subseteq Names

Registries == {"pypi", "npm"}
Sources == Registries \cup {"osv", "watchlist", "llm"}

\* FOUND or NOT_FOUND; CLEAN, or MALICIOUS or KNOWN_HALLUCINATION; legit or not.
Facts == {"plain", "flagged"}

Answers == UNION {[S -> Facts] : S \in SUBSET Names}

VARIABLES
  source,   \* the source of these lookups
  caching,  \* not --no-cache
  truth,    \* the server: what holds of each name
  since,    \* how long ago what does not hold of it last did, or last was on its way
            \* from the server to a lookup; up to Ages
  job,      \* per lookup: where it is
  found     \* per lookup: what it has found out of each name

lookup == <<source, caching, truth, since, job, found>>
vars == <<conn, cache, lookup>>

\* How long after that a fact may be served from the cache.
Recent == Ttl + MaxMishaps

Ages == Recent + 1

Steps == {"new", "cache", "try", "http", "sleep", "put", "write", "rename", "done", "dead"}

Jobs == [at : Steps, todo : Seq(Names), ask : Seq(Names), body : Answers,
         tried : 0 .. Retries, spent : 0 .. Late, pause : Nat]

TypeOK ==
  /\ HttpTypeOK /\ CacheTypeOK(Answers)
  /\ source \in Sources /\ caching \in BOOLEAN
  /\ truth \in [Names -> Facts]
  /\ since \in [Names -> 0 .. Ages]
  /\ job \in [Lookups -> Jobs]
  /\ found \in [Lookups -> [Names -> Facts \cup {"unknown", "unverifiable"}]]

NoBody == [n \in {} |-> "plain"]

Job(place, todo) ==
  [at |-> place, todo |-> todo, ask |-> <<>>, body |-> NoBody,
   tried |-> 0, spent |-> 0, pause |-> 0]

\* A registry and the LLM are asked one name at a time.
Batched(s) == s \in {"osv", "watchlist"}

\* The names a lookup is for.
NamesOf(l) == IF Batched(source) THEN Batch[l] ELSE <<Head(Batch[l])>>

\* No list has an invalid name: they are dropped from the watchlist's corpus.  What
\* nobody asks about is left plain.
AskedAbout == (UNION {Range(NamesOf(l)) : l \in Lookups}) \ Invalid

Init ==
  /\ HttpInit /\ CacheInit
  /\ source \in Sources /\ caching \in BOOLEAN
  /\ truth \in {t \in [Names -> Facts] : \A n \in Names : t[n] = "plain" \/ n \in AskedAbout}
  /\ since = [n \in Names |-> Ages]
  /\ job = [l \in Lookups |-> Job("new", NamesOf(l))]
  /\ found = [l \in Lookups |-> [n \in Names |-> "unknown"]]

KeyOf(n) == IF source = "watchlist" THEN Corpus ELSE n

Stay == UNCHANGED <<source, caching, truth, since>>

Move(l, place) == job' = [job EXCEPT ![l].at = place]

\* found of the names in S becomes what says tells.
Learn(l, S, says) ==
  found' = [found EXCEPT ![l] = [n \in Names |-> IF n \in S THEN says[n] ELSE @[n]]]

Asked(l) == Range(job[l].ask)

Finish(l) == job' = [job EXCEPT ![l] = Job("done", <<>>)]

GiveUp(l) ==
  /\ Learn(l, Asked(l), [n \in Names |-> "unverifiable"])
  /\ Finish(l)
----------------------------------------------------------------------------

\* npm validates before it looks into the cache, OSV after.
Looked(n) ==
  CASE source = "npm" /\ n \in Invalid -> "unverifiable"
    [] caching /\ Hit(KeyOf(n))        -> file[KeyOf(n)].says[n]
    [] source = "osv" /\ n \in Invalid -> "unverifiable"
    [] OTHER                           -> "miss"

\* One name after the other; the watchlist reads its corpus once for all.
ReadNow(l) == IF source = "watchlist" THEN job[l].todo ELSE <<Head(job[l].todo)>>

ReadCache(l) ==
  LET now == ReadNow(l)
      left == SubSeq(job[l].todo, Len(now) + 1, Len(job[l].todo))
      ask == IF Looked(Head(now)) = "miss" THEN job[l].ask \o now ELSE job[l].ask
  IN /\ job[l].at \in {"new", "cache"}
     /\ Learn(l, {n \in Range(now) : Looked(n) # "miss"}, [n \in Names |-> Looked(n)])
     /\ \/ /\ left # <<>>
           /\ job' = [job EXCEPT ![l] = [@ EXCEPT !.at = "cache", !.todo = left, !.ask = ask]]
        \/ /\ left = <<>> /\ ask # <<>>
           /\ job' = [job EXCEPT ![l] = [@ EXCEPT !.at = "try", !.todo = left, !.ask = ask]]
        \/ left = <<>> /\ ask = <<>> /\ Finish(l)
     /\ Stay /\ UNCHANGED <<conn, cache>>

\* The evaluator without its key asks nobody.
Ask(l) ==
  /\ job[l].at = "try"
  /\ \/ Open(l) /\ Move(l, "http") /\ UNCHANGED found
     \/ source = "llm" /\ GiveUp(l) /\ UNCHANGED conn
  /\ Stay /\ UNCHANGED cache

\* A registry has a page for the packages that exist and 404 for the others.
MayAnswer(l, code) ==
  source \in Registries =>
    \A n \in Asked(l) : /\ code = "200" => truth[n] = "plain"
                        /\ code = "404" => truth[n] = "flagged"

\* A bug: every pause fits.
MutFits(l, pause) == TRUE

\* 0.5 * 2**attempt seconds: one tick, then twice the one before.
Pauses[attempt \in Nat] == IF attempt = 0 THEN 1 ELSE 2 * Pauses[attempt - 1]

Backoff(l) == Pauses[job[l].tried]

\* _sleep_within_budget
Fits(l, pause) == pause <= Budget - job[l].spent

\* The watchlist asks once.
MayRetry(l) ==
  source # "watchlist" /\ job[l].tried < Retries /\ Fits(l, Backoff(l))

\* A bug: the attempts are not counted.
MutRetry(l) ==
  IF MayRetry(l)
    THEN /\ job' = [job EXCEPT ![l].at = "sleep", ![l].pause = Backoff(l), ![l].body = NoBody]
         /\ UNCHANGED found
    ELSE GiveUp(l)

Retry(l) ==
  IF MayRetry(l)
    THEN /\ job' = [job EXCEPT ![l].at = "sleep", ![l].tried = @ + 1,
                               ![l].pause = Backoff(l), ![l].body = NoBody]
         /\ UNCHANGED found
    ELSE GiveUp(l)

\* The names an answer speaks of.  A registry's page is taken as it is: what is
\* missing from it counts against the package.
SpokenByRegistry(l) == {Asked(l)}

\* OSV leaves names for another page, or returns fewer or other results.
SpokenByOsv(l) == SUBSET Asked(l)

\* The corpus is usable or not: too long, empty or of another form.
SpokenByWatchlist(l) == {Asked(l), {}}

\* The assessment is usable or an abstention.
SpokenByLlm(l) == {Asked(l), {}}

Spoken(l) ==
  CASE source \in Registries  -> SpokenByRegistry(l)
    [] source = "osv"         -> SpokenByOsv(l)
    [] source = "watchlist"   -> SpokenByWatchlist(l)
    [] source = "llm"         -> SpokenByLlm(l)

\* A bug: the results are taken in another order than the queries.
MutResultOf(l, n) ==
  LET ask == job[l].ask IN job[l].body[ask[Len(ask) + 1 - CHOOSE i \in DOMAIN ask : ask[i] = n]]

\* results[i] is the answer to queries[i].
ResultOf(l, n) ==
  LET results == [i \in DOMAIN job[l].ask |-> job[l].body[job[l].ask[i]]]
  IN results[CHOOSE i \in DOMAIN job[l].ask : job[l].ask[i] = n]

\* _result_for_entry: an entry that is no object, or whose vulns are no list, is
\* CLEAN.
Broken(l) == IF source = "osv" THEN SUBSET (Malformed \cap Asked(l)) ELSE {{}}

EntryOf(l, n, broken) == IF n \in broken THEN "plain" ELSE ResultOf(l, n)

Unspoken == "unverifiable"

Take(l, says, S) ==
  /\ Learn(l, Asked(l), [n \in Names |-> IF n \in S THEN says[n] ELSE Unspoken])
  /\ IF ~caching THEN Finish(l)
     ELSE job' = [job EXCEPT ![l] =
       IF source = "watchlist" THEN [Job("put", <<Head(job[l].ask)>>) EXCEPT !.body = job[l].body]
                               ELSE Job("put", job[l].ask)]

Digest(l, result) ==
  CASE result = "json" ->
         \E S \in Spoken(l), broken \in Broken(l) :
           Take(l, [n \in Names |-> IF n \in S THEN EntryOf(l, n, broken) ELSE "plain"], S)
    [] result = "404" /\ source \in Registries ->
         Take(l, [n \in Names |-> "flagged"], Asked(l))
    [] result = "transient" -> Retry(l)
    [] OTHER -> GiveUp(l)

\* What the server says is what holds when it answers.
Answer(l, code, result) ==
  /\ StatusLine(l, code, result)
  /\ MayAnswer(l, code)
  /\ IF result = "none" THEN job' = [job EXCEPT ![l].body = truth] /\ UNCHANGED found
                        ELSE Digest(l, result)

Receive(l) ==
  /\ job[l].at = "http"
  /\ \E result \in Results \cup {"none"} :
       \/ \E code \in Codes : Answer(l, code, result)
       \/ /\ \/ OpeningGoesOn(l, result) \/ Chunk(l, result)
             \/ BodyEnds(l, result) \/ SocketFails(l, result)
          /\ IF result = "none" THEN UNCHANGED <<job, found>> ELSE Digest(l, result)
  /\ Stay /\ UNCHANGED cache

\* The deadline is looked at before an attempt. A registry's next one begins in
\* the cache again.
Wake(l) ==
  /\ job[l].at = "sleep" /\ job[l].pause = 0
  /\ IF job[l].spent >= Budget THEN GiveUp(l)
     ELSE /\ UNCHANGED found
          /\ job' = [job EXCEPT ![l] =
               IF source \in Registries
                 THEN [@ EXCEPT !.at = "cache", !.todo = job[l].ask, !.ask = <<>>]
                 ELSE [@ EXCEPT !.at = "try"]]
  /\ Stay /\ UNCHANGED <<conn, cache>>

\* put, put_blob: one file per name, and one for the corpus.
PutKey(l) == KeyOf(Head(job[l].todo))

PutAnswer(l) ==
  IF source = "watchlist" THEN job[l].body
  ELSE [n \in {Head(job[l].todo)} |-> found[l][n]]

NextPut(l) ==
  IF Len(job[l].todo) = 1 THEN Finish(l)
  ELSE job' = [job EXCEPT ![l].at = "put", ![l].todo = Tail(@)]

\* A bug: an UNVERIFIABLE is cached like any other answer.
MutCacheable(l) == TRUE

\* Only what is definite is cached.
Cacheable(l) == found[l][Head(job[l].todo)] # "unverifiable"

Put(l) ==
  /\ \/ job[l].at = "put" /\ Cacheable(l) /\ CreateTemp(l) /\ Move(l, "write")
     \/ job[l].at = "put" /\ ~Cacheable(l) /\ NextPut(l) /\ UNCHANGED cache
     \/ job[l].at = "write" /\ WriteTemp(l, PutAnswer(l)) /\ Move(l, "rename")
     \/ job[l].at = "rename" /\ Replace(l, PutKey(l)) /\ NextPut(l)
     \/ /\ job[l].at \in {"put", "write", "rename"} /\ (job[l].at = "put" => Cacheable(l))
        /\ WriteFails(l) /\ NextPut(l)
  /\ Stay /\ UNCHANGED <<conn, found>>

Step(l) == ReadCache(l) \/ Ask(l) \/ Receive(l) \/ Wake(l) \/ Put(l)

Die(l) ==
  /\ job[l].at \notin {"done", "dead"}
  /\ Mishap
  /\ job' = [job EXCEPT ![l] = Job("dead", <<>>)]
  /\ Close(l)
  /\ Stay /\ UNCHANGED <<file, temp, setback, found>>
----------------------------------------------------------------------------

\* Lookups begin at any time. They compute and use the disk in no time: the
\* entries of a batch are stamped in the tick it was answered in.
Waits(l) ==
  \/ job[l].at \in {"new", "http", "done", "dead"}
  \/ job[l].at = "sleep" /\ job[l].pause > 0

\* Bound: the world stands still once the last lookup is over.
Pending == \E l \in Lookups : job[l].at \notin {"done", "dead"}

\* A lookup is still reading that n was as it is no more.
OnItsWay(n) ==
  \E l \in Lookups : /\ conn[l].at = "reading"
                     /\ n \in DOMAIN job[l].body /\ job[l].body[n] # truth[n]

Tick ==
  /\ Pending
  /\ SocketsCanWait /\ \A l \in Lookups : Waits(l)
  /\ SocketsWait /\ EntriesAge
  /\ since' = [n \in Names |-> IF OnItsWay(n) THEN 0
                              ELSE IF since[n] < Ages THEN since[n] + 1 ELSE Ages]
  /\ job' = [l \in Lookups |->
       CASE job[l].at = "http" ->
              [job[l] EXCEPT !.spent = IF @ < Late THEN @ + 1 ELSE Late]
         [] job[l].at = "sleep" -> [job[l] EXCEPT !.spent = @ + 1, !.pause = @ - 1]
         [] OTHER -> job[l]]
  /\ UNCHANGED <<source, caching, truth, found>>

\* A package or an advisory is published or withdrawn.
FactChanges(n) ==
  /\ Pending
  /\ truth' = [truth EXCEPT ![n] = IF @ = "plain" THEN "flagged" ELSE "plain"]
  /\ since' = [since EXCEPT ![n] = 0]
  /\ UNCHANGED <<conn, cache, source, caching, job, found>>

ClockCorrected == Pending /\ SetClockBack /\ UNCHANGED <<conn, lookup>>

Next ==
  \/ \E l \in Lookups : Step(l) \/ Die(l)
  \/ Tick
  \/ \E n \in Changing : FactChanges(n)
  \/ ClockCorrected

Spec == Init /\ [][Next]_vars
----------------------------------------------------------------------------

(***************************************************************************)
(* A definite answer is true, or was until a short while before the last   *)
(* moment that it was on its way from the server: the time to live of an   *)
(* entry, and what the clock was set back.  Whatever fails, retries,       *)
(* overlaps or is cached, nothing else is ever told of a package, but that *)
(* one whose entry in OSV's answer is malformed is clean.  (http_client:   *)
(* "jamas un falso CLEAN"; _result_for_entry: "`entry` no-dict [...] ⇒     *)
(* CLEAN")                                                                 *)
(***************************************************************************)
AnswersAreRecent ==
  [][\A l \in Lookups, n \in Names :
       found'[l][n] # found[l][n] /\ found'[l][n] # "unverifiable" =>
         \/ found'[l][n] = truth[n] \/ since[n] <= Recent
         \/ source = "osv" /\ n \in Malformed /\ found'[l][n] = "plain"]_found

(***************************************************************************)
(* Every attempt begins, and every pause ends, within the budget: a lookup *)
(* is past it only inside a request that it began in time.                 *)
(* (concurrent.py: the budget "acota la SECUENCIA de intentos+esperas")    *)
(***************************************************************************)
BegunInTime ==
  \A l \in Lookups :
    /\ job[l].at \in {"new", "cache", "try"} => job[l].spent < Budget
    /\ job[l].spent + job[l].pause > Budget => job[l].at = "http"

(***************************************************************************)
(* concurrent.py: "Limite DURO por dependencia = deadline + a lo sumo un   *)
(* round-trip ya en vuelo", which takes at most the timeout of the socket. *)
(***************************************************************************)
HardLimit == \A l \in Lookups : job[l].spent <= Budget + Timeout

(***************************************************************************)
(* Only a process that died leaves a temporary file behind.                *)
(* (_write_temp_then_replace: "no dejar temporales huerfanos")             *)
(***************************************************************************)
OnlyDeathLeavesTemps ==
  \A l \in Lookups : temp[l] # NoEntry => job[l].at \in {"write", "rename", "dead"}

\* What an attempt can still do: look each name up, make its request, and begin again
\* after a pause.
RoundLeft(l) ==
  CASE job[l].at \in {"new", "cache"} -> 2 + Len(job[l].todo)
    [] job[l].at = "try"   -> 2
    [] job[l].at = "http"  -> 1
    [] job[l].at = "sleep" -> 3 + Len(job[l].ask)

Round(l) == 3 + Len(Batch[l])

StepsLeft(l) ==
  CASE job[l].at \in {"done", "dead"} -> 0
    [] job[l].at = "put"              -> 3 * Len(job[l].todo)
    [] job[l].at = "write"            -> 3 * Len(job[l].todo) - 1
    [] job[l].at = "rename"           -> 3 * Len(job[l].todo) - 2
    [] OTHER -> 3 * Len(Batch[l]) + (Retries - job[l].tried) * Round(l) + RoundLeft(l)

(***************************************************************************)
(* Outside of its requests every step of a lookup uses up one of a number  *)
(* of steps that is fixed by its batch and the retries, but for the ticks  *)
(* of a pause: whatever the server answers and however fast it does, a     *)
(* lookup makes at most Retries + 1 attempts and does not go round in no   *)
(* time.  A request itself takes as many steps as the server makes it.     *)
(***************************************************************************)
StepsRunOut ==
  [][\A l \in Lookups :
       \/ job'[l] = job[l] /\ conn'[l] = conn[l]
       \/ StepsLeft(l)' < StepsLeft(l)
       \/ /\ StepsLeft(l)' = StepsLeft(l)
          /\ \/ job[l].at = "http" /\ job'[l].at = "http"
             \/ /\ job[l].at = "sleep" /\ job'[l].at = "sleep"
                /\ job'[l].pause = job[l].pause - 1]_<<conn, job>>
=============================================================================
