----------------------------- MODULE OnDemandScan -----------------------------
(***************************************************************************)
(* POST /scans and the history.  A request resolves its content (inline,   *)
(* or from a connected repository with an installation token), runs the    *)
(* engine in a pool thread under the wrapper timeout, saves the report in  *)
(* another pool thread and answers with the id of the row.  The timeout    *)
(* cannot stop a thread: the engine goes on behind the answer.  Meanwhile  *)
(* a client reads the user's history page by page.                         *)
(***************************************************************************)
EXTENDS TokenCache, FiniteSets

CONSTANTS
  Users,
  UserOf,     \* the user who sends a request
  FromRepo,   \* the requests with source = repo; the others are inline
  Threads,    \* capacity of the thread pool's limiter
  PageSize,   \* page_size of the reader
  MaxCrashes  \* bound: how often the API process dies

ASSUME RequestsOK ==
  /\ IsFiniteSet(Tasks) /\ Tasks # {}
  /\ UserOf \in [Tasks -> Users] /\ FromRepo \subseteq Tasks
  /\ Threads \in Nat \ {0} /\ PageSize \in Nat \ {0} /\ MaxCrashes \in Nat

VARIABLES
  step,       \* per request: where create_scan is
  outcome,    \* per request: the status it was answered with
  abandoned,  \* the requests whose engine runs on after their timeout
  created,    \* per request: created_at of its report, 0 while it has none
  rows,       \* table scans: a row is named after its request
  crashes,
  reader      \* a client walking through a user's history

pool == <<abandoned, created, rows>>
vars == <<tokens, step, outcome, pool, crashes, reader>>

Steps == {"new", "target", "token", "contents", "queued", "scanning", "persist",
          "saving", "respond", "done"}

Outcomes == {"none", "200", "422", "500", "502", "504", "lost"}

Readers == [at : {"idle", "walking", "ended"}, user : Users, page : Nat,
            first : SUBSET Tasks, seen : SUBSET Tasks]

TypeOK ==
  /\ TokensTypeOK
  /\ step \in [Tasks -> Steps]
  /\ outcome \in [Tasks -> Outcomes]
  /\ abandoned \subseteq Tasks
  /\ created \in [Tasks -> Nat]
  /\ rows \subseteq Tasks
  /\ crashes \in 0 .. MaxCrashes
  /\ reader \in Readers

NobodyReads == [at |-> "idle", user |-> CHOOSE u \in Users : TRUE, page |-> 0,
                first |-> {}, seen |-> {}]

Init ==
  /\ TokensInit
  /\ step = [r \in Tasks |-> "new"]
  /\ outcome = [r \in Tasks |-> "none"]
  /\ abandoned = {} /\ rows = {} /\ crashes = 0
  /\ created = [r \in Tasks |-> 0]
  /\ reader = NobodyReads

Goto(r, s) == step' = [step EXCEPT ![r] = s] /\ UNCHANGED outcome

Answer(r, status) ==
  step' = [step EXCEPT ![r] = "done"] /\ outcome' = [outcome EXCEPT ![r] = status]
----------------------------------------------------------------------------

\* _validate_request, after the session was resolved.
Receive(r) ==
  /\ step[r] = "new"
  /\ \/ Answer(r, "422")
     \/ r \in FromRepo /\ Goto(r, "target")
     \/ r \notin FromRepo /\ Goto(r, "queued")
  /\ UNCHANGED <<tokens, pool, crashes, reader>>

\* The repository with an active installation of the user's, or 422.
ResolveTarget(r) ==
  /\ step[r] = "target"
  /\ Goto(r, "token") \/ Answer(r, "422")
  /\ UNCHANGED <<tokens, pool, crashes, reader>>

ObtainToken(r) ==
  /\ step[r] = "token"
  /\ GetInstallationToken(r)
  /\ CASE holder'[r].at = "served" -> Goto(r, "contents")
       [] holder'[r].at = "failed" -> Answer(r, "422")
       [] OTHER -> UNCHANGED <<step, outcome>>
  /\ UNCHANGED <<pool, crashes, reader>>

\* fetch_manifest: the text of the file, or 422 for any other answer.
FetchManifest(r) ==
  /\ step[r] = "contents"
  /\ Use(r)
  /\ Goto(r, "queued") \/ Answer(r, "422")
  /\ UNCHANGED <<pool, crashes, reader>>

\* scan_text refuses an oversized text, an unknown ecosystem and a bad
\* configuration before it asks for a thread.
Refuse(r) ==
  /\ step[r] = "queued"
  /\ Answer(r, "422") \/ Answer(r, "502")
  /\ UNCHANGED <<tokens, pool, crashes, reader>>

\* A bug: the place is only given back when the thread ends.
MutWorking == abandoned \cup {r \in Tasks : step[r] \in {"scanning", "saving"}}

\* An abandoned engine keeps its thread, but the limiter has its place back.
Working == {r \in Tasks : step[r] \in {"scanning", "saving"}}

HasThread == Cardinality(Working) < Threads

StartEngine(r) ==
  /\ step[r] = "queued" /\ HasThread
  /\ Goto(r, "scanning")
  /\ UNCHANGED <<tokens, pool, crashes, reader>>

Latest == {x \in Tasks : \A y \in Tasks : created[y] <= created[x]}

NextStamp == 1 + created[CHOOSE x \in Latest : TRUE]

\* The engine returns a report, stamped and mapped in the same step of the event
\* loop, or raises.
EngineEnds(r) ==
  /\ step[r] = "scanning"
  /\ \/ Goto(r, "persist") /\ created' = [created EXCEPT ![r] = NextStamp]
     \/ Answer(r, "502") /\ UNCHANGED created
  /\ UNCHANGED <<tokens, abandoned, rows, crashes, reader>>

\* A bug: the wrapper answers with an error, and the report is kept when it comes.
MutLateReport(r) == rows' = rows \cup {r}

\* Nobody awaits the report of an abandoned engine.
LateReport(r) == UNCHANGED rows

AbandonedEnds(r) ==
  /\ r \in abandoned /\ abandoned' = abandoned \ {r}
  /\ LateReport(r)
  /\ UNCHANGED <<tokens, step, outcome, created, crashes, reader>>

\* asyncio.wait_for, over the wait for a thread and the run.
Timeout(r) ==
  /\ step[r] \in {"queued", "scanning"}
  /\ Answer(r, "504")
  /\ abandoned' = IF step[r] = "scanning" THEN abandoned \cup {r} ELSE abandoned
  /\ UNCHANGED <<tokens, created, rows, crashes, reader>>

StartSave(r) ==
  /\ step[r] = "persist" /\ HasThread
  /\ Goto(r, "saving")
  /\ UNCHANGED <<tokens, pool, crashes, reader>>

\* SqlScanRepository.persist: one transaction, which may fail or lose its answer.
Commit(r) ==
  /\ step[r] = "saving"
  /\ \/ rows' = rows \cup {r} /\ Goto(r, "respond")
     \/ rows' \in {rows, rows \cup {r}} /\ Answer(r, "500")
  /\ UNCHANGED <<tokens, abandoned, created, crashes, reader>>

Respond(r) ==
  /\ step[r] = "respond"
  /\ Answer(r, "200")
  /\ UNCHANGED <<tokens, pool, crashes, reader>>

Pending == {r \in Tasks : step[r] \notin {"new", "done"}}

ApiCrash ==
  /\ Pending \cup abandoned # {} /\ crashes < MaxCrashes
  /\ crashes' = crashes + 1
  /\ step' = [r \in Tasks |-> IF r \in Pending THEN "done" ELSE step[r]]
  /\ outcome' = [r \in Tasks |-> IF r \in Pending THEN "lost" ELSE outcome[r]]
  /\ holder' = [r \in Tasks |-> IF r \in Pending THEN Holding("failed", 0) ELSE holder[r]]
  /\ abandoned' = {}
  /\ UNCHANGED <<cached, created, rows, reader>>
----------------------------------------------------------------------------

\* GET /scans: the rows of the user, newest first.
HistoryOf(u) == {r \in rows : UserOf[r] = u}

Position(r, u) == Cardinality({x \in HistoryOf(u) : created[x] >= created[r]})

\* A bug: the offset counts from the next page.
MutOffset(page) == page * PageSize

Offset(page) == (page - 1) * PageSize

Page(u, page) ==
  {r \in HistoryOf(u) : Position(r, u) > Offset(page) /\ Position(r, u) <= Offset(page) + PageSize}

StartWalk(u) ==
  /\ reader.at = "idle"
  /\ reader' = [at |-> "walking", user |-> u, page |-> 1, first |-> HistoryOf(u), seen |-> {}]
  /\ UNCHANGED <<tokens, step, outcome, pool, crashes>>

\* The client asks for pages until one is not full.
ReadPage ==
  LET items == Page(reader.user, reader.page) IN
  /\ reader.at = "walking" /\ HasThread
  /\ reader' = [reader EXCEPT
       !.seen = @ \cup items,
       !.at = IF Cardinality(items) < PageSize THEN "ended" ELSE "walking",
       !.page = @ + 1]
  /\ UNCHANGED <<tokens, step, outcome, pool, crashes>>

CreateScan(r) ==
  \/ Receive(r) \/ ResolveTarget(r) \/ ObtainToken(r) \/ FetchManifest(r)
  \/ StartEngine(r) \/ StartSave(r) \/ Commit(r) \/ Respond(r)

Next ==
  \/ Tick /\ UNCHANGED <<step, outcome, pool, crashes, reader>>
  \/ \E r \in Tasks : CreateScan(r) \/ Refuse(r) \/ EngineEnds(r) \/ Timeout(r) \/ AbandonedEnds(r)
  \/ ApiCrash
  \/ \E u \in Users : StartWalk(u)
  \/ ReadPage

\* The event loop runs every handler and every timeout; the engine may hang.
Fairness == \A r \in Tasks : WF_vars(CreateScan(r)) /\ WF_vars(Timeout(r))

Spec == Init /\ [][Next]_vars /\ Fairness
----------------------------------------------------------------------------

(***************************************************************************)
(* A scan is in the history when its request was answered with it, and a   *)
(* request answered as refused, failed or timed out is never in it,        *)
(* whatever its engine finishes later.  (services/scan.py: a timeout is    *)
(* "error explícito, nunca allow")                                         *)
(***************************************************************************)
HistoryHoldsTheAnswers ==
  \A r \in Tasks :
    /\ outcome[r] = "200" => r \in rows /\ created[r] # 0
    /\ r \in rows => step[r] = "respond" \/ outcome[r] \in {"200", "500", "lost"}

(***************************************************************************)
(* A client that reads page after page until one is not full has seen      *)
(* every scan that was in the history when it began, however many are      *)
(* saved meanwhile and in whatever order.                                  *)
(***************************************************************************)
WalkMissesNothing == reader.at = "ended" => reader.first \subseteq reader.seen

(***************************************************************************)
(* Every request received is answered or lost in a crash, though engines   *)
(* may hang and scans and saves share the pool: an abandoned engine gives  *)
(* its place back.                                                         *)
(***************************************************************************)
EveryRequestEnds == \A r \in Tasks : step[r] # "new" ~> step[r] = "done"
=============================================================================
