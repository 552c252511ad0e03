---------------------------- MODULE PrScanWorker ----------------------------
(***************************************************************************)
(* The asynchronous scan of a pull request: the webhook that enqueues it,  *)
(* the Arq queue that delivers it at least once, and the handler           *)
(* process_pr_scan, which lists the diff, scans every manifest, persists   *)
(* the worst report and publishes a Check Run and a comment.  Handlers run *)
(* concurrently and every await is a step of its own.  Postgres (READ      *)
(* COMMITTED, the default the session factory keeps) and GitHub are the    *)
(* two stores they share.                                                  *)
(***************************************************************************)
EXTENDS Naturals, Sequences, FiniteSets, FiniteSetsExt

CONSTANTS
  Deliveries,   \* webhook deliveries; two with the same head are a redelivery
  PRs,          \* pull requests of the installation's repositories
  Shas,         \* head commits
  Manifests,    \* supported manifest paths
  PrOf,         \* [Deliveries -> PRs]
  ShaOf,        \* [Deliveries -> Shas]
  Pages,        \* per head: the pages of the PR's diff, each with its supported
                \* manifests; all of them full but the last
  ScanVerdicts, \* what a scanned manifest may come back as, a subset of Verdicts
  MaxPages,     \* _MAX_PAGES
  MaxManifests, \* _MAX_MANIFESTS_PER_PR
  MaxTries,     \* Arq's max_tries
  MaxCrashes,   \* bound: how often the worker process dies
  Faults,       \* which failures of the environment may happen
  NoRow,        \* "no such row", "no such check", "no such comment"
  NoReport

(***************************************************************************)
(* A ScanDTO is abstracted to what _dto_rank tells apart: its worst        *)
(* dependency, or "error" for an error report of the engine, whose summary *)
(* is all zeros.                                                           *)
(***************************************************************************)
Verdicts == {"allow", "warn", "block", "unverifiable", "error"}

(* A manifest's outcome: its verdict, or "failed" when dto is None.        *)
Outcomes == Verdicts \union {"failed"}

FaultKinds == {"enqueue", "inactive", "token", "diff", "cut", "scan", "find", "raise"}

ASSUME ParametersOK ==
  /\ PrOf \in [Deliveries -> PRs]
  /\ ShaOf \in [Deliveries -> Shas]
  /\ Pages \in [Shas -> Seq(SUBSET Manifests)]
  /\ MaxPages \in Nat \ {0}
  /\ ScanVerdicts \subseteq Verdicts
  /\ MaxManifests \in Nat \ {0}
  /\ MaxTries \in Nat \ {0}
  /\ MaxCrashes \in Nat
  /\ Faults \subseteq FaultKinds

Reports == [manifest : Manifests, verdict : Verdicts]

ASSUME SentinelsOK == NoReport \notin Reports

VARIABLES
  heads,    \* GitHub: the current head of each PR
  pushed,   \* GitHub: every head each PR has had
  active,   \* resolve_pr_target finds an active installation with the repo
  crashes,  \* how often the worker has died
  pc,       \* per delivery: its job's place in the queue or in process_pr_scan
  tries,    \* per delivery: Arq's job_try
  listing,  \* per job: how many pages list_pr_files has read, and what they list
  outcome,  \* per job: outcomes, a function of the manifests
  report,   \* per job: the report _persist_worst chose
  found,    \* per job: the row, check or comment the last lookup returned
  victims,  \* per job: the scan_results its DELETE sees
  rows,     \* table scans
  results,  \* table scan_results
  checks,   \* GitHub: Check Runs named SlopGuard
  comments  \* GitHub: PR comments that carry COMMENT_MARKER

github == <<heads, pushed>>
locals == <<listing, outcome, report, found, victims>>
tables == <<rows, results>>
board  == <<checks, comments>>
vars == <<heads, pushed, active, crashes, pc, tries, listing, outcome, report, found,
          victims, rows, results, checks, comments>>

-----------------------------------------------------------------------------
(* The verdict of a pull request.                                          *)

DtoRank(v) ==
  CASE v = "block" -> 3
    [] v = "warn" -> 2
    [] v \in {"unverifiable", "error"} -> 1
    [] v = "allow" -> 0

OutcomeRank(o) == IF o = "failed" THEN 1 ELSE DtoRank(o)

Listed(out) == {m \in Manifests : out[m] # "unlisted"}

MutScannableWithFailed(out) == Listed(out)

MutScannableFindingsOnly(out) == {m \in Listed(out) : out[m] \notin {"failed", "allow"}}

Scannable(out) == {m \in Listed(out) : out[m] # "failed"}

WorstRank(out) == Max({OutcomeRank(out[m]) : m \in Listed(out)})

RankToConclusion(rank) ==
  IF rank >= 3 THEN "failure" ELSE IF rank = 0 THEN "success" ELSE "neutral"

(* A PR without supported manifests gets a neutral check.                  *)
Conclusion(out) ==
  IF Listed(out) = {} THEN "neutral" ELSE RankToConclusion(WorstRank(out))

(* max(scannable, key=_outcome_rank): one of the scanned manifests of      *)
(* highest rank.                                                           *)
WorstReports(out) ==
  {[manifest |-> m, verdict |-> out[m]] : m \in
     {w \in Scannable(out) :
        \A m \in Scannable(out) : OutcomeRank(out[m]) <= OutcomeRank(out[w])}}

-----------------------------------------------------------------------------
Running == {"resolve", "token", "diff", "scan", "insert", "update", "commit",
            "findCheck", "writeCheck", "findComment", "writeComment"}

Places == Running \union {"absent", "lost", "queued", "done", "failed"}

Attempts == Deliveries \X (1 .. MaxTries)

Attempt(d) == <<d, tries[d]>>

NoListing == [pages |-> 0, paths |-> {}]

Unlisted == [m \in Manifests |-> "unlisted"]

Rows == [id : Attempts, pr : PRs, sha : Shas, report : Reports]

Checks == [id : Attempts, sha : Shas, conclusion : {"success", "neutral", "failure"},
           summary : [Manifests -> Outcomes \union {"unlisted"}]]

(* sha: the head whose outcomes the comment's body lists.                  *)
Comments == [id : Attempts, pr : PRs, sha : Shas,
             conclusion : {"success", "neutral", "failure"}]

Init ==
  /\ heads \in [PRs -> Shas]
  /\ pushed = [p \in PRs |-> {heads[p]}]
  /\ active = TRUE
  /\ crashes = 0
  /\ pc = [d \in Deliveries |-> "absent"]
  /\ tries = [d \in Deliveries |-> 0]
  /\ listing = [d \in Deliveries |-> NoListing]
  /\ outcome = [d \in Deliveries |-> Unlisted]
  /\ report = [d \in Deliveries |-> NoReport]
  /\ found = [d \in Deliveries |-> NoRow]
  /\ victims = [d \in Deliveries |-> {}]
  /\ rows = {} /\ results = {} /\ checks = {} /\ comments = {}

Goto(d, place) == pc' = [pc EXCEPT ![d] = place]

Fault(kind) == kind \in Faults

(* The handler returns or raises: its locals are gone.                     *)
Leave(d, place) ==
  /\ Goto(d, place)
  /\ listing' = [listing EXCEPT ![d] = NoListing]
  /\ outcome' = [outcome EXCEPT ![d] = Unlisted]
  /\ report' = [report EXCEPT ![d] = NoReport]
  /\ found' = [found EXCEPT ![d] = NoRow]
  /\ victims' = [victims EXCEPT ![d] = {}]

-----------------------------------------------------------------------------
(* The environment: pushes, the installation's status, deliveries.         *)

Push(p, s) ==
  /\ s \notin pushed[p]
  /\ heads' = [heads EXCEPT ![p] = s]
  /\ pushed' = [pushed EXCEPT ![p] = @ \union {s}]
  /\ UNCHANGED <<active, crashes, pc, tries, locals, tables, board>>

(* Webhooks of the installation revoke, suspend or reactivate it.          *)
ToggleInstallation ==
  /\ Fault("inactive")
  /\ active' = ~active
  /\ UNCHANGED <<github, crashes, pc, tries, locals, tables, board>>

(* A pull_request delivery for a head the PR has had, on time or late.  A  *)
(* failure of the queue is logged and acknowledged all the same.           *)
HandlePullRequest(d) ==
  /\ pc[d] = "absent"
  /\ ShaOf[d] \in pushed[PrOf[d]]
  /\ \/ Goto(d, "queued")
     \/ Fault("enqueue") /\ Goto(d, "lost")
  /\ UNCHANGED <<github, active, crashes, tries, locals, tables, board>>

(* Arq starts a queued job, or gives it up after max_tries.                *)
StartJob(d) ==
  /\ pc[d] = "queued"
  /\ \/ /\ tries[d] < MaxTries
        /\ tries' = [tries EXCEPT ![d] = @ + 1]
        /\ Goto(d, "resolve")
     \/ /\ tries[d] = MaxTries
        /\ Goto(d, "failed")
        /\ UNCHANGED tries
  /\ UNCHANGED <<github, active, crashes, locals, tables, board>>

(* The worker process dies: open transactions roll back and Arq delivers   *)
(* every unfinished job again.                                             *)
Crash ==
  /\ crashes < MaxCrashes
  /\ \E d \in Deliveries : pc[d] \in Running
  /\ crashes' = crashes + 1
  /\ pc' = [d \in Deliveries |-> IF pc[d] \in Running THEN "queued" ELSE pc[d]]
  /\ listing' = [d \in Deliveries |-> NoListing]
  /\ outcome' = [d \in Deliveries |-> Unlisted]
  /\ report' = [d \in Deliveries |-> NoReport]
  /\ found' = [d \in Deliveries |-> NoRow]
  /\ victims' = [d \in Deliveries |-> {}]
  /\ UNCHANGED <<github, active, tries, tables, board>>

(* PrApiError while publishing, a database error, or Arq's job_timeout:    *)
(* the job fails, Arq does not retry it, and an open transaction rolls     *)
(* back.  A request whose effect is lost is this step at the write; one    *)
(* whose answer is lost is the write and then this step.                   *)
JobFails(d) ==
  /\ Fault("raise")
  /\ pc[d] \in Running
  /\ Leave(d, "failed")
  /\ UNCHANGED <<github, active, crashes, tries, tables, board>>

-----------------------------------------------------------------------------
(* process_pr_scan up to the list of outcomes.                             *)

ResolveTarget(d) ==
  /\ pc[d] = "resolve"
  /\ Goto(d, IF active THEN "token" ELSE "done")
  /\ UNCHANGED <<github, active, crashes, tries, locals, tables, board>>

GetToken(d) ==
  /\ pc[d] = "token"
  /\ \/ Goto(d, "diff")
     \/ Fault("token") /\ Goto(d, "done")
  /\ UNCHANGED <<github, active, crashes, tries, locals, tables, board>>

(* The manifests past the limit get dto=None in _scan_manifests: the model *)
(* decides here which ones those are.                                      *)
Overflowing(listed) ==
  {over \in SUBSET listed :
     IF Cardinality(listed) > MaxManifests
     THEN Cardinality(listed \ over) = MaxManifests
     ELSE over = {}}

MutOverflowDropped(listed, over) ==
  [m \in Manifests |->
     IF m \notin listed \/ m \in over THEN "unlisted" ELSE "pending"]

OutcomesWithOverflow(listed, over) ==
  [m \in Manifests |->
     IF m \notin listed THEN "unlisted" ELSE IF m \in over THEN "failed" ELSE "pending"]

(* list_pr_files asks for one page after the other.  Each is a page of the *)
(* diff as it is then, whatever head the job is for; past its end it is    *)
(* empty.                                                                  *)
Page(s, i) == IF i \in DOMAIN Pages[s] THEN Pages[s][i] ELSE {}

PageAsked(d) == listing[d].pages + 1

Gathered(d) == listing[d].paths \union Page(heads[PrOf[d]], PageAsked(d))

(* The loop ends at its last page, or at one that is not full.             *)
LastPage(d) ==
  PageAsked(d) = MaxPages \/ PageAsked(d) >= Len(Pages[heads[PrOf[d]]])

ReadPage(d) ==
  /\ pc[d] = "diff"
  /\ ~LastPage(d)
  /\ listing' = [listing EXCEPT ![d] = [pages |-> PageAsked(d), paths |-> Gathered(d)]]
  /\ UNCHANGED <<github, active, crashes, pc, tries, outcome, report, found, victims,
                 tables, board>>

HandOver(d, listed) ==
  /\ \E over \in Overflowing(listed) :
       outcome' = [outcome EXCEPT ![d] = OutcomesWithOverflow(listed, over)]
  /\ Goto(d, IF listed = {} THEN "findCheck" ELSE "scan")

(* A 200 that is not a list ends the loop with what was gathered before it *)
(* ("cut"); any other status than 200 ends the job ("diff").               *)
ListFiles(d) ==
  /\ pc[d] = "diff"
  /\ \/ LastPage(d) /\ HandOver(d, Gathered(d))
     \/ Fault("cut") /\ HandOver(d, listing[d].paths)
     \/ Fault("diff") /\ Goto(d, "done") /\ UNCHANGED outcome
  /\ listing' = [listing EXCEPT ![d] = NoListing]
  /\ UNCHANGED <<github, active, crashes, tries, report, found, victims, tables, board>>

ScanManifest(d, m) ==
  /\ pc[d] = "scan"
  /\ outcome[d][m] = "pending"
  /\ \E o \in ScanVerdicts \union (IF Fault("scan") THEN {"failed"} ELSE {}) :
       outcome' = [outcome EXCEPT ![d][m] = o]
  /\ UNCHANGED <<github, active, crashes, pc, tries, listing, report, found, victims, tables, board>>

-----------------------------------------------------------------------------
(* _persist_worst: find the row of this head, then insert or update it, in *)
(* one transaction.                                                        *)

Scanned(d) == pc[d] = "scan" /\ \A m \in Manifests : outcome[d][m] # "pending"

RowsOf(d) == {r \in rows : r.pr = PrOf[d] /\ r.sha = ShaOf[d]}

MutSkipPersistOfErrors(d) ==
  /\ Scanned(d)
  /\ \A m \in Scannable(outcome[d]) : outcome[d][m] = "error"
  /\ Goto(d, "findCheck")
  /\ UNCHANGED <<github, active, crashes, tries, locals, tables, board>>

(* Without a scanned manifest nothing is persisted.                        *)
SkipPersist(d) ==
  /\ Scanned(d)
  /\ Scannable(outcome[d]) = {}
  /\ Goto(d, "findCheck")
  /\ UNCHANGED <<github, active, crashes, tries, locals, tables, board>>

MutAlwaysInsert(d) ==
  /\ Scanned(d)
  /\ \E worst \in WorstReports(outcome[d]) : report' = [report EXCEPT ![d] = worst]
  /\ Goto(d, "insert")
  /\ UNCHANGED <<github, active, crashes, tries, listing, outcome, found, victims, tables, board>>

FindExistingPrScan(d) ==
  /\ Scanned(d)
  /\ \E worst \in WorstReports(outcome[d]) : report' = [report EXCEPT ![d] = worst]
  /\ \/ /\ RowsOf(d) = {}
        /\ Goto(d, "insert")
        /\ UNCHANGED found
     \/ \E r \in RowsOf(d) :
          /\ found' = [found EXCEPT ![d] = r]
          /\ Goto(d, "update")
  /\ UNCHANGED <<github, active, crashes, tries, listing, outcome, victims, tables, board>>

MutNoUniqueIndex(d) == FALSE

(* The index uq_scans_pr_idempotency refuses a second row for a head.      *)
UniqueViolation(d) == RowsOf(d) # {}

InsertScan(d) ==
  /\ pc[d] = "insert"
  /\ \/ /\ ~UniqueViolation(d)
        /\ rows' = rows \union {[id |-> Attempt(d), pr |-> PrOf[d], sha |-> ShaOf[d],
                                 report |-> report[d]]}
        /\ results' = results \union {[scan |-> Attempt(d), by |-> Attempt(d)]}
        /\ Goto(d, "findCheck")
        /\ UNCHANGED locals
     \/ /\ UniqueViolation(d)
        /\ Leave(d, "failed")
        /\ UNCHANGED tables
  /\ UNCHANGED <<github, active, crashes, tries, board>>

(* The ORM emits an UPDATE of the row only when a column changes: an       *)
(* identical report takes no lock on the row.                              *)
Differs(d) == report[d] # found[d].report

RowLocked(d) ==
  \E e \in Deliveries \ {d} :
    pc[e] = "commit" /\ found[e].id = found[d].id /\ Differs(e)

(* UPDATE and DELETE: the DELETE sees the results committed by now.  One   *)
(* that waits for a concurrent DELETE of the same results then finds them  *)
(* gone, and does not see the ones inserted in their place.                *)
ReplaceResults(d) ==
  /\ pc[d] = "update"
  /\ Differs(d) => ~RowLocked(d)
  /\ victims' = [victims EXCEPT ![d] = {x \in results : x.scan = found[d].id}]
  /\ Goto(d, "commit")
  /\ UNCHANGED <<github, active, crashes, tries, listing, outcome, report, found, tables, board>>

Updated(r, d) ==
  IF r.id = found[d].id /\ Differs(d) THEN [r EXCEPT !.report = report[d]] ELSE r

CommitUpdate(d) ==
  /\ pc[d] = "commit"
  /\ rows' = {Updated(r, d) : r \in rows}
  /\ results' = (results \ victims[d]) \union {[scan |-> found[d].id, by |-> Attempt(d)]}
  /\ found' = [found EXCEPT ![d] = NoRow]
  /\ victims' = [victims EXCEPT ![d] = {}]
  /\ Goto(d, "findCheck")
  /\ UNCHANGED <<github, active, crashes, tries, listing, outcome, report, board>>

-----------------------------------------------------------------------------
(* Publication: look for an earlier check or comment, then POST or PATCH.  *)

(* A lookup that answers anything but 200 counts as "there is none".       *)
Lookup(d, items, next) ==
  /\ \/ (items = {} \/ Fault("find")) /\ found' = [found EXCEPT ![d] = NoRow]
     \/ \E c \in items : found' = [found EXCEPT ![d] = c]
  /\ Goto(d, next)
  /\ UNCHANGED <<github, active, crashes, tries, listing, outcome, report, victims, tables, board>>

(* POST a new item, or PATCH the one that was found.                       *)
Upsert(items, old, new) ==
  IF old = NoRow THEN items \union {new}
  ELSE {c \in items : c.id # old.id} \union {[new EXCEPT !.id = old.id]}

FindCheckRun(d) ==
  /\ pc[d] = "findCheck"
  /\ Lookup(d, {c \in checks : c.sha = ShaOf[d]}, "writeCheck")

(* The output of the check holds a line per manifest: its summary.         *)
CheckRun(d) ==
  [id |-> Attempt(d), sha |-> ShaOf[d], conclusion |-> Conclusion(outcome[d]),
   summary |-> outcome[d]]

WriteCheckRun(d) ==
  /\ pc[d] = "writeCheck"
  /\ checks' = Upsert(checks, found[d], CheckRun(d))
  /\ IF Listed(outcome[d]) = {}
     THEN Leave(d, "done")
     ELSE /\ found' = [found EXCEPT ![d] = NoRow]
          /\ Goto(d, "findComment")
          /\ UNCHANGED <<listing, outcome, report, victims>>
  /\ UNCHANGED <<github, active, crashes, tries, tables, comments>>

FindComment(d) ==
  /\ pc[d] = "findComment"
  /\ Lookup(d, {c \in comments : c.pr = PrOf[d]}, "writeComment")

WriteComment(d) ==
  /\ pc[d] = "writeComment"
  /\ comments' = Upsert(comments, found[d],
                        [id |-> Attempt(d), pr |-> PrOf[d], sha |-> ShaOf[d],
                         conclusion |-> Conclusion(outcome[d])])
  /\ Leave(d, "done")
  /\ UNCHANGED <<github, active, crashes, tries, tables, checks>>

-----------------------------------------------------------------------------
Persist(d) ==
  \/ SkipPersist(d) \/ FindExistingPrScan(d) \/ InsertScan(d)
  \/ ReplaceResults(d) \/ CommitUpdate(d)

Publish(d) ==
  \/ FindCheckRun(d) \/ WriteCheckRun(d) \/ FindComment(d) \/ WriteComment(d)

(* One step of process_pr_scan.                                            *)
Process(d) ==
  \/ ResolveTarget(d) \/ GetToken(d) \/ ReadPage(d) \/ ListFiles(d)
  \/ \E m \in Manifests : ScanManifest(d, m)
  \/ Persist(d) \/ Publish(d)

Next ==
  \/ \E p \in PRs, s \in Shas : Push(p, s)
  \/ ToggleInstallation
  \/ Crash
  \/ \E d \in Deliveries : HandlePullRequest(d) \/ StartJob(d) \/ Process(d) \/ JobFails(d)

Spec == Init /\ [][Next]_vars

(* The event loop keeps running every job, and Arq starts every queued one.*)
Fairness == \A d \in Deliveries : WF_vars(StartJob(d)) /\ WF_vars(Process(d))

FairSpec == Spec /\ Fairness

-----------------------------------------------------------------------------
TypeOK ==
  /\ heads \in [PRs -> Shas]
  /\ pushed \in [PRs -> SUBSET Shas]
  /\ active \in BOOLEAN
  /\ crashes \in 0 .. MaxCrashes
  /\ pc \in [Deliveries -> Places]
  /\ tries \in [Deliveries -> 0 .. MaxTries]
  /\ listing \in [Deliveries -> [pages : 0 .. MaxPages - 1, paths : SUBSET Manifests]]
  /\ outcome \in [Deliveries -> [Manifests -> Outcomes \union {"unlisted", "pending"}]]
  /\ report \in [Deliveries -> Reports \union {NoReport}]
  /\ found \in [Deliveries -> Rows \union Checks \union Comments \union {NoRow}]
  /\ victims \in [Deliveries -> SUBSET [scan : Attempts, by : Attempts]]
  /\ rows \subseteq Rows
  /\ results \subseteq [scan : Attempts, by : Attempts]
  /\ checks \subseteq Checks
  /\ comments \subseteq Comments

(* A head has at most one scan, however many jobs for it overlap, crash    *)
(* and run again (the docstring of process_pr_scan: "UPSERT por el índice  *)
(* único parcial").                                                        *)
OneScanPerHead ==
  \A r, q \in rows : r.pr = q.pr /\ r.sha = q.sha => r = q

Pushed == UNION {pushed[p] : p \in PRs}

(* What the first k pages list when page i is read of the diff of head[i]. *)
FirstPages(head, k) == UNION {Page(head[i], i) : i \in 1 .. k}

(* The pages of diffs the PR has had, from the first one on: up to the end *)
(* of a diff or the last page that is asked for, unless one was no list.   *)
ReadInPages(listed) ==
  \E k \in 0 .. MaxPages : \E head \in [1 .. k -> Pushed] :
    /\ listed = FirstPages(head, k)
    /\ \/ k = MaxPages
       \/ k > 0 /\ k >= Len(Pages[head[k]])
       \/ Fault("cut")

(* Fail-closed as far as the list goes: a green check covers every page    *)
(* that was read of the diff, none left out, and every manifest on them    *)
(* was scanned and came back clean.  An overflowing, unreadable or failed  *)
(* manifest never ends up under a green check, however the pages, other    *)
(* jobs, pushes and crashes interleave.                                    *)
GreenCheckIsEarned ==
  \A c \in checks : c.conclusion = "success" =>
    /\ ReadInPages(Listed(c.summary))
    /\ \A m \in Listed(c.summary) : c.summary[m] = "allow"

(* What GitHub shows is never ahead of the history: the check of a run     *)
(* that scanned anything follows its row, and a comment follows the check  *)
(* of its head, through every crash and failure between the steps.         *)
PublishedAfterPersisted ==
  /\ \A c \in checks : Scannable(c.summary) # {} => \E r \in rows : r.sha = c.sha
  /\ \A k \in comments : \E c \in checks : c.sha = k.sha

(* ADR-2: a job survives restarts.  If the worker dies less often than Arq *)
(* retries and nothing ends a job by itself, every queued PR whose         *)
(* installation stays active ends up with a check on its head, whatever    *)
(* lookups fail and wherever the listing of the diff breaks off.           *)
QueuedJobGetsItsCheck ==
  \A d \in Deliveries :
    pc[d] = "queued" /\ []active ~> \E c \in checks : c.sha = ShaOf[d]

(* R6.6 and upsert_comment: "crea o edita [...] no duplica".               *)
OneCommentPerPr ==
  \A c, k \in comments : c.pr = k.pr => c = k

(* _update_pr_scan: the new report's results replace the old ones.         *)
ResultsOfOneReport ==
  \A x, y \in results : x.scan = y.scan => x = y

(* process_pr_scan's module: a manifest that cannot be read or scanned     *)
(* counts as UNVERIFIABLE, never as clean.  A run whose check is not green *)
(* does not leave a clean scan in the history.                             *)
HistoryNotCleanerThanCheck ==
  \A r \in rows, c \in checks :
    r.id = c.id /\ r.report.verdict = "allow" => c.conclusion = "success"

(* The worker implements PrGuarantee: the ledger is the table of scans and *)
(* the board is what the Check Runs of each commit conclude.               *)
LedgerEntry(head) ==
  LET here == {r \in rows : <<r.pr, r.sha>> = head}
  IN  IF here = {} THEN NoReport ELSE (CHOOSE r \in here : TRUE).report

Guarantee == INSTANCE PrGuarantee WITH
  ledger <- [head \in PRs \X Shas |-> LedgerEntry(head)],
  board <- [s \in Shas |-> {c.conclusion : c \in {k \in checks : k.sha = s}}]

GuaranteeSpec == Guarantee!Spec

=============================================================================
