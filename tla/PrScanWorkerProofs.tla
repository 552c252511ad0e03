------------------------- MODULE PrScanWorkerProofs -------------------------
(***************************************************************************)
(* Safety of the pull request worker for every set of deliveries, heads    *)
(* and manifests, every diff, and any number of tries and crashes.         *)
(***************************************************************************)
EXTENDS PrScanWorker, TLAPS

(* The places after the last manifest was scanned, and those after the     *)
(* transaction of _persist_worst.                                          *)
Publishing == {"findCheck", "writeCheck", "findComment", "writeComment"}

Judged == {"insert", "update", "commit"} \union Publishing

-----------------------------------------------------------------------------
(* What a job's locals hold at each place.  TypeOK alone is not inductive: *)
(* found ranges over rows, checks and comments, and only the place tells   *)
(* which of them it is.                                                    *)

JobStarted == \A d \in Deliveries : pc[d] \in Running => tries[d] # 0

Settled ==
  \A d \in Deliveries : pc[d] # "scan" => \A m \in Manifests : outcome[d][m] # "pending"

ReportChosen ==
  \A d \in Deliveries : pc[d] \in {"insert", "update", "commit"} => report[d] \in Reports

FoundIsItem ==
  \A d \in Deliveries :
    /\ pc[d] \in {"update", "commit"} => found[d] \in Rows
    /\ pc[d] = "writeCheck" => found[d] \in Checks \union {NoRow}
    /\ pc[d] = "writeComment" => found[d] \in Comments \union {NoRow}

TypeInv == TypeOK /\ JobStarted /\ Settled /\ ReportChosen /\ FoundIsItem

(* Where a verdict comes from: a job that lists manifests got the list     *)
(* page by page from diffs the PR has had.                                 *)
HeadsArePushed == \A p \in PRs : heads[p] \in pushed[p]

PagesRead(k, paths, S) ==
  \E head \in [1 .. k -> S] : paths = FirstPages(head, k)

ListingIsRead ==
  \A d \in Deliveries :
    /\ pc[d] # "diff" => listing[d] = NoListing
    /\ PagesRead(listing[d].pages, listing[d].paths, Pushed)

ListEnds(k, s) == k = MaxPages \/ (k > 0 /\ k >= Len(Pages[s])) \/ Fault("cut")

(* ReadInPages with the heads the PR has had as a parameter.               *)
ListRead(listed, S) ==
  \E k \in 0 .. MaxPages : \E head \in [1 .. k -> S] :
    /\ listed = FirstPages(head, k)
    /\ ListEnds(k, head[k])

ListedIsRead ==
  \A d \in Deliveries :
    pc[d] \in {"scan"} \union Judged => ListRead(Listed(outcome[d]), Pushed)

GreenInv == HeadsArePushed /\ ListingIsRead /\ ListedIsRead /\ GreenCheckIsEarned

(* Who stands behind what is published.                                    *)
ChecksOfTheirHead == \A c \in checks : c.sha = ShaOf[c.id[1]]

FoundOfTheirHead ==
  \A d \in Deliveries : pc[d] = "writeCheck" /\ found[d] # NoRow =>
    found[d].sha = ShaOf[d] /\ ShaOf[found[d].id[1]] = ShaOf[d]

RowBehindJob ==
  \A d \in Deliveries :
    \/ pc[d] \in {"update", "commit"}
    \/ pc[d] \in Publishing /\ Scannable(outcome[d]) # {}
    => \E r \in rows : r.sha = ShaOf[d]

CheckBehindComment ==
  \A d \in Deliveries :
    pc[d] \in {"findComment", "writeComment"} => \E c \in checks : c.sha = ShaOf[d]

PublishInv ==
  /\ ChecksOfTheirHead /\ FoundOfTheirHead /\ RowBehindJob /\ CheckBehindComment
  /\ PublishedAfterPersisted

-----------------------------------------------------------------------------
(* Every verdict of a manifest ranks 0 to 3, and the worst rank is the     *)
(* rank of a listed manifest, at least that of each of them.               *)
LEMMA WorstRankIsWorst ==
  ASSUME NEW out \in [Manifests -> Outcomes \union {"unlisted"}],
         Listed(out) # {}
  PROVE  /\ WorstRank(out) \in 0 .. 3
         /\ \A m \in Listed(out) : OutcomeRank(out[m]) <= WorstRank(out)
<1> DEFINE S == {OutcomeRank(out[m]) : m \in Listed(out)}
<1>1. \A m \in Listed(out) : out[m] \in Outcomes
  BY DEF Listed
<1>2. \A o \in Outcomes : OutcomeRank(o) \in 0 .. 3
  BY DEF Outcomes, Verdicts, OutcomeRank, DtoRank
<1>3. S \subseteq 0 .. 3 /\ S # {}
  BY <1>1, <1>2
<1>4. \E x \in S : \A y \in S : x >= y
  <2>1. CASE 3 \in S
    BY <2>1, <1>3
  <2>2. CASE 3 \notin S /\ 2 \in S
    BY <2>2, <1>3
  <2>3. CASE 3 \notin S /\ 2 \notin S /\ 1 \in S
    BY <2>3, <1>3
  <2>4. CASE 3 \notin S /\ 2 \notin S /\ 1 \notin S
    BY <2>4, <1>3
  <2> QED
    BY <2>1, <2>2, <2>3, <2>4
<1>5. Max(S) \in S /\ \A y \in S : Max(S) >= y
  BY <1>4 DEF Max
<1>6. WorstRank(out) = Max(S)
  BY DEF WorstRank
<1> HIDE DEF S
<1>7. \A m \in Listed(out) : OutcomeRank(out[m]) \in S
  BY DEF S
<1> QED
  BY <1>3, <1>5, <1>6, <1>7

(* A conclusion is one of three, and a green one means that a manifest is  *)
(* listed and that all of them came back clean.                            *)
LEMMA GreenConclusion ==
  ASSUME NEW out \in [Manifests -> Outcomes \union {"unlisted"}]
  PROVE  /\ Conclusion(out) \in {"success", "neutral", "failure"}
         /\ Conclusion(out) = "success" => \A m \in Listed(out) : out[m] = "allow"
<1>1. Conclusion(out) \in {"success", "neutral", "failure"}
  BY DEF Conclusion, RankToConclusion
<1>2. ASSUME Conclusion(out) = "success", NEW m \in Listed(out)
      PROVE  out[m] = "allow"
  <2>1. WorstRank(out) = 0
    BY <1>2, WorstRankIsWorst DEF Conclusion, RankToConclusion
  <2>2. OutcomeRank(out[m]) <= 0 /\ out[m] \in Outcomes
    BY <2>1, <1>2, WorstRankIsWorst DEF Listed
  <2> QED
    BY <2>2 DEF Outcomes, Verdicts, OutcomeRank, DtoRank
<1> QED
  BY <1>1, <1>2

(* The report that is persisted is one of the reports of the scan.         *)
LEMMA WorstReportsAreReports ==
  ASSUME NEW out \in [Manifests -> Outcomes \union {"unlisted"}]
  PROVE  WorstReports(out) \subseteq Reports
  BY DEF WorstReports, Scannable, Listed, Outcomes, Reports

(* Writing a check or a comment keeps the others and adds one.             *)
LEMMA UpsertKeepsType ==
  ASSUME NEW T, NEW items \in SUBSET T, NEW old, NEW new \in T,
         old # NoRow => [new EXCEPT !.id = old.id] \in T
  PROVE  Upsert(items, old, new) \in SUBSET T
  BY DEF Upsert

(* A page lists manifests. *)
LEMMA PagesListManifests ==
  ASSUME TypeInv, NEW d \in Deliveries
  PROVE  \A i : Page(heads[PrOf[d]], i) \subseteq Manifests
<1>1. heads[PrOf[d]] \in Shas
  BY ParametersOK DEF TypeInv, TypeOK
<1>2. Pages[heads[PrOf[d]]] \in Seq(SUBSET Manifests)
  BY <1>1, ParametersOK
<1> QED
  BY <1>2 DEF Page

-----------------------------------------------------------------------------
(* Init establishes the type invariant. *)
LEMMA TypeInit == Init => TypeInv
<1> SUFFICES ASSUME Init PROVE TypeInv
  OBVIOUS
<1> USE ParametersOK DEF Init
<1>1. TypeOK
  BY DEF TypeOK, Places, Unlisted, NoListing
<1>2. JobStarted /\ Settled /\ ReportChosen /\ FoundIsItem
  BY DEF JobStarted, Settled, ReportChosen, FoundIsItem, Running, Unlisted
<1> QED
  BY <1>1, <1>2 DEF TypeInv

LEMMA LeaveKeepsTypes ==
  ASSUME NEW d \in Deliveries, NEW place \in {"done", "failed"}, TypeInv, Leave(d, place),
         UNCHANGED <<heads, pushed, active, crashes, tries>>,
         rows' \subseteq Rows,
         results' \subseteq [scan : Attempts, by : Attempts],
         checks' \subseteq Checks, comments' \subseteq Comments
  PROVE  TypeInv'
<1> USE DEF TypeInv, Leave, Goto
<1>1. TypeOK'
  BY ParametersOK DEF TypeOK, Places, Unlisted, NoListing
<1>2. JobStarted' /\ Settled' /\ ReportChosen' /\ FoundIsItem'
  BY DEF TypeOK, JobStarted, Settled, ReportChosen, FoundIsItem, Running, Unlisted
<1> QED
  BY <1>1, <1>2

LEMMA TypeEnvironment ==
  ASSUME TypeInv,
         \/ \E p \in PRs, s \in Shas : Push(p, s)
         \/ ToggleInstallation
         \/ Crash
         \/ \E d \in Deliveries : HandlePullRequest(d) \/ StartJob(d) \/ JobFails(d)
         \/ \E d \in Deliveries : ResolveTarget(d) \/ GetToken(d)
  PROVE  TypeInv'
<1> USE ParametersOK DEF TypeInv, github, locals, tables, board
<1>1. ASSUME NEW p \in PRs, NEW s \in Shas, Push(p, s) PROVE TypeInv'
  BY <1>1 DEF Push, TypeOK, JobStarted, Settled, ReportChosen, FoundIsItem
<1>2. CASE ToggleInstallation
  BY <1>2 DEF ToggleInstallation, TypeOK, JobStarted, Settled, ReportChosen, FoundIsItem
<1>3. CASE Crash
  <2>1. TypeOK'
    BY <1>3 DEF Crash, TypeOK, Places, Running, Unlisted, NoListing
  <2>2. JobStarted' /\ Settled' /\ ReportChosen' /\ FoundIsItem'
    BY <1>3 DEF Crash, TypeOK, JobStarted, Settled, ReportChosen, FoundIsItem, Running, Unlisted
  <2> QED
    BY <2>1, <2>2
<1>4. ASSUME NEW d \in Deliveries, HandlePullRequest(d) PROVE TypeInv'
  BY <1>4 DEF HandlePullRequest, Goto, TypeOK, Places, Running, JobStarted, Settled, ReportChosen, FoundIsItem
<1>5. ASSUME NEW d \in Deliveries, StartJob(d) PROVE TypeInv'
  <2>1. CASE tries[d] < MaxTries
    <3>1. pc' = [pc EXCEPT ![d] = "resolve"] /\ tries' = [tries EXCEPT ![d] = tries[d] + 1]
      BY <1>5, <2>1 DEF StartJob, Goto, TypeOK
    <3>2. tries[d] + 1 \in 1 .. MaxTries
      BY <2>1 DEF TypeOK
    <3>3. TypeOK'
      BY <1>5, <3>1, <3>2 DEF StartJob, TypeOK, Places, Running
    <3>4. JobStarted' /\ Settled' /\ ReportChosen' /\ FoundIsItem'
      BY <1>5, <3>1, <3>2 DEF StartJob, TypeOK, JobStarted, Settled, ReportChosen, FoundIsItem
    <3> QED
      BY <3>3, <3>4
  <2>2. CASE ~(tries[d] < MaxTries)
    <3>1. pc' = [pc EXCEPT ![d] = "failed"] /\ tries' = tries
      BY <1>5, <2>2 DEF StartJob, Goto
    <3> QED
      BY <1>5, <3>1 DEF StartJob, TypeOK, Places, Running, JobStarted, Settled,
           ReportChosen, FoundIsItem
  <2> QED
    BY <2>1, <2>2
<1>6. ASSUME NEW d \in Deliveries, JobFails(d) PROVE TypeInv'
  BY <1>6, LeaveKeepsTypes DEF JobFails, TypeOK
<1>7. ASSUME NEW d \in Deliveries, ResolveTarget(d) PROVE TypeInv'
  BY <1>7 DEF ResolveTarget, Goto, TypeOK, Places, Running, JobStarted, Settled, ReportChosen, FoundIsItem
<1>8. ASSUME NEW d \in Deliveries, GetToken(d) PROVE TypeInv'
  <2>1. TypeOK'
    BY <1>8 DEF GetToken, Goto, TypeOK, Places, Running
  <2>2. JobStarted' /\ Settled'
    BY <1>8 DEF GetToken, Goto, TypeOK, Running, JobStarted, Settled
  <2>3. ReportChosen' /\ FoundIsItem'
    BY <1>8 DEF GetToken, Goto, TypeOK, ReportChosen, FoundIsItem
  <2> QED
    BY <2>1, <2>2, <2>3
<1> QED
  BY <1>1, <1>2, <1>3, <1>4, <1>5, <1>6, <1>7, <1>8

(* A job past its scan has an outcome for every listed manifest.           *)
LEMMA ScannedOutcomes ==
  ASSUME TypeInv, NEW d \in Deliveries, pc[d] # "scan" \/ Scanned(d)
  PROVE  outcome[d] \in [Manifests -> Outcomes \union {"unlisted"}]
  BY DEF TypeInv, TypeOK, Settled, Scanned

(* The attempt a running job carries out identifies what it writes.        *)
LEMMA AttemptOfRunningJob ==
  ASSUME TypeInv, NEW d \in Deliveries, pc[d] \in Running
  PROVE  Attempt(d) \in Attempts
  BY ParametersOK DEF TypeInv, TypeOK, JobStarted, Attempt, Attempts

LEMMA TypeScan ==
  ASSUME TypeInv, NEW d \in Deliveries,
         ReadPage(d) \/ ListFiles(d) \/ \E m \in Manifests : ScanManifest(d, m)
  PROVE  TypeInv'
<1> USE ParametersOK DEF TypeInv, github, locals, tables, board
<1>1. CASE ListFiles(d)
  <2>1. \A listed, over : OutcomesWithOverflow(listed, over)
                            \in [Manifests -> Outcomes \union {"unlisted", "pending"}]
    BY DEF OutcomesWithOverflow, Outcomes
  <2>2. \A listed, over : listed = {} =>
          \A m \in Manifests : OutcomesWithOverflow(listed, over)[m] # "pending"
    BY DEF OutcomesWithOverflow
  <2>3. PICK listed : HandOver(d, listed) \/ (Goto(d, "done") /\ UNCHANGED outcome)
    BY <1>1 DEF ListFiles
  <2>4. \E out \in [Manifests -> Outcomes \union {"unlisted", "pending"}] :
          outcome' = [outcome EXCEPT ![d] = out]
    <3>1. CASE UNCHANGED outcome
      <4>1. outcome' = [outcome EXCEPT ![d] = outcome[d]]
        BY <3>1 DEF TypeOK
      <4> QED
        BY <4>1 DEF TypeOK
    <3>2. CASE \E over : outcome' = [outcome EXCEPT ![d] = OutcomesWithOverflow(listed, over)]
      BY <3>2, <2>1
    <3> QED
      BY <2>3, <3>1, <3>2 DEF HandOver
  <2>5. TypeOK'
    <3>1. pc' \in [Deliveries -> Places]
      BY <2>3 DEF HandOver, Goto, TypeOK, Places, Running
    <3>2. outcome' \in [Deliveries -> [Manifests -> Outcomes \union {"unlisted", "pending"}]]
      BY <2>4 DEF TypeOK
    <3>3. listing' \in [Deliveries -> [pages : 0 .. MaxPages - 1, paths : SUBSET Manifests]]
      BY <1>1 DEF ListFiles, TypeOK, NoListing
    <3> QED
      BY <1>1, <3>1, <3>2, <3>3 DEF ListFiles, TypeOK
  <2>6. JobStarted' /\ ReportChosen' /\ FoundIsItem'
    BY <1>1, <2>3 DEF ListFiles, HandOver, Goto, TypeOK, Running, JobStarted, ReportChosen,
         FoundIsItem
  <2>7. Settled'
    <3>1. \A e \in Deliveries \ {d} : pc'[e] = pc[e] /\ outcome'[e] = outcome[e]
      BY <2>3, <2>4 DEF HandOver, Goto, TypeOK
    <3>2. pc'[d] # "scan" => \A m \in Manifests : outcome'[d][m] # "pending"
      <4>1. CASE UNCHANGED outcome
        BY <1>1, <4>1 DEF ListFiles, TypeOK, Settled
      <4>2. CASE HandOver(d, listed)
        <5>1. PICK over : outcome' = [outcome EXCEPT ![d] = OutcomesWithOverflow(listed, over)]
          BY <4>2 DEF HandOver
        <5>2. outcome'[d] = OutcomesWithOverflow(listed, over)
          BY <5>1 DEF TypeOK
        <5>3. pc'[d] # "scan" => listed = {}
          BY <4>2 DEF HandOver, Goto, TypeOK
        <5> QED
          BY <2>2, <5>2, <5>3
      <4> QED
        BY <2>3, <4>1, <4>2
    <3> QED
      BY <3>1, <3>2 DEF Settled
  <2> QED
    BY <2>5, <2>6, <2>7
<1>2. ASSUME NEW m \in Manifests, ScanManifest(d, m) PROVE TypeInv'
  BY <1>2 DEF ScanManifest, TypeOK, Outcomes, JobStarted, Settled, ReportChosen, FoundIsItem
<1>3. CASE ReadPage(d)
  <2>1. Gathered(d) \subseteq Manifests /\ PageAsked(d) \in 0 .. MaxPages - 1
    <3>1. listing[d].pages \in 0 .. MaxPages - 1 /\ listing[d].paths \subseteq Manifests
      BY DEF TypeOK
    <3>2. listing[d].pages + 1 # MaxPages
      BY <1>3 DEF ReadPage, LastPage, PageAsked
    <3>3. Page(heads[PrOf[d]], PageAsked(d)) \subseteq Manifests
      BY PagesListManifests
    <3>4. Gathered(d) \subseteq Manifests
      BY <3>1, <3>3 DEF Gathered
    <3>5. PageAsked(d) \in 0 .. MaxPages - 1
      BY <3>1, <3>2 DEF PageAsked
    <3> QED
      BY <3>4, <3>5
  <2>2. listing' \in [Deliveries -> [pages : 0 .. MaxPages - 1, paths : SUBSET Manifests]]
    BY <1>3, <2>1 DEF ReadPage, TypeOK
  <2>3. TypeOK'
    BY <1>3, <2>2 DEF ReadPage, TypeOK
  <2> QED
    BY <1>3, <2>3 DEF ReadPage, JobStarted, Settled, ReportChosen, FoundIsItem
<1> QED
  BY <1>1, <1>2, <1>3

LEMMA TypePersist ==
  ASSUME TypeInv, NEW d \in Deliveries, Persist(d)
  PROVE  TypeInv'
<1> USE ParametersOK DEF github, locals, tables, board
<1>1. CASE SkipPersist(d)
  BY <1>1 DEF TypeInv, SkipPersist, Scanned, Goto, TypeOK, Places, Running, JobStarted,
       Settled, ReportChosen, FoundIsItem
<1>2. CASE FindExistingPrScan(d)
  <2>1. WorstReports(outcome[d]) \subseteq Reports
    BY <1>2, ScannedOutcomes, WorstReportsAreReports DEF FindExistingPrScan
  <2>2. RowsOf(d) \subseteq Rows
    BY DEF RowsOf, TypeInv, TypeOK
  <2>3. PICK worst \in Reports : report' = [report EXCEPT ![d] = worst]
    BY <1>2, <2>1 DEF FindExistingPrScan
  <2>4. TypeOK'
    BY <1>2, <2>2, <2>3 DEF TypeInv, FindExistingPrScan, Goto, TypeOK, Places, Running
  <2>5. JobStarted' /\ Settled'
    BY <1>2 DEF TypeInv, FindExistingPrScan, Scanned, Goto, TypeOK, Running, JobStarted, Settled
  <2>6. ReportChosen' /\ FoundIsItem'
    BY <1>2, <2>2, <2>3
       DEF TypeInv, FindExistingPrScan, Goto, TypeOK, ReportChosen, FoundIsItem
  <2> QED
    BY <2>4, <2>5, <2>6 DEF TypeInv
<1>3. CASE InsertScan(d)
  <2>1. Attempt(d) \in Attempts
    BY <1>3, AttemptOfRunningJob DEF InsertScan, Running
  <2>2. [id |-> Attempt(d), pr |-> PrOf[d], sha |-> ShaOf[d], report |-> report[d]] \in Rows
    BY <1>3, <2>1 DEF InsertScan, Rows, TypeInv, ReportChosen
  <2>3. CASE UniqueViolation(d)
    BY <1>3, <2>3, LeaveKeepsTypes DEF InsertScan, TypeInv, TypeOK
  <2>4. CASE ~UniqueViolation(d)
    <3>1. TypeOK'
      <4>1. /\ pc' \in [Deliveries -> Places]
            /\ rows' \subseteq Rows
            /\ results' \subseteq [scan : Attempts, by : Attempts]
        <5>1. pc' \in [Deliveries -> Places]
          BY <1>3, <2>4 DEF InsertScan, Goto, TypeInv, TypeOK, Places, Running
        <5> QED
          BY <1>3, <2>1, <2>2, <2>4, <5>1 DEF InsertScan, TypeInv, TypeOK
      <4> QED
        BY <1>3, <2>4, <4>1 DEF InsertScan, TypeInv, TypeOK
    <3>2. JobStarted' /\ Settled' /\ ReportChosen' /\ FoundIsItem'
      BY <1>3, <2>4 DEF InsertScan, Goto, TypeInv, TypeOK, Running, JobStarted, Settled,
           ReportChosen, FoundIsItem
    <3> QED
      BY <3>1, <3>2 DEF TypeInv
  <2> QED
    BY <2>3, <2>4
<1>4. CASE ReplaceResults(d)
  BY <1>4 DEF TypeInv, ReplaceResults, Goto, TypeOK, Places, Running, JobStarted,
       Settled, ReportChosen, FoundIsItem
<1>5. CASE CommitUpdate(d)
  <2>1. Attempt(d) \in Attempts /\ found[d].id \in Attempts
    BY <1>5, AttemptOfRunningJob DEF CommitUpdate, Running, TypeInv, FoundIsItem, Rows
  <2>2. \A r \in rows : Updated(r, d) \in Rows
    <3>1. report[d] \in Reports
      BY <1>5 DEF CommitUpdate, TypeInv, ReportChosen
    <3>2. \A r \in Rows : [r EXCEPT !.report = report[d]] \in Rows
      BY <3>1 DEF Rows
    <3> QED
      BY <3>2 DEF Updated, TypeInv, TypeOK
  <2> QED
    BY <1>5, <2>1, <2>2 DEF CommitUpdate, Goto, TypeInv, TypeOK, Places, Running,
         JobStarted, Settled, ReportChosen, FoundIsItem
<1> QED
  BY <1>1, <1>2, <1>3, <1>4, <1>5 DEF Persist

LEMMA TypePublish ==
  ASSUME TypeInv, NEW d \in Deliveries, Publish(d)
  PROVE  TypeInv'
<1> USE ParametersOK DEF github, locals, tables, board
<1>1. CASE FindCheckRun(d)
  BY <1>1 DEF TypeInv, FindCheckRun, Lookup, Goto, TypeOK, Places, Running, JobStarted,
       Settled, ReportChosen, FoundIsItem
<1>2. CASE FindComment(d)
  BY <1>2 DEF TypeInv, FindComment, Lookup, Goto, TypeOK, Places, Running, JobStarted,
       Settled, ReportChosen, FoundIsItem
<1>3. CASE WriteCheckRun(d)
  <2>1. outcome[d] \in [Manifests -> Outcomes \union {"unlisted"}]
    BY <1>3, ScannedOutcomes DEF WriteCheckRun
  <2>2. CheckRun(d) \in Checks
    BY <1>3, <2>1, AttemptOfRunningJob, GreenConclusion
       DEF CheckRun, Checks, WriteCheckRun, Running
  <2>3. found[d] # NoRow => [CheckRun(d) EXCEPT !.id = found[d].id] \in Checks
    BY <1>3, <2>2 DEF WriteCheckRun, TypeInv, FoundIsItem, Checks
  <2>4. checks' \subseteq Checks
    BY <1>3, <2>2, <2>3, UpsertKeepsType DEF WriteCheckRun, TypeInv, TypeOK
  <2>5. CASE Listed(outcome[d]) = {}
    BY <1>3, <2>4, <2>5, LeaveKeepsTypes DEF WriteCheckRun, TypeInv, TypeOK
  <2>6. CASE Listed(outcome[d]) # {}
    BY <1>3, <2>4, <2>6 DEF WriteCheckRun, Goto, TypeInv, TypeOK, Places, Running,
         JobStarted, Settled, ReportChosen, FoundIsItem
  <2> QED
    BY <2>5, <2>6
<1>4. CASE WriteComment(d)
  <2> DEFINE new == [id |-> Attempt(d), pr |-> PrOf[d], sha |-> ShaOf[d],
                     conclusion |-> Conclusion(outcome[d])]
  <2>1. outcome[d] \in [Manifests -> Outcomes \union {"unlisted"}]
    BY <1>4, ScannedOutcomes DEF WriteComment
  <2>2. new \in Comments
    BY <1>4, <2>1, AttemptOfRunningJob, GreenConclusion DEF Comments, WriteComment, Running
  <2>3. found[d] # NoRow => [new EXCEPT !.id = found[d].id] \in Comments
    BY <1>4, <2>2 DEF WriteComment, TypeInv, FoundIsItem, Comments
  <2>4. comments' = Upsert(comments, found[d], new)
    BY <1>4 DEF WriteComment
  <2> HIDE DEF new
  <2>5. comments' \subseteq Comments
    BY <2>2, <2>3, <2>4, UpsertKeepsType DEF TypeInv, TypeOK
  <2> QED
    BY <1>4, <2>5, LeaveKeepsTypes DEF WriteComment, TypeInv, TypeOK
<1> QED
  BY <1>1, <1>2, <1>3, <1>4 DEF Publish

LEMMA TypeStep == TypeInv /\ [Next]_vars => TypeInv'
<1> SUFFICES ASSUME TypeInv, [Next]_vars PROVE TypeInv'
  OBVIOUS
<1>1. CASE Next
  BY <1>1, TypeEnvironment, TypeScan, TypePersist, TypePublish DEF Next, Process
<1>2. CASE UNCHANGED vars
  BY <1>2 DEF vars, TypeInv, TypeOK, JobStarted, Settled, ReportChosen, FoundIsItem
<1> QED
  BY <1>1, <1>2

LEMMA TypeInvariant == Spec => []TypeInv
  BY TypeInit, TypeStep, PTL DEF Spec

(* The state of the worker, its jobs' locals, the two tables and GitHub's  *)
(* board always has its type; no job is started more than MaxTries times.  *)
THEOREM TypeCorrect == Spec => []TypeOK
<1>1. TypeInv => TypeOK
  BY DEF TypeInv
<1> QED
  BY <1>1, TypeInvariant, PTL

-----------------------------------------------------------------------------
(* Only the two transactions of _persist_worst touch the table of scans.   *)
LEMMA WhoWritesRows ==
  ASSUME [Next]_vars, rows' # rows
  PROVE  \E d \in Deliveries : InsertScan(d) \/ CommitUpdate(d)
  BY DEF Next, vars, Process, Persist, Publish, Push, ToggleInstallation, Crash,
     HandlePullRequest, StartJob, JobFails, ResolveTarget, GetToken, ReadPage, ListFiles, ScanManifest,
     SkipPersist, FindExistingPrScan, ReplaceResults, FindCheckRun, FindComment, Lookup,
     WriteCheckRun, WriteComment, tables

(* An update rewrites the report of a row, never what identifies it.       *)
LEMMA UpdatedKeepsHead ==
  ASSUME TypeInv, NEW d \in Deliveries, NEW r \in rows
  PROVE  Updated(r, d).id = r.id /\ Updated(r, d).pr = r.pr /\ Updated(r, d).sha = r.sha
  BY DEF TypeInv, TypeOK, Rows, Updated

LEMMA OneScanStep == TypeInv /\ OneScanPerHead /\ [Next]_vars => OneScanPerHead'
<1> SUFFICES ASSUME TypeInv, OneScanPerHead, [Next]_vars PROVE OneScanPerHead'
  OBVIOUS
<1>1. CASE rows' = rows
  BY <1>1 DEF OneScanPerHead
<1>2. ASSUME NEW d \in Deliveries, InsertScan(d) PROVE OneScanPerHead'
  <2>1. CASE UniqueViolation(d)
    BY <1>2, <2>1 DEF InsertScan, OneScanPerHead, tables
  <2>2. CASE ~UniqueViolation(d)
    <3> DEFINE new == [id |-> Attempt(d), pr |-> PrOf[d], sha |-> ShaOf[d],
                       report |-> report[d]]
    <3>1. rows' = rows \union {new}
      BY <1>2, <2>2 DEF InsertScan
    <3>2. \A r \in rows : ~(r.pr = new.pr /\ r.sha = new.sha)
      BY <2>2 DEF UniqueViolation, RowsOf
    <3> QED
      BY <3>1, <3>2 DEF OneScanPerHead
  <2> QED
    BY <2>1, <2>2
<1>3. ASSUME NEW d \in Deliveries, CommitUpdate(d) PROVE OneScanPerHead'
  <2> SUFFICES ASSUME NEW r \in rows', NEW q \in rows', r.pr = q.pr, r.sha = q.sha
               PROVE  r = q
    BY DEF OneScanPerHead
  <2>1. PICK r0 \in rows : r = Updated(r0, d)
    BY <1>3 DEF CommitUpdate
  <2>2. PICK q0 \in rows : q = Updated(q0, d)
    BY <1>3 DEF CommitUpdate
  <2>3. r0.pr = q0.pr /\ r0.sha = q0.sha
    BY <2>1, <2>2, UpdatedKeepsHead
  <2> QED
    BY <2>1, <2>2, <2>3 DEF OneScanPerHead
<1> QED
  BY <1>1, <1>2, <1>3, WhoWritesRows

(* However many jobs for a head overlap, fail or run again after a crash,  *)
(* the unique index leaves it with at most one scan.                       *)
THEOREM OneScan == Spec => []OneScanPerHead
<1>1. Init => OneScanPerHead
  BY DEF Init, OneScanPerHead
<1> QED
  BY <1>1, OneScanStep, TypeInvariant, PTL DEF Spec

-----------------------------------------------------------------------------
(* Heads the PR has had stay known, so a diff once seen stays accounted    *)
(* for.                                                                    *)
LEMMA PushedGrows ==
  ASSUME TypeInv, [Next]_vars
  PROVE  Pushed \subseteq Pushed'
<1>1. CASE pushed' = pushed
  BY <1>1 DEF Pushed
<1>2. ASSUME NEW p \in PRs, NEW s \in Shas, Push(p, s) PROVE Pushed \subseteq Pushed'
  BY <1>2 DEF Push, Pushed, TypeInv, TypeOK
<1>3. pushed' = pushed \/ \E p \in PRs, s \in Shas : Push(p, s)
  BY DEF Next, vars, Process, Persist, Publish, ToggleInstallation, Crash, github,
     HandlePullRequest, StartJob, JobFails, ResolveTarget, GetToken, ReadPage, ListFiles, ScanManifest,
     SkipPersist, FindExistingPrScan, InsertScan, CommitUpdate, ReplaceResults, FindCheckRun,
     FindComment, Lookup, WriteCheckRun, WriteComment
<1> QED
  BY <1>1, <1>2, <1>3

LEMMA HeadsStep == TypeInv /\ HeadsArePushed /\ [Next]_vars => HeadsArePushed'
<1> SUFFICES ASSUME TypeInv, HeadsArePushed, [Next]_vars PROVE HeadsArePushed'
  OBVIOUS
<1>1. CASE UNCHANGED github
  BY <1>1 DEF github, HeadsArePushed
<1>2. ASSUME NEW p \in PRs, NEW s \in Shas, Push(p, s) PROVE HeadsArePushed'
  BY <1>2 DEF Push, HeadsArePushed, TypeInv, TypeOK
<1>3. UNCHANGED github \/ \E p \in PRs, s \in Shas : Push(p, s)
  BY DEF Next, vars, Process, Persist, Publish, ToggleInstallation, Crash, github,
     HandlePullRequest, StartJob, JobFails, ResolveTarget, GetToken, ReadPage, ListFiles, ScanManifest,
     SkipPersist, FindExistingPrScan, InsertScan, CommitUpdate, ReplaceResults, FindCheckRun,
     FindComment, Lookup, WriteCheckRun, WriteComment
<1> QED
  BY <1>1, <1>2, <1>3

(* What was read stays read, and pages add up.                             *)
LEMMA ReadingGrows ==
  ASSUME NEW S, NEW T, S \subseteq T, NEW k, NEW paths
  PROVE  /\ PagesRead(k, paths, S) => PagesRead(k, paths, T)
         /\ ListRead(paths, S) => ListRead(paths, T)
<1>1. \A n : [1 .. n -> S] \subseteq [1 .. n -> T]
  OBVIOUS
<1> QED
  BY <1>1 DEF PagesRead, ListRead

PagesReadUpTo(k, paths, S, s) ==
  \E head \in [1 .. k -> S] : paths = FirstPages(head, k) /\ head[k] = s

LEMMA NextPageRead ==
  ASSUME NEW S, NEW k \in Nat, NEW paths, PagesRead(k, paths, S), NEW s \in S
  PROVE  PagesReadUpTo(k + 1, paths \union Page(s, k + 1), S, s)
<1>1. PICK before \in [1 .. k -> S] : paths = FirstPages(before, k)
  BY DEF PagesRead
<1> DEFINE head == [i \in 1 .. k + 1 |-> IF i = k + 1 THEN s ELSE before[i]]
<1>2. head \in [1 .. k + 1 -> S] /\ head[k + 1] = s
  OBVIOUS
<1>3. \A i \in 1 .. k : head[i] = before[i] /\ i \in 1 .. k + 1
  OBVIOUS
<1>4. 1 .. k + 1 = (1 .. k) \union {k + 1}
  OBVIOUS
<1> HIDE DEF head
<1>5. {Page(head[i], i) : i \in 1 .. k + 1}
        = {Page(before[i], i) : i \in 1 .. k} \union {Page(s, k + 1)}
  BY <1>2, <1>3, <1>4
<1>6. FirstPages(head, k + 1) = paths \union Page(s, k + 1)
  BY <1>1, <1>5 DEF FirstPages
<1> QED
  BY <1>2, <1>6 DEF PagesReadUpTo

(* The list a job hands over was read to where list_pr_files ends it.      *)
LEMMA HandedOverIsRead ==
  ASSUME TypeInv, HeadsArePushed, ListingIsRead, NEW d \in Deliveries, ListFiles(d)
  PROVE  \/ \E listed \in SUBSET Manifests : HandOver(d, listed) /\ ListRead(listed, Pushed)
         \/ Goto(d, "done")
<1> DEFINE k == listing[d].pages
           s == heads[PrOf[d]]
<1>1. k \in Nat /\ k + 1 \in 0 .. MaxPages /\ listing[d].paths \subseteq Manifests
  BY ParametersOK DEF TypeInv, TypeOK
<1>2. s \in Pushed
  BY ParametersOK DEF HeadsArePushed, Pushed
<1>3. PagesRead(k, listing[d].paths, Pushed)
  BY DEF ListingIsRead
<1>4. CASE LastPage(d) /\ HandOver(d, Gathered(d))
  <2> HIDE DEF k, s
  <2>1. PICK head \in [1 .. k + 1 -> Pushed] :
          /\ listing[d].paths \union Page(s, k + 1) = FirstPages(head, k + 1)
          /\ head[k + 1] = s
    <3>1. PagesReadUpTo(k + 1, listing[d].paths \union Page(s, k + 1), Pushed, s)
      BY <1>1, <1>2, <1>3, NextPageRead
    <3> QED
      BY <3>1 DEF PagesReadUpTo
  <2>2. ListEnds(k + 1, head[k + 1])
    <3>1. k + 1 = MaxPages \/ k + 1 >= Len(Pages[s])
      BY <1>4 DEF LastPage, PageAsked, k, s
    <3>2. k + 1 > 0
      BY <1>1
    <3> QED
      BY <2>1, <3>1, <3>2 DEF ListEnds
  <2>3. Gathered(d) = listing[d].paths \union Page(s, k + 1)
    BY DEF Gathered, PageAsked, k, s
  <2>4. ListRead(Gathered(d), Pushed)
    BY <1>1, <2>1, <2>2, <2>3 DEF ListRead
  <2>5. Page(s, k + 1) \subseteq Manifests
    BY PagesListManifests DEF s
  <2> QED
    BY <1>1, <1>4, <2>3, <2>4, <2>5
<1>5. CASE Fault("cut") /\ HandOver(d, listing[d].paths)
  <2>1. ListRead(listing[d].paths, Pushed)
    <3>1. PICK head \in [1 .. k -> Pushed] : listing[d].paths = FirstPages(head, k)
      BY <1>3 DEF PagesRead
    <3>2. ListEnds(k, head[k]) /\ k \in 0 .. MaxPages
      BY <1>1, <1>5, ParametersOK DEF ListEnds, Fault
    <3> QED
      BY <3>1, <3>2 DEF ListRead
  <2> QED
    BY <1>1, <1>5, <2>1
<1> QED
  BY <1>4, <1>5 DEF ListFiles

(* A step takes no job into the places that hold a list, other than by     *)
(* listing a diff, and no step of a scan changes which manifests are       *)
(* listed.                                                                 *)
LEMMA HowListsArise ==
  ASSUME TypeInv, HeadsArePushed, ListingIsRead, [Next]_vars, NEW d \in Deliveries,
         pc'[d] \in {"scan"} \union Judged
  PROVE  \/ pc[d] \in {"scan"} \union Judged /\ Listed(outcome'[d]) = Listed(outcome[d])
         \/ ListRead(Listed(outcome'[d]), Pushed)
<1> USE DEF Judged, Publishing, github, locals, tables, board
<1> DEFINE Keeps == pc[d] \in {"scan"} \union Judged /\ outcome'[d] = outcome[d]
<1>1. ASSUME NEW e \in Deliveries, ListFiles(e)
      PROVE  Keeps \/ ListRead(Listed(outcome'[d]), Pushed)
  <2>1. CASE e # d
    BY <1>1, <2>1 DEF ListFiles, HandOver, Goto, TypeInv, TypeOK
  <2>2. CASE e = d
    <3>1. PICK listed \in SUBSET Manifests : HandOver(d, listed) /\ ListRead(listed, Pushed)
      BY <1>1, <2>2, HandedOverIsRead DEF Goto, TypeInv, TypeOK
    <3>2. PICK over : outcome' = [outcome EXCEPT ![d] = OutcomesWithOverflow(listed, over)]
      BY <3>1 DEF HandOver
    <3>3. outcome'[d] = OutcomesWithOverflow(listed, over)
      BY <3>2 DEF TypeInv, TypeOK
    <3>4. Listed(outcome'[d]) = listed
      BY <3>3 DEF OutcomesWithOverflow, Listed
    <3> QED
      BY <3>1, <3>4
  <2> QED
    BY <2>1, <2>2
<1>2. ASSUME NEW e \in Deliveries, NEW m \in Manifests, ScanManifest(e, m)
      PROVE  pc[d] \in {"scan"} \union Judged /\ Listed(outcome'[d]) = Listed(outcome[d])
  BY <1>2, ParametersOK DEF ScanManifest, Listed, Verdicts, TypeInv, TypeOK
<1>3. ASSUME NEW e \in Deliveries, Persist(e) PROVE Keeps
  BY <1>3 DEF Persist, SkipPersist, FindExistingPrScan, InsertScan, ReplaceResults,
       CommitUpdate, Scanned, Goto, Leave, TypeInv, TypeOK
<1>4. ASSUME NEW e \in Deliveries, Publish(e) PROVE Keeps
  BY <1>4 DEF Publish, FindCheckRun, WriteCheckRun, FindComment, WriteComment, Lookup,
       Goto, Leave, TypeInv, TypeOK
<1>5. ASSUME NEW e \in Deliveries,
             \/ HandlePullRequest(e) \/ StartJob(e) \/ JobFails(e)
             \/ ResolveTarget(e) \/ GetToken(e) \/ ReadPage(e)
      PROVE  Keeps
  BY <1>5 DEF HandlePullRequest, StartJob, JobFails, ResolveTarget, GetToken, ReadPage, Goto,
       Leave, TypeInv, TypeOK
<1>6. ASSUME (\E p \in PRs, s \in Shas : Push(p, s)) \/ ToggleInstallation \/ UNCHANGED vars
      PROVE  Keeps
  BY <1>6 DEF Push, ToggleInstallation, vars
<1>7. ~Crash
  BY DEF Crash, Running
<1> QED
  BY <1>1, <1>2, <1>3, <1>4, <1>5, <1>6, <1>7 DEF Next, Process

(* A list grows by one page at a time, and is gone when the job goes on.   *)
LEMMA HowListingsGrow ==
  ASSUME TypeInv, ListingIsRead, [Next]_vars, NEW d \in Deliveries
  PROVE  \/ listing'[d] = listing[d] /\ (pc'[d] = pc[d] \/ pc[d] # "diff")
         \/ listing'[d] = NoListing
         \/ /\ listing'[d] = [pages |-> PageAsked(d), paths |-> Gathered(d)]
            /\ pc'[d] = "diff"
<1> USE DEF github, locals, tables, board
<1> DEFINE Keeps == listing'[d] = listing[d] /\ (pc'[d] = pc[d] \/ pc[d] # "diff")
           Gone == listing'[d] = NoListing
<1>1. ASSUME NEW e \in Deliveries, ListFiles(e) PROVE Keeps \/ Gone
  BY <1>1 DEF ListFiles, HandOver, Goto, TypeInv, TypeOK
<1>2. ASSUME NEW e \in Deliveries, NEW m \in Manifests, ScanManifest(e, m) PROVE Keeps
  BY <1>2 DEF ScanManifest
<1>3. ASSUME NEW e \in Deliveries, Persist(e) PROVE Keeps \/ Gone
  BY <1>3 DEF Persist, SkipPersist, FindExistingPrScan, InsertScan, ReplaceResults,
       CommitUpdate, Scanned, Goto, Leave, TypeInv, TypeOK
<1>4. ASSUME NEW e \in Deliveries, Publish(e) PROVE Keeps \/ Gone
  BY <1>4 DEF Publish, FindCheckRun, WriteCheckRun, FindComment, WriteComment, Lookup,
       Goto, Leave, TypeInv, TypeOK
<1>5. ASSUME NEW e \in Deliveries,
             \/ HandlePullRequest(e) \/ StartJob(e) \/ JobFails(e)
             \/ ResolveTarget(e) \/ GetToken(e)
      PROVE  Keeps \/ Gone
  BY <1>5 DEF HandlePullRequest, StartJob, JobFails, ResolveTarget, GetToken, Goto, Leave,
       TypeInv, TypeOK
<1>6. ASSUME (\E p \in PRs, s \in Shas : Push(p, s)) \/ ToggleInstallation \/ UNCHANGED vars
      PROVE  Keeps
  BY <1>6 DEF Push, ToggleInstallation, vars
<1>7. CASE Crash
  BY <1>7 DEF Crash
<1>8. ASSUME NEW e \in Deliveries, ReadPage(e)
      PROVE  \/ Keeps
             \/ /\ listing'[d] = [pages |-> PageAsked(d), paths |-> Gathered(d)]
                /\ pc'[d] = "diff"
  BY <1>8 DEF ReadPage, TypeInv, TypeOK
<1> QED
  BY <1>1, <1>2, <1>3, <1>4, <1>5, <1>6, <1>7, <1>8 DEF Next, Process

(* A job begins to list with an empty list, and leaves none behind.        *)
LEMMA ListingIsReadStep ==
  TypeInv /\ HeadsArePushed /\ ListingIsRead /\ [Next]_vars => ListingIsRead'
<1> SUFFICES ASSUME TypeInv, HeadsArePushed, ListingIsRead, [Next]_vars, NEW d \in Deliveries
             PROVE  /\ pc'[d] # "diff" => listing'[d] = NoListing
                    /\ PagesRead(listing'[d].pages, listing'[d].paths, Pushed')
  BY DEF ListingIsRead, PagesRead, FirstPages, Page
<1>1. PagesRead(listing[d].pages, listing[d].paths, Pushed')
  BY PushedGrows, ReadingGrows DEF ListingIsRead
<1>2. CASE listing'[d] = listing[d] /\ (pc'[d] = pc[d] \/ pc[d] # "diff")
  BY <1>1, <1>2 DEF ListingIsRead
<1>3. CASE listing'[d] = NoListing
  <2>1. PagesRead(0, {}, Pushed')
    <3>1. [i \in {} |-> i] \in [1 .. 0 -> Pushed']
      OBVIOUS
    <3> QED
      BY <3>1 DEF PagesRead, FirstPages
  <2> QED
    BY <1>3, <2>1 DEF NoListing
<1>4. CASE /\ listing'[d] = [pages |-> PageAsked(d), paths |-> Gathered(d)]
           /\ pc'[d] = "diff"
  <2>1. listing[d].pages \in Nat
    BY ParametersOK DEF TypeInv, TypeOK
  <2>2. heads[PrOf[d]] \in Pushed
    BY ParametersOK DEF HeadsArePushed, Pushed
  <2>3. PagesRead(PageAsked(d), Gathered(d), Pushed)
    <3> DEFINE k == listing[d].pages
               s == heads[PrOf[d]]
    <3>1. PagesRead(k, listing[d].paths, Pushed)
      BY DEF ListingIsRead
    <3>2. Gathered(d) = listing[d].paths \union Page(s, k + 1) /\ PageAsked(d) = k + 1
      BY DEF Gathered, PageAsked
    <3>3. k \in Nat /\ s \in Pushed
      BY <2>1, <2>2
    <3> HIDE DEF k, s
    <3> QED
      <4>1. PagesReadUpTo(k + 1, listing[d].paths \union Page(s, k + 1), Pushed, s)
        BY <3>1, <3>3, NextPageRead
      <4> QED
        BY <3>2, <4>1 DEF PagesRead, PagesReadUpTo
  <2>4. PagesRead(PageAsked(d), Gathered(d), Pushed')
    BY <2>3, PushedGrows, ReadingGrows
  <2> QED
    BY <1>4, <2>4
<1> QED
  BY <1>2, <1>3, <1>4, HowListingsGrow

LEMMA WhoWritesChecks ==
  ASSUME [Next]_vars, checks' # checks
  PROVE  \E d \in Deliveries : WriteCheckRun(d)
  BY DEF Next, vars, Process, Persist, Publish, Push, ToggleInstallation, Crash,
     HandlePullRequest, StartJob, JobFails, ResolveTarget, GetToken, ReadPage, ListFiles, ScanManifest,
     SkipPersist, FindExistingPrScan, InsertScan, ReplaceResults, CommitUpdate, FindCheckRun,
     FindComment, Lookup, WriteComment, board

(* Whether it is posted or patches an older one, the written check carries *)
(* this job's summary and conclusion; the others were there before.        *)
LEMMA WrittenCheck ==
  ASSUME TypeInv, NEW d \in Deliveries, WriteCheckRun(d), NEW c \in checks'
  PROVE  \/ c \in checks
         \/ /\ c.sha = ShaOf[d]
            /\ c.summary = outcome[d]
            /\ c.conclusion = Conclusion(outcome[d])
            /\ c.id = IF found[d] = NoRow THEN Attempt(d) ELSE found[d].id
  BY DEF WriteCheckRun, Upsert, CheckRun

(* ListRead is what ReadInPages says.                                      *)
LEMMA ReadInPagesIsListRead ==
  /\ \A listed : ReadInPages(listed) <=> ListRead(listed, Pushed)
  /\ GreenCheckIsEarned' <=>
       \A c \in checks' : c.conclusion = "success" =>
         /\ ListRead(Listed(c.summary), Pushed')
         /\ \A m \in Listed(c.summary) : c.summary[m] = "allow"
<1>1. \A listed : ReadInPages(listed) <=> ListRead(listed, Pushed)
  BY DEF ReadInPages, ListRead, ListEnds
<1>2. \A listed : ReadInPages(listed)' <=> ListRead(listed, Pushed')
  BY DEF ReadInPages, ListRead, ListEnds, FirstPages, Page, Fault
<1> QED
  BY <1>1, <1>2 DEF GreenCheckIsEarned, Listed

LEMMA GreenStep == TypeInv /\ GreenInv /\ [Next]_vars => GreenInv'
<1> SUFFICES ASSUME TypeInv, GreenInv, [Next]_vars PROVE GreenInv'
  OBVIOUS
<1>1. HeadsArePushed' /\ ListingIsRead'
  BY HeadsStep, ListingIsReadStep DEF GreenInv
<1>2. ListedIsRead'
  <2> SUFFICES ASSUME NEW d \in Deliveries, pc'[d] \in {"scan"} \union Judged
               PROVE  ListRead(Listed(outcome'[d]), Pushed')
    BY DEF ListedIsRead, Listed, ListRead, FirstPages, Page, ListEnds, Fault
  <2> QED
    BY HowListsArise, PushedGrows, ReadingGrows DEF GreenInv, ListedIsRead
<1>3. GreenCheckIsEarned'
  <2> SUFFICES ASSUME NEW c \in checks', c.conclusion = "success"
               PROVE  /\ ListRead(Listed(c.summary), Pushed')
                      /\ \A m \in Listed(c.summary) : c.summary[m] = "allow"
    BY ReadInPagesIsListRead
  <2>1. CASE c \in checks
    <3>1. ListRead(Listed(c.summary), Pushed)
      BY <2>1, ReadInPagesIsListRead DEF GreenInv, GreenCheckIsEarned
    <3> QED
      BY <2>1, <3>1, PushedGrows, ReadingGrows DEF GreenInv, GreenCheckIsEarned
  <2>2. CASE c \notin checks
    <3>1. PICK d \in Deliveries : WriteCheckRun(d)
      BY <2>2, WhoWritesChecks
    <3>2. c.summary = outcome[d] /\ Conclusion(outcome[d]) = "success"
      BY <2>2, <3>1, WrittenCheck
    <3>3. pc[d] = "writeCheck"
      BY <3>1 DEF WriteCheckRun
    <3>4. \A m \in Listed(outcome[d]) : outcome[d][m] = "allow"
      BY <3>2, <3>3, ScannedOutcomes, GreenConclusion
    <3>5. ListRead(Listed(outcome[d]), Pushed)
      BY <3>3 DEF GreenInv, ListedIsRead, Judged, Publishing
    <3> QED
      BY <3>2, <3>4, <3>5, PushedGrows, ReadingGrows
  <2> QED
    BY <2>1, <2>2
<1> QED
  BY <1>1, <1>2, <1>3 DEF GreenInv

(* No check is green unless every manifest on the pages that were read of  *)
(* the diff was scanned and came back clean, and the pages were read from  *)
(* the first to the last of a diff or the limit (or to one that was no     *)
(* list), whatever the faults and the interleaving.                        *)
THEOREM GreenIsEarned == Spec => []GreenCheckIsEarned
<1>1. Init => GreenInv
  <2> SUFFICES ASSUME Init PROVE GreenInv
    OBVIOUS
  <2>1. ListingIsRead
    <3>1. [i \in {} |-> i] \in [1 .. 0 -> Pushed]
      OBVIOUS
    <3>2. PagesRead(0, {}, Pushed)
      BY <3>1 DEF PagesRead, FirstPages
    <3> QED
      BY <3>2 DEF Init, ListingIsRead, NoListing
  <2> QED
    BY <2>1, ParametersOK DEF Init, GreenInv, HeadsArePushed, ListedIsRead, Judged,
       Publishing, GreenCheckIsEarned
<1>2. GreenInv => GreenCheckIsEarned
  BY DEF GreenInv
<1> QED
  BY <1>1, <1>2, GreenStep, TypeInvariant, PTL DEF Spec

-----------------------------------------------------------------------------
(* A scan of a head, once there, stays: rows are added or rewritten.       *)
LEMMA RowsStay ==
  ASSUME TypeInv, [Next]_vars, NEW r \in rows
  PROVE  \E q \in rows' : q.sha = r.sha
<1>1. CASE rows' = rows
  BY <1>1
<1>2. ASSUME NEW d \in Deliveries, InsertScan(d) PROVE r \in rows'
  BY <1>2 DEF InsertScan, tables
<1>3. ASSUME NEW d \in Deliveries, CommitUpdate(d) PROVE \E q \in rows' : q.sha = r.sha
  <2>1. Updated(r, d) \in rows'
    BY <1>3 DEF CommitUpdate
  <2> QED
    BY <2>1, UpdatedKeepsHead
<1> QED
  BY <1>1, <1>2, <1>3, WhoWritesRows

(* A commit that shows a check keeps showing one: a patch replaces a check *)
(* of the same commit.                                                     *)
LEMMA ChecksStay ==
  ASSUME TypeInv, PublishInv, [Next]_vars, NEW c \in checks
  PROVE  \E k \in checks' : k.sha = c.sha
<1>1. CASE checks' = checks
  BY <1>1
<1>2. ASSUME NEW d \in Deliveries, WriteCheckRun(d) PROVE \E k \in checks' : k.sha = c.sha
  <2>1. CASE found[d] = NoRow \/ c.id # found[d].id
    BY <1>2, <2>1 DEF WriteCheckRun, Upsert
  <2>2. CASE found[d] # NoRow /\ c.id = found[d].id
    <3>1. c.sha = ShaOf[d]
      BY <1>2, <2>2 DEF WriteCheckRun, PublishInv, ChecksOfTheirHead, FoundOfTheirHead
    <3>2. [CheckRun(d) EXCEPT !.id = found[d].id] \in checks'
      BY <1>2, <2>2 DEF WriteCheckRun, Upsert
    <3> QED
      BY <3>1, <3>2 DEF CheckRun
  <2> QED
    BY <2>1, <2>2
<1> QED
  BY <1>1, <1>2, WhoWritesChecks

(* A check belongs to the head of the delivery that posted it, whoever     *)
(* patches it later.                                                       *)
LEMMA ChecksOfTheirHeadStep ==
  TypeInv /\ PublishInv /\ [Next]_vars => ChecksOfTheirHead'
<1> SUFFICES ASSUME TypeInv, PublishInv, [Next]_vars, NEW c \in checks'
             PROVE  c.sha = ShaOf[c.id[1]]
  BY DEF ChecksOfTheirHead
<1>1. CASE c \in checks
  BY <1>1 DEF PublishInv, ChecksOfTheirHead
<1>2. CASE c \notin checks
  <2>1. PICK d \in Deliveries : WriteCheckRun(d)
    BY <1>2, WhoWritesChecks
  <2>2. c.sha = ShaOf[d] /\ c.id = IF found[d] = NoRow THEN Attempt(d) ELSE found[d].id
    BY <1>2, <2>1, WrittenCheck
  <2> QED
    BY <2>1, <2>2 DEF WriteCheckRun, Attempt, PublishInv, FoundOfTheirHead
<1> QED
  BY <1>1, <1>2

(* A job about to write a check holds none, or one of its own head.        *)
LEMMA FoundOfTheirHeadStep ==
  TypeInv /\ PublishInv /\ [Next]_vars => FoundOfTheirHead'
<1> SUFFICES ASSUME TypeInv, PublishInv, [Next]_vars, NEW d \in Deliveries,
                    pc'[d] = "writeCheck", found'[d] # NoRow
             PROVE  found'[d].sha = ShaOf[d] /\ ShaOf[found'[d].id[1]] = ShaOf[d]
  BY DEF FoundOfTheirHead
<1> USE DEF github, locals, tables, board
<1>1. CASE pc[d] = "writeCheck" /\ found'[d] = found[d]
  BY <1>1 DEF PublishInv, FoundOfTheirHead
<1>2. CASE FindCheckRun(d)
  BY <1>2 DEF FindCheckRun, Lookup, TypeInv, TypeOK, PublishInv, ChecksOfTheirHead
<1> DEFINE Keeps == pc[d] = "writeCheck" /\ found'[d] = found[d]
<1>3. ASSUME NEW e \in Deliveries, Persist(e) PROVE Keeps
  BY <1>3 DEF Persist, SkipPersist, FindExistingPrScan, InsertScan, ReplaceResults,
       CommitUpdate, Scanned, Goto, Leave, TypeInv, TypeOK
<1>4. ASSUME NEW e \in Deliveries, Publish(e) PROVE Keeps \/ FindCheckRun(d)
  BY <1>4 DEF Publish, FindCheckRun, WriteCheckRun, FindComment, WriteComment, Lookup,
       Goto, Leave, TypeInv, TypeOK
<1>5. ASSUME NEW e \in Deliveries,
             \/ HandlePullRequest(e) \/ StartJob(e) \/ JobFails(e)
             \/ ResolveTarget(e) \/ GetToken(e) \/ ReadPage(e) \/ ListFiles(e)
             \/ \E m \in Manifests : ScanManifest(e, m)
      PROVE  Keeps
  BY <1>5 DEF HandlePullRequest, StartJob, JobFails, ResolveTarget, GetToken, ReadPage, ListFiles,
       HandOver, ScanManifest, Goto, Leave, TypeInv, TypeOK
<1>6. ASSUME (\E p \in PRs, s \in Shas : Push(p, s)) \/ ToggleInstallation \/ UNCHANGED vars
      PROVE  Keeps
  BY <1>6 DEF Push, ToggleInstallation, vars
<1>7. ~Crash
  BY DEF Crash, Running
<1> QED
  BY <1>1, <1>2, <1>3, <1>4, <1>5, <1>6, <1>7 DEF Next, Process

(* A job that scanned anything comes to its publication only through a     *)
(* transaction that left a row of its head.                                *)
LEMMA RowBehindJobStep == TypeInv /\ PublishInv /\ [Next]_vars => RowBehindJob'
<1> DEFINE Backed(e) == \/ pc[e] \in {"update", "commit"}
                        \/ pc[e] \in Publishing /\ Scannable(outcome[e]) # {}
<1> SUFFICES ASSUME TypeInv, PublishInv, [Next]_vars, NEW d \in Deliveries, Backed(d)'
             PROVE  \E r \in rows' : r.sha = ShaOf[d]
  BY DEF RowBehindJob, Scannable, Listed
<1> USE DEF Publishing, github, locals, tables, board
<1>1. CASE Backed(d)
  BY <1>1, RowsStay DEF PublishInv, RowBehindJob
<1>2. CASE FindExistingPrScan(d) /\ RowsOf(d) # {}
  BY <1>2 DEF FindExistingPrScan, RowsOf
<1>3. CASE InsertScan(d) /\ ~UniqueViolation(d)
  <2>1. [id |-> Attempt(d), pr |-> PrOf[d], sha |-> ShaOf[d], report |-> report[d]] \in rows'
    BY <1>3 DEF InsertScan
  <2> QED
    BY <2>1
<1>4. ASSUME NEW e \in Deliveries, Persist(e)
      PROVE  \/ Backed(d)
             \/ FindExistingPrScan(d) /\ RowsOf(d) # {}
             \/ InsertScan(d) /\ ~UniqueViolation(d)
  <2>1. CASE e # d
    <3>1. pc'[d] = pc[d] /\ outcome'[d] = outcome[d]
      BY <1>4, <2>1 DEF Persist, SkipPersist, FindExistingPrScan, InsertScan, ReplaceResults,
           CommitUpdate, Goto, Leave, TypeInv, TypeOK
    <3> QED
      BY <3>1 DEF Scannable, Listed
  <2>2. CASE SkipPersist(d)
    BY <2>2 DEF SkipPersist, Goto, TypeInv, TypeOK, Scannable, Listed
  <2>3. CASE FindExistingPrScan(d)
    BY <2>3 DEF FindExistingPrScan, Goto, TypeInv, TypeOK
  <2>4. CASE InsertScan(d)
    BY <2>4 DEF InsertScan, Goto, Leave, TypeInv, TypeOK
  <2>5. CASE ReplaceResults(d) \/ CommitUpdate(d)
    BY <2>5 DEF ReplaceResults, CommitUpdate
  <2> QED
    BY <1>4, <2>1, <2>2, <2>3, <2>4, <2>5 DEF Persist
<1>5. ASSUME NEW e \in Deliveries, Publish(e) PROVE Backed(d)
  <2>1. pc[d] \in Publishing \union {"update", "commit"} /\ outcome'[d] = outcome[d]
    BY <1>5 DEF Publish, FindCheckRun, WriteCheckRun, FindComment, WriteComment, Lookup,
         Goto, Leave, TypeInv, TypeOK
  <2>2. pc[d] \in {"update", "commit"} \/ pc'[d] \in Publishing
    BY <1>5 DEF Publish, FindCheckRun, WriteCheckRun, FindComment, WriteComment, Lookup,
         Goto, Leave, TypeInv, TypeOK
  <2> QED
    BY <2>1, <2>2 DEF Scannable, Listed
<1>6. CASE \E e \in Deliveries : ListFiles(e) /\ e = d
  <2>1. pc'[d] \in Publishing => Listed(outcome'[d]) = {}
    BY <1>6 DEF ListFiles, HandOver, Goto, TypeInv, TypeOK, OutcomesWithOverflow, Listed
  <2>2. pc'[d] \in {"scan", "findCheck", "done"}
    BY <1>6 DEF ListFiles, HandOver, Goto, TypeInv, TypeOK
  <2> QED
    BY <2>1, <2>2 DEF Scannable, Listed
<1>7. ASSUME NEW e \in Deliveries,
             \/ HandlePullRequest(e) \/ StartJob(e) \/ JobFails(e)
             \/ ResolveTarget(e) \/ GetToken(e) \/ ReadPage(e) \/ (ListFiles(e) /\ e # d)
             \/ \E m \in Manifests : ScanManifest(e, m)
      PROVE  Backed(d)
  <2>1. pc[d] \in Publishing \union {"update", "commit"}
        /\ pc'[d] = pc[d] /\ outcome'[d] = outcome[d]
    BY <1>7 DEF HandlePullRequest, StartJob, JobFails, ResolveTarget, GetToken, ReadPage, ListFiles,
       HandOver, ScanManifest, Goto, Leave, TypeInv, TypeOK
  <2> QED
    BY <2>1 DEF Scannable, Listed
<1>8. ASSUME (\E p \in PRs, s \in Shas : Push(p, s)) \/ ToggleInstallation \/ UNCHANGED vars
      PROVE  Backed(d)
  BY <1>8 DEF Push, ToggleInstallation, vars, Scannable, Listed
<1>9. ~Crash
  BY DEF Crash, Running
<1> QED
  BY <1>1, <1>2, <1>3, <1>4, <1>5, <1>6, <1>7, <1>8, <1>9 DEF Next, Process

(* A job comes to its comment only by writing its check.                   *)
LEMMA CheckBehindCommentStep ==
  TypeInv /\ PublishInv /\ [Next]_vars => CheckBehindComment'
<1> SUFFICES ASSUME TypeInv, PublishInv, [Next]_vars, NEW d \in Deliveries,
                    pc'[d] \in {"findComment", "writeComment"}
             PROVE  \E c \in checks' : c.sha = ShaOf[d]
  BY DEF CheckBehindComment
<1> USE DEF github, locals, tables, board
<1>1. CASE pc[d] \in {"findComment", "writeComment"}
  BY <1>1, ChecksStay DEF PublishInv, CheckBehindComment
<1>2. CASE WriteCheckRun(d)
  <2>1. \E c \in checks' : c.sha = CheckRun(d).sha
    <3>1. CASE found[d] = NoRow
      BY <1>2, <3>1 DEF WriteCheckRun, Upsert
    <3>2. CASE found[d] # NoRow
      <4>1. [CheckRun(d) EXCEPT !.id = found[d].id] \in checks'
        BY <1>2, <3>2 DEF WriteCheckRun, Upsert
      <4> QED
        BY <4>1 DEF CheckRun
    <3> QED
      BY <3>1, <3>2
  <2> QED
    BY <2>1 DEF CheckRun
<1> DEFINE Before == pc[d] \in {"findComment", "writeComment"}
<1>3. ASSUME NEW e \in Deliveries, Persist(e) PROVE Before
  BY <1>3 DEF Persist, SkipPersist, FindExistingPrScan, InsertScan, ReplaceResults,
       CommitUpdate, Scanned, Goto, Leave, TypeInv, TypeOK
<1>4. ASSUME NEW e \in Deliveries, Publish(e) PROVE Before \/ WriteCheckRun(d)
  BY <1>4 DEF Publish, FindCheckRun, WriteCheckRun, FindComment, WriteComment, Lookup,
       Goto, Leave, TypeInv, TypeOK
<1>5. ASSUME NEW e \in Deliveries,
             \/ HandlePullRequest(e) \/ StartJob(e) \/ JobFails(e)
             \/ ResolveTarget(e) \/ GetToken(e) \/ ReadPage(e) \/ ListFiles(e)
             \/ \E m \in Manifests : ScanManifest(e, m)
      PROVE  Before
  BY <1>5 DEF HandlePullRequest, StartJob, JobFails, ResolveTarget, GetToken, ReadPage, ListFiles,
       HandOver, ScanManifest, Goto, Leave, TypeInv, TypeOK
<1>6. ASSUME (\E p \in PRs, s \in Shas : Push(p, s)) \/ ToggleInstallation \/ UNCHANGED vars
      PROVE  Before
  BY <1>6 DEF Push, ToggleInstallation, vars
<1>7. ~Crash
  BY DEF Crash, Running
<1> QED
  BY <1>1, <1>2, <1>3, <1>4, <1>5, <1>6, <1>7 DEF Next, Process

LEMMA WhoWritesComments ==
  ASSUME [Next]_vars, comments' # comments
  PROVE  \E d \in Deliveries : WriteComment(d)
  BY DEF Next, vars, Process, Persist, Publish, Push, ToggleInstallation, Crash,
     HandlePullRequest, StartJob, JobFails, ResolveTarget, GetToken, ReadPage, ListFiles, ScanManifest,
     SkipPersist, FindExistingPrScan, InsertScan, ReplaceResults, CommitUpdate, FindCheckRun,
     FindComment, Lookup, WriteCheckRun, board

LEMMA PublishStep == TypeInv /\ PublishInv /\ [Next]_vars => PublishInv'
<1> SUFFICES ASSUME TypeInv, PublishInv, [Next]_vars PROVE PublishInv'
  OBVIOUS
<1>1. \A c \in checks' : Scannable(c.summary) # {} => \E r \in rows' : r.sha = c.sha
  <2> SUFFICES ASSUME NEW c \in checks', Scannable(c.summary) # {}
               PROVE  \E r \in rows' : r.sha = c.sha
    OBVIOUS
  <2>1. CASE c \in checks
    BY <2>1, RowsStay DEF PublishInv, PublishedAfterPersisted
  <2>2. CASE c \notin checks
    <3>1. PICK d \in Deliveries : WriteCheckRun(d)
      BY <2>2, WhoWritesChecks
    <3>2. c.sha = ShaOf[d] /\ c.summary = outcome[d]
      BY <2>2, <3>1, WrittenCheck
    <3>3. \E r \in rows : r.sha = ShaOf[d]
      BY <3>1, <3>2 DEF WriteCheckRun, Publishing, PublishInv, RowBehindJob
    <3> QED
      BY <3>2, <3>3, RowsStay
  <2> QED
    BY <2>1, <2>2
<1>2. \A k \in comments' : \E c \in checks' : c.sha = k.sha
  <2> SUFFICES ASSUME NEW k \in comments' PROVE \E c \in checks' : c.sha = k.sha
    OBVIOUS
  <2>1. CASE k \in comments
    BY <2>1, ChecksStay DEF PublishInv, PublishedAfterPersisted
  <2>2. CASE k \notin comments
    <3>1. PICK d \in Deliveries : WriteComment(d)
      BY <2>2, WhoWritesComments
    <3>2. k.sha = ShaOf[d] /\ pc[d] = "writeComment"
      BY <2>2, <3>1 DEF WriteComment, Upsert
    <3>3. \E c \in checks : c.sha = k.sha
      BY <3>2 DEF PublishInv, CheckBehindComment
    <3> QED
      BY <3>3, ChecksStay
  <2> QED
    BY <2>1, <2>2
<1>3. PublishedAfterPersisted'
  BY <1>1, <1>2 DEF PublishedAfterPersisted, Scannable, Listed
<1> QED
  BY <1>3, ChecksOfTheirHeadStep, FoundOfTheirHeadStep, RowBehindJobStep,
     CheckBehindCommentStep DEF PublishInv

(* GitHub never runs ahead of the history: the check of a run that scanned *)
(* anything has its head's row behind it, a comment its head's check, at   *)
(* every step, through every crash, retry and fault.                       *)
THEOREM PersistedFirst == Spec => []PublishedAfterPersisted
<1>1. Init => PublishInv
  BY DEF Init, PublishInv, ChecksOfTheirHead, FoundOfTheirHead, RowBehindJob, Publishing,
     CheckBehindComment, PublishedAfterPersisted
<1>2. PublishInv => PublishedAfterPersisted
  BY DEF PublishInv
<1> QED
  BY <1>1, <1>2, PublishStep, TypeInvariant, PTL DEF Spec

-----------------------------------------------------------------------------
(* The worker implements PrGuarantee: every one of its steps records one   *)
(* entry of the ledger, shows one conclusion on one commit, or changes     *)
(* neither.                                                                *)

Heads == PRs \X Shas

Ledger == [head \in Heads |-> LedgerEntry(head)]

Shown(s) == {c.conclusion : c \in {k \in checks : k.sha = s}}

Board == [s \in Shas |-> Shown(s)]

(* A row belongs to the head of the delivery that inserted it, whoever     *)
(* updates it later: two rows with one id are rows of one head.            *)
RowsOfTheirHead ==
  \A r \in rows : r.pr = PrOf[r.id[1]] /\ r.sha = ShaOf[r.id[1]]

GuaranteeInv == TypeInv /\ OneScanPerHead /\ PublishInv /\ RowsOfTheirHead

-----------------------------------------------------------------------------
LEMMA RowsOfTheirHeadStep == TypeInv /\ RowsOfTheirHead /\ [Next]_vars => RowsOfTheirHead'
<1> SUFFICES ASSUME TypeInv, RowsOfTheirHead, [Next]_vars, NEW r \in rows'
             PROVE  r.pr = PrOf[r.id[1]] /\ r.sha = ShaOf[r.id[1]]
  BY DEF RowsOfTheirHead
<1>1. CASE r \in rows
  BY <1>1 DEF RowsOfTheirHead
<1>2. ASSUME NEW d \in Deliveries, InsertScan(d), r \notin rows
      PROVE  r.pr = PrOf[r.id[1]] /\ r.sha = ShaOf[r.id[1]]
  BY <1>2 DEF InsertScan, Attempt, tables
<1>3. ASSUME NEW d \in Deliveries, CommitUpdate(d)
      PROVE  r.pr = PrOf[r.id[1]] /\ r.sha = ShaOf[r.id[1]]
  <2>1. PICK q \in rows : r = Updated(q, d)
    BY <1>3 DEF CommitUpdate
  <2> QED
    BY <2>1, UpdatedKeepsHead DEF RowsOfTheirHead
<1> QED
  BY <1>1, <1>2, <1>3, WhoWritesRows

LEMMA GuaranteeInvariant == Spec => []GuaranteeInv
<1>1. Init => OneScanPerHead /\ RowsOfTheirHead
  BY DEF Init, OneScanPerHead, RowsOfTheirHead
<1>2. Init => PublishInv
  BY DEF Init, PublishInv, ChecksOfTheirHead, FoundOfTheirHead, RowBehindJob, Publishing,
     CheckBehindComment, PublishedAfterPersisted
<1> QED
  BY <1>1, <1>2, OneScanStep, PublishStep, RowsOfTheirHeadStep, TypeInvariant, PTL
  DEF Spec, GuaranteeInv

-----------------------------------------------------------------------------
(* The ledger.                                                             *)

(* The entry of a head is the report of its one row.                       *)
LEMMA EntryOfRow ==
  ASSUME OneScanPerHead, NEW r \in rows
  PROVE  LedgerEntry(<<r.pr, r.sha>>) = r.report
<1> DEFINE here == {q \in rows : <<q.pr, q.sha>> = <<r.pr, r.sha>>}
<1>1. here = {r}
  BY DEF OneScanPerHead
<1> QED
  BY <1>1 DEF LedgerEntry

(* An insert writes the entry of a head that had none.                     *)
LEMMA InsertRecords ==
  ASSUME GuaranteeInv, OneScanPerHead', NEW d \in Deliveries, InsertScan(d), ~UniqueViolation(d)
  PROVE  /\ report[d] \in Reports
         /\ Ledger' = [Ledger EXCEPT ![<<PrOf[d], ShaOf[d]>>] = report[d]]
<1> DEFINE mine == <<PrOf[d], ShaOf[d]>>
           new == [id |-> Attempt(d), pr |-> PrOf[d], sha |-> ShaOf[d], report |-> report[d]]
<1>1. rows' = rows \union {new}
  BY DEF InsertScan
<1>2. report[d] \in Reports
  BY DEF InsertScan, GuaranteeInv, TypeInv, ReportChosen
<1>3. LedgerEntry(mine)' = report[d]
  <2> DEFINE here == {q \in rows' : <<q.pr, q.sha>> = mine}
  <2>1. here = {new}
    BY <1>1 DEF UniqueViolation, RowsOf
  <2>2. LedgerEntry(mine)' = IF here = {} THEN NoReport ELSE (CHOOSE r \in here : TRUE).report
    BY DEF LedgerEntry
  <2>3. new.report = report[d]
    OBVIOUS
  <2> HIDE DEF here, new
  <2>4. here # {} /\ (CHOOSE r \in here : TRUE) = new
    BY <2>1
  <2> QED
    BY <2>2, <2>3, <2>4
<1>4. ASSUME NEW head \in Heads, head # mine
      PROVE  LedgerEntry(head)' = LedgerEntry(head)
  <2> DEFINE before == {q \in rows : <<q.pr, q.sha>> = head}
             after == {q \in rows' : <<q.pr, q.sha>> = head}
             Entry(here) == IF here = {} THEN NoReport ELSE (CHOOSE r \in here : TRUE).report
  <2>1. before = after
    BY <1>1, <1>4
  <2>2. LedgerEntry(head) = Entry(before) /\ LedgerEntry(head)' = Entry(after)
    BY DEF LedgerEntry
  <2> HIDE DEF before, after
  <2> QED
    BY <2>1, <2>2
<1> QED
  BY <1>2, <1>3, <1>4 DEF Ledger

(* An update rewrites the entry of the row's head, or none when the report *)
(* is the same.                                                            *)
LEMMA UpdateRecords ==
  ASSUME GuaranteeInv, OneScanPerHead', NEW d \in Deliveries, CommitUpdate(d), Ledger' # Ledger
  PROVE  \E head \in Heads :
           report[d] \in Reports /\ Ledger' = [Ledger EXCEPT ![head] = report[d]]
<1>0. TypeInv /\ OneScanPerHead /\ rows \subseteq Rows
  BY DEF GuaranteeInv, TypeInv, TypeOK
<1>1. rows' = {Updated(q, d) : q \in rows}
  BY DEF CommitUpdate
<1>2. report[d] \in Reports
  BY <1>0 DEF CommitUpdate, TypeInv, ReportChosen
<1>3. \A q \in rows : <<Updated(q, d).pr, Updated(q, d).sha>> = <<q.pr, q.sha>>
  BY <1>0, UpdatedKeepsHead
<1>4. \A q \in rows : LedgerEntry(<<q.pr, q.sha>>)' = Updated(q, d).report
  <2> SUFFICES ASSUME NEW q \in rows
               PROVE  LedgerEntry(<<q.pr, q.sha>>)' = Updated(q, d).report
    OBVIOUS
  <2> DEFINE here == {r \in rows' : <<r.pr, r.sha>> = <<q.pr, q.sha>>}
  <2>1. Updated(q, d) \in here
    BY <1>1, <1>3
  <2>2. here = {Updated(q, d)}
    BY <2>1, <1>3 DEF OneScanPerHead
  <2> QED
    BY <2>2 DEF LedgerEntry
<1>5. ASSUME NEW head, \A q \in rows : <<q.pr, q.sha>> # head
      PROVE  LedgerEntry(head)' = NoReport /\ LedgerEntry(head) = NoReport
  BY <1>1, <1>3, <1>5 DEF LedgerEntry
<1>6. \A q \in rows : LedgerEntry(<<q.pr, q.sha>>) = q.report
  BY <1>0, EntryOfRow
<1>7. PICK r \in rows : Updated(r, d) # r
  BY <1>4, <1>5, <1>6 DEF Ledger
<1>8. Updated(r, d).report = report[d] /\ r.id = found[d].id
  BY <1>0, <1>7 DEF Updated, Rows
<1>9. ASSUME NEW q \in rows, <<q.pr, q.sha>> # <<r.pr, r.sha>>
      PROVE  Updated(q, d) = q
  BY <1>8, <1>9 DEF Updated, GuaranteeInv, RowsOfTheirHead
<1> DEFINE mine == <<r.pr, r.sha>>
<1>10. mine \in Heads /\ LedgerEntry(mine)' = report[d]
  BY <1>0, <1>4, <1>8 DEF Heads, Rows
<1>11. ASSUME NEW head \in Heads, head # mine
       PROVE  LedgerEntry(head)' = LedgerEntry(head)
  BY <1>4, <1>5, <1>6, <1>9, <1>11
<1>12. Ledger' = [Ledger EXCEPT ![mine] = report[d]]
  BY <1>10, <1>11 DEF Ledger
<1> QED
  BY <1>2, <1>10, <1>12

-----------------------------------------------------------------------------
(* The board.                                                              *)

(* A run that scanned nothing concludes neutral.                           *)
LEMMA NothingScannedIsNeutral ==
  ASSUME NEW out \in [Manifests -> Outcomes \union {"unlisted"}], Scannable(out) = {}
  PROVE  Conclusion(out) = "neutral"
<1>1. CASE Listed(out) = {}
  BY <1>1 DEF Conclusion
<1>2. CASE Listed(out) # {}
  <2> DEFINE S == {OutcomeRank(out[m]) : m \in Listed(out)}
  <2>1. \A m \in Listed(out) : out[m] = "failed"
    BY DEF Scannable
  <2>2. S = {1}
    BY <1>2, <2>1 DEF OutcomeRank
  <2>3. Max(S) = 1
    BY <2>2 DEF Max
  <2> QED
    BY <1>2, <2>3 DEF Conclusion, WorstRank, RankToConclusion
<1> QED
  BY <1>1, <1>2

(* A job about to write its check has the row behind it that the check's   *)
(* verdict needs.                                                          *)
LEMMA ShownIsRecorded ==
  ASSUME GuaranteeInv, NEW d \in Deliveries, pc[d] = "writeCheck",
         Conclusion(outcome[d]) # "neutral"
  PROVE  \E p \in PRs : Ledger[<<p, ShaOf[d]>>] # NoReport
<1>1. outcome[d] \in [Manifests -> Outcomes \union {"unlisted"}]
  BY DEF GuaranteeInv, TypeInv, TypeOK, Settled
<1>2. Scannable(outcome[d]) # {}
  BY <1>1, NothingScannedIsNeutral
<1>3. PICK r \in rows : r.sha = ShaOf[d]
  BY <1>2 DEF GuaranteeInv, PublishInv, RowBehindJob, Publishing
<1>4. r \in Rows
  BY DEF GuaranteeInv, TypeInv, TypeOK
<1>5. r.pr \in PRs /\ r.sha \in Shas /\ r.report # NoReport
  BY <1>4, SentinelsOK DEF Rows
<1>6. LedgerEntry(<<r.pr, r.sha>>) = r.report
  BY EntryOfRow DEF GuaranteeInv
<1>7. Ledger[<<r.pr, ShaOf[d]>>] = r.report
  BY <1>3, <1>5, <1>6 DEF Ledger, Heads
<1> QED
  BY <1>5, <1>7

(* Writing a check changes what its own commit shows and nothing else.     *)
LEMMA WriteShows ==
  ASSUME GuaranteeInv, NEW d \in Deliveries, WriteCheckRun(d)
  PROVE  \E kept \in SUBSET Board[ShaOf[d]] :
           Board' = [Board EXCEPT ![ShaOf[d]] = kept \union {Conclusion(outcome[d])}]
<1> DEFINE s == ShaOf[d]
           old == IF found[d] = NoRow THEN checks ELSE {c \in checks : c.id # found[d].id}
           new == IF found[d] = NoRow THEN CheckRun(d)
                  ELSE [CheckRun(d) EXCEPT !.id = found[d].id]
           kept == {c.conclusion : c \in {k \in old : k.sha = s}}
<1>1. checks' = old \union {new}
  BY DEF WriteCheckRun, Upsert
<1>2. new.sha = s /\ new.conclusion = Conclusion(outcome[d])
  BY DEF CheckRun
<1>3. s \in Shas /\ old \subseteq checks
  BY ParametersOK
<1>4. \A c \in checks : c \notin old => c.sha = s
  BY DEF WriteCheckRun, GuaranteeInv, PublishInv, ChecksOfTheirHead, FoundOfTheirHead
<1> HIDE DEF old, new
<1>5. Shown(s)' = kept \union {Conclusion(outcome[d])}
  BY <1>1, <1>2 DEF Shown
<1>6. ASSUME NEW t \in Shas, t # s PROVE Shown(t)' = Shown(t)
  BY <1>1, <1>2, <1>3, <1>4, <1>6 DEF Shown
<1>7. kept \in SUBSET Board[s]
  BY <1>3 DEF Board, Shown
<1>8. Board' = [Board EXCEPT ![s] = kept \union {Conclusion(outcome[d])}]
  BY <1>3, <1>5, <1>6 DEF Board
<1> QED
  BY <1>7, <1>8

-----------------------------------------------------------------------------
(* The worker implements PrGuarantee whatever overlaps, fails or crashes:  *)
(* one entry per head, written whole and never lost, and no verdict on     *)
(* display whose scan is not in the ledger.                                *)
THEOREM WorkerKeepsGuarantee == Spec => GuaranteeSpec
<1>1. Init => Guarantee!Init
  BY DEF Init, Guarantee!Init, LedgerEntry
<1>2. GuaranteeInv /\ OneScanPerHead' /\ [Next]_vars =>
        [Guarantee!Next]_<<Ledger, Board>>
  <2> SUFFICES ASSUME GuaranteeInv, OneScanPerHead', [Next]_vars
               PROVE  Guarantee!Next \/ UNCHANGED <<Ledger, Board>>
    OBVIOUS
  <2>1. rows' = rows => Ledger' = Ledger
    BY DEF Ledger, LedgerEntry
  <2>2. checks' = checks => Board' = Board
    BY DEF Board, Shown
  <2>3. ASSUME NEW d \in Deliveries, InsertScan(d), rows' # rows PROVE Guarantee!Next
    <3>1. ~UniqueViolation(d) /\ checks' = checks
      BY <2>3 DEF InsertScan, tables, board
    <3>2. <<PrOf[d], ShaOf[d]>> \in PRs \X Shas
      BY ParametersOK
    <3>3. Guarantee!Record(<<PrOf[d], ShaOf[d]>>, report[d])
      BY <2>2, <2>3, <3>1, InsertRecords DEF Guarantee!Record, Ledger, Board, Shown, Heads
    <3> QED
      BY <2>3, <3>1, <3>2, <3>3, InsertRecords DEF Guarantee!Next
  <2>4. ASSUME NEW d \in Deliveries, CommitUpdate(d), Ledger' # Ledger PROVE Guarantee!Next
    <3>1. checks' = checks
      BY <2>4 DEF CommitUpdate, board
    <3>2. PICK head \in Heads :
            report[d] \in Reports /\ Ledger' = [Ledger EXCEPT ![head] = report[d]]
      BY <2>4, UpdateRecords
    <3>3. Guarantee!Record(head, report[d])
      BY <2>2, <3>1, <3>2 DEF Guarantee!Record, Ledger, Board, Shown, Heads
    <3> QED
      BY <3>2, <3>3 DEF Guarantee!Next, Heads
  <2>5. ASSUME NEW d \in Deliveries, CommitUpdate(d), Ledger' = Ledger
        PROVE  UNCHANGED <<Ledger, Board>>
    BY <2>2, <2>5 DEF CommitUpdate, board
  <2>6. ASSUME NEW d \in Deliveries, WriteCheckRun(d) PROVE Guarantee!Next
    <3>1. Ledger' = Ledger
      BY <2>1, <2>6 DEF WriteCheckRun, tables
    <3>2. /\ ShaOf[d] \in Shas
          /\ Conclusion(outcome[d]) \in {"success", "neutral", "failure"}
      BY ParametersOK DEF Conclusion, RankToConclusion
    <3> PICK shown \in {"success", "neutral", "failure"} : shown = Conclusion(outcome[d])
      BY <3>2
    <3>3. Guarantee!Show(ShaOf[d], shown)
      <4>1. shown # "neutral" => \E p \in PRs : Ledger[<<p, ShaOf[d]>>] # NoReport
        BY <2>6, ShownIsRecorded DEF WriteCheckRun
      <4>2. PICK kept \in SUBSET Board[ShaOf[d]] :
              Board' = [Board EXCEPT ![ShaOf[d]] = kept \union {shown}]
        BY <2>6, WriteShows
      <4> QED
        BY <3>1, <4>1, <4>2 DEF Guarantee!Show, Ledger, Board, Shown, Heads
    <3> QED
      BY <3>2, <3>3 DEF Guarantee!Next
  <2>7. CASE rows' = rows /\ checks' = checks
    BY <2>1, <2>2, <2>7
  <2> QED
    BY <2>3, <2>4, <2>5, <2>6, <2>7, WhoWritesRows, WhoWritesChecks
<1>3. GuaranteeInv => OneScanPerHead
  BY DEF GuaranteeInv
<1> QED
  BY <1>1, <1>2, <1>3, GuaranteeInvariant, PTL
  DEF Spec, GuaranteeSpec, Guarantee!Spec, Ledger, Board, Shown, Heads

=============================================================================
