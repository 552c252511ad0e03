------------------------------ MODULE ScanEngine ------------------------------
(***************************************************************************)
(* One scan of a manifest by the engine: the names it parses to, their     *)
(* concurrent lookup in the registry with retries, the batched query of    *)
(* the threat-intel sources, the verdict of layers 0 to 3, the second pass *)
(* of the LLM over the gray band, and the report.  The registry, the       *)
(* sources and the LLM fail at will.                                       *)
(***************************************************************************)
EXTENDS Scoring, Sequences, FiniteSets

CONSTANTS
  Names,          \* normalized package names; their order is the canonical one
  Normal,         \* normalize_name: from the spellings of a manifest to Names
  Manifests,      \* the manifests a scan may start from: sequences of spellings
  Worlds,         \* what may be true of the packages: functions to Profile
  Caches,         \* the LLM answers that may be on disk: functions as cache
  Assessments,    \* what the LLM may answer about a package
  Configs,        \* which layers are on, and threatintel_degraded_status
  ConcurrenciaMax, ReintentosRed, OsvBatchMax, LlmMaxCalls,
  Faults,         \* which failures may happen
  NoReport, NoAssessment

FaultKinds == {"parse", "transient", "anomaly", "total", "osv", "watchlist", "source", "llm"}

Config == [layer3 : BOOLEAN, watchlist : BOOLEAN, layer4 : BOOLEAN, degraded : DegradedStatus]

ASSUME ParametersOK ==
  /\ Names \subseteq Nat
  /\ Normal \in [DOMAIN Normal -> Names]
  /\ \A m \in Manifests : m \in Seq(DOMAIN Normal)
  /\ Worlds \subseteq [Names -> Profile]
  /\ Assessments \subseteq Assessment
  /\ Configs \subseteq Config
  /\ ConcurrenciaMax \in Nat \ {0} /\ ReintentosRed \in Nat \ {0}
  /\ OsvBatchMax \in Nat \ {0} /\ LlmMaxCalls \in Nat \ {0}
  /\ Faults \subseteq FaultKinds

ASSUME SentinelsOK ==
  /\ NoAssessment \notin Assessment
  /\ Caches \subseteq [Names -> Assessments \union {NoAssessment}]

VARIABLES
  manifest,  \* the spellings in the manifest, in order
  config,
  truth,     \* what the registry and the sources know of each package
  cache,     \* the LLM answers on disk
  phase,     \* how far _scan has come
  fetch,     \* per name: the state of its lookup
  attempts,  \* per name: the attempts of its lookup that failed so far
  malice,    \* per name: what resolve_threatintel holds, "none" before
  verdict,   \* per name: the verdict of its result, "none" before
  gray,      \* the candidates of layer 4
  assessed,  \* resolve_layer4: the answers it has so far
  asked,     \* the names the LLM was called for
  report

input == <<manifest, config, truth>>
vars == <<manifest, config, truth, cache, phase, fetch, attempts, malice, verdict,
          gray, assessed, asked, report>>

Settled == {"FOUND", "NOT_FOUND", "UNVERIFIABLE"}

MaliceState == {"CLEAN", "MALICIOUS", "KNOWN_HALLUCINATION", "UNVERIFIABLE"}

Phases == {"parse", "fetch", "abort", "threatintel", "evaluate", "layer4", "done"}

(* _normalize_and_dedup: a name stands where its first spelling does.      *)
Position(n) ==
  CHOOSE i \in DOMAIN manifest :
    /\ Normal[manifest[i]] = n
    /\ \A j \in DOMAIN manifest : Normal[manifest[j]] = n => i <= j

Wanted == {Normal[manifest[i]] : i \in DOMAIN manifest}

Before(m, n) == Position(m) < Position(n)

Found == {n \in Wanted : fetch[n] = "FOUND"}

InFlight == {n \in Names : fetch[n] = "running"}

Fault(kind) == kind \in Faults

Init ==
  /\ manifest \in Manifests
  /\ config \in Configs
  /\ truth \in Worlds
  /\ cache \in Caches
  /\ phase = "parse"
  /\ fetch = [n \in Names |-> "none"]
  /\ attempts = [n \in Names |-> 0]
  /\ malice = [n \in Names |-> "none"]
  /\ verdict = [n \in Names |-> "none"]
  /\ gray = {}
  /\ assessed = [n \in {} |-> NoAssessment]
  /\ asked = {}
  /\ report = NoReport

-----------------------------------------------------------------------------
(* Reports.                                                                *)

ErrorReport == [error |-> TRUE, verdicts |-> [n \in {} |-> "allow"], exit |-> 3]

(* aggregate_exit_code of an empty manifest's report is 0.                 *)
Report(verdicts) ==
  [error |-> FALSE, verdicts |-> [n \in Wanted |-> verdicts[n]],
   exit |-> ExitCode({verdicts[n] : n \in Wanted})]

Finish(r) == phase' = "done" /\ report' = r

(* A manifest that cannot be read, parsed or confined is an error report.  *)
Parse ==
  /\ phase = "parse"
  /\ \/ /\ manifest # <<>>
        /\ phase' = "fetch"
        /\ fetch' = [n \in Names |-> IF n \in Wanted THEN "waiting" ELSE "none"]
        /\ UNCHANGED report
     \/ manifest = <<>> /\ Finish(Report(verdict)) /\ UNCHANGED fetch
     \/ Fault("parse") /\ Finish(ErrorReport) /\ UNCHANGED fetch
  /\ UNCHANGED <<input, cache, attempts, malice, verdict, gray, assessed, asked>>

-----------------------------------------------------------------------------
(* fetch_many.                                                             *)

SetFetch(n, state) == fetch' = [fetch EXCEPT ![n] = state]

(* A free worker of the pool takes the next name.                          *)
StartFetch(n) ==
  /\ phase = "fetch"
  /\ fetch[n] = "waiting"
  /\ \A m \in Wanted : Before(m, n) => fetch[m] # "waiting"
  /\ Cardinality(InFlight) < ConcurrenciaMax
  /\ SetFetch(n, "running")
  /\ UNCHANGED <<input, cache, phase, attempts, malice, verdict, gray, assessed, asked, report>>

(* The registry, or the cache of its answers, says whether it exists.      *)
FetchAnswered(n) ==
  /\ fetch[n] = "running"
  /\ SetFetch(n, IF truth[n].exists THEN "FOUND" ELSE "NOT_FOUND")
  /\ UNCHANGED <<input, cache, phase, attempts, malice, verdict, gray, assessed, asked, report>>

(* A permanent failure, an unexpected exception of the worker, or the      *)
(* deadline of the package before an attempt or within a backoff.          *)
FetchGivesUp(n) ==
  /\ Fault("anomaly")
  /\ fetch[n] = "running"
  /\ SetFetch(n, "UNVERIFIABLE")
  /\ UNCHANGED <<input, cache, phase, attempts, malice, verdict, gray, assessed, asked, report>>

MutRetryForever(n) ==
  /\ Fault("transient")
  /\ fetch[n] = "running"
  /\ attempts' = [attempts EXCEPT ![n] = (@ + 1) % (ReintentosRed + 1)]
  /\ UNCHANGED <<input, cache, phase, fetch, malice, verdict, gray, assessed, asked, report>>

MutRetryOneTooMany(n) ==
  /\ Fault("transient")
  /\ fetch[n] = "running"
  /\ attempts' = [attempts EXCEPT ![n] = @ + 1]
  /\ SetFetch(n, IF attempts[n] + 1 > ReintentosRed + 1 THEN "UNVERIFIABLE" ELSE "running")
  /\ UNCHANGED <<input, cache, phase, malice, verdict, gray, assessed, asked, report>>

(* A transient failure: _retry_transient tries again, reintentos_red times.*)
FetchFails(n) ==
  /\ Fault("transient")
  /\ fetch[n] = "running"
  /\ attempts' = [attempts EXCEPT ![n] = @ + 1]
  /\ SetFetch(n, IF attempts[n] + 1 >= ReintentosRed + 1 THEN "UNVERIFIABLE" ELSE "running")
  /\ UNCHANGED <<input, cache, phase, malice, verdict, gray, assessed, asked, report>>

(* DatasetIntegrityError or InvalidConfigError: re-raised by the worker.   *)
FetchRaises(n) ==
  /\ Fault("total")
  /\ fetch[n] = "running"
  /\ SetFetch(n, "raised")
  /\ UNCHANGED <<input, cache, phase, attempts, malice, verdict, gray, assessed, asked, report>>

(* pool.map hands out the outcomes in order: the first exception it comes  *)
(* to cancels what has not started ...                                     *)
SeeError ==
  /\ phase = "fetch"
  /\ \E n \in Wanted :
       /\ fetch[n] = "raised"
       /\ \A m \in Wanted : Before(m, n) => fetch[m] \in Settled
  /\ phase' = "abort"
  /\ UNCHANGED <<input, cache, fetch, attempts, malice, verdict, gray, assessed, asked, report>>

MutAbortAtOnce ==
  /\ phase = "abort"
  /\ Finish(ErrorReport)
  /\ UNCHANGED <<input, cache, fetch, attempts, malice, verdict, gray, assessed, asked>>

(* ... and the pool waits for what has.                                    *)
Abort ==
  /\ phase = "abort"
  /\ InFlight = {}
  /\ Finish(ErrorReport)
  /\ UNCHANGED <<input, cache, fetch, attempts, malice, verdict, gray, assessed, asked>>

FetchDone ==
  /\ phase = "fetch"
  /\ \A n \in Wanted : fetch[n] \in Settled
  /\ phase' = IF config.layer3 THEN "threatintel" ELSE "evaluate"
  /\ UNCHANGED <<input, cache, fetch, attempts, malice, verdict, gray, assessed, asked, report>>

-----------------------------------------------------------------------------
(* resolve_threatintel.                                                    *)

(* The next osv_batch_max names, in the order of the manifest.             *)
Chunk(pending) ==
  CHOOSE chunk \in SUBSET pending :
    /\ Cardinality(chunk) = Smaller(Cardinality(pending), OsvBatchMax)
    /\ \A m \in chunk, n \in pending \ chunk : Before(m, n)

Precedence(state) ==
  CASE state = "MALICIOUS" -> 3
    [] state = "KNOWN_HALLUCINATION" -> 2
    [] state = "UNVERIFIABLE" -> 1
    [] state = "CLEAN" -> 0

MutMergeLatest(current, incoming) == incoming

(* CompositeSource: the answer of higher precedence, the first of equals.  *)
Merge(current, incoming) ==
  IF Precedence(incoming) > Precedence(current) THEN incoming ELSE current

(* OSV may leave names unanswered; the corpus of the watchlist loads whole *)
(* or not at all.                                                          *)
Osv(n, unanswered) ==
  IF n \in unanswered THEN "UNVERIFIABLE"
  ELSE IF truth[n].malicious THEN "MALICIOUS" ELSE "CLEAN"

Watchlist(n, down) ==
  IF down THEN "UNVERIFIABLE"
  ELSE IF truth[n].listed THEN "KNOWN_HALLUCINATION" ELSE "CLEAN"

(* A source that raises leaves its whole chunk unverifiable, whatever the  *)
(* other one had answered.                                                 *)
QueryBatch(chunk) ==
  {[n \in chunk |-> IF config.watchlist
                    THEN Merge(Osv(n, unanswered), Watchlist(n, down))
                    ELSE Osv(n, unanswered)] :
     unanswered \in IF Fault("osv") THEN SUBSET chunk ELSE {{}},
     down \in IF Fault("watchlist") THEN BOOLEAN ELSE {FALSE}}
  \union {[n \in chunk |-> "UNVERIFIABLE"] : f \in Faults \intersect {"source"}}

Unresolved == {n \in Found : malice[n] = "none"}

ResolveChunk ==
  /\ phase = "threatintel"
  /\ Unresolved # {}
  /\ \E answers \in QueryBatch(Chunk(Unresolved)) :
       malice' = [n \in Names |-> IF n \in DOMAIN answers THEN answers[n] ELSE malice[n]]
  /\ UNCHANGED <<input, cache, phase, fetch, attempts, verdict, gray, assessed, asked, report>>

ThreatIntelDone ==
  /\ phase = "threatintel"
  /\ Unresolved = {}
  /\ phase' = "evaluate"
  /\ UNCHANGED <<input, cache, fetch, attempts, malice, verdict, gray, assessed, asked, report>>

-----------------------------------------------------------------------------
(* _evaluate_dependency and the gray band.                                 *)

(* A lookup that was not verified gets no signals: it is unverifiable.     *)
Signals(n) == CollectSignals(truth[n], malice[n])

FirstVerdict(n) ==
  IF fetch[n] = "UNVERIFIABLE" THEN "unverifiable"
  ELSE DependencyVerdict(Signals(n), config.degraded)

Evaluate ==
  /\ phase = "evaluate"
  /\ verdict' = [n \in Names |-> IF n \in Wanted THEN FirstVerdict(n) ELSE "none"]
  /\ gray' = IF config.layer4
             THEN {n \in Wanted : GrayBand(truth[n], Signals(n), FirstVerdict(n))}
             ELSE {}
  /\ phase' = "layer4"
  /\ UNCHANGED <<input, cache, fetch, attempts, malice, assessed, asked, report>>

(* resolve_layer4 takes the candidates in the order of their names.        *)
NextCandidate(n) ==
  /\ phase = "layer4"
  /\ n \in gray \ DOMAIN assessed
  /\ \A m \in gray \ DOMAIN assessed : n <= m

Resolved(n, answer) ==
  assessed' = [m \in DOMAIN assessed \union {n} |-> IF m = n THEN answer ELSE assessed[m]]

ResolveFromCache(n) ==
  /\ NextCandidate(n)
  /\ cache[n] # NoAssessment
  /\ Resolved(n, cache[n])
  /\ UNCHANGED <<input, cache, phase, fetch, attempts, malice, verdict, gray, asked, report>>

MutAskLlmUncounted(n) ==
  /\ NextCandidate(n)
  /\ cache[n] = NoAssessment
  /\ Cardinality({m \in asked : assessed[m] # NoAssessment}) < LlmMaxCalls
  /\ asked' = asked \union {n}
  /\ \E answer \in Assessments \union (IF Fault("llm") THEN {NoAssessment} ELSE {}) :
       Resolved(n, answer) /\ cache' = [cache EXCEPT ![n] = answer]
  /\ UNCHANGED <<input, phase, fetch, attempts, malice, verdict, gray, report>>

(* A call counts against the budget also when it comes to nothing, and     *)
(* only an answer is cached.                                               *)
AskLlm(n) ==
  /\ NextCandidate(n)
  /\ cache[n] = NoAssessment
  /\ Cardinality(asked) < LlmMaxCalls
  /\ asked' = asked \union {n}
  /\ \E answer \in Assessments \union (IF Fault("llm") THEN {NoAssessment} ELSE {}) :
       Resolved(n, answer) /\ cache' = [cache EXCEPT ![n] = answer]
  /\ UNCHANGED <<input, phase, fetch, attempts, malice, verdict, gray, report>>

AbstainOverBudget(n) ==
  /\ NextCandidate(n)
  /\ cache[n] = NoAssessment
  /\ Cardinality(asked) >= LlmMaxCalls
  /\ Resolved(n, NoAssessment)
  /\ UNCHANGED <<input, cache, phase, fetch, attempts, malice, verdict, gray, asked, report>>

Layer4Signals(n) == IF assessed[n] = NoAssessment THEN Abstention ELSE Layer4(assessed[n])

(* _augment_with_layer4                                                    *)
SecondVerdict(n) ==
  IF n \in gray THEN DependencyVerdict(Signals(n) \union Layer4Signals(n), config.degraded)
  ELSE verdict[n]

AssembleReport ==
  /\ phase = "layer4"
  /\ gray \subseteq DOMAIN assessed
  /\ verdict' = [n \in Names |-> SecondVerdict(n)]
  /\ Finish(Report(verdict'))
  /\ UNCHANGED <<input, cache, fetch, attempts, malice, gray, assessed, asked>>

-----------------------------------------------------------------------------
Lookup(n) == StartFetch(n) \/ FetchAnswered(n) \/ FetchGivesUp(n) \/ FetchFails(n) \/ FetchRaises(n)

ResolveLayer4(n) == ResolveFromCache(n) \/ AskLlm(n) \/ AbstainOverBudget(n)

Next ==
  \/ Parse \/ SeeError \/ Abort \/ FetchDone
  \/ ResolveChunk \/ ThreatIntelDone \/ Evaluate \/ AssembleReport
  \/ \E n \in Names : Lookup(n) \/ ResolveLayer4(n)

Spec == Init /\ [][Next]_vars

-----------------------------------------------------------------------------
TypeOK ==
  /\ manifest \in Manifests /\ config \in Configs /\ truth \in Worlds
  /\ cache \in [Names -> Assessments \union {NoAssessment}]
  /\ phase \in Phases
  /\ fetch \in [Names -> Settled \union {"none", "waiting", "running", "raised"}]
  /\ attempts \in [Names -> 0 .. ReintentosRed + 1]
  /\ malice \in [Names -> MaliceState \union {"none"}]
  /\ verdict \in [Names -> Verdict \union {"none"}]
  /\ gray \subseteq Wanted
  /\ DOMAIN assessed \subseteq gray
  /\ \A n \in DOMAIN assessed : assessed[n] \in Assessments \union {NoAssessment}
  /\ asked \subseteq DOMAIN assessed
  /\ \/ report \in {NoReport, ErrorReport}
     \/ /\ report.verdicts \in [Wanted -> Verdict]
        /\ report = Report(report.verdicts)

(* Fail-closed: whatever failed, a package is allowed only if the registry *)
(* has it and no active source knows of anything against it.               *)
AllowedIsVerified ==
  report # NoReport =>
    \A n \in DOMAIN report.verdicts : report.verdicts[n] = "allow" =>
      /\ truth[n].exists
      /\ config.layer3 => ~truth[n].malicious
      /\ config.layer3 /\ config.watchlist => ~truth[n].listed

(* Anti-block and anti-FP: only a missing package, a source's finding or a *)
(* hard signal of the name blocks; heuristics and the LLM together do not. *)
BlockedOnEvidence ==
  report # NoReport =>
    \A n \in DOMAIN report.verdicts : report.verdicts[n] = "block" =>
      \/ ~truth[n].exists
      \/ truth[n].lookalike # 0 \/ truth[n].long
      \/ config.layer3 /\ truth[n].malicious
      \/ config.layer3 /\ config.watchlist /\ truth[n].listed

(* _apply_layer4: "solo puede subir a warn, NUNCA a block", and it takes   *)
(* no verdict back.                                                        *)
Layer4OnlyWarns ==
  [][\A n \in Names : verdict[n] # "none" =>
       \/ verdict'[n] = verdict[n]
       \/ verdict[n] = "allow" /\ verdict'[n] = "warn"]_vars

(* NFR-Det.1: the budget of LLM calls holds, and the candidates that get   *)
(* no call for it are the last ones in the order of the names.             *)
BudgetCutsTheTail ==
  /\ Cardinality(asked) <= LlmMaxCalls
  /\ \A n \in DOMAIN assessed \ asked : assessed[n] = NoAssessment =>
       Cardinality(asked) = LlmMaxCalls /\ \A m \in asked : m < n

(* An error report does not leave workers of its pool behind.              *)
NoFetchBehindTheReport == report # NoReport => InFlight = {}

(* What a scan can still do: phases to come, lookups to begin, to end or to *)
(* try again, and answers of the sources and of the LLM that are missing.  *)
PhasesLeft ==
  CASE phase = "parse"       -> 5
    [] phase = "fetch"       -> 4
    [] phase = "threatintel" -> 3
    [] phase = "evaluate"    -> 2
    [] phase \in {"layer4", "abort"} -> 1
    [] phase = "done"        -> 0

NotStarted == {n \in Wanted : fetch[n] \in {"none", "waiting"}}

NotEnded == {n \in Wanted : fetch[n] \in {"none", "waiting", "running"}}

TriesLeft == {t \in Wanted \X (1 .. ReintentosRed + 1) : attempts[t[1]] < t[2]}

NotResolved == {n \in Wanted : malice[n] = "none"}

NotAssessed == Wanted \ DOMAIN assessed

StepsLeft ==
  PhasesLeft + Cardinality(NotStarted) + Cardinality(NotEnded) + Cardinality(TriesLeft)
    + Cardinality(NotResolved) + Cardinality(NotAssessed)

(* The engine implements ScanPromise.                                      *)
Promise == INSTANCE ScanPromise WITH wanted <- Wanted

PromiseSpec == Promise!Spec

=============================================================================
