-------------------------- MODULE CommandLineProofs --------------------------
(***************************************************************************)
(* The command line runs the engine as it is, so that what is proved of    *)
(* ScanEngine holds of the command; its exit code 0 is earned, for every   *)
(* set of packages and files, every configuration and every failure; and   *)
(* the parsers leave nothing out and reject only for cause, for every      *)
(* project, however its files include each other.                          *)
(***************************************************************************)
EXTENDS CommandLine, ScanEngineProofs

-----------------------------------------------------------------------------
(* A step of the command is a step of the engine or leaves it alone.       *)
LEMMA EngineSteps ==
  ASSUME [CliNext]_cliVars
  PROVE  [Next]_vars
  BY DEF CliNext, cliVars, Detect, LoadConfig, ScanManifest, Render, Interrupt

(* The command implements the engine: its behaviours are those of          *)
(* ScanEngine, with steps before, after and in the place of an interrupted *)
(* rest.                                                                   *)
THEOREM CommandRunsEngine == CliSpec => Spec
<1>1. CliInit => Init
  BY DEF CliInit
<1>2. [CliNext]_cliVars => [Next]_vars
  BY EngineSteps
<1> QED  BY <1>1, <1>2, PTL DEF CliSpec, Spec

-----------------------------------------------------------------------------
(* A scan that is done has an error report, or a report on its packages;   *)
(* and only then the exit code can be 0.                                   *)
Complete ==
  report = ErrorReport \/ (report.verdicts \in [Wanted -> Verdict] /\ report = Report(report.verdicts))

DoneComplete == phase = "done" => Complete

CodeOfReport ==
  /\ exit # NoExit => at = "over"
  /\ exit = 0 => phase = "done" /\ Code(report) = 0

CliInv == DoneComplete /\ CodeOfReport

(* The engine is done with a complete report.                              *)
LEMMA DoneStep ==
  ASSUME EngineInv, EngineInv', DoneComplete, [Next]_vars
  PROVE  DoneComplete'
<1> SUFFICES ASSUME phase' = "done" PROVE Complete'
  BY DEF DoneComplete
<1>0. Wanted' = Wanted
  BY InputFixed
<1>1. CASE UNCHANGED <<phase, report>>
  BY <1>0, <1>1 DEF DoneComplete, Complete, Report, ErrorReport
<1>2. CASE report' = ErrorReport
  BY <1>2 DEF Complete, ErrorReport
<1>3. CASE manifest = <<>> /\ report' = Report(verdict)
  <2>1. Wanted = {}
    BY <1>3 DEF Wanted
  <2>2. report'.verdicts \in [Wanted -> Verdict] /\ report' = Report(report'.verdicts)
    BY <1>3, <2>1, ReportTyped
  <2> QED  BY <1>0, <2>2 DEF Complete, Report
<1>4. CASE AssembleReport
  <2>1. (\A n \in Wanted : verdict'[n] \in Verdict) /\ report' = Report(verdict')
    BY <1>4, AssembledSound
  <2>2. report'.verdicts \in [Wanted -> Verdict] /\ report' = Report(report'.verdicts)
    BY <2>1, ReportTyped
  <2> QED  BY <1>0, <2>2 DEF Complete, Report
<1> QED
  BY Steps, <1>1, <1>2, <1>3, <1>4
  DEF vars, Parse, SeeError, Abort, FetchDone, ResolveChunk, ThreatIntelDone, Evaluate, StartFetch,
      FetchAnswered, FetchGivesUp, FetchFails, FetchRaises, ResolveFromCache, AskLlm,
      AbstainOverBudget, Finish

(* Exit code 0 comes from the report, also when something stops the command.*)
LEMMA CodeStep ==
  ASSUME CodeOfReport, [CliNext]_cliVars
  PROVE  CodeOfReport'
<1>1. CASE UNCHANGED cliVars
  BY <1>1 DEF CodeOfReport, cliVars, command, vars, Code
<1>2. CASE Detect \/ LoadConfig \/ Interrupt
  BY <1>2, NoExitOK DEF CodeOfReport, Detect, LoadConfig, Interrupt, Stopped, Over
<1>3. CASE ScanManifest
  <2>1. exit' = NoExit
    BY <1>3 DEF CodeOfReport, ScanManifest
  <2> QED  BY <2>1, NoExitOK DEF CodeOfReport
<1>4. CASE Render
  BY <1>4 DEF CodeOfReport, Render, Over, vars, command, Code
<1> QED  BY <1>1, <1>2, <1>3, <1>4 DEF CliNext

(* Whatever fails or is interrupted, and whatever the flags, CI passes a   *)
(* manifest only if the scan was whole and allowed every package of it     *)
(* with good reason.                                                       *)
THEOREM ZeroIsEarned == CliSpec => []ExitZeroIsEarned
<1>1. CliInit => CliInv
  BY NoExitOK DEF CliInit, CliInv, DoneComplete, CodeOfReport, Init
<1>2. EngineInv /\ EngineInv' /\ CliInv /\ [CliNext]_cliVars => CliInv'
  BY EngineSteps, DoneStep, CodeStep DEF CliInv
<1>3. EngineInv /\ CliInv => ExitZeroIsEarned
  <2> SUFFICES ASSUME EngineInv, CliInv, exit = 0
               PROVE  /\ phase = "done"
                      /\ DOMAIN report.verdicts = Wanted
                      /\ \A n \in Wanted : report.verdicts[n] = "allow" /\ Promise!MayAllow(n)
    BY DEF ExitZeroIsEarned
  <2>1. phase = "done" /\ Complete /\ Code(report) = 0
    BY DEF CliInv, CodeOfReport, DoneComplete
  <2>2. report # ErrorReport
    BY <2>1 DEF Code, ErrorReport
  <2>3. report.verdicts \in [Wanted -> Verdict] /\ report = Report(report.verdicts)
    BY <2>1, <2>2 DEF Complete
  <2> DEFINE V == {report.verdicts[n] : n \in Wanted}
  <2>4. /\ report = [error |-> FALSE, verdicts |-> report.verdicts, exit |-> ExitCode(V)]
        /\ V \in SUBSET Verdict
    BY <2>3 DEF Report
  <2> HIDE DEF V
  <2>5. report.exit = 0
    BY <2>1, <2>4 DEF Code
  <2>6. \A n \in Wanted : report.verdicts[n] = "allow"
    <3>1. \A v \in V : v = "allow"
      BY <2>4, <2>5, ExitCodes
    <3> QED  BY <3>1 DEF V
  <2>7. \A n \in Wanted : Sound(n, report.verdicts[n])
    <3>1. Wanted \in SUBSET Names
      BY WantedNames DEF EngineInv, TypeOK
    <3>2. report.verdicts \in UNION {[S -> Verdict] : S \in SUBSET Names}
      BY <2>3, <3>1
    <3>3. ExitCode(V) \in 0 .. 3
      BY <2>4, ExitCodes
    <3>4. report # NoReport
      <4>1. [error |-> FALSE, verdicts |-> report.verdicts, exit |-> ExitCode(V)]
              \in [error : BOOLEAN, verdicts : UNION {[S -> Verdict] : S \in SUBSET Names},
                  exit : 0 .. 3]
        BY <3>2, <3>3
      <4> QED  BY <2>4, <4>1, NoReportOK
    <3> QED  BY <2>3, <3>4 DEF EngineInv, ReportSound
  <2> QED  BY <2>1, <2>3, <2>6, <2>7 DEF Sound
<1> QED  BY CommandRunsEngine, EngineInvariant, <1>1, <1>2, <1>3, PTL DEF CliSpec

-----------------------------------------------------------------------------
(* The steps of the command run out too.                                   *)
AtTyped == at \in {"detect", "configure", "scan", "over"}

LEMMA AtStep ==
  ASSUME AtTyped, [CliNext]_cliVars
  PROVE  AtTyped'
<1>1. CASE UNCHANGED cliVars
  BY <1>1 DEF AtTyped, cliVars
<1> QED
  BY <1>1 DEF AtTyped, CliNext, Detect, LoadConfig, ScanManifest, Render, Interrupt, Over, Stopped

LEMMA LeftNat ==
  ASSUME EngineInv
  PROVE  StepsLeft \in Nat
<1>1. manifest \in Manifests /\ phase \in Phases
  BY DEF EngineInv, TypeOK
<1>2. PhasesLeft \in Nat
  BY <1>1 DEF PhasesLeft, Phases
<1>3. /\ Cardinality(NotStarted) \in Nat /\ Cardinality(NotEnded) \in Nat
      /\ Cardinality(TriesLeft) \in Nat /\ Cardinality(NotResolved) \in Nat
      /\ Cardinality(NotAssessed) \in Nat
  BY <1>1, LeftFinite, FS_CardinalityType
<1> QED  BY <1>2, <1>3 DEF StepsLeft

LEMMA Falls ==
  \A m, m1, n, n1 \in Nat : m1 <= m /\ n1 < n => m1 + n1 < m + n /\ n1 + m1 < n + m
  OBVIOUS

LEMMA CommandCounts ==
  ASSUME EngineInv, StepsLeft \in Nat, StepsLeft' \in Nat, AtTyped, AtTyped', CliNext, ~UNCHANGED cliVars
  PROVE  CommandStepsLeft' < CommandStepsLeft
<1>1. StagesLeft \in Nat /\ StagesLeft' \in Nat
  BY DEF AtTyped, StagesLeft
<1>2. CASE ScanManifest
  <2>1. [Next]_vars /\ StagesLeft' <= StagesLeft /\ ~UNCHANGED vars
    BY <1>1, <1>2 DEF ScanManifest, cliVars, StagesLeft
  <2>2. StepsLeft' < StepsLeft
    BY <2>1, EveryStep
  <2> QED  BY <1>1, <2>1, <2>2, Falls, Zenon DEF CommandStepsLeft
<1>3. CASE Detect \/ LoadConfig \/ Render \/ Interrupt
  <2>1. StagesLeft' < StagesLeft
    BY <1>3 DEF AtTyped, Detect, LoadConfig, Render, Interrupt, Over, Stopped, StagesLeft
  <2>2. StepsLeft' <= StepsLeft
    <3>1. UNCHANGED vars
      BY <1>3 DEF Detect, LoadConfig, Render, Interrupt
    <3>2. /\ Wanted' = Wanted /\ PhasesLeft' = PhasesLeft /\ NotStarted' = NotStarted
          /\ NotEnded' = NotEnded /\ TriesLeft' = TriesLeft /\ NotResolved' = NotResolved
          /\ NotAssessed' = NotAssessed
      BY <3>1 DEF vars, Wanted, PhasesLeft, NotStarted, NotEnded, TriesLeft, NotResolved, NotAssessed
    <3>3. StepsLeft' = StepsLeft
      BY <3>2 DEF StepsLeft
    <3> QED  BY <3>3
  <2> QED  BY <1>1, <2>1, <2>2, Falls, Zenon DEF CommandStepsLeft
<1> QED  BY <1>2, <1>3 DEF CliNext

(* A command comes to its exit code in a bounded number of steps, as long  *)
(* as it takes steps, whatever fails and however often.                    *)
THEOREM CommandRunsOut == CliSpec => EveryStepCounts
<1>1. CliInit => AtTyped
  BY DEF CliInit, AtTyped
<1>2. EngineInv => StepsLeft \in Nat
  BY LeftNat
<1>3. AtTyped /\ [CliNext]_cliVars => AtTyped'
  BY AtStep
<1>4. EngineInv /\ StepsLeft \in Nat /\ (StepsLeft \in Nat)' /\ AtTyped /\ AtTyped' /\ [CliNext]_cliVars
        => [CommandStepsLeft' < CommandStepsLeft]_cliVars
  BY CommandCounts
<1> QED
  BY CommandRunsEngine, EngineInvariant, <1>1, <1>2, <1>3, <1>4, PTL DEF CliSpec, EveryStepCounts

-----------------------------------------------------------------------------
(* Lists of spellings in which no name stands twice, and what a parser     *)
(* returns: such a list, or an error.                                      *)
NamesOf(deps) == {Normal[deps[i]] : i \in DOMAIN deps}

Distinct(deps) == \A i, j \in DOMAIN deps : Normal[deps[i]] = Normal[deps[j]] => i = j

Lists(S) == {deps \in Seq(S) : Distinct(deps)}

Results(S) == {r \in [ok : BOOLEAN, deps : Lists(S)] : r.ok \/ r.deps = <<>>}

LEMMA ResultsTyped ==
  ASSUME NEW S
  PROVE  /\ <<>> \in Lists(S) /\ NamesOf(<<>>) = {}
         /\ Parser!Rejected \in Results(S) /\ ~Parser!Rejected.ok
         /\ \A deps \in Lists(S) : Parser!Kept(deps) \in Results(S)
  BY DEF Lists, NamesOf, Distinct, Results, Parser!Rejected, Parser!Kept

LEMMA MergeAdds ==
  ASSUME NEW S, NEW deps \in Lists(S), NEW s \in S
  PROVE  /\ Parser!Merge(deps, s) \in Lists(S)
         /\ NamesOf(Parser!Merge(deps, s)) = NamesOf(deps) \union {Normal[s]}
<1>1. CASE \E i \in DOMAIN deps : Normal[deps[i]] = Normal[s]
  BY <1>1 DEF Parser!Merge, NamesOf
<1>2. CASE ~\E i \in DOMAIN deps : Normal[deps[i]] = Normal[s]
  <2> DEFINE m == Append(deps, s)
  <2>1. Parser!Merge(deps, s) = m /\ deps \in Seq(S)
    BY <1>2 DEF Parser!Merge, Lists
  <2>2. /\ m \in Seq(S) /\ DOMAIN m = DOMAIN deps \union {Len(deps) + 1}
        /\ m[Len(deps) + 1] = s /\ \A i \in DOMAIN deps : m[i] = deps[i]
    BY <2>1
  <2> HIDE DEF m
  <2>3. Distinct(m)
    BY <1>2, <2>2 DEF Distinct, Lists
  <2>4. NamesOf(m) = NamesOf(deps) \union {Normal[s]}
    BY <2>2 DEF NamesOf
  <2> QED  BY <2>1, <2>2, <2>3, <2>4 DEF Lists
<1> QED  BY <1>1, <1>2

LEMMA CappedFacts ==
  ASSUME NEW S, NEW deps \in Lists(S)
  PROVE  LET r == Parser!Capped(deps)
         IN  /\ r \in Results(S)
             /\ r.ok => r.deps = deps /\ Len(deps) <= MaxDeps
             /\ ~r.ok => Len(deps) > MaxDeps
<1>1. Len(deps) \in Nat
  BY DEF Lists
<1> QED  BY <1>1, ResultsTyped, LimitsOK DEF Parser!Capped, Parser!Kept, Parser!Rejected, Lists

(* AddAll merges the dependencies of an included file one by one.          *)
LEMMA AddAllAdds ==
  ASSUME NEW S, NEW deps \in Lists(S), NEW more \in Results(S), more.ok
  PROVE  \E all \in Lists(S) :
           /\ NamesOf(all) = NamesOf(deps) \union NamesOf(more.deps)
           /\ Parser!AddAll(deps, more) = Parser!Capped(all)
<1> DEFINE k == Len(more.deps)
           step == [n \in Nat |-> [d \in Lists(S) |-> IF n \in 1 .. k THEN Parser!Merge(d, more.deps[n]) ELSE d]]
<1>1. k \in Nat /\ more.deps \in Seq(S) /\ DOMAIN more.deps = 1 .. k /\ \A n \in 1 .. k : more.deps[n] \in S
  BY DEF Results, Lists
<1>2. step \in StepsOver(Lists(S))
  BY <1>1, MergeAdds DEF StepsOver
<1>3. \A n \in 1 .. k, d \in Lists(S) : step[n][d] = Parser!Merge(d, more.deps[n])
  BY <1>1
<1> HIDE DEF step, k
<1>4. PICK g : IteratesUpTo(Lists(S), deps, step, k, g)
  BY <1>1, <1>2, IteratesExistUpTo
<1>5. g \in [0 .. k -> Lists(S)] /\ g[0] = deps
  BY <1>4 DEF IteratesUpTo
<1>6. ASSUME NEW n \in 1 .. k
      PROVE  n - 1 \in 0 .. k /\ g[n - 1] \in Lists(S) /\ g[n] = Parser!Merge(g[n - 1], more.deps[n])
  <2>1. n - 1 \in 0 .. k /\ g[n] = step[n][g[n - 1]]
    BY <1>1, <1>4 DEF IteratesUpTo
  <2> QED  BY <1>3, <1>5, <2>1
<1>7. g = [n \in 0 .. k |-> IF n = 0 THEN deps ELSE Parser!Merge(g[n - 1], more.deps[n])]
  <2>1. ASSUME NEW n \in 0 .. k
        PROVE  g[n] = IF n = 0 THEN deps ELSE Parser!Merge(g[n - 1], more.deps[n])
    <3>1. CASE n = 0
      BY <1>5, <3>1
    <3>2. CASE n # 0
      <4>1. n \in 1 .. k
        BY <1>1, <3>2
      <4> QED  BY <1>6, <3>2, <4>1
    <3> QED  BY <3>1, <3>2
  <2> QED  BY <1>5, <2>1
<1> DEFINE merged == CHOOSE h : h = [n \in 0 .. k |-> IF n = 0 THEN deps ELSE Parser!Merge(h[n - 1], more.deps[n])]
<1>8. merged = [n \in 0 .. k |-> IF n = 0 THEN deps ELSE Parser!Merge(merged[n - 1], more.deps[n])]
  BY <1>7
<1>9. Parser!AddAll(deps, more) = Parser!Capped(merged[k])
  BY DEF Parser!AddAll, k
<1> HIDE DEF merged
<1> DEFINE T == {n \in Nat : n <= k => /\ merged[n] \in Lists(S)
                                       /\ NamesOf(merged[n]) = NamesOf(deps) \union {Normal[more.deps[i]] : i \in 1 .. n}}
<1>10. 0 \in T
  BY <1>1, <1>8
<1>11. ASSUME NEW n \in T
       PROVE  n + 1 \in T
  <2> SUFFICES ASSUME n + 1 <= k
               PROVE  /\ merged[n + 1] \in Lists(S)
                      /\ NamesOf(merged[n + 1]) = NamesOf(deps) \union {Normal[more.deps[i]] : i \in 1 .. n + 1}
    OBVIOUS
  <2>1. n \in Nat /\ n <= k /\ n + 1 \in 1 .. k /\ n + 1 \in 0 .. k /\ (n + 1) - 1 = n /\ n + 1 # 0
    BY <1>1
  <2>2. merged[n] \in Lists(S) /\ NamesOf(merged[n]) = NamesOf(deps) \union {Normal[more.deps[i]] : i \in 1 .. n}
    BY <2>1
  <2>3. merged[n + 1] = Parser!Merge(merged[n], more.deps[n + 1])
    BY <1>8, <2>1
  <2>4. merged[n + 1] \in Lists(S) /\ NamesOf(merged[n + 1]) = NamesOf(merged[n]) \union {Normal[more.deps[n + 1]]}
    BY <1>1, <2>1, <2>2, <2>3, MergeAdds
  <2>5. 1 .. n + 1 = (1 .. n) \union {n + 1}
    BY <2>1
  <2> QED  BY <2>2, <2>4, <2>5
<1>12. T = Nat
  <2>1. T \in SUBSET Nat
    OBVIOUS
  <2> HIDE DEF T
  <2> QED  BY <1>10, <1>11, <2>1, AllNumbers
<1>13. merged[k] \in Lists(S) /\ NamesOf(merged[k]) = NamesOf(deps) \union {Normal[more.deps[i]] : i \in 1 .. k}
  BY <1>1, <1>12
<1> QED  BY <1>1, <1>9, <1>13 DEF NamesOf

-----------------------------------------------------------------------------
(* One file: what each of its lines adds, and which lines are an error.    *)
Adds(parser, included, line) ==
  CASE Parser!Fate(parser, line) = "keep"    -> {Normal[line.of]}
    [] Parser!Fate(parser, line) = "include" -> NamesOf(included[line.of].deps)
    [] OTHER                                 -> {}

AddedBy(parser, included, body, n) == UNION {Adds(parser, included, body[i]) : i \in 1 .. n}

Bad(parser, included, line) ==
  \/ Parser!Fate(parser, line) = "reject"
  \/ Parser!Fate(parser, line) = "include" /\ ~included[line.of].ok

(* After n lines: all they add, or one of them is an error, or they add    *)
(* too much.                                                               *)
ReadSoFar(S, parser, included, body, n, read) ==
  /\ read \in Results(S)
  /\ read.ok => /\ NamesOf(read.deps) = AddedBy(parser, included, body, n)
                /\ Len(read.deps) <= MaxDeps
                /\ \A i \in 1 .. n : ~Bad(parser, included, body[i])
  /\ ~read.ok => \/ \E i \in 1 .. n : Bad(parser, included, body[i])
                 \/ \E many \in Lists(S) : /\ Len(many) > MaxDeps
                                           /\ NamesOf(many) \subseteq AddedBy(parser, included, body, n)

Parsers == {"requirements", "freeze", "pyproject", "package"}

LEMMA Fates ==
  ASSUME NEW parser \in Parsers, NEW line
  PROVE  Parser!Fate(parser, line) \in {"keep", "include", "skip", "reject"}
  BY DEF Parsers, Parser!Fate, Parser!RequirementsLine, Parser!FreezeLine, Parser!PyprojectSpec,
         Parser!PackageEntry

LEMMA LoadsFacts ==
  ASSUME NEW parser, NEW file, Parser!Loads(parser, file), file.syntax \in {"lines", "toml", "json"}
  PROVE  parser \in Parsers
  BY DEF Parsers, Parser!Loads, Parser!SyntaxOf

(* The lines of a file name spellings or files that were read.             *)
Readable(S, included, body) ==
  /\ body \in Seq({body[i] : i \in DOMAIN body})
  /\ \A i \in DOMAIN body : body[i].of \in S
  /\ \A i \in DOMAIN body : body[i].is = "include" => included[body[i].of] \in Results(S)

LEMMA IncludeFate ==
  ASSUME NEW parser \in Parsers, NEW line, Parser!Fate(parser, line) = "include"
  PROVE  parser = "requirements" /\ line.is = "include"
  BY DEF Parsers, Parser!Fate, Parser!RequirementsLine, Parser!FreezeLine, Parser!PyprojectSpec,
         Parser!PackageEntry

LEMMA LineRead ==
  ASSUME NEW S, NEW parser \in Parsers, NEW included, NEW body, Readable(S, included, body),
         NEW n \in DOMAIN body, NEW read \in Results(S)
  PROVE  LET line == body[n]
             next == Parser!ReadLine(parser, included, read, line)
         IN  /\ next \in Results(S)
             /\ next.ok => /\ read.ok /\ ~Bad(parser, included, line)
                           /\ NamesOf(next.deps) = NamesOf(read.deps) \union Adds(parser, included, line)
                           /\ Len(next.deps) <= MaxDeps \/ next = read
             /\ read.ok /\ ~next.ok =>
                  \/ Bad(parser, included, line)
                  \/ \E many \in Lists(S) :
                       /\ Len(many) > MaxDeps
                       /\ NamesOf(many) \subseteq NamesOf(read.deps) \union Adds(parser, included, line)
<1> DEFINE line == body[n]
           next == Parser!ReadLine(parser, included, read, line)
<1>1. line.of \in S /\ (line.is = "include" => included[line.of] \in Results(S))
  BY DEF Readable
<1>2. read.deps \in Lists(S) /\ read.ok \in BOOLEAN
  BY DEF Results
<1>3. CASE ~read.ok
  <2>1. next = Parser!Rejected
    BY <1>3 DEF Parser!ReadLine
  <2> QED  BY <1>3, <2>1, ResultsTyped
<1>4. CASE read.ok /\ Parser!Fate(parser, line) = "keep"
  <2> DEFINE m == Parser!Merge(read.deps, line.of)
  <2>1. next = Parser!Capped(m) /\ Adds(parser, included, line) = {Normal[line.of]} /\ ~Bad(parser, included, line)
    BY <1>4 DEF Parser!ReadLine, Adds, Bad
  <2>2. m \in Lists(S) /\ NamesOf(m) = NamesOf(read.deps) \union {Normal[line.of]}
    BY <1>1, <1>2, MergeAdds
  <2> HIDE DEF m, next, line
  <2> QED  BY <1>4, <2>1, <2>2, CappedFacts DEF next, line
<1>5. CASE read.ok /\ Parser!Fate(parser, line) = "include"
  <2> DEFINE more == included[line.of]
  <2>1. next = Parser!AddAll(read.deps, more) /\ Adds(parser, included, line) = NamesOf(more.deps)
    BY <1>5 DEF Parser!ReadLine, Adds
  <2>2. more \in Results(S)
    BY <1>1, <1>5, IncludeFate
  <2>3. CASE ~more.ok
    <3>1. next = Parser!Rejected
      BY <2>1, <2>3 DEF Parser!AddAll
    <3>2. Bad(parser, included, line)
      BY <1>5, <2>3 DEF Bad
    <3> QED  BY <3>1, <3>2, ResultsTyped
  <2>4. CASE more.ok
    <3>1. PICK all \in Lists(S) :
            /\ NamesOf(all) = NamesOf(read.deps) \union NamesOf(more.deps)
            /\ Parser!AddAll(read.deps, more) = Parser!Capped(all)
      BY <1>2, <2>2, <2>4, AddAllAdds
    <3>2. ~Bad(parser, included, line)
      BY <1>5, <2>4 DEF Bad
    <3> HIDE DEF more, next, line
    <3> QED  BY <1>5, <2>1, <3>1, <3>2, CappedFacts DEF next, line
  <2> QED  BY <2>3, <2>4
<1>6. CASE read.ok /\ Parser!Fate(parser, line) = "skip"
  BY <1>6 DEF Parser!ReadLine, Adds, Bad
<1>7. CASE read.ok /\ Parser!Fate(parser, line) = "reject"
  BY <1>7, ResultsTyped DEF Parser!ReadLine, Bad
<1> QED  BY <1>2, <1>3, <1>4, <1>5, <1>6, <1>7, Fates

(* ReadFile reads the lines in order.                                      *)
LEMMA FileRead ==
  ASSUME NEW S, NEW parser, NEW included, NEW file, file.syntax \in {"lines", "toml", "json"},
         Readable(S, included, file.body), Parser!Loads(parser, file)
  PROVE  ReadSoFar(S, parser, included, file.body, Len(file.body),
                   Parser!ReadFile(parser, included, file))
<1> DEFINE body == file.body
           k == Len(body)
           step == [n \in Nat |-> [r \in Results(S) |->
                      IF n \in 1 .. k THEN Parser!ReadLine(parser, included, r, body[n]) ELSE r]]
           first == Parser!Kept(<<>>)
<1>0. parser \in Parsers
  BY LoadsFacts
<1>1. k \in Nat /\ DOMAIN body = 1 .. k /\ Readable(S, included, body)
  BY DEF Readable
<1>2. first \in Results(S) /\ first.ok /\ first.deps = <<>>
  BY ResultsTyped DEF Parser!Kept
<1>3. \A n \in 1 .. k, r \in Results(S) : Parser!ReadLine(parser, included, r, body[n]) \in Results(S)
  BY <1>0, <1>1, LineRead
<1>4. step \in StepsOver(Results(S))
  BY <1>3 DEF StepsOver
<1>5. \A n \in 1 .. k, r \in Results(S) : step[n][r] = Parser!ReadLine(parser, included, r, body[n])
  BY <1>1
<1> HIDE DEF step, k, body, first
<1>6. PICK g : IteratesUpTo(Results(S), first, step, k, g)
  BY <1>1, <1>2, <1>4, IteratesExistUpTo
<1>7. g \in [0 .. k -> Results(S)] /\ g[0] = first
  BY <1>6 DEF IteratesUpTo
<1>8. ASSUME NEW n \in 1 .. k
      PROVE  g[n] = Parser!ReadLine(parser, included, g[n - 1], body[n])
  <2>1. n - 1 \in 0 .. k /\ g[n] = step[n][g[n - 1]]
    BY <1>1, <1>6 DEF IteratesUpTo
  <2> QED  BY <1>5, <1>7, <2>1
<1>9. g = [n \in 0 .. k |-> IF n = 0 THEN first ELSE Parser!ReadLine(parser, included, g[n - 1], body[n])]
  <2>1. ASSUME NEW n \in 0 .. k
        PROVE  g[n] = IF n = 0 THEN first ELSE Parser!ReadLine(parser, included, g[n - 1], body[n])
    <3>1. CASE n = 0
      BY <1>7, <3>1
    <3>2. CASE n # 0
      <4>1. n \in 1 .. k
        BY <1>1, <3>2
      <4> QED  BY <1>8, <3>2, <4>1
    <3> QED  BY <3>1, <3>2
  <2> QED  BY <1>7, <2>1
<1> DEFINE read == CHOOSE h : h = [n \in 0 .. k |-> IF n = 0 THEN first
                                                    ELSE Parser!ReadLine(parser, included, h[n - 1], body[n])]
<1>10. read = [n \in 0 .. k |-> IF n = 0 THEN first ELSE Parser!ReadLine(parser, included, read[n - 1], body[n])]
  BY <1>9
<1>11. Parser!ReadFile(parser, included, file) = read[k]
  BY DEF Parser!ReadFile, k, body, first
<1> HIDE DEF read
<1> DEFINE T == {n \in Nat : n <= k => ReadSoFar(S, parser, included, body, n, read[n])}
<1>12. 0 \in T
  <2>1. read[0] = first
    BY <1>1, <1>10
  <2>2. /\ NamesOf(first.deps) = {} /\ Len(first.deps) <= MaxDeps
        /\ AddedBy(parser, included, body, 0) = {} /\ 1 .. 0 = {}
    BY <1>2, LimitsOK DEF NamesOf, AddedBy
  <2>3. ReadSoFar(S, parser, included, body, 0, first)
    BY <1>2, <2>2 DEF ReadSoFar
  <2> QED  BY <2>1, <2>3
<1>13. ASSUME NEW n \in T
       PROVE  n + 1 \in T
  <2> SUFFICES ASSUME n + 1 <= k
               PROVE  ReadSoFar(S, parser, included, body, n + 1, read[n + 1])
    OBVIOUS
  <2>1. n \in Nat /\ n <= k /\ n + 1 \in 1 .. k /\ n + 1 \in 0 .. k /\ (n + 1) - 1 = n /\ n + 1 # 0
    BY <1>1
  <2>2. ReadSoFar(S, parser, included, body, n, read[n])
    BY <2>1
  <2> DEFINE r == read[n]
             line == body[n + 1]
             next == read[n + 1]
  <2>3. next = Parser!ReadLine(parser, included, r, line)
    BY <1>10, <2>1
  <2>4. r \in Results(S) /\ n + 1 \in DOMAIN body
    BY <1>1, <2>1, <2>2 DEF ReadSoFar
  <2>5. /\ AddedBy(parser, included, body, n + 1) = AddedBy(parser, included, body, n) \union Adds(parser, included, line)
        /\ 1 .. n + 1 = (1 .. n) \union {n + 1}
    <3>1. 1 .. n + 1 = (1 .. n) \union {n + 1}
      BY <2>1
    <3> QED  BY <3>1 DEF AddedBy
  <2>6. /\ next \in Results(S)
        /\ next.ok => /\ r.ok /\ ~Bad(parser, included, line)
                      /\ NamesOf(next.deps) = NamesOf(r.deps) \union Adds(parser, included, line)
                      /\ Len(next.deps) <= MaxDeps \/ next = r
        /\ r.ok /\ ~next.ok =>
             \/ Bad(parser, included, line)
             \/ \E many \in Lists(S) :
                  /\ Len(many) > MaxDeps
                  /\ NamesOf(many) \subseteq NamesOf(r.deps) \union Adds(parser, included, line)
    BY <1>0, <1>1, <2>3, <2>4, LineRead
  <2> HIDE DEF r, line, next
  <2>7. ReadSoFar(S, parser, included, body, n, r)
    BY <2>2 DEF r
  <2>8. CASE next.ok
    <3>1. /\ NamesOf(next.deps) = AddedBy(parser, included, body, n + 1)
          /\ Len(next.deps) <= MaxDeps
      BY <2>5, <2>6, <2>7, <2>8 DEF ReadSoFar
    <3>2. ASSUME NEW i \in 1 .. n + 1 PROVE ~Bad(parser, included, body[i])
      BY <2>5, <2>6, <2>7, <2>8 DEF ReadSoFar, line
    <3> QED  BY <2>6, <2>8, <3>1, <3>2 DEF ReadSoFar, next
  <2>9. CASE ~next.ok /\ r.ok
    <3>1. CASE Bad(parser, included, line)
      BY <2>1, <2>6, <2>9, <3>1 DEF ReadSoFar, line, next
    <3>2. CASE \E many \in Lists(S) :
                  /\ Len(many) > MaxDeps
                  /\ NamesOf(many) \subseteq NamesOf(r.deps) \union Adds(parser, included, line)
      <4>1. NamesOf(r.deps) = AddedBy(parser, included, body, n)
        BY <2>7, <2>9 DEF ReadSoFar
      <4> QED  BY <2>5, <2>6, <2>9, <3>2, <4>1 DEF ReadSoFar, next
    <3> QED  BY <2>6, <2>9, <3>1, <3>2
  <2>10. CASE ~next.ok /\ ~r.ok
    <3>1. CASE \E i \in 1 .. n : Bad(parser, included, body[i])
      BY <2>5, <2>6, <2>10, <3>1 DEF ReadSoFar, next
    <3>2. CASE \E many \in Lists(S) : /\ Len(many) > MaxDeps
                                      /\ NamesOf(many) \subseteq AddedBy(parser, included, body, n)
      <4>1. PICK many \in Lists(S) : /\ Len(many) > MaxDeps
                                     /\ NamesOf(many) \subseteq AddedBy(parser, included, body, n)
        BY <3>2
      <4>2. NamesOf(many) \subseteq AddedBy(parser, included, body, n + 1)
        BY <2>5, <4>1
      <4> QED  BY <2>6, <2>10, <4>1, <4>2 DEF ReadSoFar, next
    <3> QED  BY <2>7, <2>10, <3>1, <3>2 DEF ReadSoFar
  <2> QED  BY <2>8, <2>9, <2>10 DEF next, r
<1>14. T = Nat
  <2>1. T \in SUBSET Nat
    OBVIOUS
  <2> HIDE DEF T
  <2> QED  BY <1>12, <1>13, <2>1, AllNumbers
<1>15. ReadSoFar(S, parser, included, body, k, read[k])
  BY <1>1, <1>14
<1> QED  BY <1>11, <1>15 DEF k, body

-----------------------------------------------------------------------------
(* Includes: what the file at the end of each branch is read to.           *)
Tidy(files) ==
  \A f \in DOMAIN files :
    /\ files[f].syntax \in {"lines", "toml", "json"}
    /\ files[f].body \in Seq({files[f].body[i] : i \in DOMAIN files[f].body})

Spellings(files) == UNION {{files[f].body[i].of : i \in DOMAIN files[f].body} : f \in DOMAIN files}

Branches(files) == Seq(DOMAIN files) \ {<<>>}

Read(files) == Results(Spellings(files))

EndOf(files, stack) == files[Parser!Last(stack)]

Included(files, stack, h) ==
  [f \in Parser!IncludesOf(EndOf(files, stack)) |->
     IF Parser!MayInclude(stack, f) /\ Parser!InProject(files, f)
       THEN h[Append(stack, f)] ELSE Parser!Rejected]

IsParsed(parser, files, h) ==
  /\ h \in [Branches(files) -> Read(files)]
  /\ \A stack \in Branches(files) :
       h[stack] = Parser!ReadFile(parser, Included(files, stack, h), EndOf(files, stack))

LEMMA BranchEnd ==
  ASSUME NEW files, Tidy(files), NEW stack \in Branches(files)
  PROVE  /\ Parser!Last(stack) \in DOMAIN files /\ Len(stack) \in Nat \ {0}
         /\ EndOf(files, stack).syntax \in {"lines", "toml", "json"}
         /\ \A f \in DOMAIN files : /\ Append(stack, f) \in Branches(files)
                                    /\ Len(Append(stack, f)) = Len(stack) + 1
                                    /\ Parser!Last(Append(stack, f)) = f
<1>1. stack \in Seq(DOMAIN files) /\ stack # <<>>
  BY DEF Branches
<1>2. Len(stack) \in Nat \ {0} /\ Parser!Last(stack) \in DOMAIN files
  BY <1>1 DEF Parser!Last
<1>3. ASSUME NEW f \in DOMAIN files
      PROVE  /\ Append(stack, f) \in Branches(files)
             /\ Len(Append(stack, f)) = Len(stack) + 1
             /\ Parser!Last(Append(stack, f)) = f
  BY <1>1, <1>2 DEF Branches, Parser!Last
<1> QED  BY <1>2, <1>3 DEF Tidy, EndOf

LEMMA BranchReadable ==
  ASSUME NEW files, Tidy(files), NEW stack \in Branches(files), NEW h \in [Branches(files) -> Read(files)]
  PROVE  Readable(Spellings(files), Included(files, stack, h), EndOf(files, stack).body)
<1> DEFINE file == EndOf(files, stack)
           body == file.body
           inc == Included(files, stack, h)
<1>1. /\ Parser!Last(stack) \in DOMAIN files
      /\ \A f \in DOMAIN files : Append(stack, f) \in Branches(files)
  BY BranchEnd
<1>2. body \in Seq({body[i] : i \in DOMAIN body})
  BY <1>1 DEF Tidy, EndOf
<1>3. \A i \in DOMAIN body : body[i].of \in Spellings(files)
  BY <1>1 DEF Spellings, EndOf
<1>4. ASSUME NEW i \in DOMAIN body, body[i].is = "include"
      PROVE  inc[body[i].of] \in Read(files)
  <2>1. body[i].of \in Parser!IncludesOf(file)
    BY <1>4 DEF Parser!IncludesOf, Parser!Range
  <2>2. inc[body[i].of] = IF Parser!MayInclude(stack, body[i].of) /\ Parser!InProject(files, body[i].of)
                            THEN h[Append(stack, body[i].of)] ELSE Parser!Rejected
    BY <2>1 DEF Included
  <2>3. CASE Parser!InProject(files, body[i].of)
    <3>1. h[Append(stack, body[i].of)] \in Read(files)
      BY <1>1, <2>3 DEF Parser!InProject
    <3> QED  BY <2>2, <3>1, ResultsTyped DEF Read
  <2>4. CASE ~Parser!InProject(files, body[i].of)
    BY <2>2, <2>4, ResultsTyped DEF Read
  <2> QED  BY <2>3, <2>4
<1> QED  BY <1>2, <1>3, <1>4 DEF Readable, Read

LEMMA BranchRead ==
  ASSUME NEW parser, NEW files, Tidy(files), NEW stack \in Branches(files),
         NEW h \in [Branches(files) -> Read(files)]
  PROVE  LET r == Parser!ReadFile(parser, Included(files, stack, h), EndOf(files, stack))
             body == EndOf(files, stack).body
         IN  /\ r \in Read(files)
             /\ r.ok => Parser!Loads(parser, EndOf(files, stack))
             /\ Parser!Loads(parser, EndOf(files, stack)) =>
                  ReadSoFar(Spellings(files), parser, Included(files, stack, h), body, Len(body), r)
<1> DEFINE file == EndOf(files, stack)
           inc == Included(files, stack, h)
           r == Parser!ReadFile(parser, inc, file)
<1>1. CASE Parser!Loads(parser, file)
  <2>1. Readable(Spellings(files), inc, file.body) /\ file.syntax \in {"lines", "toml", "json"}
    BY BranchReadable, BranchEnd
  <2>2. ReadSoFar(Spellings(files), parser, inc, file.body, Len(file.body), r)
    BY <1>1, <2>1, FileRead
  <2> QED  BY <1>1, <2>2 DEF ReadSoFar, Read
<1>2. CASE ~Parser!Loads(parser, file)
  <2>1. r = Parser!Rejected
    BY <1>2 DEF Parser!ReadFile
  <2> QED  BY <1>2, <2>1, ResultsTyped DEF Read
<1> QED  BY <1>1, <1>2

(* A branch depends on the branches that go on from it, if it may.         *)
LEMMA IncludedSame ==
  ASSUME NEW files, NEW stack, NEW g, NEW h,
         \A f \in DOMAIN files : Parser!MayInclude(stack, f) => g[Append(stack, f)] = h[Append(stack, f)]
  PROVE  Included(files, stack, g) = Included(files, stack, h)
<1>1. ASSUME NEW f \in Parser!IncludesOf(EndOf(files, stack))
      PROVE  (IF Parser!MayInclude(stack, f) /\ Parser!InProject(files, f)
                THEN g[Append(stack, f)] ELSE Parser!Rejected)
           = (IF Parser!MayInclude(stack, f) /\ Parser!InProject(files, f)
                THEN h[Append(stack, f)] ELSE Parser!Rejected)
  BY DEF Parser!InProject
<1> QED  BY <1>1 DEF Included

(* A branch has at most MaxIncludeDepth + 1 files, so that the recursion   *)
(* ends: the branches are read from the longest to the root.               *)
LEMMA ParsedExists ==
  ASSUME NEW parser, NEW files, Tidy(files)
  PROVE  \E h : IsParsed(parser, files, h)
<1> DEFINE B == Branches(files)
           R == Read(files)
           F == [B -> R]
           ReadOf(s, g) == Parser!ReadFile(parser, Included(files, s, g), EndOf(files, s))
           step == [n \in Nat |-> [g \in F |-> [s \in B |-> ReadOf(s, g)]]]
           base == [s \in B |-> Parser!Rejected]
           N(s) == IF Len(s) > MaxIncludeDepth THEN 1 ELSE (MaxIncludeDepth - Len(s)) + 2
<1>1. \A s \in B, g \in F : ReadOf(s, g) \in R
  BY BranchRead
<1>2. \A g \in F : [s \in B |-> ReadOf(s, g)] \in F
  BY <1>1
<1>3. step \in StepsOver(F) /\ \A n \in Nat, g \in F : step[n][g] = [s \in B |-> ReadOf(s, g)]
  <2> HIDE DEF ReadOf, F, B
  <2> QED  BY <1>2 DEF StepsOver
<1>4. base \in F
  BY ResultsTyped DEF Read
<1> HIDE DEF step, base
<1>5. PICK G : Iterates(F, base, step, G)
  <2> HIDE DEF F
  <2> QED  BY <1>3, <1>4, IteratesExist
<1>6. \A n \in Nat : G[n] \in F
  BY <1>5 DEF Iterates
<1>7. ASSUME NEW n \in Nat \ {0}
      PROVE  n - 1 \in Nat /\ G[n] = [s \in B |-> ReadOf(s, G[n - 1])]
  <2>1. n \in Nat /\ n - 1 \in Nat
    OBVIOUS
  <2>2. G[n] = step[n][G[n - 1]]
    BY <1>5 DEF Iterates
  <2> HIDE DEF F, B, ReadOf
  <2> QED  BY <1>3, <1>6, <2>1, <2>2
<1>8. \A s \in B : Len(s) \in Nat \ {0} /\ N(s) \in Nat \ {0}
  BY BranchEnd, LimitsOK
<1> DEFINE h == [s \in B |-> G[N(s)][s]]
<1>9. h \in F
  <2>1. ASSUME NEW s \in B PROVE G[N(s)][s] \in R
    <3>1. N(s) \in Nat /\ G[N(s)] \in [B -> R]
      BY <1>6, <1>8
    <3> HIDE DEF N, B, R
    <3> QED  BY <3>1
  <2> HIDE DEF N, B, R
  <2> QED  BY <2>1
<1>10. ASSUME NEW s \in B
       PROVE  h[s] = ReadOf(s, h)
  <2> DEFINE g == G[N(s) - 1]
  <2>1. h[s] = ReadOf(s, g)
    <3>1. N(s) \in Nat \ {0}
      BY <1>8
    <3>2. h[s] = G[N(s)][s]
      OBVIOUS
    <3> HIDE DEF N, ReadOf, h, B
    <3> QED  BY <1>7, <3>1, <3>2
  <2>2. ASSUME NEW f \in DOMAIN files, Parser!MayInclude(s, f)
        PROVE  h[Append(s, f)] = g[Append(s, f)]
    <3>1. Append(s, f) \in B /\ Len(Append(s, f)) = Len(s) + 1
      BY BranchEnd
    <3>2. Len(s) <= MaxIncludeDepth /\ Len(s) \in Nat /\ MaxIncludeDepth \in Nat
      BY <1>8, <2>2, LimitsOK DEF Parser!MayInclude
    <3>3. N(Append(s, f)) = N(s) - 1
      BY <3>1, <3>2
    <3>4. h[Append(s, f)] = G[N(Append(s, f))][Append(s, f)]
      BY <3>1
    <3> HIDE DEF N, h
    <3> QED  BY <3>3, <3>4
  <2>3. Included(files, s, h) = Included(files, s, g)
    <3> HIDE DEF h, g
    <3> QED  BY <2>2, IncludedSame
  <2> HIDE DEF h, g
  <2> QED  BY <2>1, <2>3
<1> HIDE DEF h
<1> QED  BY <1>9, <1>10 DEF IsParsed

LEMMA ParseReads ==
  ASSUME NEW parser, NEW files, Tidy(files), NEW root
  PROVE  \E h : /\ IsParsed(parser, files, h)
                /\ Parser!Parse(parser, files, root) =
                     IF root \in DOMAIN files THEN h[<<root>>] ELSE Parser!Rejected
<1> DEFINE outcome ==
      CHOOSE h : h = [stack \in Seq(DOMAIN files) \ {<<>>} |->
        Parser!ReadFile(parser,
                        [f \in Parser!IncludesOf(files[Parser!Last(stack)]) |->
                           IF Parser!MayInclude(stack, f) /\ Parser!InProject(files, f)
                             THEN h[Append(stack, f)] ELSE Parser!Rejected],
                        files[Parser!Last(stack)])]
<1>1. Parser!Parse(parser, files, root) =
        IF Parser!InProject(files, root) THEN outcome[<<root>>] ELSE Parser!Rejected
  BY DEF Parser!Parse
<1>2. PICK h : IsParsed(parser, files, h)
  BY ParsedExists
<1>3. h = [stack \in Branches(files) |->
             Parser!ReadFile(parser, Included(files, stack, h), EndOf(files, stack))]
  BY <1>2 DEF IsParsed
<1>4. outcome = [stack \in Branches(files) |->
                  Parser!ReadFile(parser, Included(files, stack, outcome), EndOf(files, stack))]
  BY <1>3 DEF Branches, Included, EndOf
<1> HIDE DEF outcome
<1> DEFINE T == {k \in Nat : \A stack \in Branches(files) :
                                Len(stack) + k > MaxIncludeDepth => outcome[stack] = h[stack]}
<1>5. ASSUME NEW stack \in Branches(files),
             \A f \in DOMAIN files : Parser!MayInclude(stack, f) =>
                outcome[Append(stack, f)] = h[Append(stack, f)]
      PROVE  outcome[stack] = h[stack]
  <2>1. Included(files, stack, outcome) = Included(files, stack, h)
    BY <1>5, IncludedSame
  <2> QED  BY <1>3, <1>4, <2>1
<1>6. 0 \in T
  <2>1. ASSUME NEW stack \in Branches(files), Len(stack) + 0 > MaxIncludeDepth
        PROVE  outcome[stack] = h[stack]
    <3>1. \A f : ~Parser!MayInclude(stack, f)
      BY <2>1, BranchEnd, LimitsOK DEF Parser!MayInclude
    <3> QED  BY <1>5, <3>1
  <2> QED  BY <2>1
<1>7. ASSUME NEW k \in T
      PROVE  k + 1 \in T
  <2>1. k \in Nat /\ \A stack \in Branches(files) :
                        Len(stack) + k > MaxIncludeDepth => outcome[stack] = h[stack]
    OBVIOUS
  <2>2. ASSUME NEW stack \in Branches(files), Len(stack) + (k + 1) > MaxIncludeDepth
        PROVE  outcome[stack] = h[stack]
    <3>1. \A f \in DOMAIN files : /\ Append(stack, f) \in Branches(files)
                                  /\ Len(Append(stack, f)) + k > MaxIncludeDepth
      BY <2>1, <2>2, BranchEnd, LimitsOK
    <3> QED  BY <1>5, <2>1, <3>1
  <2> QED  BY <2>1, <2>2
<1>8. T = Nat
  <2>1. T \in SUBSET Nat
    OBVIOUS
  <2> HIDE DEF T
  <2> QED  BY <1>6, <1>7, <2>1, AllNumbers
<1>9. \A stack \in Branches(files) : outcome[stack] = h[stack]
  <2>1. MaxIncludeDepth + 1 \in T
    <3>1. MaxIncludeDepth + 1 \in Nat
      BY LimitsOK
    <3> HIDE DEF T
    <3> QED  BY <1>8, <3>1
  <2>2. \A stack \in Branches(files) : Len(stack) + (MaxIncludeDepth + 1) > MaxIncludeDepth
    BY BranchEnd, LimitsOK
  <2> QED  BY <2>1, <2>2
<1>10. <<root>> \in Branches(files) \/ root \notin DOMAIN files
  BY DEF Branches
<1> QED  BY <1>1, <1>2, <1>9, <1>10 DEF Parser!InProject

-----------------------------------------------------------------------------
(* The files that some chain of includes leads to.                         *)
LEMMA Levels ==
  ASSUME NEW parser, NEW files, NEW root
  PROVE  LET L == Parser!AtDepth(parser, files, root)
         IN  /\ L[0] = {root}
             /\ \A n \in Nat : L[n + 1] = IF parser = "requirements" THEN Parser!IncludedBy(files, L[n]) ELSE {}
<1> DEFINE X == {root} \union UNION {Parser!IncludesOf(files[f]) : f \in DOMAIN files}
           next(l) == IF parser = "requirements" THEN Parser!IncludedBy(files, l) ELSE {}
           step == [n \in Nat |-> [l \in SUBSET X |-> next(l)]]
<1>1. \A l : next(l) \in SUBSET X
  BY DEF Parser!IncludedBy
<1>2. step \in StepsOver(SUBSET X) /\ \A n \in Nat, l \in SUBSET X : step[n][l] = next(l)
  <2> HIDE DEF X, next
  <2> QED  BY <1>1 DEF StepsOver
<1>3. {root} \in SUBSET X
  OBVIOUS
<1> HIDE DEF step, X, next
<1>4. PICK g : Iterates(SUBSET X, {root}, step, g)
  BY <1>2, <1>3, IteratesExist
<1>5. g = [n \in Nat |-> IF n = 0 THEN {root} ELSE next(g[n - 1])]
  <2>1. ASSUME NEW n \in Nat
        PROVE  g[n] = IF n = 0 THEN {root} ELSE next(g[n - 1])
    <3>1. CASE n = 0
      BY <1>4, <3>1 DEF Iterates
    <3>2. CASE n # 0
      <4>1. n - 1 \in Nat /\ g[n - 1] \in SUBSET X /\ g[n] = step[n][g[n - 1]]
        BY <1>4, <3>2 DEF Iterates
      <4> QED  BY <1>2, <3>2, <4>1
    <3> QED  BY <3>1, <3>2
  <2> QED  BY <1>4, <2>1 DEF Iterates
<1> DEFINE L == Parser!AtDepth(parser, files, root)
<1>6. L = CHOOSE l : l = [n \in Nat |-> IF n = 0 THEN {root} ELSE next(l[n - 1])]
  BY DEF Parser!AtDepth, next
<1>7. L = [n \in Nat |-> IF n = 0 THEN {root} ELSE next(L[n - 1])]
  <2> HIDE DEF L
  <2> QED  BY <1>5, <1>6
<1> HIDE DEF L
<1>8. ASSUME NEW n \in Nat
      PROVE  L[n + 1] = next(L[n])
  <2>1. n + 1 \in Nat /\ n + 1 # 0 /\ (n + 1) - 1 = n
    OBVIOUS
  <2> QED  BY <1>7, <2>1
<1>9. L[0] = {root}
  BY <1>7
<1> QED  BY <1>8, <1>9 DEF next, L

At(parser, files, root, n) == Parser!AtDepth(parser, files, root)[n]

LEMMA SameCardinality == \A S : Parser!Cardinality(S) = Cardinality(S)
  BY DEF Parser!Cardinality, Cardinality

LEMMA ReachedLines ==
  ASSUME NEW parser, NEW files, NEW root, NEW n \in 0 .. Cardinality(DOMAIN files),
         NEW f \in At(parser, files, root, n)
  PROVE  /\ f \in Parser!Reached(parser, files, root)
         /\ f \in DOMAIN files => \A i \in DOMAIN files[f].body :
              LET line == files[f].body[i]
              IN  /\ line \in Parser!LinesOf(parser, files, root)
                  /\ line.is \in {"dep", "pin"} => Normal[line.of] \in Parser!DeclaredBy(parser, files, root)
<1>1. f \in Parser!Reached(parser, files, root)
  BY SameCardinality, Zenon DEF Parser!Reached, At
<1>2. ASSUME f \in DOMAIN files, NEW i \in DOMAIN files[f].body
      PROVE  files[f].body[i] \in Parser!LinesOf(parser, files, root)
  BY <1>1, <1>2 DEF Parser!LinesOf, Parser!Range
<1> QED  BY <1>1, <1>2 DEF Parser!DeclaredBy

(* A chain of includes from the root, in which no file stands twice, as    *)
(* the parser follows it.                                                  *)
Chain(parser, files, root, s) ==
  /\ s \in Branches(files) /\ Len(s) <= MaxIncludeDepth + 1 /\ s[1] = root
  /\ \A i, j \in 1 .. Len(s) : s[i] = s[j] => i = j
  /\ \A i \in 1 .. Len(s) - 1 : s[i + 1] \in Parser!IncludesOf(files[s[i]])
  /\ Parser!Last(s) \in At(parser, files, root, Len(s) - 1)

LEMMA ChainFacts ==
  ASSUME NEW parser, NEW files, Tidy(files), IsFiniteSet(DOMAIN files), NEW root, NEW s,
         Chain(parser, files, root, s)
  PROVE  /\ s \in Branches(files) /\ s \in Seq(DOMAIN files) /\ Parser!Last(s) \in DOMAIN files
         /\ Len(s) \in Nat \ {0} /\ Len(s) - 1 \in Nat /\ (Len(s) - 1) + 1 = Len(s)
         /\ Cardinality(DOMAIN files) \in Nat
         /\ Len(s) <= Cardinality(DOMAIN files)
         /\ Len(s) - 1 \in 0 .. Cardinality(DOMAIN files) /\ Len(s) \in 0 .. Cardinality(DOMAIN files)
<1> DEFINE F == DOMAIN files
           k == Len(s)
<1>1. s \in Branches(files) /\ s \in Seq(F)
  BY DEF Chain, Branches
<1>2. Parser!Last(s) \in F /\ k \in Nat \ {0}
  BY <1>1, BranchEnd
<1>3. Cardinality(F) \in Nat
  BY FS_CardinalityType
<1>4. k <= Cardinality(F)
  <2>1. s \in [1 .. k -> F] /\ \A i, j \in 1 .. k : s[i] = s[j] => i = j
    BY <1>1 DEF Chain
  <2>2. s \in Injection(1 .. k, F)
    BY <2>1 DEF Injection, IsInjective
  <2>3. Cardinality(1 .. k) = k
    BY <1>2, FS_Interval
  <2> HIDE DEF k, F
  <2> QED  BY <2>2, <2>3, FS_Injection DEF F
<1> QED  BY <1>1, <1>2, <1>3, <1>4

LEMMA RootChain ==
  ASSUME NEW parser, NEW files, Tidy(files), NEW root \in DOMAIN files
  PROVE  Chain(parser, files, root, <<root>>)
<1> DEFINE s == <<root>>
<1>1. s \in Branches(files) /\ Len(s) = 1 /\ s[1] = root /\ Parser!Last(s) = root
  BY DEF Branches, Parser!Last
<1>2. root \in At(parser, files, root, 0)
  BY Levels DEF At
<1> HIDE DEF s
<1>3. /\ Len(s) - 1 = 0 /\ Len(s) <= MaxIncludeDepth + 1
      /\ 1 .. Len(s) - 1 = {} /\ \A i \in 1 .. Len(s) : i = 1
  BY <1>1, LimitsOK
<1>4. Parser!Last(s) \in At(parser, files, root, Len(s) - 1)
  BY <1>1, <1>2, <1>3
<1>5. Chain(parser, files, root, s)
  BY <1>1, <1>3, <1>4 DEF Chain
<1> QED  BY <1>5 DEF s

LEMMA ChainGoesOn ==
  ASSUME NEW files, Tidy(files), IsFiniteSet(DOMAIN files), NEW root, NEW s,
         Chain("requirements", files, root, s), NEW f \in Parser!IncludesOf(EndOf(files, s))
  PROVE  /\ f \in At("requirements", files, root, Len(s))
         /\ f \in DOMAIN files /\ Parser!MayInclude(s, f) => Chain("requirements", files, root, Append(s, f))
<1> DEFINE k == Len(s)
           L == Parser!AtDepth("requirements", files, root)
           t == Append(s, f)
<1>1. /\ s \in Seq(DOMAIN files) /\ k \in Nat \ {0} /\ k - 1 \in Nat /\ (k - 1) + 1 = k
      /\ Parser!Last(s) \in DOMAIN files
  BY ChainFacts
<1>2. f \in At("requirements", files, root, k)
  <2>1. Parser!Last(s) \in L[k - 1]
    BY DEF Chain, At
  <2>2. L[k] = Parser!IncludedBy(files, L[k - 1])
    <3> HIDE DEF L, k
    <3> QED  BY <1>1, Levels DEF L
  <2> HIDE DEF L
  <2>3. f \in L[k]
    BY <1>1, <2>1, <2>2 DEF Parser!IncludedBy, EndOf
  <2> QED  BY <2>3 DEF At, L
<1>3. ASSUME f \in DOMAIN files, Parser!MayInclude(s, f)
      PROVE  Chain("requirements", files, root, t)
  <2>1. t \in Branches(files) /\ Len(t) = k + 1 /\ Parser!Last(t) = f
    BY <1>3, BranchEnd DEF Chain
  <2>2. t[k + 1] = f /\ \A i \in 1 .. k : t[i] = s[i]
    BY <1>1, <1>3
  <2>3. k <= MaxIncludeDepth /\ \A i \in 1 .. k : s[i] # f
    BY <1>1, <1>3 DEF Parser!MayInclude, Parser!Range
  <2>4. \A i \in 1 .. k + 1 : i = k + 1 \/ i \in 1 .. k
    BY <1>1
  <2>5. t[1] = root
    BY <1>1, <2>2 DEF Chain
  <2>6. \A i, j \in 1 .. k : s[i] = s[j] => i = j
    BY DEF Chain
  <2> HIDE DEF t
  <2>7. \A i, j \in 1 .. Len(t) : t[i] = t[j] => i = j
    BY <2>1, <2>2, <2>3, <2>4, <2>6
  <2>8. ASSUME NEW i \in 1 .. Len(t) - 1
        PROVE  t[i + 1] \in Parser!IncludesOf(files[t[i]])
    <3>1. CASE i = k
      BY <1>1, <2>2, <3>1 DEF EndOf, Parser!Last
    <3>2. CASE i # k
      <4>0. Len(t) - 1 = k
        BY <1>1, <2>1
      <4> HIDE DEF k
      <4>1. i \in 1 .. k - 1 /\ i \in 1 .. k /\ i + 1 \in 1 .. k
        BY <1>1, <3>2, <4>0
      <4>2. s[i + 1] \in Parser!IncludesOf(files[s[i]])
        BY <4>1 DEF Chain, k
      <4> QED  BY <2>2, <4>1, <4>2
    <3> QED  BY <3>1, <3>2
  <2>9. Len(t) <= MaxIncludeDepth + 1 /\ Len(t) - 1 = k
    BY <1>1, <2>1, <2>3, LimitsOK
  <2> QED  BY <1>2, <2>1, <2>5, <2>7, <2>8, <2>9 DEF Chain
<1> QED  BY <1>2, <1>3

-----------------------------------------------------------------------------
Outcome(parser, files, h) == Tidy(files) /\ IsFiniteSet(DOMAIN files) /\ IsParsed(parser, files, h)

LEMMA EndRead ==
  ASSUME NEW parser, NEW files, NEW h, Outcome(parser, files, h), NEW s \in Branches(files)
  PROVE  LET file == EndOf(files, s)
             inc == Included(files, s, h)
         IN  /\ h[s] \in Read(files)
             /\ file.body \in Seq({file.body[i] : i \in DOMAIN file.body})
             /\ DOMAIN file.body = 1 .. Len(file.body)
             /\ h[s].ok => Parser!Loads(parser, file)
             /\ Parser!Loads(parser, file) =>
                  /\ parser \in Parsers
                  /\ ReadSoFar(Spellings(files), parser, inc, file.body, Len(file.body), h[s])
<1> DEFINE file == EndOf(files, s)
           inc == Included(files, s, h)
<1>1. Tidy(files) /\ h \in [Branches(files) -> Read(files)] /\ h[s] = Parser!ReadFile(parser, inc, file)
  BY DEF Outcome, IsParsed
<1>2. /\ h[s] \in Read(files)
      /\ h[s].ok => Parser!Loads(parser, file)
      /\ Parser!Loads(parser, file) =>
           ReadSoFar(Spellings(files), parser, inc, file.body, Len(file.body), h[s])
  BY <1>1, BranchRead
<1>3. Parser!Loads(parser, file) => parser \in Parsers
  BY <1>1, BranchEnd, LoadsFacts
<1>4. file.body \in Seq({file.body[i] : i \in DOMAIN file.body})
  BY <1>1, BranchReadable DEF Readable
<1>5. DOMAIN file.body = 1 .. Len(file.body)
  BY <1>4
<1> QED  BY <1>2, <1>3, <1>4, <1>5

LEMMA IncludeRead ==
  ASSUME NEW files, NEW s, NEW h, NEW body, body = EndOf(files, s).body,
         NEW i \in DOMAIN body, body[i].is = "include", NEW f, f = body[i].of
  PROVE  /\ f \in Parser!IncludesOf(EndOf(files, s))
         /\ Included(files, s, h)[f] = IF Parser!MayInclude(s, f) /\ f \in DOMAIN files
                                         THEN h[Append(s, f)] ELSE Parser!Rejected
<1>1. f \in Parser!IncludesOf(EndOf(files, s))
  BY DEF Parser!IncludesOf, Parser!Range
<1> QED  BY <1>1 DEF Included, Parser!InProject

(* A line that is kept declares a name; one of a name is kept or an error. *)
LEMMA KeepFate ==
  ASSUME NEW parser \in Parsers, NEW line
  PROVE  /\ Parser!Fate(parser, line) = "keep" => line.is \in {"dep", "pin"}
         /\ line.is \in {"dep", "pin"} => Parser!Fate(parser, line) \in {"keep", "reject"}
         /\ parser = "requirements" /\ line.is = "include" => Parser!Fate(parser, line) = "include"
  BY DEF Parsers, Parser!Fate, Parser!RequirementsLine, Parser!FreezeLine, Parser!PyprojectSpec,
         Parser!PackageEntry

(* Whatever a file adds is declared, if it is so of the files it includes. *)
LEMMA AddedDeclared ==
  ASSUME NEW parser, NEW files, NEW h, Outcome(parser, files, h), NEW root, NEW s,
         Chain(parser, files, root, s), Parser!Loads(parser, EndOf(files, s)),
         \A f \in DOMAIN files : Chain(parser, files, root, Append(s, f)) =>
           NamesOf(h[Append(s, f)].deps) \subseteq Parser!DeclaredBy(parser, files, root)
  PROVE  AddedBy(parser, Included(files, s, h), EndOf(files, s).body, Len(EndOf(files, s).body))
           \subseteq Parser!DeclaredBy(parser, files, root)
<1> DEFINE body == EndOf(files, s).body
           inc == Included(files, s, h)
           D == Parser!DeclaredBy(parser, files, root)
<1>1. Tidy(files) /\ IsFiniteSet(DOMAIN files)
  BY DEF Outcome
<1>2. /\ s \in Branches(files) /\ Parser!Last(s) \in DOMAIN files
      /\ Len(s) - 1 \in 0 .. Cardinality(DOMAIN files)
  BY <1>1, ChainFacts
<1>3. DOMAIN body = 1 .. Len(body) /\ parser \in Parsers
  BY <1>2, EndRead
<1>4. ASSUME NEW i \in DOMAIN body
      PROVE  Adds(parser, inc, body[i]) \subseteq D
  <2> DEFINE line == body[i]
  <2>1. CASE Parser!Fate(parser, line) = "keep"
    <3>1. line.is \in {"dep", "pin"}
      BY <1>3, <2>1, KeepFate
    <3>2. Parser!Last(s) \in At(parser, files, root, Len(s) - 1)
      BY DEF Chain
    <3>3. Normal[line.of] \in D
      BY <1>2, <3>1, <3>2, ReachedLines DEF EndOf
    <3> QED  BY <2>1, <3>3 DEF Adds
  <2>2. CASE Parser!Fate(parser, line) = "include"
    <3>1. parser = "requirements" /\ line.is = "include"
      BY <1>3, <2>2, IncludeFate
    <3>2. PICK f : f = line.of
      OBVIOUS
    <3>3. /\ f \in Parser!IncludesOf(EndOf(files, s))
          /\ inc[f] = IF Parser!MayInclude(s, f) /\ f \in DOMAIN files
                        THEN h[Append(s, f)] ELSE Parser!Rejected
      BY <3>1, <3>2, IncludeRead
    <3>4. NamesOf(inc[f].deps) \subseteq D
      <4>1. CASE Parser!MayInclude(s, f) /\ f \in DOMAIN files
        <5>1. Chain(parser, files, root, Append(s, f))
          BY <1>1, <3>1, <3>3, <4>1, ChainGoesOn
        <5> QED  BY <3>3, <4>1, <5>1
      <4>2. CASE ~(Parser!MayInclude(s, f) /\ f \in DOMAIN files)
        <5>1. inc[f].deps = <<>> /\ NamesOf(<<>>) = {}
          BY <3>3, <4>2, ResultsTyped DEF Parser!Rejected
        <5> QED  BY <5>1
      <4> QED  BY <4>1, <4>2
    <3>5. Adds(parser, inc, line) = NamesOf(inc[f].deps)
      BY <2>2, <3>2 DEF Adds
    <3> QED  BY <3>4, <3>5
  <2>3. CASE Parser!Fate(parser, line) \notin {"keep", "include"}
    BY <2>3 DEF Adds
  <2> QED  BY <2>1, <2>2, <2>3
<1> QED  BY <1>3, <1>4 DEF AddedBy

(* The branches of the chains, from the longest to the root.               *)
LEMMA FromTheLongest ==
  ASSUME NEW parser, NEW files, NEW root, NEW U,
         ASSUME NEW s, Chain(parser, files, root, s),
                \A f \in DOMAIN files : Chain(parser, files, root, Append(s, f)) => Append(s, f) \in U
         PROVE  s \in U
  PROVE  Tidy(files) => \A s : Chain(parser, files, root, s) => s \in U
<1> SUFFICES ASSUME Tidy(files)
             PROVE  \A s : Chain(parser, files, root, s) => s \in U
  OBVIOUS
<1> DEFINE T == {k \in Nat : \A s \in Branches(files) :
                               Chain(parser, files, root, s) /\ Len(s) + k > MaxIncludeDepth + 1 => s \in U}
<1>1. 0 \in T
  <2>1. ASSUME NEW s \in Branches(files), Chain(parser, files, root, s), Len(s) + 0 > MaxIncludeDepth + 1
        PROVE  FALSE
    BY <2>1, BranchEnd, LimitsOK DEF Chain
  <2> QED  BY <2>1
<1>2. ASSUME NEW k \in T
      PROVE  k + 1 \in T
  <2>1. k \in Nat /\ \A s \in Branches(files) :
                        Chain(parser, files, root, s) /\ Len(s) + k > MaxIncludeDepth + 1 => s \in U
    OBVIOUS
  <2>2. ASSUME NEW s \in Branches(files), Chain(parser, files, root, s), Len(s) + (k + 1) > MaxIncludeDepth + 1
        PROVE  s \in U
    <3>1. \A f \in DOMAIN files : /\ Append(s, f) \in Branches(files)
                                  /\ Len(Append(s, f)) + k > MaxIncludeDepth + 1
      BY <2>1, <2>2, BranchEnd, LimitsOK
    <3> QED  BY <2>1, <2>2, <3>1
  <2> QED  BY <2>1, <2>2
<1>3. T = Nat
  <2>1. T \in SUBSET Nat
    OBVIOUS
  <2> HIDE DEF T
  <2> QED  BY <1>1, <1>2, <2>1, AllNumbers
<1>4. ASSUME NEW s, Chain(parser, files, root, s)
      PROVE  s \in U
  <2>1. s \in Branches(files) /\ Len(s) + (MaxIncludeDepth + 1) > MaxIncludeDepth + 1
    BY <1>4, BranchEnd, LimitsOK DEF Chain
  <2>2. MaxIncludeDepth + 1 \in T
    <3>1. MaxIncludeDepth + 1 \in Nat
      BY LimitsOK
    <3> HIDE DEF T
    <3> QED  BY <1>3, <3>1
  <2> QED  BY <1>4, <2>1, <2>2
<1> QED  BY <1>4

LEMMA NamesDeclared ==
  ASSUME NEW parser, NEW files, NEW h, Outcome(parser, files, h), NEW root
  PROVE  \A s : Chain(parser, files, root, s) =>
           NamesOf(h[s].deps) \subseteq Parser!DeclaredBy(parser, files, root)
<1> DEFINE D == Parser!DeclaredBy(parser, files, root)
           U == {s \in Branches(files) : NamesOf(h[s].deps) \subseteq D}
<1>1. ASSUME NEW s, Chain(parser, files, root, s),
             \A f \in DOMAIN files : Chain(parser, files, root, Append(s, f)) => Append(s, f) \in U
      PROVE  s \in U
  <2> DEFINE inc == Included(files, s, h)
             body == EndOf(files, s).body
  <2>1. s \in Branches(files)
    BY <1>1 DEF Chain
  <2>2. CASE h[s].ok
    <3>1. /\ Parser!Loads(parser, EndOf(files, s))
          /\ ReadSoFar(Spellings(files), parser, inc, body, Len(body), h[s])
      BY <2>1, <2>2, EndRead
    <3>2. NamesOf(h[s].deps) = AddedBy(parser, inc, body, Len(body))
      BY <2>2, <3>1 DEF ReadSoFar
    <3>3. AddedBy(parser, inc, body, Len(body)) \subseteq D
      <4>1. \A f \in DOMAIN files : Chain(parser, files, root, Append(s, f)) =>
              NamesOf(h[Append(s, f)].deps) \subseteq D
        BY <1>1
      <4> HIDE DEF inc, body, D
      <4> QED  BY <1>1, <3>1, <4>1, AddedDeclared DEF inc, body, D
    <3> QED  BY <2>1, <3>2, <3>3
  <2>3. CASE ~h[s].ok
    <3>1. h[s] \in Read(files)
      BY <2>1, EndRead
    <3>2. h[s].deps = <<>>
      BY <2>3, <3>1 DEF Read, Results
    <3>3. NamesOf(h[s].deps) = {}
      BY <3>2, ResultsTyped
    <3> QED  BY <2>1, <3>3
  <2> QED  BY <2>2, <2>3
<1>2. \A s : Chain(parser, files, root, s) => s \in U
  <2>1. Tidy(files)
    BY DEF Outcome
  <2> HIDE DEF U
  <2> QED  BY <1>1, <2>1, FromTheLongest
<1> QED  BY <1>2

-----------------------------------------------------------------------------
(* A manifest that is rejected has a cause.                                *)
LEMMA LinesFinite ==
  ASSUME NEW files, Tidy(files), NEW f \in DOMAIN files
  PROVE  IsFiniteSet(Parser!Range(files[f].body))
<1> DEFINE b == files[f].body
           k == Len(b)
<1>1. k \in Nat /\ DOMAIN b = 1 .. k /\ b \in [1 .. k -> Parser!Range(b)]
  <2>1. b \in Seq({b[i] : i \in DOMAIN b})
    BY DEF Tidy
  <2> HIDE DEF b
  <2>2. b \in Seq(Parser!Range(b))
    BY <2>1 DEF Parser!Range
  <2> QED  BY <2>2
<1>2. b \in Surjection(1 .. k, Parser!Range(b))
  BY <1>1 DEF Surjection, Parser!Range
<1>3. IsFiniteSet(1 .. k)
  BY <1>1, FS_Interval
<1> HIDE DEF b, k
<1>4. IsFiniteSet(Parser!Range(b))
  BY <1>2, <1>3, FS_Surjection
<1> QED  BY <1>4 DEF b

LEMMA DeclaredFinite ==
  ASSUME NEW parser, NEW files, Tidy(files), IsFiniteSet(DOMAIN files), NEW root
  PROVE  IsFiniteSet(Parser!DeclaredBy(parser, files, root))
<1> DEFINE G == Parser!Reached(parser, files, root) \intersect DOMAIN files
           Bodies == {Parser!Range(files[f].body) : f \in G}
           Lines == Parser!LinesOf(parser, files, root)
           Deps == {x \in Lines : x.is \in {"dep", "pin"}}
           D == Parser!DeclaredBy(parser, files, root)
           bodyOf == [f \in G |-> Parser!Range(files[f].body)]
           nameOf == [l \in Deps |-> Normal[l.of]]
<1>1. IsFiniteSet(G)
  BY FS_Subset
<1>2. IsFiniteSet(Bodies)
  <2>1. bodyOf \in Surjection(G, Bodies)
    BY DEF Surjection
  <2> HIDE DEF bodyOf, Bodies, G
  <2> QED  BY <1>1, <2>1, FS_Surjection
<1>3. \A S \in Bodies : IsFiniteSet(S)
  BY LinesFinite
<1>4. IsFiniteSet(Lines)
  <2>1. Lines = UNION Bodies
    BY DEF Parser!LinesOf
  <2> HIDE DEF Lines, Bodies
  <2> QED  BY <1>2, <1>3, <2>1, FS_UNION
<1>5. IsFiniteSet(Deps)
  <2> HIDE DEF Lines
  <2> QED  BY <1>4, FS_Subset
<1>6. D = {Normal[l.of] : l \in Deps}
  BY DEF Parser!DeclaredBy
<1>7. nameOf \in Surjection(Deps, D)
  <2> HIDE DEF Deps, D
  <2> QED  BY <1>6 DEF Surjection
<1> HIDE DEF nameOf, Deps, D
<1>8. IsFiniteSet(D)
  BY <1>5, <1>7, FS_Surjection
<1> QED  BY <1>8 DEF D

LEMMA ManyNames ==
  ASSUME NEW S, NEW D, IsFiniteSet(D), NEW many \in Lists(S), NamesOf(many) \subseteq D
  PROVE  Len(many) <= Cardinality(D)
<1> DEFINE k == Len(many)
           nameAt == [i \in 1 .. k |-> Normal[many[i]]]
<1>1. k \in Nat /\ DOMAIN many = 1 .. k
  BY DEF Lists
<1>2. nameAt \in [1 .. k -> D]
  BY <1>1 DEF NamesOf
<1>3. \A i, j \in 1 .. k : nameAt[i] = nameAt[j] => i = j
  BY <1>1 DEF Lists, Distinct
<1> HIDE DEF nameAt, k
<1>4. nameAt \in Injection(1 .. k, D)
  BY <1>2, <1>3 DEF Injection, IsInjective
<1>5. Cardinality(1 .. k) = k
  BY <1>1, FS_Interval
<1>6. k <= Cardinality(D)
  BY <1>4, <1>5, FS_Injection
<1> QED  BY <1>6 DEF k

(* A cycle of includes is an endless chain.                                *)
LEMMA EndlessChain ==
  ASSUME NEW files, Tidy(files), IsFiniteSet(DOMAIN files), NEW root, NEW s,
         Chain("requirements", files, root, s), NEW f \in Parser!IncludesOf(EndOf(files, s)),
         f \in Parser!Range(s)
  PROVE  \A n \in Nat : At("requirements", files, root, n) # {}
<1> DEFINE k == Len(s)
           L(n) == At("requirements", files, root, n)
           T == {n \in Nat : \E i \in 1 .. k : s[i] \in L(n)}
<1>1. k \in Nat \ {0} /\ s \in Seq(DOMAIN files)
  BY ChainFacts
<1>2. L(0) = {root} /\ \A n \in Nat : L(n + 1) = Parser!IncludedBy(files, L(n))
  BY Levels DEF At
<1>3. PICK j \in 1 .. k : s[j] = f
  BY <1>1 DEF Parser!Range
<1>4. ASSUME NEW i \in 1 .. k
      PROVE  s[i] \in DOMAIN files /\ \E m \in 1 .. k : s[m] \in Parser!IncludesOf(files[s[i]])
  <2>1. s[i] \in DOMAIN files
    BY <1>1
  <2>2. CASE i = k
    BY <1>3, <2>1, <2>2 DEF EndOf, Parser!Last
  <2>3. CASE i # k
    <3>1. i \in 1 .. k - 1 /\ i + 1 \in 1 .. k
      BY <1>1, <2>3
    <3>2. s[i + 1] \in Parser!IncludesOf(files[s[i]])
      BY <3>1 DEF Chain
    <3> QED  BY <2>1, <3>1, <3>2
  <2> QED  BY <2>2, <2>3
<1>5. 0 \in T
  <2>1. s[1] = root /\ 1 \in 1 .. k
    BY <1>1 DEF Chain
  <2> HIDE DEF L, k
  <2> QED  BY <1>2, <2>1
<1>6. ASSUME NEW n \in T
      PROVE  n + 1 \in T
  <2>1. n \in Nat /\ \E i \in 1 .. k : s[i] \in L(n)
    OBVIOUS
  <2>2. PICK i \in 1 .. k : s[i] \in L(n)
    BY <2>1
  <2>3. PICK m \in 1 .. k : s[m] \in Parser!IncludesOf(files[s[i]])
    BY <1>4
  <2> HIDE DEF L, k
  <2>4. s[m] \in L(n + 1)
    BY <1>2, <1>4, <2>1, <2>2, <2>3 DEF Parser!IncludedBy
  <2> QED  BY <2>1, <2>4
<1>7. T = Nat
  <2>1. T \in SUBSET Nat
    OBVIOUS
  <2> HIDE DEF T
  <2> QED  BY <1>5, <1>6, <2>1, AllNumbers
<1> QED  BY <1>7

LEMMA BadHasCause ==
  ASSUME NEW parser, NEW files, NEW h, Outcome(parser, files, h), NEW root, NEW s,
         Chain(parser, files, root, s), Parser!Loads(parser, EndOf(files, s)),
         NEW i \in DOMAIN EndOf(files, s).body,
         Bad(parser, Included(files, s, h), EndOf(files, s).body[i]),
         \A f \in DOMAIN files : Chain(parser, files, root, Append(s, f)) /\ ~h[Append(s, f)].ok =>
           Parser!HasCause(parser, files, root)
  PROVE  Parser!HasCause(parser, files, root)
<1> DEFINE body == EndOf(files, s).body
           line == body[i]
           inc == Included(files, s, h)
<1>1. Tidy(files) /\ IsFiniteSet(DOMAIN files)
  BY DEF Outcome
<1>2. /\ s \in Branches(files) /\ Parser!Last(s) \in DOMAIN files
      /\ Len(s) \in Nat /\ Cardinality(DOMAIN files) \in Nat
      /\ Len(s) - 1 \in 0 .. Cardinality(DOMAIN files) /\ Len(s) \in 0 .. Cardinality(DOMAIN files)
  BY <1>1, ChainFacts
<1>3. parser \in Parsers
  BY <1>2, EndRead
<1>4. CASE Parser!Fate(parser, line) = "reject"
  <2>1. Parser!Last(s) \in At(parser, files, root, Len(s) - 1)
    BY DEF Chain
  <2>2. line \in Parser!LinesOf(parser, files, root)
    BY <1>2, <2>1, ReachedLines DEF EndOf
  <2> QED  BY <1>4, <2>2 DEF Parser!HasCause
<1>5. CASE Parser!Fate(parser, line) # "reject"
  <2>1. Parser!Fate(parser, line) = "include" /\ ~inc[line.of].ok
    BY <1>5 DEF Bad
  <2>2. parser = "requirements" /\ line.is = "include"
    BY <1>3, <2>1, IncludeFate
  <2>3. PICK f : f = line.of
    OBVIOUS
  <2>4. /\ f \in Parser!IncludesOf(EndOf(files, s))
        /\ inc[f] = IF Parser!MayInclude(s, f) /\ f \in DOMAIN files
                      THEN h[Append(s, f)] ELSE Parser!Rejected
    BY <2>2, <2>3, IncludeRead
  <2>5. f \in At(parser, files, root, Len(s))
    BY <1>1, <2>2, <2>4, ChainGoesOn
  <2>6. CASE f \notin DOMAIN files
    <3>1. f \in Parser!Reached(parser, files, root)
      BY <1>2, <2>5, ReachedLines
    <3> QED  BY <2>6, <3>1 DEF Parser!HasCause
  <2>7. CASE f \in DOMAIN files /\ Parser!MayInclude(s, f)
    <3>1. Chain(parser, files, root, Append(s, f))
      BY <1>1, <2>2, <2>4, <2>7, ChainGoesOn
    <3>2. ~h[Append(s, f)].ok
      BY <2>1, <2>3, <2>4, <2>7
    <3> QED  BY <2>7, <3>1, <3>2
  <2>8. CASE ~Parser!MayInclude(s, f)
    <3>1. At(parser, files, root, MaxIncludeDepth + 1) # {}
      <4>1. CASE f \in Parser!Range(s)
        <5>1. MaxIncludeDepth + 1 \in Nat
          BY LimitsOK
        <5> QED  BY <1>1, <2>2, <2>4, <4>1, <5>1, EndlessChain
      <4>2. CASE f \notin Parser!Range(s)
        <5>1. Len(s) = MaxIncludeDepth + 1
          BY <1>2, <2>8, <4>2, LimitsOK DEF Parser!MayInclude, Chain
        <5> QED  BY <2>5, <5>1
      <4> QED  BY <4>1, <4>2
    <3> QED  BY <3>1 DEF Parser!HasCause, At
  <2> QED  BY <2>6, <2>7, <2>8
<1> QED  BY <1>4, <1>5

LEMMA RejectedHasCause ==
  ASSUME NEW parser, NEW files, NEW h, Outcome(parser, files, h), NEW root
  PROVE  \A s : Chain(parser, files, root, s) => h[s].ok \/ Parser!HasCause(parser, files, root)
<1> DEFINE D == Parser!DeclaredBy(parser, files, root)
           Cause == Parser!HasCause(parser, files, root)
           U == {s \in Branches(files) : h[s].ok \/ Cause}
<1>1. Tidy(files) /\ IsFiniteSet(DOMAIN files) /\ IsFiniteSet(D)
  BY DeclaredFinite DEF Outcome
<1>2. ASSUME NEW s, Chain(parser, files, root, s),
             \A f \in DOMAIN files : Chain(parser, files, root, Append(s, f)) => Append(s, f) \in U
      PROVE  s \in U
  <2> SUFFICES ASSUME ~h[s].ok
               PROVE  Cause
    BY <1>2 DEF Chain
  <2> DEFINE body == EndOf(files, s).body
             inc == Included(files, s, h)
  <2>1. s \in Branches(files) /\ Parser!Last(s) \in DOMAIN files
        /\ Len(s) - 1 \in 0 .. Cardinality(DOMAIN files)
    BY <1>1, <1>2, ChainFacts
  <2>2. CASE ~Parser!Loads(parser, EndOf(files, s))
    <3>1. Parser!Last(s) \in At(parser, files, root, Len(s) - 1)
      BY <1>2 DEF Chain
    <3>2. Parser!Last(s) \in Parser!Reached(parser, files, root)
      BY <2>1, <3>1, ReachedLines
    <3> QED  BY <2>2, <3>2 DEF Parser!HasCause, EndOf
  <2>3. CASE Parser!Loads(parser, EndOf(files, s))
    <3>1. ReadSoFar(Spellings(files), parser, inc, body, Len(body), h[s]) /\ DOMAIN body = 1 .. Len(body)
      BY <2>1, <2>3, EndRead
    <3>2. CASE \E i \in 1 .. Len(body) : Bad(parser, inc, body[i])
      <4>1. PICK i \in DOMAIN body : Bad(parser, inc, body[i])
        BY <3>1, <3>2
      <4>2. \A f \in DOMAIN files : Chain(parser, files, root, Append(s, f)) /\ ~h[Append(s, f)].ok => Cause
        BY <1>2
      <4> HIDE DEF Cause
      <4> QED  BY <1>2, <2>3, <4>1, <4>2, BadHasCause DEF Cause
    <3>3. CASE \E many \in Lists(Spellings(files)) :
                 /\ Len(many) > MaxDeps
                 /\ NamesOf(many) \subseteq AddedBy(parser, inc, body, Len(body))
      <4>1. PICK many \in Lists(Spellings(files)) :
              /\ Len(many) > MaxDeps
              /\ NamesOf(many) \subseteq AddedBy(parser, inc, body, Len(body))
        BY <3>3
      <4>2. \A f \in DOMAIN files : Chain(parser, files, root, Append(s, f)) => NamesOf(h[Append(s, f)].deps) \subseteq D
        BY NamesDeclared
      <4>3. AddedBy(parser, inc, body, Len(body)) \subseteq D
        <5> HIDE DEF D, inc, body
        <5> QED  BY <1>2, <2>3, <4>2, AddedDeclared DEF D, inc, body
      <4>4. Len(many) <= Cardinality(D) /\ Cardinality(D) \in Nat /\ Len(many) \in Nat
        <5>1. Len(many) \in Nat
          BY DEF Lists
        <5>2. NamesOf(many) \subseteq D
          BY <4>1, <4>3
        <5> HIDE DEF D
        <5> QED  BY <1>1, <5>1, <5>2, ManyNames, FS_CardinalityType
      <4>5. Cardinality(D) > MaxDeps
        BY <4>1, <4>4, LimitsOK
      <4> QED  BY <4>5, SameCardinality DEF Parser!HasCause
    <3> QED  BY <3>1, <3>2, <3>3 DEF ReadSoFar
  <2> QED  BY <2>2, <2>3
<1>3. \A s : Chain(parser, files, root, s) => s \in U
  <2> HIDE DEF U
  <2> QED  BY <1>1, <1>2, FromTheLongest
<1> QED  BY <1>3

-----------------------------------------------------------------------------
(* A manifest that is not rejected was read whole: every chain of includes *)
(* was followed to its end.                                                *)
Followed(parser, files, root, h, s, n, f) ==
  /\ Chain(parser, files, root, s) /\ Len(s) = n + 1 /\ Parser!Last(s) = f
  /\ h[s].ok /\ NamesOf(h[s].deps) \subseteq NamesOf(h[<<root>>].deps)

LEMMA ChainsFollowed ==
  ASSUME NEW parser, NEW files, NEW h, Outcome(parser, files, h),
         NEW root \in DOMAIN files, h[<<root>>].ok, NEW n \in Nat, NEW g \in At(parser, files, root, n)
  PROVE  \E s : Followed(parser, files, root, h, s, n, g)
<1> DEFINE N == NamesOf(h[<<root>>].deps)
           Ends(s, m, f) == Followed(parser, files, root, h, s, m, f)
           T == {m \in Nat : \A f \in At(parser, files, root, m) : \E s : Ends(s, m, f)}
<1>1. Tidy(files) /\ IsFiniteSet(DOMAIN files)
  BY DEF Outcome
<1>2. 0 \in T
  <2>1. At(parser, files, root, 0) = {root}
    BY Levels DEF At
  <2>2. Ends(<<root>>, 0, root)
    BY <1>1, RootChain DEF Parser!Last, Followed
  <2> HIDE DEF Ends
  <2> QED  BY <2>1, <2>2
<1>3. ASSUME NEW m \in T
      PROVE  m + 1 \in T
  <2>1. m \in Nat /\ \A f \in At(parser, files, root, m) : \E s : Ends(s, m, f)
    OBVIOUS
  <2>2. ASSUME NEW f \in At(parser, files, root, m + 1)
        PROVE  \E s : Ends(s, m + 1, f)
    <3>1. parser = "requirements" /\ f \in Parser!IncludedBy(files, At(parser, files, root, m))
      <4>1. At(parser, files, root, m + 1) =
              IF parser = "requirements" THEN Parser!IncludedBy(files, At(parser, files, root, m)) ELSE {}
        <5>1. m \in Nat
          BY <2>1
        <5> HIDE DEF T
        <5> QED  BY <5>1, Levels DEF At
      <4> QED  BY <2>2, <4>1
    <3>2. PICK e \in At(parser, files, root, m) : e \in DOMAIN files /\ f \in Parser!IncludesOf(files[e])
      BY <3>1 DEF Parser!IncludedBy
    <3>3. PICK s : Ends(s, m, e)
      BY <2>1
    <3> DEFINE body == EndOf(files, s).body
               inc == Included(files, s, h)
    <3>4. /\ Chain(parser, files, root, s) /\ s \in Branches(files) /\ Len(s) = m + 1
          /\ h[s].ok /\ NamesOf(h[s].deps) \subseteq N /\ EndOf(files, s) = files[e]
      BY <3>3 DEF Followed, Chain, EndOf
    <3>5. /\ parser \in Parsers /\ DOMAIN body = 1 .. Len(body)
          /\ ReadSoFar(Spellings(files), parser, inc, body, Len(body), h[s])
      BY <3>4, EndRead
    <3>6. PICK i \in DOMAIN body : body[i].is = "include" /\ f = body[i].of
      BY <3>2, <3>4 DEF Parser!IncludesOf, Parser!Range
    <3>7. Parser!Fate(parser, body[i]) = "include"
      BY <3>1, <3>5, <3>6, KeepFate
    <3>8. /\ ~Bad(parser, inc, body[i])
          /\ NamesOf(h[s].deps) = AddedBy(parser, inc, body, Len(body))
      BY <3>4, <3>5, <3>6 DEF ReadSoFar
    <3>9. inc[f] = IF Parser!MayInclude(s, f) /\ f \in DOMAIN files
                     THEN h[Append(s, f)] ELSE Parser!Rejected
      BY <3>6, IncludeRead
    <3>10. inc[f].ok /\ Parser!MayInclude(s, f) /\ f \in DOMAIN files /\ inc[f] = h[Append(s, f)]
      BY <3>6, <3>7, <3>8, <3>9, ResultsTyped DEF Bad
    <3>11. NamesOf(inc[f].deps) \subseteq N
      <4>1. Adds(parser, inc, body[i]) = NamesOf(inc[f].deps)
        BY <3>6, <3>7 DEF Adds
      <4>2. Adds(parser, inc, body[i]) \subseteq AddedBy(parser, inc, body, Len(body))
        BY <3>5, <3>6 DEF AddedBy
      <4> QED  BY <3>4, <3>8, <4>1, <4>2
    <3>12. Chain(parser, files, root, Append(s, f))
      BY <1>1, <3>1, <3>2, <3>4, <3>10, ChainGoesOn
    <3>13. Len(Append(s, f)) = (m + 1) + 1 /\ Parser!Last(Append(s, f)) = f
      BY <1>1, <3>4, <3>10, BranchEnd
    <3>14. Ends(Append(s, f), m + 1, f)
      BY <3>10, <3>11, <3>12, <3>13 DEF Followed
    <3> HIDE DEF Ends
    <3> QED  BY <3>14
  <2> HIDE DEF Ends
  <2> QED  BY <2>1, <2>2
<1>4. T = Nat
  <2>1. T \in SUBSET Nat
    OBVIOUS
  <2> HIDE DEF T
  <2> QED  BY <1>2, <1>3, <2>1, AllNumbers
<1>5. \E s : Ends(s, n, g)
  <2> HIDE DEF Ends
  <2> QED  BY <1>4
<1> QED  BY <1>5

LEMMA ReachedAt ==
  ASSUME NEW parser, NEW files, NEW root, NEW f \in Parser!Reached(parser, files, root)
  PROVE  \E n \in Nat : f \in At(parser, files, root, n)
<1>1. \E n \in 0 .. Parser!Cardinality(DOMAIN files) : f \in Parser!AtDepth(parser, files, root)[n]
  BY Zenon DEF Parser!Reached
<1>2. \A n \in 0 .. Parser!Cardinality(DOMAIN files) : n \in Nat
  OBVIOUS
<1> QED  BY <1>1, <1>2 DEF At

(* What the parser makes of a manifest: the names that are declared, once  *)
(* each, or an error for one of the causes.                                *)
LEMMA ParseMeaning ==
  ASSUME NEW parser, NEW files, Tidy(files), IsFiniteSet(DOMAIN files), NEW root
  PROVE  LET r == Parser!Parse(parser, files, root)
         IN  /\ r.ok => NamesOf(r.deps) = Parser!DeclaredBy(parser, files, root)
             /\ r.ok <=> ~Parser!HasCause(parser, files, root)
<1> DEFINE r == Parser!Parse(parser, files, root)
           D == Parser!DeclaredBy(parser, files, root)
           Cause == Parser!HasCause(parser, files, root)
<1>1. PICK h : /\ IsParsed(parser, files, h)
               /\ r = IF root \in DOMAIN files THEN h[<<root>>] ELSE Parser!Rejected
  BY ParseReads
<1>2. Outcome(parser, files, h)
  BY <1>1 DEF Outcome
<1>3. Cardinality(DOMAIN files) \in Nat
  BY FS_CardinalityType
<1>4. CASE root \notin DOMAIN files
  <2>1. root \in At(parser, files, root, 0)
    BY Levels DEF At
  <2>2. root \in Parser!Reached(parser, files, root)
    BY <1>3, <2>1, ReachedLines
  <2>3. Cause
    BY <1>4, <2>2 DEF Parser!HasCause
  <2>4. ~r.ok
    BY <1>1, <1>4, ResultsTyped
  <2> QED  BY <2>3, <2>4
<1>5. CASE root \in DOMAIN files
  <2>1. r = h[<<root>>] /\ Chain(parser, files, root, <<root>>) /\ <<root>> \in Branches(files)
    BY <1>1, <1>5, RootChain DEF Branches
  <2>2. ~r.ok => Cause
    BY <1>2, <2>1, RejectedHasCause
  <2>3. ASSUME r.ok
        PROVE  NamesOf(r.deps) = D /\ ~Cause
    <3>1. ASSUME NEW f \in Parser!Reached(parser, files, root)
          PROVE  /\ f \in DOMAIN files /\ Parser!Loads(parser, files[f]) /\ parser \in Parsers
                 /\ \A i \in DOMAIN files[f].body :
                      LET line == files[f].body[i]
                      IN  /\ Parser!Fate(parser, line) # "reject"
                          /\ line.is \in {"dep", "pin"} => Normal[line.of] \in NamesOf(r.deps)
      <4>1. PICK n \in Nat : f \in At(parser, files, root, n)
        BY ReachedAt
      <4>2. PICK s : /\ Chain(parser, files, root, s) /\ Parser!Last(s) = f
                     /\ h[s].ok /\ NamesOf(h[s].deps) \subseteq NamesOf(r.deps)
        <5>1. h[<<root>>].ok
          BY <2>1, <2>3
        <5>2. PICK s : Followed(parser, files, root, h, s, n, f)
          BY <1>2, <1>5, <4>1, <5>1, ChainsFollowed
        <5> HIDE DEF r
        <5> QED  BY <2>1, <5>2 DEF Followed
      <4> DEFINE body == EndOf(files, s).body
                 inc == Included(files, s, h)
      <4>3. s \in Branches(files) /\ EndOf(files, s) = files[f] /\ f \in DOMAIN files
        BY <4>2, BranchEnd DEF Chain, EndOf
      <4>4. /\ Parser!Loads(parser, EndOf(files, s)) /\ parser \in Parsers /\ DOMAIN body = 1 .. Len(body)
            /\ ReadSoFar(Spellings(files), parser, inc, body, Len(body), h[s])
        BY <1>2, <4>2, <4>3, EndRead
      <4>5. ASSUME NEW i \in DOMAIN body
            PROVE  /\ Parser!Fate(parser, body[i]) # "reject"
                   /\ body[i].is \in {"dep", "pin"} => Normal[body[i].of] \in NamesOf(r.deps)
        <5>1. ~Bad(parser, inc, body[i]) /\ NamesOf(h[s].deps) = AddedBy(parser, inc, body, Len(body))
          BY <4>2, <4>4, <4>5 DEF ReadSoFar
        <5>2. Parser!Fate(parser, body[i]) # "reject"
          BY <5>1 DEF Bad
        <5>3. ASSUME body[i].is \in {"dep", "pin"}
              PROVE  Normal[body[i].of] \in NamesOf(r.deps)
          <6>1. Parser!Fate(parser, body[i]) = "keep"
            BY <4>4, <5>2, <5>3, KeepFate
          <6>2. Normal[body[i].of] \in Adds(parser, inc, body[i])
            BY <6>1 DEF Adds
          <6>3. Normal[body[i].of] \in AddedBy(parser, inc, body, Len(body))
            BY <4>4, <4>5, <6>2 DEF AddedBy
          <6> QED  BY <4>2, <5>1, <6>3
        <5> QED  BY <5>2, <5>3
      <4> QED  BY <4>3, <4>4, <4>5
    <3>2. ASSUME NEW line \in Parser!LinesOf(parser, files, root)
          PROVE  /\ Parser!Fate(parser, line) # "reject"
                 /\ line.is \in {"dep", "pin"} => Normal[line.of] \in NamesOf(r.deps)
      <4>1. PICK f \in Parser!Reached(parser, files, root) :
              f \in DOMAIN files /\ line \in Parser!Range(files[f].body)
        BY DEF Parser!LinesOf
      <4>2. PICK i \in DOMAIN files[f].body : line = files[f].body[i]
        BY <4>1 DEF Parser!Range
      <4> QED  BY <3>1, <4>1, <4>2
    <3>3. NamesOf(r.deps) = D
      <4>1. NamesOf(r.deps) \subseteq D
        BY <1>2, <2>1, NamesDeclared
      <4>2. D \subseteq NamesOf(r.deps)
        BY <3>2 DEF Parser!DeclaredBy
      <4> QED  BY <4>1, <4>2
    <3>4. At(parser, files, root, MaxIncludeDepth + 1) = {}
      <4> SUFFICES ASSUME NEW f \in At(parser, files, root, MaxIncludeDepth + 1)
                   PROVE  FALSE
        OBVIOUS
      <4>1. MaxIncludeDepth + 1 \in Nat
        BY LimitsOK
      <4>2. PICK s : Chain(parser, files, root, s) /\ Len(s) = (MaxIncludeDepth + 1) + 1
        BY <1>2, <1>5, <2>1, <2>3, <4>1, ChainsFollowed DEF Followed
      <4> QED  BY <4>2, LimitsOK DEF Chain
    <3>5. ~(Cardinality(D) > MaxDeps)
      <4> DEFINE deps == r.deps
                 k == Len(deps)
                 nameAt == [i \in 1 .. k |-> Normal[deps[i]]]
      <4>1. deps \in Lists(Spellings(files)) /\ k <= MaxDeps
        <5> HIDE DEF r
        <5>1. r \in Read(files) /\ Parser!Loads(parser, EndOf(files, <<root>>))
          <6>1. h[<<root>>] \in Read(files) /\ (h[<<root>>].ok => Parser!Loads(parser, EndOf(files, <<root>>)))
            BY <1>2, <2>1, EndRead
          <6> QED  BY <2>1, <2>3, <6>1
        <5>2. ReadSoFar(Spellings(files), parser, Included(files, <<root>>, h), EndOf(files, <<root>>).body,
                        Len(EndOf(files, <<root>>).body), r)
          BY <1>2, <2>1, <5>1, EndRead
        <5> QED  BY <2>3, <5>1, <5>2 DEF Read, Results, ReadSoFar
      <4>2. k \in Nat /\ DOMAIN deps = 1 .. k
        BY <4>1 DEF Lists
      <4>3. nameAt \in Surjection(1 .. k, NamesOf(deps))
        BY <4>2 DEF Surjection, NamesOf
      <4>4. IsFiniteSet(1 .. k) /\ Cardinality(1 .. k) = k
        BY <4>2, FS_Interval
      <4> HIDE DEF nameAt, k, deps
      <4>5. IsFiniteSet(NamesOf(deps)) /\ Cardinality(NamesOf(deps)) <= k
        BY <4>3, <4>4, FS_Surjection
      <4>6. Cardinality(D) \in Nat /\ Cardinality(D) <= k
        BY <3>3, <4>5, FS_CardinalityType DEF deps
      <4> QED  BY <4>1, <4>2, <4>6, LimitsOK
    <3>6. ~Cause
      BY <3>1, <3>2, <3>4, <3>5, SameCardinality DEF Parser!HasCause, At
    <3> QED  BY <3>3, <3>6
  <2> QED  BY <2>2, <2>3
<1> QED  BY <1>4, <1>5

-----------------------------------------------------------------------------
(* What the command runs on stays as it is, and a manifest that is         *)
(* rejected ends the scan with an error report.                            *)
CommandFixed ==
  /\ \E c \in Commands : project = c.project /\ args = c.args
  /\ parsed = Parser!DetectAndParse(project, args)
  /\ manifest = parsed.deps

RejectedEnds ==
  ~parsed.ok => \/ phase = "parse" /\ report = NoReport
                \/ phase = "done" /\ report = ErrorReport

CommandInv == CommandFixed /\ RejectedEnds

LEMMA ErrorIsReport == NoReport # ErrorReport
<1>1. [n \in {} |-> "allow"] \in [{} -> Verdict] /\ {} \in SUBSET Names
  OBVIOUS
<1>2. ErrorReport \in [error : BOOLEAN, verdicts : UNION {[S -> Verdict] : S \in SUBSET Names}, exit : 0 .. 3]
  BY <1>1 DEF ErrorReport
<1> QED  BY <1>2, NoReportOK

LEMMA CommandStarts == CliInit => CommandInv
  BY DEF CliInit, Init, CommandInv, CommandFixed, RejectedEnds

LEMMA CommandGoesOn ==
  ASSUME CommandInv, [CliNext]_cliVars
  PROVE  CommandInv'
<1>1. /\ UNCHANGED command
      /\ \/ UNCHANGED vars
         \/ Next /\ (phase = "parse" /\ ~parsed.ok => report' = ErrorReport)
  BY DEF CliNext, cliVars, Detect, LoadConfig, ScanManifest, Render, Interrupt
<1>2. manifest' = manifest
  BY <1>1, InputFixed DEF input
<1>3. CommandFixed'
  BY <1>1, <1>2 DEF CommandInv, CommandFixed, command
<1>4. RejectedEnds'
  <2> SUFFICES ASSUME ~parsed.ok
               PROVE  \/ phase' = "parse" /\ report' = NoReport
                      \/ phase' = "done" /\ report' = ErrorReport
    BY <1>1 DEF RejectedEnds, command
  <2>1. CASE UNCHANGED <<phase, report>>
    BY <2>1 DEF CommandInv, RejectedEnds
  <2>2. CASE Parse
    <3>1. phase = "parse" /\ report = NoReport /\ report' = ErrorReport
      BY <1>1, <2>2 DEF CommandInv, RejectedEnds, Parse, Finish, vars
    <3>2. \A v : Report(v) # ErrorReport
      BY DEF Report, ErrorReport
    <3> QED  BY <2>2, <3>1, <3>2, ErrorIsReport DEF Parse, Finish
  <2> QED
  BY <1>1, Steps, <2>1, <2>2
  DEF CommandInv, RejectedEnds, vars, SeeError, Abort, FetchDone, ResolveChunk, ThreatIntelDone,
      Evaluate, AssembleReport, StartFetch, FetchAnswered, FetchGivesUp, FetchFails, FetchRaises,
      ResolveFromCache, AskLlm, AbstainOverBudget, Finish
<1> QED  BY <1>3, <1>4 DEF CommandInv

(* The files of what may be run are as the parsers need them.              *)
LEMMA ParsedMeaning ==
  ASSUME CommandInv
  PROVE  LET parser == Parser!ParserFor(args)
         IN  /\ parsed.ok => Wanted = Parser!DeclaredBy(parser, project, Root)
             /\ parsed.ok <=> ~Parser!HasCause(parser, project, Root)
<1> DEFINE parser == Parser!ParserFor(args)
<1>1. Tidy(project) /\ IsFiniteSet(DOMAIN project)
  <2>1. PICK c \in Commands : project = c.project
    BY DEF CommandInv, CommandFixed
  <2>2. Tidy(c.project) /\ IsFiniteSet(DOMAIN c.project)
    BY ProjectsOK DEF Tidy
  <2> QED  BY <2>1, <2>2
<1>2. parsed = Parser!Parse(parser, project, Root) /\ manifest = parsed.deps
  BY DEF CommandInv, CommandFixed, Parser!DetectAndParse, Root
<1>3. Wanted = NamesOf(parsed.deps)
  BY <1>2 DEF Wanted, NamesOf
<1> HIDE DEF parser
<1>4. /\ parsed.ok => NamesOf(parsed.deps) = Parser!DeclaredBy(parser, project, Root)
      /\ parsed.ok <=> ~Parser!HasCause(parser, project, Root)
  BY <1>1, <1>2, ParseMeaning
<1> QED  BY <1>3, <1>4 DEF parser

(* Whatever the files of a project are and include: a manifest is rejected *)
(* if it has a cause for it, and only then.                                *)
THEOREM RejectionsHaveCause == CliSpec => []RejectedForCause
<1>1. CommandInv => RejectedForCause
  BY ParsedMeaning DEF RejectedForCause
<1>2. CommandInv /\ [CliNext]_cliVars => CommandInv'
  BY CommandGoesOn
<1> QED  BY CommandStarts, <1>1, <1>2, PTL DEF CliSpec

(* Every package that the manifest, or a file of a chain of includes,      *)
(* declares is in the report of a scan that is no error.                   *)
THEOREM DeclaredIsReported == CliSpec => []NothingLeftOut
<1>1. CommandInv /\ EngineInv => NothingLeftOut
  <2> SUFFICES ASSUME CommandInv, EngineInv, report \notin {NoReport, ErrorReport}
               PROVE  DOMAIN report.verdicts = Parser!DeclaredBy(Parser!ParserFor(args), project, Root)
    BY DEF NothingLeftOut
  <2>1. report.verdicts \in [Wanted -> Verdict]
    BY DEF EngineInv, TypeOK
  <2>2. parsed.ok
    BY DEF CommandInv, RejectedEnds
  <2>3. Wanted = Parser!DeclaredBy(Parser!ParserFor(args), project, Root)
    BY <2>2, ParsedMeaning
  <2> QED  BY <2>1, <2>3
<1>2. CommandInv /\ [CliNext]_cliVars => CommandInv'
  BY CommandGoesOn
<1> QED  BY CommandRunsEngine, EngineInvariant, CommandStarts, <1>1, <1>2, PTL DEF CliSpec

=============================================================================
