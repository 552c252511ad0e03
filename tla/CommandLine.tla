----------------------------- MODULE CommandLine -----------------------------
(***************************************************************************)
(* slopguard scan: the ecosystem, the configuration, the manifest, the     *)
(* scan by ScanEngine, and the exit code CI acts on.                       *)
(***************************************************************************)
EXTENDS ScanEngine

CONSTANTS
  Commands,  \* what may be run: the files of a project, by path, and the arguments;
             \* "none" stands for a flag that is not given
  Extension, Stdin, MaxDeps, MaxIncludeDepth,
  NoExit

ASSUME LimitsOK == MaxDeps \in Nat /\ MaxIncludeDepth \in Nat

Parser == INSTANCE ManifestParsers

(* A project has finitely many files, of lines or of TOML or JSON.         *)
ASSUME ProjectsOK ==
  \A c \in Commands :
    /\ IsFiniteSet(DOMAIN c.project)
    /\ \A f \in DOMAIN c.project :
         /\ c.project[f].syntax \in {"lines", "toml", "json"}
         /\ c.project[f].body \in Seq({c.project[f].body[i] : i \in DOMAIN c.project[f].body})

(* A manifest can always turn out unreadable.                              *)
ASSUME ManifestsMayFail == "parse" \in Faults

ASSUME NoReportOK ==
  NoReport \notin [error : BOOLEAN, verdicts : UNION {[S -> Verdict] : S \in SUBSET Names}, exit : 0 .. 3]

ASSUME NoExitOK == NoExit \notin 0 .. 3

VARIABLES
  project,
  args,
  parsed,  \* what detect_and_parse makes of them
  at,      \* how far _run_scan has come
  exit

command == <<project, args, parsed>>

cliVars == <<vars, command, at, exit>>

(* The engine scans what was parsed.                                       *)
CliInit ==
  /\ \E c \in Commands : project = c.project /\ args = c.args
  /\ Init
  /\ parsed = Parser!DetectAndParse(project, args)
  /\ manifest = parsed.deps
  /\ at = "detect"
  /\ exit = NoExit

Over(code) == at' = "over" /\ exit' = code

Detect ==
  /\ at = "detect"
  /\ IF Parser!DetectEcosystem(args) = "error" THEN Over(3)
     ELSE at' = "configure" /\ UNCHANGED exit
  /\ UNCHANGED <<vars, command>>

(* A file, or a combination of values, that config.py refuses.             *)
LoadConfig ==
  /\ at = "configure"
  /\ \/ at' = "scan" /\ UNCHANGED exit
     \/ Over(3)
  /\ UNCHANGED <<vars, command>>

ScanManifest ==
  /\ at = "scan"
  /\ Next
  /\ phase = "parse" /\ ~parsed.ok => report' = ErrorReport
  /\ UNCHANGED <<command, at, exit>>

(* aggregate_exit_code                                                     *)
Code(r) ==
  IF r.error THEN 3 ELSE IF args.strict /\ r.exit = 1 THEN 2 ELSE r.exit

Render ==
  /\ at = "scan"
  /\ phase = "done"
  /\ Over(Code(report))
  /\ UNCHANGED <<vars, command>>

\* A bug: a closed pipe is no error.
MutStopped == Over(0)

(* KeyboardInterrupt, or BrokenPipeError while it renders.                 *)
Stopped == Over(3)

Interrupt ==
  /\ at # "over"
  /\ Stopped
  /\ UNCHANGED <<vars, command>>

CliNext == Detect \/ LoadConfig \/ ScanManifest \/ Render \/ Interrupt

CliSpec ==
  /\ CliInit /\ [][CliNext]_cliVars
  /\ WF_cliVars(Detect \/ LoadConfig \/ ScanManifest \/ Render)

-----------------------------------------------------------------------------
Root == args.path

(* R1.6: a scan that is no error gives a verdict of every package that the *)
(* manifest, or a file it includes, declares, and of no other.             *)
NothingLeftOut ==
  report \notin {NoReport, ErrorReport} =>
    DOMAIN report.verdicts = Parser!DeclaredBy(Parser!ParserFor(args), project, Root)

(* A manifest is rejected only for a file that is missing, outside the     *)
(* project or of another format, a line that says nothing, a chain of      *)
(* includes that is too long or endless, or too many packages: never for   *)
(* a file that two branches include ("patron diamante").                   *)
RejectedForCause ==
  at = "configure" =>
    (parsed.ok <=> ~Parser!HasCause(Parser!ParserFor(args), project, Root))

(* CI goes on only after a whole scan of packages that the registry has    *)
(* and that no active source has anything against: not after an error, an  *)
(* interruption or a warning.                                              *)
ExitZeroIsEarned ==
  exit = 0 =>
    /\ phase = "done"
    /\ DOMAIN report.verdicts = Wanted
    /\ \A n \in Wanted : report.verdicts[n] = "allow" /\ Promise!MayAllow(n)

(* Detect, configure, scan and render.                                     *)
StagesLeft == CASE at = "detect" -> 3 [] at = "configure" -> 2 [] at = "scan" -> 1 [] at = "over" -> 0

CommandStepsLeft == StepsLeft + StagesLeft

(* Every step uses up one of a number of steps that is fixed by the size   *)
(* of the manifest and the limit of retries: whatever fails, nothing is    *)
(* tried or asked again for ever, and no phase comes back.                 *)
EveryStepCounts == [][CommandStepsLeft' < CommandStepsLeft]_cliVars


=============================================================================
