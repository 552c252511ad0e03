--------------------------- MODULE ManifestParsers ---------------------------
(***************************************************************************)
(* From the arguments of the command line and the files of a project to    *)
(* the dependencies of a scan: the ecosystem, the parser, and what each    *)
(* parser keeps, skips, includes or rejects.                               *)
(***************************************************************************)
EXTENDS Naturals, FiniteSets, SequencesExt

CONSTANTS
  Normal,          \* normalize_name: from spellings to names
  Extension,       \* how the name of each file ends
  Stdin,           \* the path "-"
  MaxDeps,         \* max_deps
  MaxIncludeDepth  \* max_include_depth

\* A pin is name==version; a url or a VCS comes from no registry.
Kinds == {"dep", "pin", "include", "editable", "url", "garbage"}

(* What a parser returns: the first spelling of each name, or an error.    *)
Kept(deps) == [ok |-> TRUE, deps |-> deps]

Rejected == [ok |-> FALSE, deps |-> <<>>]

-----------------------------------------------------------------------------
(* detect.py, and the override of the command line.                        *)

EcosystemOverride(args) ==
  IF args.ecosystem # "none" THEN args.ecosystem
  ELSE IF args.type # "none" /\ args.path # Stdin THEN "pypi" ELSE "none"

Autodetected(path) ==
  CASE Extension[path] = "package.json"              -> "npm"
    [] Extension[path] \in {"pyproject.toml", "txt"} -> "pypi"
    [] OTHER                                         -> "error"

DetectEcosystem(args) ==
  LET override == EcosystemOverride(args)
  IN CASE override \in {"pypi", "npm"}                -> override
       [] override = "none" /\ args.path # Stdin      -> Autodetected(args.path)
       [] OTHER                                       -> "error"

ResolveType(args) ==
  CASE args.type # "none"                       -> args.type
    [] Extension[args.path] = "pyproject.toml"  -> "pyproject"
    [] Extension[args.path] = "txt"             -> "requirements"
    [] OTHER                                    -> "error"

ParserFor(args) ==
  CASE DetectEcosystem(args) = "npm" -> "package"
    [] DetectEcosystem(args) = "pypi" /\ args.path = Stdin -> "freeze"
    [] DetectEcosystem(args) = "pypi" /\ args.path # Stdin -> ResolveType(args)
    [] OTHER -> "error"

-----------------------------------------------------------------------------
(* The parsers.                                                            *)

SyntaxOf(parser) ==
  CASE parser \in {"requirements", "freeze"} -> "lines"
    [] parser = "pyproject"                  -> "toml"
    [] parser = "package"                    -> "json"
    [] OTHER                                 -> "none"

\* An empty file is TOML too, without a [project]: nothing to scan.
Loads(parser, file) ==
  \/ file.syntax = SyntaxOf(parser)
  \/ parser = "pyproject" /\ file.syntax = "lines" /\ file.body = <<>>

\* What becomes of a line, or of an entry of TOML or JSON.
RequirementsLine(kind) ==
  CASE kind \in {"dep", "pin"}      -> "keep"
    [] kind = "include"             -> "include"
    [] kind \in {"editable", "url"} -> "skip"
    [] OTHER                        -> "reject"

FreezeLine(kind) ==
  CASE kind = "pin"      -> "keep"
    [] kind = "editable" -> "skip"
    [] OTHER             -> "reject"

PyprojectSpec(kind) == IF kind \in {"dep", "pin"} THEN "keep" ELSE "reject"

PackageEntry(kind) ==
  CASE kind \in {"dep", "pin"} -> "keep"
    [] kind = "url"            -> "skip"
    [] OTHER                   -> "reject"

Fate(parser, line) ==
  CASE parser = "requirements" -> RequirementsLine(line.is)
    [] parser = "freeze"       -> FreezeLine(line.is)
    [] parser = "pyproject"    -> PyprojectSpec(line.is)
    [] parser = "package"      -> PackageEntry(line.is)

(* _merge_result                                                           *)
Merge(deps, s) ==
  IF \E i \in DOMAIN deps : Normal[deps[i]] = Normal[s] THEN deps ELSE Append(deps, s)

\* A bug: the dependencies past the limit are left out.
MutCapped(deps) == Kept(SubSeq(deps, 1, IF Len(deps) > MaxDeps THEN MaxDeps ELSE Len(deps)))

Capped(deps) == IF Len(deps) > MaxDeps THEN Rejected ELSE Kept(deps)

\* A bug: the last level is cut off.
MutMayInclude(stack, f) == f \notin Range(stack) /\ Len(stack) < MaxIncludeDepth

(* The file is not in the branch above it (seen_paths), and not too deep.  *)
MayInclude(stack, f) == f \notin Range(stack) /\ Len(stack) <= MaxIncludeDepth

(* A path that is absolute, leads out of the project or to no file is not  *)
(* one of its files.                                                       *)
InProject(project, f) == f \in DOMAIN project

(* The dependencies of an included file are merged one by one, and the     *)
(* whole is capped.                                                        *)
AddAll(deps, more) ==
  LET Merged[n \in 0 .. Len(more.deps)] ==
        IF n = 0 THEN deps ELSE Merge(Merged[n - 1], more.deps[n])
  IN IF more.ok THEN Capped(Merged[Len(more.deps)]) ELSE Rejected

(* What the file was read to so far, and what its next line makes of it.   *)
ReadLine(parser, included, read, line) ==
  IF ~read.ok THEN Rejected
  ELSE CASE Fate(parser, line) = "keep"    -> Capped(Merge(read.deps, line.of))
         [] Fate(parser, line) = "include" -> AddAll(read.deps, included[line.of])
         [] Fate(parser, line) = "skip"    -> read
         [] Fate(parser, line) = "reject"  -> Rejected

ReadFile(parser, included, file) ==
  LET Read[n \in 0 .. Len(file.body)] ==
        IF n = 0 THEN Kept(<<>>) ELSE ReadLine(parser, included, Read[n - 1], file.body[n])
  IN IF Loads(parser, file) THEN Read[Len(file.body)] ELSE Rejected

IncludesOf(file) == {line.of : line \in {l \in Range(file.body) : l.is = "include"}}

(* Includes are read in place, each branch on its own.                     *)
Parse(parser, project, root) ==
  LET Parsed[stack \in Seq(DOMAIN project) \ {<<>>}] ==
        LET file == project[Last(stack)]
            included == [f \in IncludesOf(file) |->
                           IF MayInclude(stack, f) /\ InProject(project, f)
                             THEN Parsed[Append(stack, f)] ELSE Rejected]
        IN ReadFile(parser, included, file)
  IN IF InProject(project, root) THEN Parsed[<<root>>] ELSE Rejected

DetectAndParse(project, args) == Parse(ParserFor(args), project, args.path)

-----------------------------------------------------------------------------
(* What a manifest declares, with no word of an order of reading.          *)

IncludedBy(project, files) == UNION {IncludesOf(project[f]) : f \in files \intersect DOMAIN project}

(* The files at the end of some chain of n includes.                       *)
AtDepth(parser, project, root) ==
  LET Level[n \in Nat] ==
        IF n = 0 THEN {root}
        ELSE IF parser = "requirements" THEN IncludedBy(project, Level[n - 1]) ELSE {}
  IN Level

Reached(parser, project, root) ==
  UNION {AtDepth(parser, project, root)[n] : n \in 0 .. Cardinality(DOMAIN project)}

LinesOf(parser, project, root) ==
  UNION {Range(project[f].body) : f \in Reached(parser, project, root) \intersect DOMAIN project}

DeclaredBy(parser, project, root) ==
  {Normal[l.of] : l \in {x \in LinesOf(parser, project, root) : x.is \in {"dep", "pin"}}}

(* Why a manifest may be rejected.  A cycle of includes is an endless chain.*)
HasCause(parser, project, root) ==
  \/ \E f \in Reached(parser, project, root) :
       f \notin DOMAIN project \/ ~Loads(parser, project[f])
  \/ \E l \in LinesOf(parser, project, root) : Fate(parser, l) = "reject"
  \/ AtDepth(parser, project, root)[MaxIncludeDepth + 1] # {}
  \/ Cardinality(DeclaredBy(parser, project, root)) > MaxDeps

=============================================================================
