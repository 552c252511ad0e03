--------------------------- MODULE MCCommandLine ----------------------------
(* Small instances of CommandLine: manifests of up to three packages, one  *)
(* more than a chunk, than the pool's workers and than the LLM's budget.   *)
EXTENDS CommandLine, TLC

(* Two spellings of 1, one of each other name.                             *)
MCNormal == "a" :> 1 @@ "A" :> 1 @@ "b" :> 2 @@ "c" :> 3 @@ "d" :> 4

MCExtension ==
  "r" :> "txt" @@ "s" :> "txt" @@ "t" :> "txt" @@ "u" :> "txt" @@ "v" :> "txt" @@
  "p" :> "pyproject.toml" @@ "j" :> "package.json" @@ "in" :> "other"

Line(is, of) == [is |-> is, of |-> of]

Dep(s) == Line("dep", s)

Pin(s) == Line("pin", s)

Include(f) == Line("include", f)

File(syntax, body) == [syntax |-> syntax, body |-> body]

(* s and r both include t: a, b and c, some of them twice.                 *)
Diamond ==
  "r" :> File("lines", <<Include("s"), Include("t"), Dep("a"), Line("editable", ""), Dep("c")>>) @@
  "s" :> File("lines", <<Include("t"), Pin("A")>>) @@
  "t" :> File("lines", <<Dep("b")>>) @@
  "u" :> File("lines", <<>>)

(* The shared file instead: a chain too long, two cycles, no such file,    *)
(* no format, another format, too many packages; or a web address.         *)
Tails ==
  {<<Include("u")>>, <<Include("s")>>, <<Include("t")>>, <<Include("/etc")>>,
   <<Line("garbage", "")>>, <<Dep("b"), Dep("d")>>, <<Line("url", "")>>}

Run(files, path) ==
  [project |-> files,
   args |-> [path |-> path, ecosystem |-> "none", type |-> "none", strict |-> FALSE]]

Requirements ==
  {Run(Diamond, "r"), Run([Diamond EXCEPT !["s"].syntax = "toml"], "r"), Run(Diamond, "v")}
  \union {Run([Diamond EXCEPT !["t"].body = tail], "r") : tail \in Tails}

(* One package in each other format, and files that are not what they      *)
(* are said to be.                                                         *)
Single ==
  "p" :> File("toml", <<Dep("a")>>) @@
  "j" :> File("json", <<Line("url", ""), Dep("b")>>) @@
  "-" :> File("lines", <<Line("editable", ""), Pin("c")>>) @@
  "in" :> File("lines", <<Dep("b")>>)

With(run, ecosystem, type) ==
  [run EXCEPT !.args.ecosystem = ecosystem, !.args.type = type]

Others ==
  {Run(Single, path) : path \in {"p", "j", "-", "in"}}
  \union {With(Run(Single, "-"), "pypi", "requirements"), With(Run(Single, "-"), "npm", "none"),
          With(Run(Single, "-"), "none", "freeze"), With(Run(Single, "in"), "none", "requirements"),
          With(Run(Single, "in"), "none", "freeze"), With(Run(Single, "j"), "pypi", "none"),
          With(Run(Single, "p"), "cargo", "none"),
          [Run(Single, "p") EXCEPT !.args.strict = TRUE],
          Run([Single EXCEPT !["p"] = File("lines", <<>>)], "p")}

MCCommands == Requirements \union Others

(* Up to three packages, as the parsers list them: each name once.         *)
MCManifests ==
  {m \in UNION {[1 .. k -> DOMAIN MCNormal] : k \in 0 .. 3} :
     \A i, j \in DOMAIN m : MCNormal[m[i]] = MCNormal[m[j]] => i = j}

MCWBase == [c \in Clasificaciones \ {"legitimo"} |->
              CASE c = "fabricacion" -> 55 [] c = "conflacion" -> 45 [] c = "typo" -> 40]

MCAssessments ==
  {[clasificacion |-> "legitimo", confianza |-> 90],
   [clasificacion |-> "fabricacion", confianza |-> 100]}

Popular ==
  [exists |-> TRUE, age |-> "old", meta |-> {}, lookalike |-> 0, long |-> FALSE,
   malicious |-> FALSE, listed |-> FALSE]

Missing == [Popular EXCEPT !.exists = FALSE]

Young == [Popular EXCEPT !.age = "young"]

Lookalike == [Popular EXCEPT !.age = "new", !.lookalike = 40]

Fresh == [Popular EXCEPT !.age = "new", !.meta = {"weak", "norepo"}]

MaliciousPackage == [Young EXCEPT !.malicious = TRUE]

ListedPackage == [Fresh EXCEPT !.listed = TRUE]

(* Every package may be in the gray band; any two may be something else.   *)
MCWorlds ==
  {<<Fresh, Fresh, Young, Popular>>, <<Missing, Fresh, MaliciousPackage, Popular>>,
   <<Lookalike, ListedPackage, Young, Popular>>, <<Missing, ListedPackage, Young, Popular>>,
   <<Fresh, ListedPackage, MaliciousPackage, Popular>>, <<Lookalike, Fresh, MaliciousPackage, Popular>>}

MCCaches ==
  {<<NoAssessment, cached, NoAssessment, NoAssessment>> :
     cached \in {NoAssessment, [clasificacion |-> "fabricacion", confianza |-> 100]}}

AllLayers == [layer3 |-> TRUE, watchlist |-> TRUE, layer4 |-> TRUE, degraded |-> "unverifiable"]

Degraded == [AllLayers EXCEPT !.degraded = "warn"]

Hito1 == [layer3 |-> FALSE, watchlist |-> FALSE, layer4 |-> FALSE, degraded |-> "unverifiable"]

MCConfigs == {AllLayers, Degraded, Hito1}

=============================================================================
