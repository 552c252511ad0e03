------------------------------- MODULE Scoring -------------------------------
(***************************************************************************)
(* From the facts about one package to its verdict: the signals of layers  *)
(* 0 to 4, the additive score with its two caps, the branches of           *)
(* build_dependency_result and the exit code of a report.  All of it pure. *)
(*                                                                         *)
(* The signals of a package are a set of codes with their weights; no two  *)
(* of them have the same code.                                             *)
(***************************************************************************)
EXTENDS Integers, FiniteSetsExt

CONSTANTS
  UmbralWarn,    \* config.umbral_warn
  UmbralBlock,   \* config.umbral_block
  C2MaxContrib,  \* config.c2_max_contrib
  WBase,         \* config.w_base_*: the weight of each hallucination class
  LlmConfMin     \* config.llm_conf_min, in percent

SOFT_CAP == 25

LLM_SOFT_CAP == 50

Clasificaciones == {"legitimo", "conflacion", "typo", "fabricacion"}

(* _validate_ranges and _validate_anti_block.  c2_max_contrib is any       *)
(* integer: nothing validates it.                                          *)
ASSUME ConfigValidated ==
  /\ UmbralWarn \in Nat /\ UmbralBlock \in Nat
  /\ UmbralWarn < UmbralBlock /\ UmbralBlock <= 100
  /\ SOFT_CAP + LLM_SOFT_CAP < UmbralBlock
  /\ UmbralWarn <= LLM_SOFT_CAP
  /\ C2MaxContrib \in Int
  /\ WBase \in [Clasificaciones \ {"legitimo"} -> Nat \ {0}]
  /\ LlmConfMin \in 1 .. 100

-----------------------------------------------------------------------------
(* What the world knows of a package.  age: of its first release, against  *)
(* edad_minima_dias and gray_edad_max_dias; "future" when the registry's   *)
(* date lies ahead of the clock.  meta: which criteria of layer 2 fail.    *)
(* lookalike: the weight of the closest popular name, 0 without one.       *)
Profile ==
  [exists : BOOLEAN, age : {"unknown", "future", "new", "young", "old"},
   meta : SUBSET {"weak", "norepo"}, lookalike : {0, 25, 30, 40, 60}, long : BOOLEAN,
   malicious : BOOLEAN, listed : BOOLEAN]

Assessment == [clasificacion : Clasificaciones, confianza : 0 .. 100]

HardCodes == {"NONEXISTENT", "TYPOSQUAT", "NAME_UNTRUSTED", "MALICIOUS", "KNOWN_HALLUCINATION"}

(* Their verdict is an override, not a weight.                             *)
OverrideCodes == {"NONEXISTENT", "MALICIOUS"}

HeuristicCodes ==
  {"NEW_PACKAGE", "WEAK_METADATA", "LOW_VERIFIABILITY", "THREATINTEL_UNVERIFIABLE",
   "LLM_UNAVAILABLE"}

LlmCodes == {"LLM_HALLUCINATION_SURFACE"}

Larger(a, b) == IF a < b THEN b ELSE a

Smaller(a, b) == IF a < b THEN a ELSE b

NoSignal == {}

Signal(code, weight) == {[code |-> code, peso |-> weight]}

-----------------------------------------------------------------------------
(* The layers.                                                             *)

Layer0(p) ==
  CASE ~p.exists -> Signal("NONEXISTENT", 0)
    [] p.exists /\ p.age \in {"future", "new"} -> Signal("NEW_PACKAGE", 15)
    [] OTHER -> NoSignal

(* A name over nombre_max_chars is not compared with the popular ones.     *)
Layer1(p) ==
  CASE p.long -> Signal("NAME_UNTRUSTED", 30)
    [] ~p.long /\ p.lookalike # 0 -> Signal("TYPOSQUAT", p.lookalike)
    [] OTHER -> NoSignal

(* _apply_cap takes the excess over c2_max_contrib from WEAK_METADATA.     *)
Layer2(p) ==
  LET weak == IF "weak" \in p.meta THEN 7 ELSE 0
      norepo == IF "norepo" \in p.meta THEN 5 ELSE 0
      excess == Larger(0, weak + norepo - C2MaxContrib)
  IN  IF ~p.exists THEN NoSignal
      ELSE (IF "weak" \in p.meta THEN Signal("WEAK_METADATA", Larger(0, weak - excess)) ELSE NoSignal)
             \union (IF "norepo" \in p.meta THEN Signal("LOW_VERIFIABILITY", 5) ELSE NoSignal)

(* malice: what the threat-intel sources answered, "none" if not asked.    *)
Layer3(malice) ==
  CASE malice = "MALICIOUS" -> Signal("MALICIOUS", 0)
    [] malice = "KNOWN_HALLUCINATION" -> Signal("KNOWN_HALLUCINATION", 85)
    [] malice = "UNVERIFIABLE" -> Signal("THREATINTEL_UNVERIFIABLE", 0)
    [] OTHER -> NoSignal

(* evaluate_layer4 of an assessment; an abstention is LLM_UNAVAILABLE.     *)
Layer4(a) ==
  IF a.clasificacion = "legitimo" \/ a.confianza < LlmConfMin THEN NoSignal
  ELSE Signal("LLM_HALLUCINATION_SURFACE", (WBase[a.clasificacion] * a.confianza) \div 100)

Abstention == Signal("LLM_UNAVAILABLE", 0)

(* _collect_signals                                                        *)
CollectSignals(p, malice) ==
  Layer0(p) \union Layer1(p) \union Layer2(p) \union Layer3(malice)

-----------------------------------------------------------------------------
(* scorer.py                                                               *)

Emitted(signals, code) == {s \in signals : s.code = code}

Has(signals, code) == Emitted(signals, code) # {}

Weight(signals, code) ==
  IF Has(signals, code) THEN (CHOOSE s \in Emitted(signals, code) : TRUE).peso ELSE 0

MaxHardWeight(signals) == Max({Weight(signals, c) : c \in HardCodes \ OverrideCodes})

(* The other heuristic codes weigh nothing.                                *)
HeuristicSoft(signals) ==
  Weight(signals, "NEW_PACKAGE") + Weight(signals, "WEAK_METADATA")
    + Weight(signals, "LOW_VERIFIABILITY")

LlmSoft(signals) == Weight(signals, "LLM_HALLUCINATION_SURFACE")

MutScoreUncappedLlm(signals) ==
  Smaller(100, MaxHardWeight(signals) + Smaller(HeuristicSoft(signals), SOFT_CAP)
                 + LlmSoft(signals))

ComputeScore(signals) ==
  Smaller(100, MaxHardWeight(signals) + Smaller(HeuristicSoft(signals), SOFT_CAP)
                 + Smaller(LlmSoft(signals), LLM_SOFT_CAP))

-----------------------------------------------------------------------------
(* verdict.py.  A verdict is the verdict of a result whose status is OK,   *)
(* or "unverifiable" for the status of that name.                          *)

Verdict == {"allow", "warn", "block", "unverifiable"}

DegradedStatus == {"unverifiable", "warn"}

ScoreToVerdict(score) ==
  IF score >= UmbralBlock THEN "block" ELSE IF score >= UmbralWarn THEN "warn" ELSE "allow"

(* build_dependency_result of a package whose existence was verified;      *)
(* degraded is config.threatintel_degraded_status.                         *)
DependencyVerdict(signals, degraded) ==
  LET scored == ScoreToVerdict(ComputeScore(signals))
  IN  CASE Has(signals, "MALICIOUS") \/ Has(signals, "NONEXISTENT") -> "block"
        [] ~(Has(signals, "MALICIOUS") \/ Has(signals, "NONEXISTENT"))
             /\ scored = "allow" /\ Has(signals, "THREATINTEL_UNVERIFIABLE") -> degraded
        [] OTHER -> scored

MutExitWarnFirst(verdicts) ==
  CASE "block" \in verdicts -> 2
    [] "block" \notin verdicts /\ "warn" \in verdicts -> 1
    [] OTHER -> 0

(* aggregate_exit_code, not strict, of a report that is no error report.   *)
ExitCode(verdicts) ==
  CASE "block" \in verdicts -> 2
    [] "block" \notin verdicts /\ "unverifiable" \in verdicts -> 3
    [] verdicts \intersect {"block", "unverifiable"} = {} /\ "warn" \in verdicts -> 1
    [] OTHER -> 0

MutGrayBandHard(p, signals, verdict) ==
  /\ verdict \in {"allow", "warn"}
  /\ p.age \in {"new", "young"} \/ (\E c \in HeuristicCodes : Has(signals, c))

(* is_gray_band: verified, not blocked, no hard signal, and either young   *)
(* or with a heuristic soft signal.                                        *)
GrayBand(p, signals, verdict) ==
  /\ verdict \in {"allow", "warn"}
  /\ (\A c \in HardCodes : ~Has(signals, c))
  /\ p.age \in {"new", "young"} \/ (\E c \in HeuristicCodes : Has(signals, c))

=============================================================================
