--------------------------- MODULE ScanEngineProofs ---------------------------
(***************************************************************************)
(* Theorems of ScanEngine for every set of packages, every configuration   *)
(* the validation of config.py accepts and every pattern of failures:      *)
(* types, the caps of the score, what a verdict may rest on, the budget of *)
(* layer 4, that the engine implements ScanPromise, and that its steps run *)
(* out.                                                                    *)
(***************************************************************************)
EXTENDS ScanEngine, FiniteSetTheorems, Recursion, TLAPS

-----------------------------------------------------------------------------
(* Signals of the layers.                                                  *)

Codes == HardCodes \union HeuristicCodes \union LlmCodes

SignalsOf(codes) == [code : codes, peso : Nat]

(* One signal has its own code and weight, and no other.                   *)
LEMMA OneSignal ==
  ASSUME NEW c, NEW w \in Nat
  PROVE  /\ Signal(c, w) \in SUBSET SignalsOf({c})
         /\ \A d : Has(Signal(c, w), d) <=> d = c
         /\ Weight(Signal(c, w), c) = w
<1>1. Emitted(Signal(c, w), c) = {[code |-> c, peso |-> w]}
  BY DEF Emitted, Signal
<1>2. \A d : d # c => Emitted(Signal(c, w), d) = {}
  BY DEF Emitted, Signal
<1>3. Weight(Signal(c, w), c) = w
  <2> DEFINE chosen == CHOOSE s \in {[code |-> c, peso |-> w]} : TRUE
  <2>1. chosen = [code |-> c, peso |-> w]
    OBVIOUS
  <2>2. Weight(Signal(c, w), c) = chosen.peso
    BY <1>1, Zenon DEF Weight, Has
  <2> QED  BY <2>1, <2>2
<1>4. Signal(c, w) \in SUBSET SignalsOf({c})
  BY DEF Signal, SignalsOf
<1> QED  BY <1>1, <1>2, <1>3, <1>4 DEF Has

(* A layer that finds nothing emits nothing.                               *)
LEMMA NoneSignal == \A d : ~Has(NoSignal, d)
  BY DEF NoSignal, Has, Emitted

(* A code is among the signals of two layers iff either emitted it.        *)
LEMMA HasUnion ==
  ASSUME NEW s, NEW t, NEW c
  PROVE  Has(s \union t, c) <=> Has(s, c) \/ Has(t, c)
  BY DEF Has, Emitted

(* Signals with other codes do not change the weight of a code.            *)
LEMMA WeightUnion ==
  ASSUME NEW s, NEW t, NEW c, ~Has(t, c)
  PROVE  Weight(s \union t, c) = Weight(s, c)
<1>1. Emitted(s \union t, c) = Emitted(s, c)
  BY DEF Has, Emitted
<1> DEFINE W(S) == IF S # {} THEN (CHOOSE x \in S : TRUE).peso ELSE 0
<1>2. Weight(s, c) = W(Emitted(s, c)) /\ Weight(s \union t, c) = W(Emitted(s \union t, c))
  BY Zenon DEF Weight, Has
<1> HIDE DEF W
<1> QED  BY <1>1, <1>2

(* Layer 0 emits NONEXISTENT exactly for a package that does not exist.    *)
LEMMA Layer0Signals ==
  ASSUME NEW p \in Profile
  PROVE  /\ Layer0(p) \subseteq SignalsOf({"NONEXISTENT", "NEW_PACKAGE"})
         /\ Has(Layer0(p), "NONEXISTENT") <=> ~p.exists
         /\ \A d : Has(Layer0(p), d) => d \in {"NONEXISTENT", "NEW_PACKAGE"}
<1>1. CASE ~p.exists
  <2>1. Layer0(p) = Signal("NONEXISTENT", 0)
    BY <1>1 DEF Layer0
  <2> QED  BY <1>1, <2>1, OneSignal DEF SignalsOf
<1>2. CASE p.exists /\ p.age \in {"future", "new"}
  <2>1. Layer0(p) = Signal("NEW_PACKAGE", 15)
    BY <1>2 DEF Layer0
  <2> QED  BY <1>2, <2>1, OneSignal DEF SignalsOf
<1>3. CASE p.exists /\ p.age \notin {"future", "new"}
  <2>1. Layer0(p) = NoSignal
    BY <1>3 DEF Layer0
  <2> QED  BY <1>3, <2>1, NoneSignal DEF NoSignal
<1> QED  BY <1>1, <1>2, <1>3 DEF Profile

(* Layer 1 emits a hard signal only for an over-long or lookalike name.    *)
LEMMA Layer1Signals ==
  ASSUME NEW p \in Profile
  PROVE  /\ Layer1(p) \subseteq SignalsOf({"NAME_UNTRUSTED", "TYPOSQUAT"})
         /\ \A d : Has(Layer1(p), d) =>
              d \in {"NAME_UNTRUSTED", "TYPOSQUAT"} /\ (p.long \/ p.lookalike # 0)
<1>1. CASE p.long
  <2>1. Layer1(p) = Signal("NAME_UNTRUSTED", 30)
    BY <1>1 DEF Layer1
  <2> QED  BY <1>1, <2>1, OneSignal DEF SignalsOf
<1>2. CASE ~p.long /\ p.lookalike # 0
  <2>1. Layer1(p) = Signal("TYPOSQUAT", p.lookalike)
    BY <1>2 DEF Layer1
  <2>2. p.lookalike \in Nat
    BY DEF Profile
  <2> QED  BY <1>2, <2>1, <2>2, OneSignal DEF SignalsOf
<1>3. CASE ~p.long /\ p.lookalike = 0
  <2>1. Layer1(p) = NoSignal
    BY <1>3 DEF Layer1
  <2> QED  BY <1>3, <2>1, NoneSignal DEF NoSignal
<1> QED  BY <1>1, <1>2, <1>3 DEF Profile

(* Layer 2 emits soft signals only, of no negative weight whatever the     *)
(* configured cap.                                                         *)
LEMMA Layer2Signals ==
  ASSUME NEW p \in Profile
  PROVE  /\ Layer2(p) \subseteq SignalsOf({"WEAK_METADATA", "LOW_VERIFIABILITY"})
         /\ \A d : Has(Layer2(p), d) => d \in {"WEAK_METADATA", "LOW_VERIFIABILITY"}
<1> DEFINE weak == IF "weak" \in p.meta THEN 7 ELSE 0
           norepo == IF "norepo" \in p.meta THEN 5 ELSE 0
           excess == Larger(0, weak + norepo - C2MaxContrib)
           w == Larger(0, weak - excess)
           first == IF "weak" \in p.meta THEN Signal("WEAK_METADATA", w) ELSE NoSignal
           second == IF "norepo" \in p.meta THEN Signal("LOW_VERIFIABILITY", 5) ELSE NoSignal
<1>1. Layer2(p) = IF ~p.exists THEN NoSignal ELSE first \union second
  BY DEF Layer2
<1>2. w \in Nat
  BY ConfigValidated DEF Larger
<1> HIDE DEF w
<1>3. /\ first \subseteq SignalsOf({"WEAK_METADATA"})
      /\ \A d : Has(first, d) => d = "WEAK_METADATA"
  <2>1. CASE "weak" \in p.meta
    BY <1>2, <2>1, OneSignal
  <2>2. CASE "weak" \notin p.meta
    BY <2>2, NoneSignal DEF NoSignal
  <2> QED  BY <2>1, <2>2
<1>4. /\ second \subseteq SignalsOf({"LOW_VERIFIABILITY"})
      /\ \A d : Has(second, d) => d = "LOW_VERIFIABILITY"
  <2>1. CASE "norepo" \in p.meta
    BY <2>1, OneSignal
  <2>2. CASE "norepo" \notin p.meta
    BY <2>2, NoneSignal DEF NoSignal
  <2> QED  BY <2>1, <2>2
<1> HIDE DEF first, second
<1>5. CASE ~p.exists
  BY <1>1, <1>5, NoneSignal DEF NoSignal
<1>6. CASE p.exists
  <2>1. Layer2(p) = first \union second
    BY <1>1, <1>6
  <2>2. \A d : Has(Layer2(p), d) => Has(first, d) \/ Has(second, d)
    BY <2>1, HasUnion
  <2>3. Layer2(p) \subseteq SignalsOf({"WEAK_METADATA", "LOW_VERIFIABILITY"})
    BY <2>1, <1>3, <1>4 DEF SignalsOf
  <2> QED  BY <2>2, <2>3, <1>3, <1>4
<1> QED  BY <1>5, <1>6

(* Layer 3 tells each answer of the threat-intel sources apart.            *)
LEMMA Layer3Signals ==
  ASSUME NEW m \in MaliceState \union {"none"}
  PROVE  /\ Layer3(m) \subseteq
              SignalsOf({"MALICIOUS", "KNOWN_HALLUCINATION", "THREATINTEL_UNVERIFIABLE"})
         /\ Has(Layer3(m), "MALICIOUS") <=> m = "MALICIOUS"
         /\ Has(Layer3(m), "THREATINTEL_UNVERIFIABLE") <=> m = "UNVERIFIABLE"
         /\ Has(Layer3(m), "KNOWN_HALLUCINATION") <=> m = "KNOWN_HALLUCINATION"
         /\ m = "KNOWN_HALLUCINATION" => Weight(Layer3(m), "KNOWN_HALLUCINATION") = 85
         /\ \A d : Has(Layer3(m), d) =>
              d \in {"MALICIOUS", "KNOWN_HALLUCINATION", "THREATINTEL_UNVERIFIABLE"}
<1>1. CASE m = "MALICIOUS"
  <2>1. Layer3(m) = Signal("MALICIOUS", 0)
    BY <1>1 DEF Layer3
  <2> QED  BY <1>1, <2>1, OneSignal DEF SignalsOf
<1>2. CASE m = "KNOWN_HALLUCINATION"
  <2>1. Layer3(m) = Signal("KNOWN_HALLUCINATION", 85)
    BY <1>2 DEF Layer3
  <2> QED  BY <1>2, <2>1, OneSignal DEF SignalsOf
<1>3. CASE m = "UNVERIFIABLE"
  <2>1. Layer3(m) = Signal("THREATINTEL_UNVERIFIABLE", 0)
    BY <1>3 DEF Layer3
  <2> QED  BY <1>3, <2>1, OneSignal DEF SignalsOf
<1>4. CASE m \in {"CLEAN", "none"}
  <2>1. Layer3(m) = NoSignal
    BY <1>4 DEF Layer3
  <2> QED  BY <1>4, <2>1, NoneSignal DEF NoSignal
<1> QED  BY <1>1, <1>2, <1>3, <1>4 DEF MaliceState

(* Layer 4 emits its one soft signal or nothing.                           *)
LEMMA Layer4Signal ==
  ASSUME NEW a \in Assessment
  PROVE  /\ Layer4(a) \subseteq SignalsOf({"LLM_HALLUCINATION_SURFACE"})
         /\ \A d : Has(Layer4(a), d) => d = "LLM_HALLUCINATION_SURFACE"
<1>1. CASE a.clasificacion = "legitimo" \/ a.confianza < LlmConfMin
  BY <1>1, NoneSignal DEF Layer4, NoSignal
<1>2. CASE ~(a.clasificacion = "legitimo" \/ a.confianza < LlmConfMin)
  <2> DEFINE w == (WBase[a.clasificacion] * a.confianza) \div 100
  <2>1. WBase[a.clasificacion] \in Nat /\ a.confianza \in Nat
    BY <1>2, ConfigValidated DEF Assessment, Clasificaciones
  <2>2. WBase[a.clasificacion] * a.confianza \in Nat
    <3>1. \A x, y \in Nat : x * y \in Nat
      OBVIOUS
    <3> QED  BY <2>1, <3>1
  <2>3. w \in Nat
    BY <2>2
  <2>4. Layer4(a) = Signal("LLM_HALLUCINATION_SURFACE", w)
    BY <1>2 DEF Layer4
  <2> HIDE DEF w
  <2> QED  BY <2>3, <2>4, OneSignal
<1> QED  BY <1>1, <1>2


(* Signals as the scorer gets them: known codes, weights in Nat.           *)
IsSignals(s) == s \subseteq SignalsOf(Codes)

(* What the signals of a package say of it, code by code.                  *)
LEMMA CollectedSignals ==
  ASSUME NEW p \in Profile, NEW m \in MaliceState \union {"none"}
  PROVE  LET s == CollectSignals(p, m)
         IN  /\ IsSignals(s)
             /\ \A c \in LlmCodes \union {"LLM_UNAVAILABLE"} : ~Has(s, c)
             /\ Has(s, "NONEXISTENT") <=> ~p.exists
             /\ Has(s, "MALICIOUS") <=> m = "MALICIOUS"
             /\ Has(s, "THREATINTEL_UNVERIFIABLE") <=> m = "UNVERIFIABLE"
             /\ Has(s, "KNOWN_HALLUCINATION") <=> m = "KNOWN_HALLUCINATION"
             /\ m = "KNOWN_HALLUCINATION" => Weight(s, "KNOWN_HALLUCINATION") = 85
             /\ Has(s, "TYPOSQUAT") \/ Has(s, "NAME_UNTRUSTED") => p.long \/ p.lookalike # 0
<1> DEFINE a == Layer0(p) \union Layer1(p) \union Layer2(p)
           s == CollectSignals(p, m)
<1>1. s = a \union Layer3(m)
  BY DEF CollectSignals
<1>2. \A c : Has(s, c) <=>
        Has(Layer0(p), c) \/ Has(Layer1(p), c) \/ Has(Layer2(p), c) \/ Has(Layer3(m), c)
  BY DEF CollectSignals, Has, Emitted
<1>3. \A c : Has(a, c) <=> Has(Layer0(p), c) \/ Has(Layer1(p), c) \/ Has(Layer2(p), c)
  BY DEF Has, Emitted
<1>4. IsSignals(s)
  <2>1. /\ SignalsOf({"NONEXISTENT", "NEW_PACKAGE"}) \subseteq SignalsOf(Codes)
        /\ SignalsOf({"NAME_UNTRUSTED", "TYPOSQUAT"}) \subseteq SignalsOf(Codes)
        /\ SignalsOf({"WEAK_METADATA", "LOW_VERIFIABILITY"}) \subseteq SignalsOf(Codes)
        /\ SignalsOf({"MALICIOUS", "KNOWN_HALLUCINATION", "THREATINTEL_UNVERIFIABLE"})
             \subseteq SignalsOf(Codes)
    BY DEF SignalsOf, Codes, HardCodes, HeuristicCodes, LlmCodes
  <2>2. a \subseteq SignalsOf(Codes)
    BY <2>1, Layer0Signals, Layer1Signals, Layer2Signals
  <2> HIDE DEF a, s
  <2> QED  BY <1>1, <2>1, <2>2, Layer3Signals DEF IsSignals
<1>5. m = "KNOWN_HALLUCINATION" => Weight(s, "KNOWN_HALLUCINATION") = 85
  <2> SUFFICES ASSUME m = "KNOWN_HALLUCINATION"
               PROVE  Weight(s, "KNOWN_HALLUCINATION") = 85
    OBVIOUS
  <2>1. s = Layer3(m) \union a
    BY <1>1
  <2> HIDE DEF a, s
  <2>2. ~Has(a, "KNOWN_HALLUCINATION")
    <3>1. /\ ~Has(Layer0(p), "KNOWN_HALLUCINATION")
          /\ ~Has(Layer1(p), "KNOWN_HALLUCINATION")
          /\ ~Has(Layer2(p), "KNOWN_HALLUCINATION")
      BY Layer0Signals, Layer1Signals, Layer2Signals
    <3> QED  BY <1>3, <3>1
  <2>3. Weight(s, "KNOWN_HALLUCINATION") = Weight(Layer3(m), "KNOWN_HALLUCINATION")
    BY <2>1, <2>2, WeightUnion
  <2> QED  BY <2>3, Layer3Signals
<1> HIDE DEF a, s
<1> QED  BY <1>2, <1>4, <1>5, Layer0Signals, Layer1Signals, Layer2Signals, Layer3Signals
         DEF LlmCodes, s

-----------------------------------------------------------------------------
(* The score.                                                              *)

(* A weight is a natural number, and zero for a code nobody emitted.       *)
LEMMA WeightNat ==
  ASSUME NEW s, IsSignals(s), NEW c
  PROVE  Weight(s, c) \in Nat /\ (~Has(s, c) => Weight(s, c) = 0)
<1>1. CASE Has(s, c)
  <2> DEFINE x == CHOOSE x \in Emitted(s, c) : TRUE
  <2>1. x \in Emitted(s, c)
    BY <1>1 DEF Has
  <2>2. Weight(s, c) = x.peso
    BY <1>1, Zenon DEF Weight
  <2>3. x \in SignalsOf(Codes)
    BY <2>1 DEF Emitted, IsSignals
  <2> HIDE DEF x
  <2> QED  BY <1>1, <2>2, <2>3 DEF SignalsOf
<1>2. CASE ~Has(s, c)
  BY <1>2 DEF Weight
<1> QED  BY <1>1, <1>2

(* The hard part of the score is the largest of the three hard weights.    *)
LEMMA MaxHard ==
  ASSUME NEW s, IsSignals(s)
  PROVE  LET h == MaxHardWeight(s)
         IN  /\ h \in {Weight(s, "TYPOSQUAT"), Weight(s, "NAME_UNTRUSTED"),
                       Weight(s, "KNOWN_HALLUCINATION")}
             /\ h >= Weight(s, "TYPOSQUAT") /\ h >= Weight(s, "NAME_UNTRUSTED")
             /\ h >= Weight(s, "KNOWN_HALLUCINATION")
<1> DEFINE t == Weight(s, "TYPOSQUAT")
           n == Weight(s, "NAME_UNTRUSTED")
           k == Weight(s, "KNOWN_HALLUCINATION")
<1>1. t \in Nat /\ n \in Nat /\ k \in Nat
  BY WeightNat
<1>2. HardCodes \ OverrideCodes = {"TYPOSQUAT", "NAME_UNTRUSTED", "KNOWN_HALLUCINATION"}
  BY DEF HardCodes, OverrideCodes
<1>3. {Weight(s, c) : c \in HardCodes \ OverrideCodes} = {t, n, k}
  BY <1>2
<1>4. MaxHardWeight(s) = CHOOSE x \in {t, n, k} : \A y \in {t, n, k} : x >= y
  BY <1>3 DEF MaxHardWeight, Max
<1> HIDE DEF t, n, k
<1>5. \E x \in {t, n, k} : \A y \in {t, n, k} : x >= y
  BY <1>1
<1> HIDE DEF t, n, k
<1>6. MaxHardWeight(s) \in {t, n, k} /\ \A y \in {t, n, k} : MaxHardWeight(s) >= y
  BY <1>4, <1>5
<1> QED  BY <1>6 DEF t, n, k

(* The parts of the score and its range.                                   *)
LEMMA ScoreRange ==
  ASSUME NEW s, IsSignals(s)
  PROVE  /\ MaxHardWeight(s) \in Nat /\ HeuristicSoft(s) \in Nat /\ LlmSoft(s) \in Nat
         /\ ComputeScore(s) \in 0 .. 100
<1>1. MaxHardWeight(s) \in Nat
  BY MaxHard, WeightNat
<1>2. HeuristicSoft(s) \in Nat /\ LlmSoft(s) \in Nat
  BY WeightNat DEF HeuristicSoft, LlmSoft
<1>3. ComputeScore(s) \in 0 .. 100
  <2> DEFINE h == MaxHardWeight(s)
             q == HeuristicSoft(s)
             l == LlmSoft(s)
  <2>1. ComputeScore(s) = Smaller(100, h + Smaller(q, 25) + Smaller(l, 50))
    BY DEF ComputeScore, SOFT_CAP, LLM_SOFT_CAP
  <2> HIDE DEF h, q, l
  <2>2. h \in Nat /\ q \in Nat /\ l \in Nat
    BY <1>1, <1>2 DEF h, q, l
  <2> QED  BY <2>1, <2>2 DEF Smaller
<1> QED  BY <1>1, <1>2, <1>3

(* Without a hard signal the two caps keep the score under umbral_block.   *)
LEMMA SoftScore ==
  ASSUME NEW s, IsSignals(s), \A c \in HardCodes : ~Has(s, c)
  PROVE  ComputeScore(s) < UmbralBlock
<1>1. MaxHardWeight(s) = 0
  BY MaxHard, WeightNat DEF HardCodes
<1> QED  BY <1>1, ScoreRange, ConfigValidated DEF ComputeScore, Smaller, SOFT_CAP, LLM_SOFT_CAP

(* The known hallucination alone takes the score out of allow.             *)
LEMMA ListedScore ==
  ASSUME NEW s, IsSignals(s), Weight(s, "KNOWN_HALLUCINATION") = 85
  PROVE  ComputeScore(s) >= UmbralWarn
<1>1. MaxHardWeight(s) >= 85
  BY MaxHard
<1> QED  BY <1>1, ScoreRange, ConfigValidated DEF ComputeScore, Smaller, SOFT_CAP, LLM_SOFT_CAP

(* The signals of layer 4 never lower a score.                             *)
LEMMA ScoreGrows ==
  ASSUME NEW s, NEW t, IsSignals(s), IsSignals(t),
         \A c \in LlmCodes : ~Has(s, c),
         \A c : Has(t, c) => c \in LlmCodes \union {"LLM_UNAVAILABLE"}
  PROVE  ComputeScore(s \union t) >= ComputeScore(s)
<1> DEFINE u == s \union t
<1>1. IsSignals(u)
  BY DEF IsSignals
<1>2. \A c \in {"TYPOSQUAT", "NAME_UNTRUSTED", "KNOWN_HALLUCINATION", "NEW_PACKAGE",
               "WEAK_METADATA", "LOW_VERIFIABILITY"} : Weight(u, c) = Weight(s, c)
  BY WeightUnion DEF LlmCodes
<1> HIDE DEF u
<1>3. MaxHardWeight(u) = MaxHardWeight(s)
  BY <1>1, <1>2, MaxHard, WeightNat
<1>4. HeuristicSoft(u) = HeuristicSoft(s)
  BY <1>2 DEF HeuristicSoft
<1>5. LlmSoft(s) = 0
  BY WeightNat DEF LlmSoft, LlmCodes
<1>6. ComputeScore(u) >= ComputeScore(s)
  BY <1>1, <1>3, <1>4, <1>5, ScoreRange DEF ComputeScore, Smaller, SOFT_CAP, LLM_SOFT_CAP
<1> QED  BY <1>6 DEF u

-----------------------------------------------------------------------------
(* The verdict.                                                            *)

(* The branches of build_dependency_result, as facts about each verdict.   *)
LEMMA VerdictFacts ==
  ASSUME NEW s, IsSignals(s), NEW d \in DegradedStatus
  PROVE  LET v == DependencyVerdict(s, d)
         IN  /\ v \in Verdict
             /\ v = "allow" => /\ ~Has(s, "MALICIOUS") /\ ~Has(s, "NONEXISTENT")
                               /\ ~Has(s, "THREATINTEL_UNVERIFIABLE")
                               /\ ComputeScore(s) < UmbralWarn
             /\ v = "block" => \E c \in HardCodes : Has(s, c)
             /\ Has(s, "MALICIOUS") \/ Has(s, "NONEXISTENT") => v = "block"
             /\ v = "warn" => ComputeScore(s) >= UmbralWarn \/
                              (d = "warn" /\ Has(s, "THREATINTEL_UNVERIFIABLE"))
<1>1. ComputeScore(s) \in Nat
  BY ScoreRange
<1>2. (\A c \in HardCodes : ~Has(s, c)) => ComputeScore(s) < UmbralBlock
  BY SoftScore
<1>3. "MALICIOUS" \in HardCodes /\ "NONEXISTENT" \in HardCodes
  BY DEF HardCodes
<1> QED  BY <1>1, <1>2, <1>3, ConfigValidated
         DEF DependencyVerdict, ScoreToVerdict, Verdict, DegradedStatus

(* A signal of layer 4 on a verdict in the gray band: no block, and only   *)
(* allow can change, to warn.                                              *)
LEMMA SecondPass ==
  ASSUME NEW s, NEW t, IsSignals(s), IsSignals(t), NEW d \in DegradedStatus,
         \A c \in HardCodes \union LlmCodes : ~Has(s, c),
         \A c : Has(t, c) => c \in LlmCodes \union {"LLM_UNAVAILABLE"},
         DependencyVerdict(s, d) \in {"allow", "warn"}
  PROVE  \/ DependencyVerdict(s \union t, d) = DependencyVerdict(s, d)
         \/ DependencyVerdict(s, d) = "allow" /\ DependencyVerdict(s \union t, d) = "warn"
<1> DEFINE u == s \union t
<1>1. IsSignals(u)
  BY DEF IsSignals
<1>2. \A c : Has(u, c) <=> Has(s, c) \/ Has(t, c)
  BY HasUnion
<1>3. ComputeScore(u) >= ComputeScore(s)
  BY ScoreGrows
<1> HIDE DEF u
<1>4. \A c \in HardCodes : ~Has(u, c)
  BY <1>2 DEF HardCodes, LlmCodes
<1>5. ComputeScore(u) < UmbralBlock /\ ComputeScore(s) < UmbralBlock
  BY <1>1, <1>4, SoftScore
<1>6. Has(u, "THREATINTEL_UNVERIFIABLE") <=> Has(s, "THREATINTEL_UNVERIFIABLE")
  BY <1>2 DEF LlmCodes
<1>7. ~Has(u, "MALICIOUS") /\ ~Has(u, "NONEXISTENT") /\ ~Has(s, "MALICIOUS") /\ ~Has(s, "NONEXISTENT")
  BY <1>4 DEF HardCodes
<1>8. ComputeScore(u) \in Nat /\ ComputeScore(s) \in Nat
  BY <1>1, ScoreRange
<1>9. \/ DependencyVerdict(u, d) = DependencyVerdict(s, d)
      \/ DependencyVerdict(s, d) = "allow" /\ DependencyVerdict(u, d) = "warn"
  BY <1>3, <1>5, <1>6, <1>7, <1>8, ConfigValidated
  DEF DependencyVerdict, ScoreToVerdict, DegradedStatus
<1> QED  BY <1>9 DEF u

(* The exit code tells a clean report and a blocked one from the others.   *)
LEMMA ExitCodes ==
  ASSUME NEW V \in SUBSET Verdict
  PROVE  /\ ExitCode(V) \in 0 .. 3
         /\ ExitCode(V) = 0 <=> \A v \in V : v = "allow"
         /\ ExitCode(V) = 2 <=> "block" \in V
  BY DEF ExitCode, Verdict

-----------------------------------------------------------------------------
(* The inductive invariant.                                                *)

(* Only what the registry and the sources really answered is held.         *)
AnswersTrue ==
  \A n \in Names :
    /\ fetch[n] = "FOUND" => truth[n].exists
    /\ fetch[n] = "NOT_FOUND" => ~truth[n].exists
    /\ malice[n] # "none" => config.layer3
    /\ malice[n] = "MALICIOUS" => truth[n].malicious
    /\ malice[n] = "KNOWN_HALLUCINATION" => config.watchlist /\ truth[n].listed
    /\ malice[n] = "CLEAN" => ~truth[n].malicious /\ ~(config.watchlist /\ truth[n].listed)

(* What each phase of _scan may rely on.                                   *)
FetchPhase ==
  /\ \A n \in Names \ Wanted : fetch[n] = "none"
  /\ \A n \in Names : fetch[n] # "UNVERIFIABLE" => attempts[n] <= ReintentosRed
  /\ phase = "parse" => \A n \in Names : fetch[n] = "none"
  /\ \A n \in Names : fetch[n] = "running" => phase \in {"fetch", "abort"}
  /\ phase \in {"threatintel", "evaluate", "layer4"} => \A n \in Wanted : fetch[n] \in Settled

MalicePhase ==
  /\ phase = "threatintel" => config.layer3
  /\ phase \in {"evaluate", "layer4"} /\ config.layer3 => \A n \in Found : malice[n] # "none"

VerdictPhase ==
  /\ phase # "done" => report = NoReport
  /\ phase \in {"parse", "fetch", "abort", "threatintel", "evaluate"} =>
       gray = {} /\ \A n \in Names : verdict[n] = "none"
  /\ phase = "layer4" =>
       /\ \A n \in Names : verdict[n] = IF n \in Wanted THEN FirstVerdict(n) ELSE "none"
       /\ \A n \in gray : GrayBand(truth[n], Signals(n), FirstVerdict(n))

(* The LLM is asked in the order of the names, within its budget.          *)
BudgetInv ==
  /\ IsFiniteSet(asked)
  /\ BudgetCutsTheTail
  /\ \A n \in DOMAIN assessed, m \in gray \ DOMAIN assessed : n < m

Sound(n, v) == (v = "allow" => Promise!MayAllow(n)) /\ (v = "block" => Promise!MayBlock(n))

ReportSound ==
  report # NoReport => \A n \in DOMAIN report.verdicts : Sound(n, report.verdicts[n])

EngineInv ==
  TypeOK /\ AnswersTrue /\ FetchPhase /\ MalicePhase /\ VerdictPhase /\ BudgetInv /\ ReportSound


-----------------------------------------------------------------------------
(* Facts about single steps.                                               *)

(* The wanted names are names.                                             *)
LEMMA WantedNames ==
  ASSUME manifest \in Manifests
  PROVE  Wanted \subseteq Names
  BY ParametersOK DEF Wanted

(* No step changes the manifest, the configuration or the truth.           *)
LEMMA InputFixed ==
  ASSUME [Next]_vars
  PROVE  UNCHANGED input /\ Wanted' = Wanted
<1>1. UNCHANGED input
  BY DEF Next, vars, input, Parse, StartFetch, FetchAnswered, FetchGivesUp, FetchFails, FetchRaises,
         SeeError, Abort, FetchDone, ResolveChunk, ThreatIntelDone, Evaluate, ResolveFromCache,
         AskLlm, AbstainOverBudget, AssembleReport, Lookup, ResolveLayer4
<1> QED  BY <1>1 DEF input, Wanted

(* A source answers what is true of a package or that it cannot tell.      *)
LEMMA BatchTrue ==
  ASSUME NEW chunk, NEW answers \in QueryBatch(chunk)
  PROVE  \A n \in DOMAIN answers :
           /\ answers[n] \in MaliceState
           /\ answers[n] = "MALICIOUS" => truth[n].malicious
           /\ answers[n] = "KNOWN_HALLUCINATION" => config.watchlist /\ truth[n].listed
           /\ answers[n] = "CLEAN" => ~truth[n].malicious /\ ~(config.watchlist /\ truth[n].listed)
<1> SUFFICES ASSUME NEW n \in DOMAIN answers
             PROVE  /\ answers[n] \in MaliceState
                    /\ answers[n] = "MALICIOUS" => truth[n].malicious
                    /\ answers[n] = "KNOWN_HALLUCINATION" => config.watchlist /\ truth[n].listed
                    /\ answers[n] = "CLEAN" =>
                         ~truth[n].malicious /\ ~(config.watchlist /\ truth[n].listed)
  OBVIOUS
<1>1. CASE answers = [m \in chunk |-> "UNVERIFIABLE"]
  BY <1>1 DEF MaliceState
<1>2. ASSUME NEW u, NEW d,
             answers = [m \in chunk |-> IF config.watchlist
                                       THEN Merge(Osv(m, u), Watchlist(m, d)) ELSE Osv(m, u)]
      PROVE  /\ answers[n] \in MaliceState
             /\ answers[n] = "MALICIOUS" => truth[n].malicious
             /\ answers[n] = "KNOWN_HALLUCINATION" => config.watchlist /\ truth[n].listed
             /\ answers[n] = "CLEAN" => ~truth[n].malicious /\ ~(config.watchlist /\ truth[n].listed)
  <2>1. answers[n] = IF config.watchlist THEN Merge(Osv(n, u), Watchlist(n, d)) ELSE Osv(n, u)
    BY <1>2
  <2>3. /\ Osv(n, u) \in {"UNVERIFIABLE", "MALICIOUS", "CLEAN"}
        /\ Osv(n, u) = "MALICIOUS" => truth[n].malicious
        /\ Osv(n, u) = "CLEAN" => ~truth[n].malicious
    BY DEF Osv
  <2>4. /\ Watchlist(n, d) \in {"UNVERIFIABLE", "KNOWN_HALLUCINATION", "CLEAN"}
        /\ Watchlist(n, d) = "KNOWN_HALLUCINATION" => truth[n].listed
        /\ Watchlist(n, d) = "CLEAN" => ~truth[n].listed
    BY DEF Watchlist
  <2> QED  BY <2>1, <2>3, <2>4 DEF Merge, Precedence, MaliceState
<1>3. \/ answers = [m \in chunk |-> "UNVERIFIABLE"]
      \/ \E u, d : answers = [m \in chunk |-> IF config.watchlist
                                              THEN Merge(Osv(m, u), Watchlist(m, d)) ELSE Osv(m, u)]
  <2> DEFINE A == IF Fault("osv") THEN SUBSET chunk ELSE {{}}
             B == IF Fault("watchlist") THEN BOOLEAN ELSE {FALSE}
             g(u, d) == [m \in chunk |-> IF config.watchlist
                                         THEN Merge(Osv(m, u), Watchlist(m, d)) ELSE Osv(m, u)]
             h == [m \in chunk |-> "UNVERIFIABLE"]
             F == Faults \intersect {"source"}
  <2>1. QueryBatch(chunk) = {g(u, d) : u \in A, d \in B} \union {h : f \in F}
    BY DEF QueryBatch
  <2> HIDE DEF A, B, F, g, h
  <2>2. answers \in {g(u, d) : u \in A, d \in B} \/ answers \in {h : f \in F}
    BY <2>1
  <2>3. answers = h \/ \E u, d : answers = g(u, d)
    BY <2>2
  <2> QED  BY <2>3 DEF g, h
<1> QED  BY <1>1, <1>2, <1>3

-----------------------------------------------------------------------------
(* Verdicts of the first and of the second pass.                           *)

(* The first verdict of a package whose lookup has settled is a verdict,   *)
(* and one that what is true of the package justifies.                     *)
LEMMA FirstSound ==
  ASSUME TypeOK, AnswersTrue, NEW n \in Wanted, fetch[n] \in Settled,
         config.layer3 => (fetch[n] = "FOUND" => malice[n] # "none")
  PROVE  FirstVerdict(n) \in Verdict /\ Sound(n, FirstVerdict(n))
<1>1. /\ n \in Names /\ truth[n] \in Profile /\ config \in Config
      /\ malice[n] \in MaliceState \union {"none"}
  BY WantedNames, ParametersOK DEF TypeOK
<1>2. config.degraded \in DegradedStatus
  BY <1>1 DEF Config
<1>3. CASE fetch[n] = "UNVERIFIABLE"
  BY <1>3 DEF FirstVerdict, Sound, Verdict
<1>4. CASE fetch[n] # "UNVERIFIABLE"
  <2> DEFINE s == Signals(n)
             v == FirstVerdict(n)
  <2>1. v = DependencyVerdict(s, config.degraded)
    BY <1>4 DEF FirstVerdict
  <2>2. /\ IsSignals(s)
        /\ Has(s, "NONEXISTENT") <=> ~truth[n].exists
        /\ Has(s, "MALICIOUS") <=> malice[n] = "MALICIOUS"
        /\ Has(s, "THREATINTEL_UNVERIFIABLE") <=> malice[n] = "UNVERIFIABLE"
        /\ Has(s, "KNOWN_HALLUCINATION") <=> malice[n] = "KNOWN_HALLUCINATION"
        /\ malice[n] = "KNOWN_HALLUCINATION" => Weight(s, "KNOWN_HALLUCINATION") = 85
        /\ Has(s, "TYPOSQUAT") \/ Has(s, "NAME_UNTRUSTED") =>
             truth[n].long \/ truth[n].lookalike # 0
    BY <1>1, CollectedSignals DEF Signals
  <2> HIDE DEF s, v
  <2>3. v \in Verdict
    BY <1>2, <2>1, <2>2, VerdictFacts
  <2>4. /\ malice[n] # "none" => config.layer3
        /\ malice[n] = "MALICIOUS" => truth[n].malicious
        /\ malice[n] = "KNOWN_HALLUCINATION" => config.watchlist /\ truth[n].listed
        /\ malice[n] = "CLEAN" => ~truth[n].malicious /\ ~(config.watchlist /\ truth[n].listed)
        /\ fetch[n] = "NOT_FOUND" => ~truth[n].exists
    BY <1>1 DEF AnswersTrue
  <2>5. v = "allow" => Promise!MayAllow(n)
    <3> SUFFICES ASSUME v = "allow" PROVE Promise!MayAllow(n)
      OBVIOUS
    <3>1. truth[n].exists /\ malice[n] \notin {"MALICIOUS", "UNVERIFIABLE"}
      BY <1>2, <2>1, <2>2, VerdictFacts
    <3>2. ComputeScore(s) < UmbralWarn
      BY <1>2, <2>1, <2>2, VerdictFacts
    <3>3. malice[n] # "KNOWN_HALLUCINATION"
      BY <2>2, <3>2, ListedScore, ScoreRange, ConfigValidated
    <3>4. fetch[n] = "FOUND"
      BY <1>4, <2>4, <3>1 DEF Settled
    <3>5. config.layer3 => malice[n] = "CLEAN"
      BY <1>1, <3>1, <3>3, <3>4 DEF MaliceState
    <3> QED  BY <2>4, <3>1, <3>5 DEF Promise!MayAllow, Promise!Malicious, Promise!Listed
  <2>6. v = "block" => Promise!MayBlock(n)
    <3> SUFFICES ASSUME v = "block" PROVE Promise!MayBlock(n)
      OBVIOUS
    <3>1. \E c \in HardCodes : Has(s, c)
      BY <1>2, <2>1, <2>2, VerdictFacts
    <3> QED  BY <2>2, <2>4, <3>1
             DEF HardCodes, Promise!MayBlock, Promise!Malicious, Promise!Listed
  <2> QED  BY <2>3, <2>5, <2>6 DEF Sound, v
<1> QED  BY <1>3, <1>4

(* The signals resolve_layer4 adds are those of layer 4 and no others.     *)
LEMMA AddedSignals ==
  ASSUME TypeOK, NEW n \in DOMAIN assessed
  PROVE  /\ IsSignals(Layer4Signals(n))
         /\ \A c : Has(Layer4Signals(n), c) => c \in LlmCodes \union {"LLM_UNAVAILABLE"}
<1>1. assessed[n] = NoAssessment \/ assessed[n] \in Assessment
  BY ParametersOK DEF TypeOK
<1>2. /\ SignalsOf({"LLM_UNAVAILABLE"}) \subseteq SignalsOf(Codes)
      /\ SignalsOf({"LLM_HALLUCINATION_SURFACE"}) \subseteq SignalsOf(Codes)
  BY DEF SignalsOf, Codes, HeuristicCodes, LlmCodes
<1>3. CASE assessed[n] = NoAssessment
  <2>1. Layer4Signals(n) = Signal("LLM_UNAVAILABLE", 0)
    BY <1>3 DEF Layer4Signals, Abstention
  <2> QED  BY <1>2, <2>1, OneSignal DEF IsSignals
<1>4. CASE assessed[n] # NoAssessment /\ assessed[n] \in Assessment
  <2>1. Layer4Signals(n) = Layer4(assessed[n])
    BY <1>4 DEF Layer4Signals
  <2> QED  BY <1>2, <1>4, <2>1, Layer4Signal DEF IsSignals, LlmCodes
<1> QED  BY <1>1, <1>3, <1>4

(* The second pass keeps a verdict or raises an allow to a warn.           *)
LEMMA SecondVerdicts ==
  ASSUME TypeOK, VerdictPhase, phase = "layer4", gray \subseteq DOMAIN assessed, NEW n \in Names
  PROVE  \/ SecondVerdict(n) = verdict[n]
         \/ verdict[n] = "allow" /\ SecondVerdict(n) = "warn"
<1>1. CASE n \notin gray
  BY <1>1 DEF SecondVerdict
<1>2. CASE n \in gray
  <2> DEFINE s == Signals(n)
             t == Layer4Signals(n)
             d == config.degraded
  <2>1. n \in Wanted /\ n \in DOMAIN assessed /\ truth[n] \in Profile /\ config \in Config
        /\ malice[n] \in MaliceState \union {"none"}
    BY <1>2, ParametersOK DEF TypeOK
  <2>2. verdict[n] = FirstVerdict(n) /\ GrayBand(truth[n], s, verdict[n])
    BY <1>2, <2>1 DEF VerdictPhase
  <2>3. verdict[n] \in {"allow", "warn"} /\ \A c \in HardCodes : ~Has(s, c)
    BY <2>2 DEF GrayBand
  <2>4. verdict[n] = DependencyVerdict(s, d)
    BY <2>2, <2>3 DEF FirstVerdict
  <2>5. d \in DegradedStatus
    BY <2>1 DEF Config
  <2>6. IsSignals(s) /\ \A c \in LlmCodes : ~Has(s, c)
    BY <2>1, CollectedSignals DEF Signals
  <2>7. IsSignals(t) /\ \A c : Has(t, c) => c \in LlmCodes \union {"LLM_UNAVAILABLE"}
    BY <2>1, AddedSignals
  <2>8. SecondVerdict(n) = DependencyVerdict(s \union t, d)
    BY <1>2 DEF SecondVerdict
  <2> HIDE DEF s, t, d
  <2> QED  BY <2>3, <2>4, <2>5, <2>6, <2>7, <2>8, SecondPass
<1> QED  BY <1>1, <1>2


-----------------------------------------------------------------------------
(* Each step preserves the invariant.                                      *)

(* Every step is one of the actions or a stutter.                          *)
LEMMA Steps ==
  ASSUME [Next]_vars
  PROVE  \/ UNCHANGED vars
         \/ Parse \/ SeeError \/ Abort \/ FetchDone \/ ResolveChunk \/ ThreatIntelDone
         \/ Evaluate \/ AssembleReport
         \/ \E n \in Names : StartFetch(n) \/ FetchAnswered(n) \/ FetchGivesUp(n) \/ FetchFails(n)
                             \/ FetchRaises(n) \/ ResolveFromCache(n) \/ AskLlm(n)
                             \/ AbstainOverBudget(n)
  BY DEF Next, Lookup, ResolveLayer4

(* The report that a scan ends with has a verdict for every wanted name.   *)
LEMMA ReportTyped ==
  ASSUME NEW v, \A n \in Wanted : v[n] \in Verdict
  PROVE  LET r == Report(v)
         IN  /\ r.verdicts \in [Wanted -> Verdict] /\ r = Report(r.verdicts)
             /\ r.verdicts = [n \in Wanted |-> v[n]] /\ r # ErrorReport
<1> DEFINE w == [n \in Wanted |-> v[n]]
<1>1. Report(v) = [error |-> FALSE, verdicts |-> w, exit |-> ExitCode({v[n] : n \in Wanted})]
  BY DEF Report
<1>2. {w[n] : n \in Wanted} = {v[n] : n \in Wanted} /\ [n \in Wanted |-> w[n]] = w
  OBVIOUS
<1>3. w \in [Wanted -> Verdict]
  OBVIOUS
<1>4. Report(w) = [error |-> FALSE, verdicts |-> w, exit |-> ExitCode({v[n] : n \in Wanted})]
  BY <1>2 DEF Report
<1>5. Report(v) # ErrorReport
  BY <1>1 DEF ErrorReport
<1> QED  BY <1>1, <1>3, <1>4, <1>5

(* The types are preserved: a verdict is one of the four, a lookup fails at *)
(* most 1 + reintentos_red times, the report has a verdict for each name.  *)
LEMMA TypeStep ==
  ASSUME EngineInv, [Next]_vars
  PROVE  TypeOK'
<1> USE DEF EngineInv
<1>0. Wanted' = Wanted /\ UNCHANGED <<manifest, config, truth>> /\ Wanted \subseteq Names
  BY InputFixed, WantedNames DEF TypeOK, input
<1>r. ASSUME report' = report PROVE
        (report \in {NoReport, ErrorReport}
          \/ (report.verdicts \in [Wanted -> Verdict] /\ report = Report(report.verdicts)))'
  BY <1>0, <1>r DEF TypeOK, Report, ErrorReport
<1>1. CASE UNCHANGED vars
  BY <1>0, <1>1, <1>r DEF TypeOK, vars
<1>2. CASE Parse
  <2>1. CASE UNCHANGED report
    BY <1>0, <1>2, <1>r, <2>1 DEF TypeOK, Parse, Finish, Phases
  <2>2. CASE Finish(ErrorReport)
    BY <1>0, <1>2, <2>2 DEF TypeOK, Parse, Finish, Phases
  <2>3. CASE manifest = <<>> /\ Finish(Report(verdict)) /\ UNCHANGED fetch
    <3>1. Wanted = {}
      BY <2>3 DEF Wanted
    <3>2. Report(verdict).verdicts \in [Wanted -> Verdict]
          /\ Report(verdict) = Report(Report(verdict).verdicts)
      BY <3>1, ReportTyped
    <3>3. (report.verdicts \in [Wanted -> Verdict] /\ report = Report(report.verdicts))'
      BY <1>0, <2>3, <3>2 DEF Finish, Report
    <3> QED  BY <1>0, <1>2, <2>3, <3>3 DEF TypeOK, Parse, Finish, Phases
  <2> QED  BY <1>2, <2>1, <2>2, <2>3 DEF Parse
<1>3. CASE SeeError \/ FetchDone \/ ThreatIntelDone
  BY <1>0, <1>3, <1>r DEF TypeOK, SeeError, FetchDone, ThreatIntelDone, Phases
<1>4. CASE Abort
  BY <1>0, <1>4 DEF TypeOK, Abort, Finish, Phases
<1>5. CASE ResolveChunk
  <2> PICK answers \in QueryBatch(Chunk(Unresolved)) :
             malice' = [n \in Names |-> IF n \in DOMAIN answers THEN answers[n] ELSE malice[n]]
    BY <1>5 DEF ResolveChunk
  <2>1. \A n \in DOMAIN answers : answers[n] \in MaliceState
    BY BatchTrue
  <2>2. malice' \in [Names -> MaliceState \union {"none"}]
    BY <2>1 DEF TypeOK
  <2> QED  BY <1>0, <1>5, <1>r, <2>2 DEF TypeOK, ResolveChunk
<1>6. CASE Evaluate
  <2>1. \A n \in Wanted : FirstVerdict(n) \in Verdict
    BY <1>6, FirstSound DEF Evaluate, FetchPhase, MalicePhase, Found
  <2>2. verdict' \in [Names -> Verdict \union {"none"}]
    BY <1>6, <2>1 DEF Evaluate
  <2>3. gray = {} /\ gray' \subseteq Wanted
    BY <1>6 DEF Evaluate, VerdictPhase
  <2> QED  BY <1>0, <1>6, <1>r, <2>2, <2>3 DEF TypeOK, Evaluate, Phases
<1>7. CASE AssembleReport
  <2>1. \A n \in Wanted : FirstVerdict(n) \in Verdict
    BY <1>7, FirstSound DEF AssembleReport, FetchPhase, MalicePhase, Found
  <2>2. \A n \in Names : /\ SecondVerdict(n) \in Verdict \union {"none"}
                         /\ n \in Wanted => SecondVerdict(n) \in Verdict
    BY <1>7, <2>1, SecondVerdicts DEF AssembleReport, VerdictPhase, Verdict
  <2>3. /\ verdict' \in [Names -> Verdict \union {"none"}]
        /\ \A n \in Wanted : verdict'[n] \in Verdict
    BY <1>0, <1>7, <2>2 DEF AssembleReport
  <2>4. Report(verdict').verdicts \in [Wanted -> Verdict]
        /\ Report(verdict') = Report(Report(verdict').verdicts)
    BY <2>3, ReportTyped
  <2>5. (report.verdicts \in [Wanted -> Verdict] /\ report = Report(report.verdicts))'
    BY <1>0, <1>7, <2>4 DEF AssembleReport, Finish, Report
  <2> QED  BY <1>0, <1>7, <2>3, <2>5 DEF TypeOK, AssembleReport, Finish, Phases
<1>8. ASSUME NEW n \in Names,
             StartFetch(n) \/ FetchAnswered(n) \/ FetchGivesUp(n) \/ FetchRaises(n)
      PROVE  TypeOK'
  BY <1>0, <1>8, <1>r
  DEF TypeOK, StartFetch, FetchAnswered, FetchGivesUp, FetchRaises, SetFetch, Settled
<1>9. ASSUME NEW n \in Names, FetchFails(n) PROVE TypeOK'
  <2>1. attempts[n] \in 0 .. ReintentosRed
    BY <1>9, ParametersOK DEF TypeOK, FetchFails, FetchPhase
  <2> QED  BY <1>0, <1>9, <1>r, <2>1, ParametersOK DEF TypeOK, FetchFails, SetFetch, Settled
<1>10. ASSUME NEW n \in Names, ResolveFromCache(n) \/ AskLlm(n) \/ AbstainOverBudget(n)
       PROVE  TypeOK'
  BY <1>0, <1>10, <1>r
  DEF TypeOK, ResolveFromCache, AskLlm, AbstainOverBudget, NextCandidate, Resolved
<1> QED  BY Steps, <1>1, <1>2, <1>3, <1>4, <1>5, <1>6, <1>7, <1>8, <1>9, <1>10


(* A lookup or a chunk that ends is recorded as what it found.             *)
LEMMA AnswersStep ==
  ASSUME EngineInv, [Next]_vars
  PROVE  AnswersTrue'
<1> USE DEF EngineInv
<1>0. Wanted \subseteq Names /\ UNCHANGED <<manifest, config, truth>>
  BY InputFixed, WantedNames DEF TypeOK, input
<1>1. CASE UNCHANGED <<fetch, malice>>
  BY <1>0, <1>1 DEF AnswersTrue
<1>2. CASE Parse
  BY <1>0, <1>2 DEF TypeOK, AnswersTrue, Parse
<1>3. CASE ResolveChunk
  <2> PICK answers \in QueryBatch(Chunk(Unresolved)) :
             malice' = [n \in Names |-> IF n \in DOMAIN answers THEN answers[n] ELSE malice[n]]
    BY <1>3 DEF ResolveChunk
  <2>1. \A n \in DOMAIN answers :
          /\ answers[n] \in MaliceState
          /\ answers[n] = "MALICIOUS" => truth[n].malicious
          /\ answers[n] = "KNOWN_HALLUCINATION" => config.watchlist /\ truth[n].listed
          /\ answers[n] = "CLEAN" => ~truth[n].malicious /\ ~(config.watchlist /\ truth[n].listed)
    BY BatchTrue
  <2>2. fetch' = fetch /\ config.layer3
    BY <1>3 DEF ResolveChunk, MalicePhase
  <2> QED  BY <1>0, <2>1, <2>2 DEF AnswersTrue
<1>4. ASSUME NEW n \in Names, StartFetch(n) \/ FetchAnswered(n) \/ FetchGivesUp(n)
                              \/ FetchFails(n) \/ FetchRaises(n)
      PROVE  AnswersTrue'
  BY <1>0, <1>4 DEF TypeOK, AnswersTrue, StartFetch, FetchAnswered, FetchGivesUp, FetchFails,
                    FetchRaises, SetFetch
<1> QED
  BY Steps, <1>1, <1>2, <1>3, <1>4
  DEF vars, SeeError, Abort, FetchDone, ThreatIntelDone, Evaluate, AssembleReport,
      ResolveFromCache, AskLlm, AbstainOverBudget

(* Lookups run only while fetch_many does, and every one has settled when  *)
(* it returns.                                                             *)
LEMMA FetchStep ==
  ASSUME EngineInv, [Next]_vars
  PROVE  FetchPhase'
<1> USE DEF EngineInv
<1>0. Wanted' = Wanted /\ Wanted \subseteq Names
  BY InputFixed, WantedNames DEF TypeOK
<1>1. CASE UNCHANGED <<phase, fetch, attempts>>
  BY <1>0, <1>1 DEF FetchPhase
<1>2. CASE Parse
  BY <1>0, <1>2 DEF TypeOK, FetchPhase, Parse, Finish
<1>3. CASE SeeError \/ ThreatIntelDone \/ Evaluate \/ AssembleReport
  BY <1>0, <1>3 DEF FetchPhase, SeeError, ThreatIntelDone, Evaluate, AssembleReport, Finish
<1>4. CASE FetchDone
  BY <1>0, <1>4 DEF FetchPhase, FetchDone, Settled
<1>5. CASE Abort
  BY <1>0, <1>5 DEF FetchPhase, Abort, Finish, InFlight
<1>6. ASSUME NEW n \in Names, StartFetch(n) PROVE FetchPhase'
  BY <1>0, <1>6 DEF TypeOK, FetchPhase, StartFetch, SetFetch
<1>7. ASSUME NEW n \in Names, FetchAnswered(n) \/ FetchGivesUp(n) \/ FetchRaises(n)
      PROVE  FetchPhase'
  BY <1>0, <1>7
  DEF TypeOK, FetchPhase, FetchAnswered, FetchGivesUp, FetchRaises, SetFetch, Settled
<1>8. ASSUME NEW n \in Names, FetchFails(n) PROVE FetchPhase'
  BY <1>0, <1>8, ParametersOK DEF TypeOK, FetchPhase, FetchFails, SetFetch
<1> QED
  BY Steps, <1>1, <1>2, <1>3, <1>4, <1>5, <1>6, <1>7, <1>8
  DEF vars, ResolveChunk, ResolveFromCache, AskLlm, AbstainOverBudget

(* The package evaluation starts when every found name has its answer.     *)
LEMMA MaliceStep ==
  ASSUME EngineInv, [Next]_vars
  PROVE  MalicePhase'
<1> USE DEF EngineInv
<1>0. Wanted' = Wanted /\ Wanted \subseteq Names /\ config' = config
  BY InputFixed, WantedNames DEF TypeOK, input
<1>1. CASE UNCHANGED <<phase, fetch, malice>>
  BY <1>0, <1>1 DEF MalicePhase, Found
<1>2. CASE Parse \/ SeeError \/ Abort \/ FetchDone \/ Evaluate \/ AssembleReport
  BY <1>0, <1>2
  DEF MalicePhase, Found, Parse, SeeError, Abort, FetchDone, Evaluate, AssembleReport, Finish
<1>3. CASE ThreatIntelDone
  BY <1>0, <1>3 DEF MalicePhase, Found, ThreatIntelDone, Unresolved
<1>4. CASE ResolveChunk
  BY <1>0, <1>4 DEF MalicePhase, ResolveChunk
<1>5. ASSUME NEW n \in Names, StartFetch(n) \/ FetchAnswered(n) \/ FetchGivesUp(n)
                              \/ FetchFails(n) \/ FetchRaises(n)
      PROVE  MalicePhase'
  BY <1>0, <1>5 DEF FetchPhase, MalicePhase, StartFetch, FetchAnswered, FetchGivesUp, FetchFails,
                    FetchRaises
<1> QED
  BY Steps, <1>1, <1>2, <1>3, <1>4, <1>5 DEF vars, ResolveFromCache, AskLlm, AbstainOverBudget

(* Until the second pass a name has the verdict of layers 0 to 3, and what *)
(* waits for the LLM is in the gray band.                                  *)
LEMMA VerdictStep ==
  ASSUME EngineInv, [Next]_vars
  PROVE  VerdictPhase'
<1> USE DEF EngineInv
<1>0. Wanted' = Wanted /\ Wanted \subseteq Names /\ UNCHANGED <<manifest, config, truth>>
  BY InputFixed, WantedNames DEF TypeOK, input
<1>1. CASE UNCHANGED <<phase, fetch, malice, verdict, gray, report>>
  BY <1>0, <1>1 DEF VerdictPhase, FirstVerdict, Signals
<1>2. CASE Parse \/ SeeError \/ Abort \/ FetchDone \/ ThreatIntelDone \/ AssembleReport
  BY <1>0, <1>2
  DEF VerdictPhase, Parse, SeeError, Abort, FetchDone, ThreatIntelDone, AssembleReport, Finish
<1>3. CASE ResolveChunk
  BY <1>0, <1>3 DEF VerdictPhase, ResolveChunk
<1>4. CASE Evaluate
  <2>1. \A n \in Names : FirstVerdict(n)' = FirstVerdict(n) /\ Signals(n)' = Signals(n)
    BY <1>0, <1>4 DEF Evaluate, FirstVerdict, Signals
  <2> QED  BY <1>0, <1>4, <2>1 DEF VerdictPhase, Evaluate
<1>5. ASSUME NEW n \in Names, StartFetch(n) \/ FetchAnswered(n) \/ FetchGivesUp(n)
                              \/ FetchFails(n) \/ FetchRaises(n)
      PROVE  VerdictPhase'
  BY <1>0, <1>5 DEF FetchPhase, VerdictPhase, StartFetch, FetchAnswered, FetchGivesUp, FetchFails,
                    FetchRaises
<1> QED
  BY Steps, <1>1, <1>2, <1>3, <1>4, <1>5 DEF vars, ResolveFromCache, AskLlm, AbstainOverBudget

(* The calls to the LLM go to the first candidates, within the budget.     *)
LEMMA BudgetStep ==
  ASSUME EngineInv, [Next]_vars
  PROVE  BudgetInv'
<1> USE DEF EngineInv
<1>0. gray \subseteq Nat /\ DOMAIN assessed \subseteq gray /\ asked \subseteq DOMAIN assessed
  BY WantedNames, ParametersOK DEF TypeOK
<1>1. CASE UNCHANGED <<gray, assessed, asked>>
  BY <1>1 DEF BudgetInv, BudgetCutsTheTail
<1>2. CASE Evaluate
  <2>1. DOMAIN assessed = {} /\ UNCHANGED <<assessed, asked>>
    BY <1>0, <1>2 DEF Evaluate, VerdictPhase
  <2> QED  BY <2>1 DEF BudgetInv, BudgetCutsTheTail
<1>3. ASSUME NEW n \in Names, NEW answer,
             NextCandidate(n), Resolved(n, answer), gray' = gray
      PROVE  /\ DOMAIN assessed' = DOMAIN assessed \union {n}
             /\ assessed'[n] = answer
             /\ \A m \in DOMAIN assessed : assessed'[m] = assessed[m] /\ m < n
             /\ n \in gray /\ n \notin asked
             /\ \A i \in DOMAIN assessed', m \in gray' \ DOMAIN assessed' : i < m
  <2>1. n \in gray \ DOMAIN assessed /\ \A m \in gray \ DOMAIN assessed : n <= m
    BY <1>3 DEF NextCandidate
  <2>2. DOMAIN assessed' = DOMAIN assessed \union {n} /\ assessed'[n] = answer
        /\ \A m \in DOMAIN assessed : assessed'[m] = assessed[m]
    BY <1>3, <2>1 DEF Resolved
  <2>3. \A m \in DOMAIN assessed : m < n
    BY <2>1 DEF BudgetInv
  <2>4. \A i \in DOMAIN assessed', m \in gray' \ DOMAIN assessed' : i < m
    BY <1>0, <1>3, <2>1, <2>2 DEF BudgetInv
  <2> QED  BY <1>0, <2>1, <2>2, <2>3, <2>4
<1>4. ASSUME NEW n \in Names, ResolveFromCache(n) PROVE BudgetInv'
  <2>1. /\ NextCandidate(n) /\ Resolved(n, cache[n]) /\ cache[n] # NoAssessment
        /\ UNCHANGED <<gray, asked>>
    BY <1>4 DEF ResolveFromCache
  <2>2. /\ DOMAIN assessed' = DOMAIN assessed \union {n} /\ assessed'[n] # NoAssessment
        /\ \A m \in DOMAIN assessed : assessed'[m] = assessed[m]
        /\ \A i \in DOMAIN assessed', m \in gray' \ DOMAIN assessed' : i < m
    BY <1>3, <2>1
  <2>3. \A m \in DOMAIN assessed' \ asked' : assessed'[m] = NoAssessment =>
          m \in DOMAIN assessed \ asked /\ assessed[m] = NoAssessment
    BY <2>1, <2>2
  <2> QED  BY <2>1, <2>2, <2>3 DEF BudgetInv, BudgetCutsTheTail
<1>5. ASSUME NEW n \in Names, AbstainOverBudget(n) PROVE BudgetInv'
  <2>1. Cardinality(asked) \in Nat /\ Cardinality(asked) = LlmMaxCalls /\ UNCHANGED asked
    BY <1>5, FS_CardinalityType, ParametersOK DEF AbstainOverBudget, BudgetInv, BudgetCutsTheTail
  <2> QED  BY <1>0, <1>3, <1>5, <2>1 DEF BudgetInv, BudgetCutsTheTail, AbstainOverBudget
<1>6. ASSUME NEW n \in Names, AskLlm(n) PROVE BudgetInv'
  <2> PICK answer : Resolved(n, answer)
    BY <1>6 DEF AskLlm
  <2>1. NextCandidate(n) /\ asked' = asked \union {n} /\ gray' = gray
        /\ Cardinality(asked) < LlmMaxCalls
    BY <1>6 DEF AskLlm
  <2>2. IsFiniteSet(asked') /\ Cardinality(asked') = Cardinality(asked) + 1
        /\ Cardinality(asked) \in Nat
    BY <1>3, <2>1, FS_AddElement, FS_CardinalityType DEF BudgetInv
  <2>3. Cardinality(asked') <= LlmMaxCalls
    BY <2>1, <2>2, ParametersOK
  <2>4. \A m \in DOMAIN assessed \ asked : assessed[m] # NoAssessment
    BY <2>1, <2>2, ParametersOK DEF BudgetInv, BudgetCutsTheTail
  <2>5. \A m \in DOMAIN assessed' \ asked' : assessed'[m] # NoAssessment
    BY <1>3, <2>1, <2>4
  <2> QED  BY <1>3, <2>1, <2>2, <2>3, <2>5 DEF BudgetInv, BudgetCutsTheTail
<1> QED
  BY Steps, <1>1, <1>2, <1>4, <1>5, <1>6
  DEF vars, Parse, SeeError, Abort, FetchDone, ResolveChunk, ThreatIntelDone, AssembleReport,
      StartFetch, FetchAnswered, FetchGivesUp, FetchFails, FetchRaises

(* The verdicts AssembleReport reports are sound.                          *)
LEMMA AssembledSound ==
  ASSUME EngineInv, AssembleReport
  PROVE  /\ \A n \in Wanted : verdict'[n] \in Verdict /\ Sound(n, verdict'[n])
         /\ report' = Report(verdict')
<1> USE DEF EngineInv
<1>1. \A n \in Wanted : FirstVerdict(n) \in Verdict /\ Sound(n, FirstVerdict(n))
  BY FirstSound DEF AssembleReport, FetchPhase, MalicePhase, Found
<1>2. Wanted \subseteq Names
  BY WantedNames DEF TypeOK
<1>3. \A n \in Wanted : verdict[n] = FirstVerdict(n) /\ verdict'[n] = SecondVerdict(n)
  BY <1>2 DEF AssembleReport, VerdictPhase
<1>4. \A n \in Wanted : \/ SecondVerdict(n) = verdict[n]
                        \/ verdict[n] = "allow" /\ SecondVerdict(n) = "warn"
  BY <1>2, SecondVerdicts DEF AssembleReport
<1>5. report' = Report(verdict')
  BY DEF AssembleReport, Finish
<1> QED  BY <1>1, <1>3, <1>4, <1>5 DEF Sound, Verdict

(* What a report says of a package is justified by what is true of it.     *)
LEMMA ReportStep ==
  ASSUME EngineInv, [Next]_vars
  PROVE  ReportSound'
<1> USE DEF EngineInv
<1>0. Wanted' = Wanted /\ UNCHANGED <<manifest, config, truth>>
  BY InputFixed DEF input
<1>1. CASE UNCHANGED report
  BY <1>0, <1>1 DEF ReportSound, Sound, Promise!MayAllow, Promise!MayBlock, Promise!Malicious,
                    Promise!Listed
<1>2. CASE report' = ErrorReport
  BY <1>2 DEF ReportSound, ErrorReport
<1>3. CASE manifest = <<>> /\ report' = Report(verdict)
  BY <1>3 DEF ReportSound, Report, Wanted
<1>4. CASE AssembleReport
  <2>1. report'.verdicts = [n \in Wanted |-> verdict'[n]]
        /\ \A n \in Wanted : Sound(n, verdict'[n])
    BY <1>4, AssembledSound, ReportTyped
  <2>2. \A n \in DOMAIN report'.verdicts : Sound(n, report'.verdicts[n])
    BY <2>1
  <2> QED  BY <1>0, <2>2 DEF ReportSound, Sound, Promise!MayAllow, Promise!MayBlock,
                             Promise!Malicious, Promise!Listed
<1> QED
  BY Steps, <1>1, <1>2, <1>3, <1>4
  DEF vars, Parse, SeeError, Abort, FetchDone, ResolveChunk, ThreatIntelDone, Evaluate, StartFetch,
      FetchAnswered, FetchGivesUp, FetchFails, FetchRaises, ResolveFromCache, AskLlm,
      AbstainOverBudget, Finish


-----------------------------------------------------------------------------
(* The theorems.                                                           *)

(* A scan starts with nothing looked up, held, asked or reported.          *)
LEMMA InvInit == Init => EngineInv
<1> SUFFICES ASSUME Init PROVE EngineInv
  OBVIOUS
<1>1. TypeOK
  <2>1. cache \in [Names -> Assessments \union {NoAssessment}] /\ DOMAIN assessed = {}
    BY SentinelsOK DEF Init
  <2> QED  BY <2>1, ParametersOK DEF Init, TypeOK, Phases
<1>2. AnswersTrue /\ FetchPhase /\ MalicePhase /\ VerdictPhase /\ ReportSound
  BY ParametersOK, WantedNames DEF Init, AnswersTrue, FetchPhase, MalicePhase, VerdictPhase, ReportSound
<1>3. BudgetInv
  BY FS_EmptySet, ParametersOK DEF Init, BudgetInv, BudgetCutsTheTail
<1> QED  BY <1>1, <1>2, <1>3 DEF EngineInv

(* EngineInv holds in every reachable state.                               *)
THEOREM EngineInvariant == Spec => []EngineInv
<1>1. EngineInv /\ [Next]_vars => EngineInv'
  BY TypeStep, AnswersStep, FetchStep, MaliceStep, VerdictStep, BudgetStep, ReportStep DEF EngineInv
<1> QED  BY InvInit, <1>1, PTL DEF Spec

(* Every value keeps its type; no lookup fails more often than its retries *)
(* allow, and a report has one verdict for each package of the manifest.   *)
THEOREM TypeCorrect == Spec => []TypeOK
<1>1. EngineInv => TypeOK
  BY DEF EngineInv
<1> QED  BY EngineInvariant, <1>1, PTL

(* Fail-closed: whatever fails, an allowed package exists and no source    *)
(* that was to be asked knows it as malicious or as a hallucination.       *)
THEOREM AllowIsVerified == Spec => []AllowedIsVerified
<1>1. EngineInv => AllowedIsVerified
  BY DEF EngineInv, ReportSound, Sound, AllowedIsVerified, Promise!MayAllow, Promise!Malicious,
         Promise!Listed
<1> QED  BY EngineInvariant, <1>1, PTL

(* Anti-block: no configuration that passes _validate_anti_block lets the  *)
(* heuristics and the LLM, together, block a package.                      *)
THEOREM BlockHasEvidence == Spec => []BlockedOnEvidence
<1>1. EngineInv => BlockedOnEvidence
  BY DEF EngineInv, ReportSound, Sound, BlockedOnEvidence, Promise!MayBlock, Promise!Malicious,
         Promise!Listed
<1> QED  BY EngineInvariant, <1>1, PTL

(* The budget of LLM calls holds, and it is the last candidates it cuts.   *)
THEOREM BudgetHolds == Spec => []BudgetCutsTheTail
<1>1. EngineInv => BudgetCutsTheTail
  BY DEF EngineInv, BudgetInv
<1> QED  BY EngineInvariant, <1>1, PTL

(* No worker of the pool is left behind a report.                          *)
THEOREM PoolDrained == Spec => []NoFetchBehindTheReport
<1>1. EngineInv => NoFetchBehindTheReport
  BY DEF EngineInv, FetchPhase, VerdictPhase, NoFetchBehindTheReport, InFlight
<1> QED  BY EngineInvariant, <1>1, PTL

(* Layer 4 takes no verdict back and raises an allow to warn at most.      *)
THEOREM Layer4IsSoft == Spec => Layer4OnlyWarns
<1>1. EngineInv /\ [Next]_vars =>
        [\A n \in Names : verdict[n] # "none" =>
           \/ verdict'[n] = verdict[n]
           \/ verdict[n] = "allow" /\ verdict'[n] = "warn"]_vars
  <2> SUFFICES ASSUME EngineInv, [Next]_vars, NEW n \in Names, verdict[n] # "none"
               PROVE  \/ verdict'[n] = verdict[n]
                      \/ verdict[n] = "allow" /\ verdict'[n] = "warn"
    OBVIOUS
  <2>1. CASE verdict' = verdict
    BY <2>1
  <2>2. CASE Evaluate
    BY <2>2 DEF EngineInv, VerdictPhase, Evaluate
  <2>3. CASE AssembleReport
    BY <2>3, SecondVerdicts DEF EngineInv, AssembleReport
  <2> QED
    BY Steps, <2>1, <2>2, <2>3
    DEF vars, Parse, SeeError, Abort, FetchDone, ResolveChunk, ThreatIntelDone, StartFetch,
        FetchAnswered, FetchGivesUp, FetchFails, FetchRaises, ResolveFromCache, AskLlm,
        AbstainOverBudget
<1> QED  BY EngineInvariant, <1>1, PTL DEF Spec, Layer4OnlyWarns

(* A report keeps the promise if its verdicts do: the exit code follows.   *)
LEMMA ReportJustified ==
  ASSUME NEW v, \A n \in Wanted : v[n] \in Verdict /\ Sound(n, v[n])
  PROVE  LET r == Report(v)
         IN  /\ r \in Promise!Reports
             /\ \A n \in Wanted : Sound(n, r.verdicts[n])
             /\ r.exit = 0 <=> \A n \in Wanted : r.verdicts[n] = "allow"
             /\ r.exit = 2 <=> \E n \in Wanted : r.verdicts[n] = "block"
<1> DEFINE V == {v[n] : n \in Wanted}
           w == [n \in Wanted |-> v[n]]
<1>1. Report(v) = [error |-> FALSE, verdicts |-> w, exit |-> ExitCode(V)]
  BY DEF Report
<1>2. V \in SUBSET Verdict /\ w \in [Wanted -> {"allow", "warn", "block", "unverifiable"}]
  BY DEF Verdict
<1>3. /\ ExitCode(V) \in 0 .. 3
      /\ ExitCode(V) = 0 <=> \A x \in V : x = "allow"
      /\ ExitCode(V) = 2 <=> "block" \in V
  BY <1>2, ExitCodes
<1>4. /\ (\A x \in V : x = "allow") <=> \A n \in Wanted : w[n] = "allow"
      /\ "block" \in V <=> \E n \in Wanted : w[n] = "block"
      /\ \A n \in Wanted : Sound(n, w[n])
  OBVIOUS
<1> HIDE DEF V, w
<1> QED  BY <1>1, <1>2, <1>3, <1>4 DEF Promise!Reports

(* The engine implements ScanPromise: one report, whose verdicts what is   *)
(* true of the packages justifies and whose exit code follows from them.   *)
THEOREM EngineKeepsPromise == Spec => PromiseSpec
<1>1. Init => Promise!Init
  BY DEF Init, Promise!Init
<1>2. EngineInv /\ [Next]_vars => [Promise!Next]_<<Wanted, truth, config, report>>
  <2> SUFFICES ASSUME EngineInv, [Next]_vars
               PROVE  Promise!Next \/ UNCHANGED <<Wanted, truth, config, report>>
    BY DEF Promise!Next
  <2>0. UNCHANGED <<Wanted, truth, config>>
    BY InputFixed DEF input
  <2>1. CASE UNCHANGED report
    BY <2>0, <2>1
  <2>2. CASE (Parse \/ Abort) /\ report' = ErrorReport
    <3>1. report = NoReport
      BY <2>2 DEF EngineInv, VerdictPhase, Parse, Abort
    <3> QED  BY <2>0, <2>2, <3>1 DEF ErrorReport, Promise!Next, Promise!Fail
  <2>3. ASSUME NEW v, \A n \in Wanted : v[n] \in Verdict /\ Sound(n, v[n]),
               report = NoReport, report' = Report(v)
        PROVE  Promise!Answer
    <3>1. /\ report' \in Promise!Reports
          /\ \A n \in Wanted : Sound(n, report'.verdicts[n])
          /\ report'.exit = 0 <=> \A n \in Wanted : report'.verdicts[n] = "allow"
          /\ report'.exit = 2 <=> \E n \in Wanted : report'.verdicts[n] = "block"
      BY <2>3, ReportJustified
    <3>2. Promise!Justified(report')
      BY <3>1 DEF Promise!Justified, Sound
    <3> QED  BY <2>0, <2>3, <3>1, <3>2 DEF Promise!Answer
  <2>4. CASE Parse /\ manifest = <<>> /\ report' = Report(verdict)
    <3>1. Wanted = {} /\ report = NoReport
      BY <2>4 DEF EngineInv, VerdictPhase, Parse, Wanted
    <3> QED  BY <2>3, <2>4, <3>1 DEF Promise!Next
  <2>5. CASE AssembleReport
    <3>1. report = NoReport
      BY <2>5 DEF EngineInv, VerdictPhase, AssembleReport
    <3> QED  BY <2>3, <2>5, <3>1, AssembledSound DEF Promise!Next
  <2> QED
    BY Steps, <2>1, <2>2, <2>4, <2>5
    DEF vars, Parse, SeeError, Abort, FetchDone, ResolveChunk, ThreatIntelDone, Evaluate,
        StartFetch, FetchAnswered, FetchGivesUp, FetchFails, FetchRaises, ResolveFromCache, AskLlm,
        AbstainOverBudget, Finish
<1> QED  BY EngineInvariant, <1>1, <1>2, PTL DEF Spec, PromiseSpec, Promise!Spec

-----------------------------------------------------------------------------
(* The order of the manifest.                                              *)
LEMMA Positions ==
  ASSUME NEW n \in Wanted, manifest \in Manifests
  PROVE  Position(n) \in Nat /\ Position(n) \in DOMAIN manifest /\ Normal[manifest[Position(n)]] = n
<1> DEFINE U == {i \in DOMAIN manifest : Normal[manifest[i]] = n}
<1>1. manifest \in Seq(DOMAIN Normal)
  BY ParametersOK
<1>2. U \in SUBSET Nat /\ U # {}
  BY <1>1 DEF Wanted
<1>3. PICK i \in U : \A j \in U : i <= j
  <2> HIDE DEF U
  <2> QED  BY <1>2, LeastNumber
<1>4. \E k \in DOMAIN manifest :
        /\ Normal[manifest[k]] = n
        /\ \A j \in DOMAIN manifest : Normal[manifest[j]] = n => k <= j
  BY <1>3
<1>5. /\ Position(n) \in DOMAIN manifest
      /\ Normal[manifest[Position(n)]] = n
  BY <1>4 DEF Position
<1> QED  BY <1>1, <1>5

LEMMA WantedFinite ==
  ASSUME manifest \in Manifests
  PROVE  IsFiniteSet(Wanted)
<1> DEFINE D == DOMAIN manifest
           F == [i \in D |-> Normal[manifest[i]]]
<1>1. manifest \in Seq(DOMAIN Normal)
  BY ParametersOK
<1>2. D = 1 .. Len(manifest) /\ Len(manifest) \in Nat
  BY <1>1
<1>3. IsFiniteSet(D)
  <2> HIDE DEF D
  <2> QED  BY <1>2, FS_Interval
<1>4. F \in Surjection(D, Wanted)
  BY DEF Wanted, Surjection
<1> QED  BY <1>3, <1>4, FS_Surjection

(* The names before some place, as many as one likes: so there is a next   *)
(* chunk, and it is not empty.                                             *)
LEMMA ChunkTaken ==
  ASSUME manifest \in Manifests, NEW pending \in SUBSET Wanted, pending # {}
  PROVE  Chunk(pending) \in SUBSET pending /\ Chunk(pending) # {}
<1> DEFINE p == Cardinality(pending)
           First(k, chunk) == /\ Cardinality(chunk) = k
                              /\ \A m \in chunk, n \in pending \ chunk : Before(m, n)
           T == {k \in Nat : k <= p => \E chunk \in SUBSET pending : First(k, chunk)}
<1>1. IsFiniteSet(pending) /\ p \in Nat /\ p # 0
  BY WantedFinite, FS_Subset, FS_CardinalityType, FS_EmptySet
<1>2. 0 \in T
  BY FS_EmptySet
<1>3. ASSUME NEW k \in T
      PROVE  k + 1 \in T
  <2> SUFFICES ASSUME k + 1 <= p
               PROVE  \E chunk \in SUBSET pending : First(k + 1, chunk)
    OBVIOUS
  <2>1. k \in Nat /\ k <= p
    BY <1>1
  <2>2. PICK chunk \in SUBSET pending : First(k, chunk)
    BY <2>1
  <2> DEFINE U == {Position(n) : n \in pending \ chunk}
  <2>3. chunk # pending
    BY <1>1, <2>1, <2>2
  <2>4. U \in SUBSET Nat /\ U # {}
    BY <2>3, Positions
  <2>5. PICK i \in U : \A j \in U : i <= j
    <3> HIDE DEF U
    <3> QED  BY <2>4, LeastNumber
  <2>6. PICK x \in pending \ chunk : Position(x) = i
    OBVIOUS
  <2> DEFINE c == chunk \union {x}
  <2>7. IsFiniteSet(chunk) /\ Cardinality(c) = k + 1
    BY <1>1, <2>2, FS_Subset, FS_AddElement
  <2>8. ASSUME NEW n \in pending \ c
        PROVE  Before(x, n)
    <3>1. Position(x) <= Position(n)
      BY <2>5, <2>6
    <3>2. Position(x) # Position(n)
      BY Positions
    <3>3. Position(x) \in Nat /\ Position(n) \in Nat
      BY Positions
    <3> QED  BY <3>1, <3>2, <3>3 DEF Before
  <2>9. First(k + 1, c)
    BY <2>2, <2>7, <2>8
  <2> QED  BY <2>9
<1>4. T \in SUBSET Nat
  OBVIOUS
<1>5. T = Nat
  <2> HIDE DEF T
  <2> QED  BY <1>2, <1>3, <1>4, AllNumbers
<1> DEFINE k == Smaller(p, OsvBatchMax)
<1>6. k \in Nat \ {0} /\ k <= p
  BY <1>1, ParametersOK DEF Smaller
<1>7. \E chunk \in SUBSET pending : First(k, chunk)
  <2>1. k \in T
    BY <1>5, <1>6
  <2> QED  BY <1>6, <2>1
<1>8. Chunk(pending) \in SUBSET pending /\ Cardinality(Chunk(pending)) = k
  BY <1>7 DEF Chunk
<1> HIDE DEF k
<1> QED  BY <1>6, <1>8, FS_EmptySet

-----------------------------------------------------------------------------
(* What is left to do is finite, and a step that takes something of it     *)
(* takes it for good.                                                      *)
LeftSets == <<NotStarted, NotEnded, TriesLeft, NotResolved, NotAssessed>>

LEMMA LeftFinite ==
  ASSUME manifest \in Manifests
  PROVE  /\ IsFiniteSet(NotStarted) /\ IsFiniteSet(NotEnded) /\ IsFiniteSet(TriesLeft)
         /\ IsFiniteSet(NotResolved) /\ IsFiniteSet(NotAssessed)
<1>1. IsFiniteSet(Wanted)
  BY WantedFinite
<1>2. IsFiniteSet(1 .. ReintentosRed + 1)
  <2>1. 1 \in Int /\ ReintentosRed + 1 \in Int
    BY ParametersOK
  <2> QED  BY <2>1, FS_Interval
<1>3. IsFiniteSet(Wanted \X (1 .. ReintentosRed + 1))
  BY <1>1, <1>2, FS_Product
<1>4. /\ NotStarted \in SUBSET Wanted /\ NotEnded \in SUBSET Wanted /\ NotResolved \in SUBSET Wanted
      /\ NotAssessed \in SUBSET Wanted
  BY DEF NotStarted, NotEnded, NotResolved, NotAssessed
<1>5. TriesLeft \in SUBSET (Wanted \X (1 .. ReintentosRed + 1))
  BY DEF TriesLeft
<1> QED  BY <1>1, <1>3, <1>4, <1>5, FS_Subset

LEMMA Shrinks ==
  ASSUME NEW S, NEW T, IsFiniteSet(S), T \subseteq S
  PROVE  /\ Cardinality(S) \in Nat /\ Cardinality(T) \in Nat /\ Cardinality(T) <= Cardinality(S)
         /\ T # S => Cardinality(T) < Cardinality(S)
  BY FS_Subset, FS_CardinalityType

(* Nothing comes back, and something is gone.                              *)
LEMMA LessLeft ==
  ASSUME manifest \in Manifests, phase \in Phases, phase' \in Phases, PhasesLeft' <= PhasesLeft,
         NotStarted' \subseteq NotStarted, NotEnded' \subseteq NotEnded, TriesLeft' \subseteq TriesLeft,
         NotResolved' \subseteq NotResolved, NotAssessed' \subseteq NotAssessed,
         PhasesLeft' # PhasesLeft \/ LeftSets' # LeftSets
  PROVE  StepsLeft' < StepsLeft
<1>1. PhasesLeft \in Nat /\ PhasesLeft' \in Nat
  BY DEF PhasesLeft, Phases
<1>2. /\ Cardinality(NotStarted) \in Nat /\ Cardinality(NotStarted') \in Nat
      /\ Cardinality(NotStarted') <= Cardinality(NotStarted)
      /\ NotStarted' # NotStarted => Cardinality(NotStarted') < Cardinality(NotStarted)
  BY LeftFinite, Shrinks
<1>3. /\ Cardinality(NotEnded) \in Nat /\ Cardinality(NotEnded') \in Nat
      /\ Cardinality(NotEnded') <= Cardinality(NotEnded)
      /\ NotEnded' # NotEnded => Cardinality(NotEnded') < Cardinality(NotEnded)
  BY LeftFinite, Shrinks
<1>4. /\ Cardinality(TriesLeft) \in Nat /\ Cardinality(TriesLeft') \in Nat
      /\ Cardinality(TriesLeft') <= Cardinality(TriesLeft)
      /\ TriesLeft' # TriesLeft => Cardinality(TriesLeft') < Cardinality(TriesLeft)
  BY LeftFinite, Shrinks
<1>5. /\ Cardinality(NotResolved) \in Nat /\ Cardinality(NotResolved') \in Nat
      /\ Cardinality(NotResolved') <= Cardinality(NotResolved)
      /\ NotResolved' # NotResolved => Cardinality(NotResolved') < Cardinality(NotResolved)
  BY LeftFinite, Shrinks
<1>6. /\ Cardinality(NotAssessed) \in Nat /\ Cardinality(NotAssessed') \in Nat
      /\ Cardinality(NotAssessed') <= Cardinality(NotAssessed)
      /\ NotAssessed' # NotAssessed => Cardinality(NotAssessed') < Cardinality(NotAssessed)
  BY LeftFinite, Shrinks
<1>7. \/ PhasesLeft' < PhasesLeft \/ NotStarted' # NotStarted \/ NotEnded' # NotEnded
      \/ TriesLeft' # TriesLeft \/ NotResolved' # NotResolved \/ NotAssessed' # NotAssessed
  BY <1>1 DEF LeftSets
<1> QED  BY <1>1, <1>2, <1>3, <1>4, <1>5, <1>6, <1>7 DEF StepsLeft

(* The phases go forward; what belongs to one name stays with it.          *)
LEMMA PhaseCounts ==
  ASSUME EngineInv, Wanted' = Wanted, UNCHANGED <<attempts, malice, assessed>>,
         \/ UNCHANGED fetch
         \/ fetch' = [n \in Names |-> IF n \in Wanted THEN "waiting" ELSE "none"]
               /\ \A n \in Names : fetch[n] = "none",
         phase' \in Phases, PhasesLeft' < PhasesLeft
  PROVE  StepsLeft' < StepsLeft
<1>0. manifest \in Manifests /\ phase \in Phases /\ Wanted \subseteq Names
  BY WantedNames DEF EngineInv, TypeOK
<1>1. PhasesLeft' \in Nat /\ PhasesLeft \in Nat
  BY <1>0 DEF PhasesLeft, Phases
<1>2. /\ NotStarted' \subseteq NotStarted /\ NotEnded' \subseteq NotEnded
      /\ TriesLeft' \subseteq TriesLeft /\ NotResolved' \subseteq NotResolved
      /\ NotAssessed' \subseteq NotAssessed
  BY <1>0 DEF NotStarted, NotEnded, TriesLeft, NotResolved, NotAssessed
<1> QED  BY <1>0, <1>1, <1>2, LessLeft

(* A lookup begins, ends or has one try less.                              *)
LEMMA LookupCounts ==
  ASSUME EngineInv, Wanted' = Wanted, NEW n \in Names, Lookup(n)
  PROVE  StepsLeft' < StepsLeft
<1>0. /\ manifest \in Manifests /\ phase \in Phases /\ Wanted \subseteq Names
      /\ DOMAIN fetch = Names /\ attempts \in [Names -> Nat]
  BY WantedNames, ParametersOK DEF EngineInv, TypeOK
<1>1. /\ phase' = phase /\ UNCHANGED <<malice, assessed>> /\ fetch[n] \in {"waiting", "running"}
      /\ n \in Wanted
  BY DEF Lookup, StartFetch, FetchAnswered, FetchGivesUp, FetchFails, FetchRaises, EngineInv, FetchPhase
<1>2. /\ PhasesLeft' = PhasesLeft /\ PhasesLeft \in Nat /\ NotResolved' = NotResolved
      /\ NotAssessed' = NotAssessed
  BY <1>0, <1>1 DEF PhasesLeft, Phases, NotResolved, NotAssessed
<1>3. CASE StartFetch(n)
  <2>1. fetch' = [fetch EXCEPT ![n] = "running"] /\ attempts' = attempts /\ fetch[n] = "waiting"
    BY <1>3 DEF StartFetch, SetFetch
  <2>2. TriesLeft' = TriesLeft /\ NotStarted' \subseteq NotStarted /\ NotEnded' \subseteq NotEnded
    BY <1>0, <2>1 DEF TriesLeft, NotStarted, NotEnded
  <2>3. n \in NotStarted /\ n \notin NotStarted'
    BY <1>0, <1>1, <2>1 DEF NotStarted
  <2> QED  BY <1>0, <1>1, <1>2, <2>2, <2>3, LessLeft DEF LeftSets
<1>4. CASE FetchAnswered(n) \/ FetchGivesUp(n) \/ FetchRaises(n)
  <2>1. PICK state \in Settled \union {"raised"} : fetch' = [fetch EXCEPT ![n] = state]
    BY <1>4 DEF FetchAnswered, FetchGivesUp, FetchRaises, SetFetch, Settled
  <2>2. attempts' = attempts /\ fetch[n] = "running"
    BY <1>4 DEF FetchAnswered, FetchGivesUp, FetchRaises
  <2>3. TriesLeft' = TriesLeft /\ NotStarted' \subseteq NotStarted /\ NotEnded' \subseteq NotEnded
    BY <1>0, <2>1, <2>2 DEF TriesLeft, NotStarted, NotEnded, Settled
  <2>4. n \in NotEnded /\ n \notin NotEnded'
    BY <1>0, <1>1, <2>1, <2>2 DEF NotEnded, Settled
  <2> QED  BY <1>0, <1>1, <1>2, <2>3, <2>4, LessLeft DEF LeftSets
<1>5. CASE FetchFails(n)
  <2>1. PICK state \in {"running", "UNVERIFIABLE"} : fetch' = [fetch EXCEPT ![n] = state]
    BY <1>5 DEF FetchFails, SetFetch
  <2>2. attempts' = [attempts EXCEPT ![n] = @ + 1] /\ fetch[n] = "running"
    BY <1>5 DEF FetchFails
  <2>3. attempts[n] <= ReintentosRed /\ ReintentosRed \in Nat
    BY <2>2, ParametersOK DEF EngineInv, FetchPhase
  <2>4. NotStarted' \subseteq NotStarted /\ NotEnded' \subseteq NotEnded
    BY <1>0, <2>1, <2>2 DEF NotStarted, NotEnded
  <2>5. \A m \in Names : attempts'[m] \in Nat /\ attempts[m] <= attempts'[m]
    BY <1>0, <2>2
  <2>6. TriesLeft' \subseteq TriesLeft
    <3>1. ASSUME NEW t \in Wanted \X (1 .. ReintentosRed + 1), attempts'[t[1]] < t[2]
          PROVE  attempts[t[1]] < t[2]
      <4>1. t[1] \in Names /\ t[2] \in Int
        BY <1>0
      <4> QED  BY <1>0, <2>5, <3>1, <4>1
    <3> QED  BY <3>1 DEF TriesLeft
  <2> DEFINE t == <<n, attempts[n] + 1>>
  <2>7. t \in TriesLeft /\ t \notin TriesLeft'
    BY <1>0, <1>1, <2>2, <2>3 DEF TriesLeft
  <2> QED  BY <1>0, <1>1, <1>2, <2>4, <2>6, <2>7, LessLeft DEF LeftSets
<1> QED  BY <1>3, <1>4, <1>5 DEF Lookup

(* A source answers for each name it is asked for, and for no other.       *)
LEMMA BatchDomain ==
  ASSUME NEW chunk, NEW answers \in QueryBatch(chunk)
  PROVE  DOMAIN answers = chunk
<1> DEFINE Both(u, d) == [n \in chunk |-> IF config.watchlist
                                          THEN Merge(Osv(n, u), Watchlist(n, d)) ELSE Osv(n, u)]
           U == IF Fault("osv") THEN SUBSET chunk ELSE {{}}
           D == IF Fault("watchlist") THEN BOOLEAN ELSE {FALSE}
           Raised == {[n \in chunk |-> "UNVERIFIABLE"] : f \in Faults \intersect {"source"}}
<1>1. CASE answers \in Raised
  BY <1>1
<1>2. QueryBatch(chunk) = {Both(u, d) : u \in U, d \in D} \union Raised
  BY DEF QueryBatch
<1>3. answers \in Raised \/ answers \in {Both(u, d) : u \in U, d \in D}
  <2> HIDE DEF Raised, Both, U, D
  <2> QED  BY <1>2
<1>4. CASE answers \in {Both(u, d) : u \in U, d \in D}
  <2>1. \E u \in U, d \in D : answers = Both(u, d)
    <3> HIDE DEF Both, U, D
    <3> QED  BY <1>4
  <2> QED  BY <2>1
<1> HIDE DEF Raised, Both, U, D
<1> QED  BY <1>1, <1>3, <1>4

(* A chunk that is not empty has its answers.                              *)
LEMMA ChunkCounts ==
  ASSUME EngineInv, Wanted' = Wanted, ResolveChunk
  PROVE  StepsLeft' < StepsLeft
<1> DEFINE chunk == Chunk(Unresolved)
<1>0. manifest \in Manifests /\ phase \in Phases /\ Wanted \subseteq Names
  BY WantedNames DEF EngineInv, TypeOK
<1>1. PICK answers \in QueryBatch(chunk) :
        malice' = [n \in Names |-> IF n \in DOMAIN answers THEN answers[n] ELSE malice[n]]
  BY DEF ResolveChunk
<1>2. DOMAIN answers = chunk
  BY <1>1, BatchDomain
<1>3. \A n \in chunk : answers[n] # "none"
  BY <1>2, BatchTrue DEF MaliceState
<1>4. Unresolved \in SUBSET Wanted /\ Unresolved # {}
  BY DEF Unresolved, Found, ResolveChunk
<1>5. PICK x \in chunk : x \in Unresolved
  BY <1>0, <1>4, ChunkTaken
<1> HIDE DEF chunk
<1>6. NotResolved' \subseteq NotResolved /\ x \in NotResolved /\ x \notin NotResolved'
  BY <1>0, <1>1, <1>2, <1>3, <1>4, <1>5 DEF NotResolved, Unresolved
<1>7. /\ phase' = phase /\ PhasesLeft' = PhasesLeft /\ PhasesLeft \in Nat
      /\ NotStarted' = NotStarted /\ NotEnded' = NotEnded /\ TriesLeft' = TriesLeft
      /\ NotAssessed' = NotAssessed
  BY <1>0
  DEF ResolveChunk, PhasesLeft, Phases, NotStarted, NotEnded, TriesLeft, NotAssessed
<1> QED  BY <1>0, <1>6, <1>7, LessLeft DEF LeftSets

(* A candidate of layer 4 is resolved once.                                *)
LEMMA Layer4Counts ==
  ASSUME EngineInv, Wanted' = Wanted, NEW n \in Names, ResolveLayer4(n)
  PROVE  StepsLeft' < StepsLeft
<1>0. manifest \in Manifests /\ phase \in Phases /\ gray \subseteq Wanted
  BY DEF EngineInv, TypeOK
<1>1. n \in gray \ DOMAIN assessed /\ DOMAIN assessed' = DOMAIN assessed \union {n}
  BY DEF ResolveLayer4, ResolveFromCache, AskLlm, AbstainOverBudget, NextCandidate, Resolved
<1>2. NotAssessed' \subseteq NotAssessed /\ n \in NotAssessed /\ n \notin NotAssessed'
  BY <1>0, <1>1 DEF NotAssessed
<1>3. UNCHANGED <<phase, fetch, attempts, malice>>
  BY DEF ResolveLayer4, ResolveFromCache, AskLlm, AbstainOverBudget
<1>4. /\ PhasesLeft' = PhasesLeft /\ PhasesLeft \in Nat
      /\ NotStarted' = NotStarted /\ NotEnded' = NotEnded /\ TriesLeft' = TriesLeft
      /\ NotResolved' = NotResolved
  BY <1>0, <1>3 DEF PhasesLeft, Phases, NotStarted, NotEnded, TriesLeft, NotResolved
<1> QED  BY <1>0, <1>2, <1>3, <1>4, LessLeft DEF LeftSets

LEMMA EveryStep ==
  ASSUME EngineInv, [Next]_vars, ~UNCHANGED vars
  PROVE  StepsLeft' < StepsLeft
<1>0. Wanted' = Wanted
  BY InputFixed
<1>1. CASE Parse
  <2>1. \A n \in Names : fetch[n] = "none"
    BY <1>1 DEF Parse, EngineInv, FetchPhase
  <2>2. phase' \in {"fetch", "done"} /\ phase = "parse" /\ UNCHANGED <<attempts, malice, assessed>>
    BY <1>1 DEF Parse, Finish
  <2>3. phase' \in Phases /\ PhasesLeft' < PhasesLeft
    BY <2>2 DEF PhasesLeft, Phases
  <2>4. \/ UNCHANGED fetch
        \/ fetch' = [n \in Names |-> IF n \in Wanted THEN "waiting" ELSE "none"]
    BY <1>1 DEF Parse
  <2> QED  BY <1>0, <2>1, <2>2, <2>3, <2>4, PhaseCounts
<1>2. CASE SeeError \/ Abort \/ FetchDone \/ ThreatIntelDone \/ Evaluate \/ AssembleReport
  <2>1. UNCHANGED <<fetch, attempts, malice, assessed>>
    BY <1>2 DEF SeeError, Abort, FetchDone, ThreatIntelDone, Evaluate, AssembleReport
  <2>2. \/ phase = "fetch" /\ phase' \in {"abort", "threatintel", "evaluate"}
        \/ phase = "abort" /\ phase' = "done"
        \/ phase = "threatintel" /\ phase' = "evaluate"
        \/ phase = "evaluate" /\ phase' = "layer4"
        \/ phase = "layer4" /\ phase' = "done"
    BY <1>2 DEF SeeError, Abort, FetchDone, ThreatIntelDone, Evaluate, AssembleReport, Finish
  <2>3. phase' \in Phases /\ PhasesLeft' < PhasesLeft
    BY <2>2 DEF PhasesLeft, Phases
  <2> QED  BY <1>0, <2>1, <2>3, PhaseCounts
<1>3. CASE ResolveChunk
  BY <1>0, <1>3, ChunkCounts
<1>4. ASSUME NEW n \in Names, Lookup(n) \/ ResolveLayer4(n)
      PROVE  StepsLeft' < StepsLeft
  BY <1>0, <1>4, LookupCounts, Layer4Counts
<1> QED  BY <1>1, <1>2, <1>3, <1>4 DEF Next

(***************************************************************************)
(* Whatever fails: a scan takes no more steps than StepsLeft says at its   *)
(* start, as every step lowers it.  No lookup is retried for ever, no      *)
(* source or LLM is asked again about the same package, no phase of _scan  *)
(* comes back.                                                             *)
(***************************************************************************)
THEOREM EngineRunsOut == Spec => [][StepsLeft' < StepsLeft]_vars
<1>1. EngineInv /\ [Next]_vars => [StepsLeft' < StepsLeft]_vars
  BY EveryStep
<1> QED  BY EngineInvariant, <1>1, PTL DEF Spec

=============================================================================
