----------------------------- MODULE ScanPromise -----------------------------
(***************************************************************************)
(* What a scan promises to whoever acts on its report or its exit code:    *)
(* one report, once, whose verdicts are justified by what is true of the   *)
(* packages.  No word of lookups, retries, chunks, scores or LLM calls.    *)
(***************************************************************************)
EXTENDS Naturals

CONSTANT NoReport

VARIABLES
  wanted,  \* the packages of the manifest
  truth,   \* what is true of each
  config,  \* which layers are on
  report

Init == report = NoReport

Malicious(n) == config.layer3 /\ truth[n].malicious

Listed(n) == config.layer3 /\ config.watchlist /\ truth[n].listed

MayAllow(n) == truth[n].exists /\ ~Malicious(n) /\ ~Listed(n)

MayBlock(n) ==
  ~truth[n].exists \/ Malicious(n) \/ Listed(n) \/ truth[n].lookalike # 0 \/ truth[n].long

Reports ==
  [error : {FALSE}, verdicts : [wanted -> {"allow", "warn", "block", "unverifiable"}],
   exit : 0 .. 3]

(* CI passes the manifest exactly if every package is allowed.             *)
Justified(r) ==
  /\ \A n \in wanted :
       /\ r.verdicts[n] = "allow" => MayAllow(n)
       /\ r.verdicts[n] = "block" => MayBlock(n)
  /\ r.exit = 0 <=> \A n \in wanted : r.verdicts[n] = "allow"
  /\ r.exit = 2 <=> \E n \in wanted : r.verdicts[n] = "block"

Answer ==
  /\ report = NoReport
  /\ report' \in Reports
  /\ Justified(report')
  /\ UNCHANGED <<wanted, truth, config>>

(* An error passes nothing.                                                *)
Fail ==
  /\ report = NoReport
  /\ report' = [error |-> TRUE, verdicts |-> [n \in {} |-> "allow"], exit |-> 3]
  /\ UNCHANGED <<wanted, truth, config>>

Next == Answer \/ Fail

Spec == Init /\ [][Next]_<<wanted, truth, config, report>>

=============================================================================
