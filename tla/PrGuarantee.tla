----------------------------- MODULE PrGuarantee -----------------------------
(***************************************************************************)
(* What the pull request worker promises to whoever reads the dashboard    *)
(* and the PR, with no word of jobs, retries, transactions or crashes: a   *)
(* ledger of scans with one entry per head, and the conclusions on display *)
(* on each commit.                                                         *)
(***************************************************************************)
CONSTANTS PRs, Shas, Reports, NoReport

VARIABLES
  ledger,  \* the scan of each head, once there is one
  board    \* the conclusions of the Check Runs on each commit

Init ==
  /\ ledger = [head \in PRs \X Shas |-> NoReport]
  /\ board = [s \in Shas |-> {}]

(* An entry is written whole and rewritten whole, and never goes away.     *)
Record(head, r) ==
  /\ ledger' = [ledger EXCEPT ![head] = r]
  /\ UNCHANGED board

(* A verdict is shown only on a commit whose scan is in the ledger.  A     *)
(* commit that shows something never goes back to showing nothing.         *)
Show(s, conclusion) ==
  /\ conclusion # "neutral" => \E p \in PRs : ledger[<<p, s>>] # NoReport
  /\ \E kept \in SUBSET board[s] :
       board' = [board EXCEPT ![s] = kept \union {conclusion}]
  /\ UNCHANGED ledger

Next ==
  \/ \E head \in PRs \X Shas, r \in Reports : Record(head, r)
  \/ \E s \in Shas, c \in {"success", "neutral", "failure"} : Show(s, c)

Spec == Init /\ [][Next]_<<ledger, board>>

=============================================================================
