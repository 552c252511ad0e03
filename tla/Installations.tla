---------------------------- MODULE Installations ----------------------------
(***************************************************************************)
(* An installation of the GitHub App and the repositories it grants, as    *)
(* GitHub has them and as the tables github_installations and repos have   *)
(* them.  GitHub tells the API of every change by a webhook; deliveries    *)
(* run concurrently, in any order, and may be repeated.  Meanwhile scans   *)
(* of the granted repositories (a PR job, or POST /scans with a repo_id)   *)
(* resolve their target in one transaction and persist in a later one.     *)
(***************************************************************************)
EXTENDS Naturals, Sequences, FiniteSets

CONSTANTS
  Users,           \* GitHub users who may install, change or suspend the App
  Repos,           \* repositories of the account
  Jobs,            \* scans of a repository, each run once
  MaxEvents,       \* bound: how many events GitHub raises
  MaxRedeliveries, \* bound: how many deliveries are repeated
  NoInstallation,
  NoTarget

ASSUME BoundsOK == MaxEvents \in Nat /\ MaxRedeliveries \in Nat

ASSUME ReposOK == IsFiniteSet(Repos)

Kinds == {"created", "suspend", "unsuspend", "deleted", "added", "removed"}

Events == [kind : Kinds, repos : SUBSET Repos, sender : Users]

Statuses == {"active", "suspended", "revoked"}

VARIABLES
  granted,       \* GitHub: the status of the installation and its repositories
  events,        \* GitHub: the webhooks it has raised, oldest first
  redeliveries,  \* how many deliveries were repeated
  registered,    \* table users: who has logged in
  delivery,      \* per event: waiting, in the middle of its handler, or over
  doomed,        \* per event: the repos rows a removal found without scans
  handled,       \* the events in the order their transactions began and
                 \* committed, an immediate repeat once; 0 for a rollback
  installation,  \* its row in github_installations
  repos,         \* its rows in repos
  lastId,        \* how many ids the table repos has given out
  scans,         \* table scans, one record for all scans of one row and user
  job            \* per scan: its place and the target it resolved

github == <<granted, events>>
webhook == <<redeliveries, delivery, doomed, handled>>
catalog == <<installation, repos, lastId>>
vars == <<granted, events, redeliveries, registered, delivery, doomed, handled,
          installation, repos, lastId, scans, job>>

Indices == 1 .. MaxEvents

Installed == [owner : Users, status : Statuses]

RepoRows == [id : Nat, repo : Repos]

Targets == [row : Nat, user : Users]

ASSUME SentinelsOK == NoInstallation \notin Installed /\ NoTarget \notin Targets

Init ==
  /\ granted = [status |-> "none", repos |-> {}]
  /\ events = <<>>
  /\ redeliveries = 0
  /\ registered \in SUBSET Users
  /\ delivery = [i \in Indices |-> "none"]
  /\ doomed = [i \in Indices |-> {}]
  /\ handled = <<>>
  /\ installation = NoInstallation
  /\ repos = {}
  /\ lastId = 0
  /\ scans = {}
  /\ job = [j \in Jobs |-> [place |-> "waiting", target |-> NoTarget]]

-----------------------------------------------------------------------------
(* GitHub.                                                                 *)

Raise(kind, named, sender) ==
  /\ Len(events) < MaxEvents
  /\ events' = Append(events, [kind |-> kind, repos |-> named, sender |-> sender])
  /\ delivery' = [delivery EXCEPT ![Len(events) + 1] = "sent"]
  /\ UNCHANGED <<redeliveries, registered, doomed, handled, catalog, scans, job>>

Grant(status, held) == granted' = [status |-> status, repos |-> held]

(* An installation is created once, and a deleted one never comes back: a  *)
(* new installation has a new installation_id.                             *)
Install(u, R) ==
  granted.status = "none" /\ Grant("active", R) /\ Raise("created", R, u)

Suspend(u) ==
  granted.status = "active" /\ Grant("suspended", granted.repos) /\ Raise("suspend", {}, u)

Unsuspend(u) ==
  granted.status = "suspended" /\ Grant("active", granted.repos) /\ Raise("unsuspend", {}, u)

Uninstall(u) ==
  /\ granted.status \in {"active", "suspended"}
  /\ Grant("revoked", granted.repos)
  /\ Raise("deleted", {}, u)

AddRepos(u, R) ==
  /\ granted.status = "active"
  /\ R # {} /\ R \intersect granted.repos = {}
  /\ Grant("active", granted.repos \union R)
  /\ Raise("added", R, u)

RemoveRepos(u, R) ==
  /\ granted.status = "active"
  /\ R # {} /\ R \subseteq granted.repos
  /\ Grant("active", granted.repos \ R)
  /\ Raise("removed", R, u)

(* A delivery that is over, whatever became of it, is sent once more.      *)
Redeliver(i) ==
  /\ delivery[i] = "over"
  /\ redeliveries < MaxRedeliveries
  /\ redeliveries' = redeliveries + 1
  /\ delivery' = [delivery EXCEPT ![i] = "sent"]
  /\ UNCHANGED <<github, registered, doomed, handled, catalog, scans, job>>

Login(u) ==
  /\ u \notin registered
  /\ registered' = registered \union {u}
  /\ UNCHANGED <<github, webhook, catalog, scans, job>>

-----------------------------------------------------------------------------
(* The webhook.                                                            *)

Delivered(i, kinds) == delivery[i] = "sent" /\ events[i].kind \in kinds

Over(i) ==
  /\ delivery' = [delivery EXCEPT ![i] = "over"]
  /\ doomed' = [doomed EXCEPT ![i] = {}]

Handled(i) ==
  handled' = IF handled # <<>> /\ handled[Len(handled)] = i THEN handled ELSE Append(handled, i)

(* The row each named repository keeps or is given.                        *)
UpsertRepos(named) ==
  LET new == named \ {r.repo : r \in repos}
  IN  \E ids \in [new -> lastId + 1 .. lastId + Cardinality(new)] :
        /\ \A r, q \in new : ids[r] = ids[q] => r = q
        /\ repos' = repos \union {[id |-> ids[r], repo |-> r] : r \in new}
        /\ lastId' = lastId + Cardinality(new)

MutOwnerAfterUpsert(u) == u

(* user_id is set by the INSERT alone: the update on conflict leaves it.   *)
OwnerAfterUpsert(u) == IF installation = NoInstallation THEN u ELSE installation.owner

MutStatusAfterUpsert == IF installation = NoInstallation THEN "active" ELSE installation.status

(* The INSERT and the update on conflict both make it active.              *)
StatusAfterUpsert == "active"

(* created, unsuspend and every other action that does not deactivate.  A  *)
(* sender who never logged in is no owner: the event is acknowledged and   *)
(* dropped.                                                                *)
ActivateInstallation(i) ==
  /\ Delivered(i, {"created", "unsuspend"})
  /\ \/ /\ events[i].sender \in registered
        /\ installation' = [owner |-> OwnerAfterUpsert(events[i].sender),
                           status |-> StatusAfterUpsert]
        /\ UpsertRepos(events[i].repos)
        /\ Handled(i)
     \/ /\ events[i].sender \notin registered
        /\ UNCHANGED <<catalog, handled>>
  /\ Over(i)
  /\ UNCHANGED <<github, redeliveries, registered, scans, job>>

MutStatusIsTheAction(kind) == kind

(* _DEACTIVATION_STATUS                                                    *)
StatusFor(kind) == IF kind = "deleted" THEN "revoked" ELSE "suspended"

SetStatus(i) ==
  /\ Delivered(i, {"deleted", "suspend"})
  /\ \/ /\ installation # NoInstallation
        /\ installation' = [installation EXCEPT !.status = StatusFor(events[i].kind)]
        /\ Handled(i)
     \/ /\ installation = NoInstallation
        /\ UNCHANGED <<installation, handled>>
  /\ Over(i)
  /\ UNCHANGED <<github, redeliveries, registered, repos, lastId, scans, job>>

(* installation_repositories for an installation that was never stored.    *)
IgnoreSync(i) ==
  /\ Delivered(i, {"added", "removed"})
  /\ installation = NoInstallation
  /\ Over(i)
  /\ UNCHANGED <<github, redeliveries, handled, registered, catalog, scans, job>>

SyncAdded(i) ==
  /\ Delivered(i, {"added"})
  /\ installation # NoInstallation
  /\ UpsertRepos(events[i].repos)
  /\ Handled(i)
  /\ Over(i)
  /\ UNCHANGED <<github, redeliveries, registered, installation, scans, job>>

HasScans(row) == \E s \in scans : s.row = row.id

(* _remove_repos counts the scans of each row to remove ...                *)
CountScans(i) ==
  /\ Delivered(i, {"removed"})
  /\ installation # NoInstallation
  /\ delivery' = [delivery EXCEPT ![i] = "removing"]
  /\ doomed' = [doomed EXCEPT ![i] =
                  {row \in repos : row.repo \in events[i].repos /\ ~HasScans(row)}]
  /\ Handled(i)
  /\ UNCHANGED <<github, redeliveries, registered, catalog, scans, job>>

MutReferenced(rows) == FALSE

(* The foreign key scans.repo_id: a row that a scan refers to cannot go.   *)
Referenced(rows) == \E row \in rows : HasScans(row)

(* ... and then deletes those without any.  If one was scanned meanwhile,  *)
(* the DELETE fails and the delivery with it.                              *)
RemoveUnscanned(i) ==
  /\ delivery[i] = "removing"
  /\ \/ /\ ~Referenced(doomed[i])
        /\ repos' = repos \ doomed[i]
        /\ Handled(i)
     \/ /\ Referenced(doomed[i])
        /\ Handled(0)
        /\ UNCHANGED repos
  /\ Over(i)
  /\ UNCHANGED <<github, redeliveries, registered, installation, lastId, scans, job>>

-----------------------------------------------------------------------------
(* Scans of a repository.                                                  *)

(* The join of repos with its active installation, which resolve_pr_target,*)
(* get_repo_with_installation_id and list_repos_for_user read.             *)
AccessibleRows ==
  IF installation # NoInstallation /\ installation.status = "active" THEN repos ELSE {}

ResolveTarget(j) ==
  /\ job[j].place = "waiting"
  /\ \E row \in AccessibleRows :
       job' = [job EXCEPT ![j] = [place |-> "scanning",
                 target |-> [row |-> row.id, user |-> installation.owner]]]
  /\ UNCHANGED <<github, webhook, registered, catalog, scans>>

(* The scan takes its time; by now the row may be gone, and the foreign    *)
(* key fails the job.                                                      *)
PersistScan(j) ==
  /\ job[j].place = "scanning"
  /\ scans' = IF \E row \in repos : row.id = job[j].target.row
              THEN scans \union {job[j].target}
              ELSE scans
  /\ job' = [job EXCEPT ![j] = [place |-> "over", target |-> NoTarget]]
  /\ UNCHANGED <<github, webhook, registered, catalog>>

-----------------------------------------------------------------------------
ChangeOnGitHub ==
  \E u \in Users :
    \/ Suspend(u) \/ Unsuspend(u) \/ Uninstall(u)
    \/ \E R \in SUBSET Repos : Install(u, R) \/ AddRepos(u, R) \/ RemoveRepos(u, R)

Webhook(i) ==
  \/ Redeliver(i)
  \/ ActivateInstallation(i) \/ SetStatus(i)
  \/ IgnoreSync(i) \/ SyncAdded(i) \/ CountScans(i) \/ RemoveUnscanned(i)

Next ==
  \/ ChangeOnGitHub
  \/ \E u \in Users : Login(u)
  \/ \E i \in Indices : Webhook(i)
  \/ \E j \in Jobs : ResolveTarget(j) \/ PersistScan(j)

Spec == Init /\ [][Next]_vars

-----------------------------------------------------------------------------
TypeOK ==
  /\ granted \in [status : Statuses \union {"none"}, repos : SUBSET Repos]
  /\ events \in Seq(Events) /\ Len(events) <= MaxEvents
  /\ redeliveries \in 0 .. MaxRedeliveries
  /\ registered \subseteq Users
  /\ delivery \in [Indices -> {"none", "sent", "removing", "over"}]
  /\ \A i \in Indices : i > Len(events) <=> delivery[i] = "none"
  /\ doomed \in [Indices -> SUBSET RepoRows]
  /\ handled \in Seq(Indices \union {0})
  /\ installation \in Installed \union {NoInstallation}
  /\ lastId \in Nat
  /\ repos \subseteq RepoRows
  /\ \A row \in repos : row.id <= lastId
  /\ scans \subseteq Targets
  /\ job \in [Jobs -> [place : {"waiting", "scanning", "over"},
                       target : Targets \union {NoTarget}]]

(* SEC, _upsert_installation_sync: whatever is redelivered, by whatever    *)
(* sender, an installation stays with the user it was first stored for.    *)
OwnerNeverReassigned ==
  [][installation # NoInstallation =>
       installation' # NoInstallation /\ installation'.owner = installation.owner]_vars

(* Nobody gets a scan of somebody else's installation into his history,    *)
(* however long the scan took and whatever webhooks came in between.       *)
ScansOfTheOwner ==
  \A s \in scans : installation # NoInstallation /\ s.user = installation.owner

(* R2.4: history is never lost.  A scan keeps the row of its repository,   *)
(* also when the repository is removed while it is being scanned.          *)
ScansKeepTheirRepo ==
  \A s \in scans : \E row \in repos : row.id = s.row

HandledInOrder ==
  /\ handled = [i \in 1 .. Len(events) |-> i]
  /\ \A i \in 1 .. Len(events) : delivery[i] = "over"

(* R2.2: when every webhook has been handled, in the order GitHub raised   *)
(* them and one after the other, the tables say what GitHub says; a        *)
(* repository GitHub no longer grants has a row only for the sake of its   *)
(* scans.  A delivery repeated at once makes no difference.                *)
MirrorsGitHub ==
  HandledInOrder /\ events # <<>> =>
    /\ installation # NoInstallation /\ installation.status = granted.status
    /\ granted.repos \subseteq {row.repo : row \in repos}
    /\ \A row \in repos : row.repo \in granted.repos \/ HasScans(row)

(* _remove_repos: "un repo huérfano conservado no se muestra como          *)
(* accesible".                                                             *)
OrphansNotAccessible ==
  HandledInOrder => {row.repo : row \in AccessibleRows} \subseteq granted.repos

=============================================================================
