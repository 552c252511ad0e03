------------------------- MODULE InstallationsProofs -------------------------
(***************************************************************************)
(* Ownership and history of an installation, for every set of users,       *)
(* repositories and scans, and any number of events and redeliveries.      *)
(***************************************************************************)
EXTENDS Installations, FiniteSetTheorems, TLAPS

(* The part of the type invariant that ownership depends on.               *)
RecordsOK ==
  /\ events \in Seq(Events)
  /\ delivery \in [Indices -> {"none", "sent", "removing", "over"}]
  /\ \A i \in Indices : delivery[i] # "none" => i <= Len(events)
  /\ installation \in Installed \union {NoInstallation}
  /\ DOMAIN job = Jobs

(* A scan under way was resolved for the user who owns the installation.   *)
TargetsOfTheOwner ==
  \A j \in Jobs : job[j].place = "scanning" =>
    installation # NoInstallation /\ job[j].target.user = installation.owner

OwnerInv == RecordsOK /\ TargetsOfTheOwner /\ ScansOfTheOwner

-----------------------------------------------------------------------------
(* A delivery that waits for its handler stands for an event GitHub raised.*)
LEMMA DeliveredIsAnEvent ==
  ASSUME RecordsOK, NEW i \in Indices, delivery[i] # "none"
  PROVE  events[i] \in Events
  BY BoundsOK DEF RecordsOK, Indices

LEMMA RaiseKeepsRecords ==
  ASSUME RecordsOK, NEW kind \in Kinds, NEW named \in SUBSET Repos, NEW u \in Users,
         Raise(kind, named, u)
  PROVE  RecordsOK'
<1> USE BoundsOK DEF RecordsOK, Raise, Indices, catalog
<1> DEFINE e == [kind |-> kind, repos |-> named, sender |-> u]
<1>1. e \in Events
  BY DEF Events
<1>2. events' = Append(events, e)
  OBVIOUS
<1> HIDE DEF e
<1>3. events' \in Seq(Events) /\ Len(events') = Len(events) + 1
  BY <1>1, <1>2
<1>4. delivery' \in [Indices -> {"none", "sent", "removing", "over"}]
  OBVIOUS
<1>5. \A i \in Indices : delivery'[i] # "none" => i <= Len(events')
  BY <1>3
<1> QED
  BY <1>3, <1>4, <1>5

(* The installation stays with its owner at every step.                    *)
LEMMA OwnerStays ==
  ASSUME RecordsOK, [Next]_vars, installation # NoInstallation
  PROVE  installation' # NoInstallation /\ installation'.owner = installation.owner
<1>1. CASE installation' = installation
  BY <1>1
<1>2. ASSUME NEW i \in Indices, ActivateInstallation(i), installation' # installation
      PROVE  installation' # NoInstallation /\ installation'.owner = installation.owner
  <2>1. installation' = [owner |-> installation.owner, status |-> "active"]
    BY <1>2 DEF ActivateInstallation, OwnerAfterUpsert, StatusAfterUpsert, catalog
  <2>2. installation' \in Installed
    BY <2>1 DEF RecordsOK, Installed, Statuses
  <2> QED
    BY <2>1, <2>2, SentinelsOK
<1>3. ASSUME NEW i \in Indices, SetStatus(i), installation' # installation
      PROVE  installation' # NoInstallation /\ installation'.owner = installation.owner
  <2>1. installation' = [installation EXCEPT !.status = StatusFor(events[i].kind)]
    BY <1>3 DEF SetStatus
  <2>2. installation' \in Installed
    BY <2>1 DEF RecordsOK, Installed, Statuses, StatusFor
  <2> QED
    BY <2>1, <2>2, SentinelsOK DEF RecordsOK, Installed
<1>4. installation' = installation
      \/ \E i \in Indices : ActivateInstallation(i) \/ SetStatus(i)
  BY DEF Next, vars, ChangeOnGitHub, Install, Suspend, Unsuspend, Uninstall, AddRepos,
     RemoveRepos, Raise, Login, Webhook, Redeliver, IgnoreSync, SyncAdded, CountScans,
     RemoveUnscanned, ResolveTarget, PersistScan, catalog
<1> QED
  BY <1>1, <1>2, <1>3, <1>4

LEMMA RecordsStep ==
  ASSUME RecordsOK, [Next]_vars
  PROVE  RecordsOK'
<1>1. CASE ChangeOnGitHub
  <2>1. PICK u \in Users, kind \in Kinds, named \in SUBSET Repos : Raise(kind, named, u)
    <3>1. {"created", "suspend", "unsuspend", "deleted", "added", "removed"} \subseteq Kinds
      BY DEF Kinds
    <3> QED
      BY <1>1, <3>1 DEF ChangeOnGitHub, Install, Suspend, Unsuspend, Uninstall, AddRepos,
         RemoveRepos
  <2> QED
    BY <2>1, RaiseKeepsRecords
<1>2. ASSUME NEW u \in Users, Login(u) PROVE RecordsOK'
  BY <1>2 DEF Login, RecordsOK, github, webhook, catalog
<1>3. ASSUME NEW i \in Indices, Webhook(i) PROVE RecordsOK'
  <2>1. UNCHANGED <<events, job>>
    BY <1>3 DEF Webhook, Redeliver, ActivateInstallation, SetStatus, IgnoreSync, SyncAdded,
       CountScans, RemoveUnscanned, github
  <2>2. \E place \in {"sent", "removing", "over"} :
          delivery[i] # "none" /\ delivery' = [delivery EXCEPT ![i] = place]
    BY <1>3 DEF Webhook, Redeliver, ActivateInstallation, SetStatus, IgnoreSync, SyncAdded,
       CountScans, RemoveUnscanned, Delivered, Over
  <2>3. installation' \in Installed \union {NoInstallation}
    <3>1. CASE ActivateInstallation(i)
      <4>1. events[i].sender \in Users
        BY <3>1, DeliveredIsAnEvent DEF ActivateInstallation, Delivered, Events
      <4> QED
        BY <3>1, <4>1 DEF ActivateInstallation, OwnerAfterUpsert, StatusAfterUpsert,
           RecordsOK, Installed, Statuses, catalog
    <3>2. CASE SetStatus(i)
      BY <3>2 DEF SetStatus, StatusFor, RecordsOK, Installed, Statuses
    <3>3. CASE UNCHANGED installation
      BY <3>3 DEF RecordsOK
    <3> QED
      BY <1>3, <3>1, <3>2, <3>3 DEF Webhook, Redeliver, IgnoreSync, SyncAdded, CountScans,
         RemoveUnscanned, catalog
  <2> QED
    BY <2>1, <2>2, <2>3 DEF RecordsOK
<1>4. ASSUME NEW j \in Jobs, ResolveTarget(j) \/ PersistScan(j) PROVE RecordsOK'
  BY <1>4 DEF ResolveTarget, PersistScan, RecordsOK, github, webhook, catalog
<1>5. CASE UNCHANGED vars
  BY <1>5 DEF vars, RecordsOK
<1> QED
  BY <1>1, <1>2, <1>3, <1>4, <1>5 DEF Next

(* Only the steps of a scan touch its place, its target and the table.     *)
LEMMA WhoScans ==
  ASSUME [Next]_vars
  PROVE  \/ UNCHANGED <<job, scans>>
         \/ \E j \in Jobs : ResolveTarget(j) \/ PersistScan(j)
  BY DEF Next, vars, ChangeOnGitHub, Install, Suspend, Unsuspend, Uninstall, AddRepos,
     RemoveRepos, Raise, Login, Webhook, Redeliver, ActivateInstallation, SetStatus,
     IgnoreSync, SyncAdded, CountScans, RemoveUnscanned

LEMMA OwnerStep == OwnerInv /\ [Next]_vars => OwnerInv'
<1> SUFFICES ASSUME OwnerInv, [Next]_vars PROVE OwnerInv'
  OBVIOUS
<1> USE DEF OwnerInv
<1>1. RecordsOK'
  BY RecordsStep
<1>2. CASE UNCHANGED <<job, scans>>
  <2>1. TargetsOfTheOwner'
    BY <1>2, OwnerStays DEF TargetsOfTheOwner
  <2>2. ScansOfTheOwner'
    BY <1>2, OwnerStays DEF ScansOfTheOwner
  <2> QED
    BY <1>1, <2>1, <2>2
<1>3. ASSUME NEW j \in Jobs, ResolveTarget(j) PROVE OwnerInv'
  <2>1. UNCHANGED <<installation, scans>> /\ installation # NoInstallation
    BY <1>3 DEF ResolveTarget, AccessibleRows, catalog
  <2>2. TargetsOfTheOwner'
    BY <1>3, <2>1 DEF ResolveTarget, TargetsOfTheOwner, RecordsOK
  <2>3. ScansOfTheOwner'
    BY <2>1 DEF ScansOfTheOwner
  <2> QED
    BY <1>1, <2>2, <2>3
<1>4. ASSUME NEW j \in Jobs, PersistScan(j) PROVE OwnerInv'
  <2>1. UNCHANGED installation
    BY <1>4 DEF PersistScan, catalog
  <2>2. TargetsOfTheOwner'
    BY <1>4, <2>1 DEF PersistScan, TargetsOfTheOwner, RecordsOK
  <2>3. ScansOfTheOwner'
    BY <1>4, <2>1 DEF PersistScan, TargetsOfTheOwner, ScansOfTheOwner
  <2> QED
    BY <1>1, <2>2, <2>3
<1> QED
  BY <1>2, <1>3, <1>4, WhoScans

LEMMA OwnerInit == Init => OwnerInv
<1> SUFFICES ASSUME Init PROVE OwnerInv
  OBVIOUS
<1>1. RecordsOK
  BY DEF Init, RecordsOK
<1>2. TargetsOfTheOwner /\ ScansOfTheOwner
  BY DEF Init, TargetsOfTheOwner, ScansOfTheOwner
<1> QED
  BY <1>1, <1>2 DEF OwnerInv

LEMMA OwnerInvariant == Spec => []OwnerInv
  BY OwnerInit, OwnerStep, PTL DEF Spec

(* No redelivery, late delivery or change of sender reassigns an           *)
(* installation.                                                           *)
THEOREM OwnerIsForLife == Spec => OwnerNeverReassigned
<1>1. OwnerInv /\ [Next]_vars =>
        [installation # NoInstallation =>
           installation' # NoInstallation /\ installation'.owner = installation.owner]_vars
  BY OwnerStays DEF OwnerInv
<1> QED
  BY <1>1, OwnerInvariant, PTL DEF Spec, OwnerNeverReassigned

(* Every scan of the installation is in the history of its owner.          *)
THEOREM ScansBelongToTheOwner == Spec => []ScansOfTheOwner
<1>1. OwnerInv => ScansOfTheOwner
  BY DEF OwnerInv
<1> QED
  BY <1>1, OwnerInvariant, PTL

-----------------------------------------------------------------------------
LEMMA HistoryStep == ScansKeepTheirRepo /\ [Next]_vars => ScansKeepTheirRepo'
<1> SUFFICES ASSUME ScansKeepTheirRepo, [Next]_vars PROVE ScansKeepTheirRepo'
  OBVIOUS
<1>1. CASE repos \subseteq repos' /\ scans' = scans
  BY <1>1 DEF ScansKeepTheirRepo
<1>2. ASSUME NEW i \in Indices, RemoveUnscanned(i) PROVE ScansKeepTheirRepo'
  <2>1. \A row \in repos : HasScans(row) => row \in repos'
    BY <1>2 DEF RemoveUnscanned, Referenced
  <2>2. scans' = scans
    BY <1>2 DEF RemoveUnscanned
  <2> QED
    BY <2>1, <2>2 DEF ScansKeepTheirRepo, HasScans
<1>3. ASSUME NEW j \in Jobs, PersistScan(j) PROVE ScansKeepTheirRepo'
  BY <1>3 DEF PersistScan, catalog, ScansKeepTheirRepo
<1>4. \/ repos \subseteq repos' /\ scans' = scans
      \/ \E i \in Indices : RemoveUnscanned(i)
      \/ \E j \in Jobs : PersistScan(j)
  BY DEF Next, vars, ChangeOnGitHub, Install, Suspend, Unsuspend, Uninstall, AddRepos,
     RemoveRepos, Raise, Login, Webhook, Redeliver, ActivateInstallation, SetStatus,
     IgnoreSync, SyncAdded, CountScans, UpsertRepos, ResolveTarget, catalog
<1> QED
  BY <1>1, <1>2, <1>3, <1>4

(* R2.4: removing a repository never takes away the row its scans refer    *)
(* to, however removal and scan interleave.                                *)
THEOREM HistoryIsKept == Spec => []ScansKeepTheirRepo
<1>1. Init => ScansKeepTheirRepo
  BY DEF Init, ScansKeepTheirRepo
<1> QED
  BY <1>1, HistoryStep, PTL DEF Spec

-----------------------------------------------------------------------------
(* Types.                                                                  *)

TypeInv ==
  /\ TypeOK
  /\ \A j \in Jobs : job[j].place = "scanning" => job[j].target \in Targets

LEMMA TypesGiveRecords == TypeOK => RecordsOK
<1> SUFFICES ASSUME TypeOK PROVE RecordsOK
  OBVIOUS
<1>1. Len(events) \in Nat /\ \A i \in Indices : i \in Nat
  BY DEF TypeOK, Indices
<1>2. \A i \in Indices : delivery[i] # "none" => i <= Len(events)
  BY <1>1 DEF TypeOK
<1> QED
  BY <1>2 DEF TypeOK, RecordsOK

LEMMA UpsertTypes ==
  ASSUME TypeOK, NEW named \in SUBSET Repos, UpsertRepos(named)
  PROVE  /\ lastId' \in Nat /\ repos' \subseteq RepoRows
         /\ \A row \in repos' : row.id <= lastId'
         /\ repos \subseteq repos'
         /\ {row.repo : row \in repos'} = {row.repo : row \in repos} \union named
         /\ \A row \in repos' : row \in repos \/ row.repo \in named
<1> DEFINE new == named \ {r.repo : r \in repos}
           n == Cardinality(new)
<1>1. n \in Nat
  BY ReposOK, FS_Subset, FS_CardinalityType
<1>2. PICK ids \in [new -> lastId + 1 .. lastId + n] :
        /\ repos' = repos \union {[id |-> ids[r], repo |-> r] : r \in new}
        /\ lastId' = lastId + n
  BY DEF UpsertRepos
<1> HIDE DEF n
<1>3. lastId \in Nat /\ lastId' \in Nat /\ lastId <= lastId'
  BY <1>1, <1>2 DEF TypeOK
<1>4. \A r \in new : r \in Repos /\ ids[r] \in Nat /\ ids[r] <= lastId'
  BY <1>1, <1>2, <1>3
<1>5. repos' \subseteq RepoRows
  BY <1>2, <1>4 DEF TypeOK, RepoRows
<1>6. \A row \in repos' : row.id <= lastId'
  <2>1. \A row \in repos : row.id \in Nat /\ row.id <= lastId
    BY DEF TypeOK, RepoRows
  <2>2. \A row \in repos : row.id <= lastId'
    BY <1>3, <2>1
  <2> QED  BY <1>2, <1>4, <2>2
<1>7. {row.repo : row \in repos'} = {row.repo : row \in repos} \union named
  <2> DEFINE made == {[id |-> ids[r], repo |-> r] : r \in new}
  <2>1. \A r \in new : r \in {row.repo : row \in made}
    <3> SUFFICES ASSUME NEW r \in new
                 PROVE  \E row \in made : row.repo = r
      OBVIOUS
    <3> WITNESS [id |-> ids[r], repo |-> r] \in made
    <3> QED  OBVIOUS
  <2>2. \A row \in made : row.repo \in new
    OBVIOUS
  <2>3. repos' = repos \union made
    BY <1>2
  <2> HIDE DEF made
  <2> QED  BY <2>1, <2>2, <2>3
<1>8. \A row \in repos' : row \in repos \/ row.repo \in named
  BY <1>2
<1> QED  BY <1>2, <1>3, <1>5, <1>6, <1>7, <1>8

LEMMA HandledTypes ==
  ASSUME TypeOK, NEW i \in Indices \union {0}, Handled(i)
  PROVE  handled' \in Seq(Indices \union {0})
  BY DEF TypeOK, Handled

(* What GitHub grants and raises.                                          *)
LEMMA GrantTypes ==
  ASSUME TypeOK, ChangeOnGitHub
  PROVE  granted' \in [status : Statuses \union {"none"}, repos : SUBSET Repos]
<1>1. PICK status \in Statuses, held \in SUBSET Repos : Grant(status, held)
  <2>1. \E status \in {"active", "suspended", "revoked"}, held \in SUBSET Repos : Grant(status, held)
    BY DEF ChangeOnGitHub, Install, Suspend, Unsuspend, Uninstall, AddRepos, RemoveRepos, TypeOK
  <2> QED  BY <2>1 DEF Statuses
<1> QED  BY <1>1 DEF Grant

LEMMA TypeStep == TypeInv /\ [Next]_vars => TypeInv'
<1> SUFFICES ASSUME TypeInv, [Next]_vars PROVE TypeInv'
  OBVIOUS
<1> USE DEF TypeInv
<1>1. RecordsOK /\ RecordsOK'
  BY TypesGiveRecords, RecordsStep
<1>2. CASE ChangeOnGitHub
  <2>1. PICK u \in Users, kind \in Kinds, named \in SUBSET Repos : Raise(kind, named, u)
    <3>1. {"created", "suspend", "unsuspend", "deleted", "added", "removed"} \subseteq Kinds
      BY DEF Kinds
    <3> QED
      BY <1>2, <3>1 DEF ChangeOnGitHub, Install, Suspend, Unsuspend, Uninstall, AddRepos,
         RemoveRepos
  <2>2. Len(events) \in Nat /\ Len(events) < MaxEvents
        /\ events' = Append(events, [kind |-> kind, repos |-> named, sender |-> u])
    BY <2>1 DEF Raise, TypeOK
  <2>3. Len(events') = Len(events) + 1
    BY <2>2 DEF TypeOK
  <2>4. Len(events') <= MaxEvents
    BY <2>2, <2>3, BoundsOK
  <2>5. \A i \in Indices : i > Len(events') <=> delivery'[i] = "none"
    <3> SUFFICES ASSUME NEW i \in Indices
                 PROVE  i > Len(events') <=> delivery'[i] = "none"
      OBVIOUS
    <3>1. i \in Nat /\ (i > Len(events) <=> delivery[i] = "none")
      BY DEF TypeOK, Indices
    <3>2. delivery' = [delivery EXCEPT ![Len(events) + 1] = "sent"]
      BY <2>1 DEF Raise
    <3>3. CASE i = Len(events) + 1
      <4>1. delivery'[i] = "sent"
        BY <3>2, <3>3 DEF TypeOK
      <4> QED  BY <2>2, <2>3, <3>3, <4>1
    <3>4. CASE i # Len(events) + 1
      <4>1. delivery'[i] = delivery[i]
        BY <3>2, <3>4 DEF TypeOK
      <4>2. i > Len(events) + 1 <=> i > Len(events)
        BY <2>2, <3>1, <3>4
      <4> QED  BY <2>3, <3>1, <4>1, <4>2
    <3> QED  BY <3>3, <3>4
  <2>6. UNCHANGED <<redeliveries, registered, doomed, handled, installation, repos, lastId, scans, job>>
    BY <2>1 DEF Raise, catalog
  <2> QED
    BY <1>1, <1>2, <2>4, <2>5, <2>6, GrantTypes DEF TypeOK, RecordsOK
<1>3. ASSUME NEW u \in Users, Login(u) PROVE TypeInv'
  BY <1>3 DEF Login, TypeOK, github, webhook, catalog
<1>4. ASSUME NEW i \in Indices, Webhook(i) PROVE TypeInv'
  <2>1. UNCHANGED <<granted, events, registered, scans, job>>
    BY <1>4 DEF Webhook, Redeliver, ActivateInstallation, SetStatus, IgnoreSync, SyncAdded,
       CountScans, RemoveUnscanned, github
  <2>2. redeliveries' \in 0 .. MaxRedeliveries
    BY <1>4, BoundsOK DEF Webhook, Redeliver, ActivateInstallation, SetStatus, IgnoreSync, SyncAdded,
       CountScans, RemoveUnscanned, TypeOK
  <2>3. \E place \in {"sent", "removing", "over"} :
          delivery[i] # "none" /\ delivery' = [delivery EXCEPT ![i] = place]
    BY <1>4 DEF Webhook, Redeliver, ActivateInstallation, SetStatus, IgnoreSync, SyncAdded,
       CountScans, RemoveUnscanned, Delivered, Over
  <2>4. \A x \in Indices : x > Len(events') <=> delivery'[x] = "none"
    BY <2>1, <2>3 DEF TypeOK
  <2>5. doomed' \in [Indices -> SUBSET RepoRows]
    <3>1. \E rows \in SUBSET RepoRows : doomed' = [doomed EXCEPT ![i] = rows] \/ doomed' = doomed
      <4>1. CASE CountScans(i)
        BY <4>1 DEF CountScans, TypeOK
      <4>2. CASE ~CountScans(i)
        BY <1>4, <4>2 DEF Webhook, Redeliver, ActivateInstallation, SetStatus, IgnoreSync, SyncAdded,
           RemoveUnscanned, Over
      <4> QED  BY <4>1, <4>2
    <3> QED  BY <3>1 DEF TypeOK
  <2>6. handled' \in Seq(Indices \union {0})
    <3>1. handled' = handled \/ Handled(i) \/ Handled(0)
      BY <1>4 DEF Webhook, Redeliver, ActivateInstallation, SetStatus, IgnoreSync, SyncAdded,
         CountScans, RemoveUnscanned
    <3> QED  BY <3>1, HandledTypes DEF TypeOK
  <2>7. events[i] \in Events
    BY <1>1, <2>3, DeliveredIsAnEvent
  <2>8. lastId' \in Nat /\ repos' \subseteq RepoRows /\ \A row \in repos' : row.id <= lastId'
    <3>1. CASE UpsertRepos(events[i].repos)
      BY <2>7, <3>1, UpsertTypes DEF Events
    <3>2. CASE lastId' = lastId /\ repos' \subseteq repos
      BY <3>2 DEF TypeOK
    <3> QED
      BY <1>4, <3>1, <3>2 DEF Webhook, Redeliver, ActivateInstallation, SetStatus, IgnoreSync, SyncAdded,
         CountScans, RemoveUnscanned, catalog
  <2> QED
    BY <1>1, <2>1, <2>2, <2>4, <2>5, <2>6, <2>8 DEF TypeOK, RecordsOK
<1>5. ASSUME NEW j \in Jobs, ResolveTarget(j) PROVE TypeInv'
  <2>1. PICK row \in repos :
          job' = [job EXCEPT ![j] = [place |-> "scanning",
                    target |-> [row |-> row.id, user |-> installation.owner]]]
        /\ installation # NoInstallation
    BY <1>5 DEF ResolveTarget, AccessibleRows
  <2>2. [row |-> row.id, user |-> installation.owner] \in Targets
    BY <2>1 DEF TypeOK, RepoRows, Installed, Targets
  <2>3. UNCHANGED <<granted, events, redeliveries, delivery, doomed, handled, registered,
                    installation, repos, lastId, scans>>
    BY <1>5 DEF ResolveTarget, github, webhook, catalog
  <2> QED
    BY <2>1, <2>2, <2>3 DEF TypeOK
<1>6. ASSUME NEW j \in Jobs, PersistScan(j) PROVE TypeInv'
  <2>1. UNCHANGED <<granted, events, redeliveries, delivery, doomed, handled, registered,
                    installation, repos, lastId>>
    BY <1>6 DEF PersistScan, github, webhook, catalog
  <2>2. scans' \subseteq Targets /\ job' = [job EXCEPT ![j] = [place |-> "over", target |-> NoTarget]]
    BY <1>6 DEF PersistScan, TypeOK
  <2> QED
    BY <2>1, <2>2 DEF TypeOK
<1>7. CASE UNCHANGED vars
  BY <1>7 DEF vars, TypeOK
<1> QED
  BY <1>2, <1>3, <1>4, <1>5, <1>6, <1>7 DEF Next

LEMMA TypeInit == Init => TypeInv
<1> SUFFICES ASSUME Init PROVE TypeInv
  OBVIOUS
<1> USE BoundsOK DEF Init
<1>1. /\ granted \in [status : Statuses \union {"none"}, repos : SUBSET Repos]
      /\ events \in Seq(Events) /\ Len(events) = 0
      /\ redeliveries \in 0 .. MaxRedeliveries /\ registered \subseteq Users
  OBVIOUS
<1>2. /\ delivery \in [Indices -> {"none", "sent", "removing", "over"}]
      /\ \A i \in Indices : delivery[i] = "none" /\ i > 0
      /\ doomed \in [Indices -> SUBSET RepoRows]
      /\ handled \in Seq(Indices \union {0})
  BY DEF Indices
<1>3. /\ installation \in Installed \union {NoInstallation}
      /\ lastId \in Nat /\ repos = {} /\ scans = {}
      /\ job \in [Jobs -> [place : {"waiting", "scanning", "over"},
                           target : Targets \union {NoTarget}]]
      /\ \A j \in Jobs : job[j].place # "scanning"
  OBVIOUS
<1> QED
  BY <1>1, <1>2, <1>3 DEF TypeInv, TypeOK

LEMMA TypeInvariant == Spec => []TypeInv
  BY TypeInit, TypeStep, PTL DEF Spec

(* The tables, the deliveries and the scans keep their types, and no row   *)
(* has an id that was not given out.                                       *)
THEOREM InstallationsTyped == Spec => []TypeOK
<1>1. TypeInv => TypeOK
  BY DEF TypeInv
<1> QED
  BY <1>1, TypeInvariant, PTL

-----------------------------------------------------------------------------
(* R2.2.  g is what GitHub granted after each of its events.  As long as   *)
(* the events are handled in order, the tables say what GitHub granted     *)
(* after the last one handled, except for rows that a removal has found    *)
(* without scans and has yet to delete.                                    *)

Grants == [status : Statuses \union {"none"}, repos : SUBSET Repos]

Follows(e, g, h) ==
  \/ /\ e.kind = "created" /\ g.repos = {} /\ h.status = "active" /\ h.repos = e.repos
     /\ g.status = "none"
  \/ /\ e.kind = "suspend" /\ h.status = "suspended" /\ h.repos = g.repos
     /\ g.status = "active"
  \/ /\ e.kind = "unsuspend" /\ h.status = "active" /\ h.repos = g.repos
     /\ g.status = "suspended" /\ e.repos = {}
  \/ /\ e.kind = "deleted" /\ h.status = "revoked" /\ h.repos = g.repos
     /\ g.status \in {"active", "suspended"}
  \/ /\ e.kind = "added" /\ h.status = "active" /\ h.repos = g.repos \union e.repos
     /\ g.status = "active"
  \/ /\ e.kind = "removed" /\ h.status = "active" /\ h.repos = g.repos \ e.repos
     /\ g.status = "active"

History(g) ==
  /\ g \in [Nat -> Grants]
  /\ g[0] = [status |-> "none", repos |-> {}]
  /\ \A m \in 1 .. Len(events) : Follows(events[m], g[m - 1], g[m])
  /\ granted = g[Len(events)]
  /\ granted.status = "none" => granted.repos = {}

InOrder == \A k \in 1 .. Len(handled) : handled[k] = k

Doomed(row) == \E i \in Indices : delivery[i] = "removing" /\ row \in doomed[i]

Tables(g, m) ==
  /\ m > 0 <=> installation # NoInstallation
  /\ m > 0 => installation.status = g[m].status
  /\ \A r \in g[m].repos : \E row \in repos : row.repo = r
  /\ \A row \in repos : row.repo \in g[m].repos \/ HasScans(row) \/ Doomed(row)

Mirror(g) == InOrder => Len(handled) <= Len(events) /\ Tables(g, Len(handled))

(* A removal in the middle has been counted as handled.                    *)
RemovingOK ==
  \A i \in Indices : delivery[i] = "removing" =>
    /\ events[i].kind = "removed"
    /\ \A row \in doomed[i] : row.repo \in events[i].repos
    /\ \E k \in 1 .. Len(handled) : handled[k] = i

MirrorInv == TypeInv /\ RemovingOK /\ \E g : History(g) /\ Mirror(g)

LEMMA MirrorInit == Init => MirrorInv
<1> SUFFICES ASSUME Init PROVE MirrorInv
  OBVIOUS
<1> DEFINE none == [status |-> "none", repos |-> {}]
           g == [n \in Nat |-> none]
<1>1. TypeInv
  BY TypeInit
<1>2. RemovingOK
  BY DEF Init, RemovingOK
<1>3. none \in Grants
  BY DEF Grants
<1>4. History(g)
  BY <1>3 DEF Init, History
<1>5. Mirror(g)
  BY DEF Init, Mirror, Tables, InOrder
<1> HIDE DEF g
<1> QED  BY <1>1, <1>2, <1>4, <1>5 DEF MirrorInv

(* GitHub goes on: an event more.                                          *)
Raised(e) ==
  /\ events' = Append(events, e)
  /\ Follows(e, granted, granted')
  /\ granted'.status # "none"

Event(kind, named, u) == [kind |-> kind, repos |-> named, sender |-> u]

LEMMA WhatIsRaised ==
  ASSUME TypeInv, NEW g, History(g), ChangeOnGitHub
  PROVE  \E u \in Users, kind \in Kinds, named \in SUBSET Repos : Raised(Event(kind, named, u))
<1> USE DEF Raised, Event, Follows, Raise, Grant
<1>0. {"created", "suspend", "unsuspend", "deleted", "added", "removed"} \subseteq Kinds
  BY DEF Kinds
<1>1. ASSUME NEW u \in Users, NEW R \in SUBSET Repos, Install(u, R)
      PROVE  Raised(Event("created", R, u))
  BY <1>1 DEF Install, History
<1>2. ASSUME NEW u \in Users, Suspend(u)
      PROVE  Raised(Event("suspend", {}, u))
  BY <1>2 DEF Suspend
<1>3. ASSUME NEW u \in Users, Unsuspend(u)
      PROVE  Raised(Event("unsuspend", {}, u))
  BY <1>3 DEF Unsuspend
<1>4. ASSUME NEW u \in Users, Uninstall(u)
      PROVE  Raised(Event("deleted", {}, u))
  BY <1>4 DEF Uninstall
<1>5. ASSUME NEW u \in Users, NEW R \in SUBSET Repos, AddRepos(u, R)
      PROVE  Raised(Event("added", R, u))
  BY <1>5 DEF AddRepos
<1>6. ASSUME NEW u \in Users, NEW R \in SUBSET Repos, RemoveRepos(u, R)
      PROVE  Raised(Event("removed", R, u))
  BY <1>6 DEF RemoveRepos
<1> HIDE DEF Raised, Event, Follows, Raise, Grant
<1> QED
  BY <1>0, <1>1, <1>2, <1>3, <1>4, <1>5, <1>6 DEF ChangeOnGitHub

LEMMA HistoryGoesOn ==
  ASSUME TypeInv, NEW g, History(g), ChangeOnGitHub
  PROVE  \E h : History(h)' /\ \A m \in 0 .. Len(events) : h[m] = g[m]
<1> DEFINE n == Len(events) + 1
<1>0. PICK h : h = [g EXCEPT ![n] = granted']
  OBVIOUS
<1>1. PICK e : Raised(e)
  BY WhatIsRaised
<1>2. Len(events) \in Nat /\ Len(events') = n
  BY <1>1 DEF TypeInv, TypeOK, Raised
<1>3. events'[n] = e /\ \A m \in 1 .. Len(events) : events'[m] = events[m]
  BY <1>1, <1>2 DEF TypeInv, TypeOK, Raised
<1>4. granted' \in Grants
  BY GrantTypes DEF TypeInv, Grants
<1>5. /\ h \in [Nat -> Grants] /\ h[n] = granted'
      /\ \A m \in Nat : m # n => h[m] = g[m]
  BY <1>0, <1>2, <1>4 DEF History
<1>6. \A m \in 0 .. Len(events) : h[m] = g[m]
  BY <1>2, <1>5
<1>7. \A m \in 1 .. Len(events') : Follows(events'[m], h[m - 1], h[m])
  <2> SUFFICES ASSUME NEW m \in 1 .. Len(events')
               PROVE  Follows(events'[m], h[m - 1], h[m])
    OBVIOUS
  <2>1. CASE m = n
    <3>1. h[m - 1] = granted /\ h[m] = granted' /\ events'[m] = e
      BY <1>2, <1>3, <1>5, <1>6, <2>1 DEF History
    <3> QED  BY <1>1, <3>1 DEF Raised
  <2>2. CASE m # n
    <3>1. m \in 1 .. Len(events) /\ m - 1 \in 0 .. Len(events) /\ m \in 0 .. Len(events)
      BY <1>2, <2>2
    <3>2. h[m - 1] = g[m - 1] /\ h[m] = g[m] /\ events'[m] = events[m]
      BY <1>3, <1>6, <3>1
    <3> QED  BY <3>1, <3>2 DEF History
  <2> QED  BY <2>1, <2>2
<1>8. h[0] = [status |-> "none", repos |-> {}]
  <2>1. 0 \in Nat /\ 0 # n
    BY <1>2
  <2> QED  BY <1>5, <2>1 DEF History
<1>9. History(h)'
  BY <1>1, <1>2, <1>5, <1>7, <1>8 DEF History, Raised
<1> QED  BY <1>6, <1>9

(* Event i has just been handled, in its turn or once more.                *)
Turn(g, i) ==
  /\ InOrder /\ Len(handled') = i /\ i \in 1 .. Len(events)
  /\ Len(handled) = i \/ Len(handled) = i - 1
  /\ Follows(events[i], g[i - 1], g[i])
  /\ Tables(g, Len(handled))

LEMMA Handling ==
  ASSUME TypeInv, NEW g, History(g), Mirror(g),
         NEW i \in Indices, delivery[i] # "none", Handled(i), InOrder'
  PROVE  Turn(g, i)
<1>1. /\ handled \in Seq(Indices \union {0}) /\ Len(handled) \in Nat /\ i \in Nat /\ i > 0
      /\ Len(events) \in Nat
  BY DEF TypeInv, TypeOK, Indices
<1>2. InOrder /\ Len(handled') = i /\ (Len(handled) = i \/ Len(handled) = i - 1)
  <2>1. CASE handled' = handled /\ handled # <<>> /\ handled[Len(handled)] = i
    <3>1. Len(handled) \in 1 .. Len(handled)
      BY <1>1, <2>1
    <3> QED  BY <1>1, <2>1, <3>1 DEF InOrder
  <2>2. CASE handled' = Append(handled, i)
    <3>1. Len(handled') = Len(handled) + 1 /\ handled'[Len(handled) + 1] = i
          /\ \A k \in 1 .. Len(handled) : handled'[k] = handled[k]
      BY <1>1, <2>2
    <3>2. i = Len(handled) + 1
      BY <1>1, <3>1 DEF InOrder
    <3>3. InOrder
      BY <1>1, <3>1 DEF InOrder
    <3> QED  BY <1>1, <3>1, <3>2, <3>3
  <2> QED  BY <2>1, <2>2 DEF Handled
<1>3. i <= Len(events)
  BY TypesGiveRecords DEF TypeInv, RecordsOK
<1> QED
  BY <1>1, <1>2, <1>3 DEF History, Mirror, Turn

LEMMA HandledGrows ==
  ASSUME TypeInv, NEW i \in Indices \union {0}, Handled(i)
  PROVE  /\ \A k \in 1 .. Len(handled) : k \in 1 .. Len(handled') /\ handled'[k] = handled[k]
         /\ \E k \in 1 .. Len(handled') : handled'[k] = i
<1>1. handled \in Seq(Indices \union {0}) /\ Len(handled) \in Nat
  BY DEF TypeInv, TypeOK
<1>2. CASE handled' = handled /\ handled # <<>> /\ handled[Len(handled)] = i
  <2>1. Len(handled) \in 1 .. Len(handled)
    BY <1>1, <1>2
  <2> QED  BY <1>2, <2>1
<1>3. CASE handled' = Append(handled, i)
  <2>1. Len(handled') = Len(handled) + 1 /\ handled'[Len(handled) + 1] = i
        /\ \A k \in 1 .. Len(handled) : handled'[k] = handled[k]
    BY <1>1, <1>3
  <2>2. Len(handled) + 1 \in 1 .. Len(handled')
    BY <1>1, <2>1
  <2> QED  BY <1>1, <2>1, <2>2
<1> QED  BY <1>2, <1>3 DEF Handled

LEMMA RemovingStep ==
  ASSUME TypeInv, RemovingOK, [Next]_vars
  PROVE  RemovingOK'
<1>1. CASE ChangeOnGitHub
  <2>1. PICK u \in Users, kind \in Kinds, named \in SUBSET Repos : Raise(kind, named, u)
    <3>1. {"created", "suspend", "unsuspend", "deleted", "added", "removed"} \subseteq Kinds
      BY DEF Kinds
    <3> QED
      BY <1>1, <3>1 DEF ChangeOnGitHub, Install, Suspend, Unsuspend, Uninstall, AddRepos,
         RemoveRepos
  <2>2. /\ events' = Append(events, [kind |-> kind, repos |-> named, sender |-> u])
        /\ delivery' = [delivery EXCEPT ![Len(events) + 1] = "sent"]
        /\ UNCHANGED <<doomed, handled>>
    BY <2>1 DEF Raise
  <2>3. \A i \in Indices : delivery'[i] = "removing" =>
          delivery[i] = "removing" /\ events'[i] = events[i]
    <3> SUFFICES ASSUME NEW i \in Indices, delivery'[i] = "removing"
                 PROVE  delivery[i] = "removing" /\ events'[i] = events[i]
      OBVIOUS
    <3>1. delivery[i] = "removing"
      BY <2>2 DEF TypeInv, TypeOK
    <3>2. i <= Len(events) /\ i \in Nat /\ i > 0 /\ Len(events) \in Nat
      BY <3>1, TypesGiveRecords DEF TypeInv, RecordsOK, Indices
    <3> QED  BY <2>2, <3>1, <3>2 DEF TypeInv, TypeOK
  <2> QED  BY <2>2, <2>3 DEF RemovingOK
<1>2. ASSUME NEW i \in Indices, CountScans(i) PROVE RemovingOK'
  <2>1. /\ events[i].kind = "removed" /\ events' = events
        /\ delivery' = [delivery EXCEPT ![i] = "removing"]
        /\ doomed' = [doomed EXCEPT ![i] =
                        {row \in repos : row.repo \in events[i].repos /\ ~HasScans(row)}]
        /\ Handled(i)
    BY <1>2 DEF CountScans, Delivered, github
  <2>2. \A row \in doomed'[i] : row.repo \in events[i].repos
    BY <2>1 DEF TypeInv, TypeOK
  <2>3. \A x \in Indices : x # i => delivery'[x] = delivery[x] /\ doomed'[x] = doomed[x]
    BY <2>1 DEF TypeInv, TypeOK
  <2>4. /\ \A k \in 1 .. Len(handled) : k \in 1 .. Len(handled') /\ handled'[k] = handled[k]
        /\ \E k \in 1 .. Len(handled') : handled'[k] = i
    BY <2>1, HandledGrows
  <2> QED  BY <2>1, <2>2, <2>3, <2>4 DEF RemovingOK
<1>3. ASSUME NEW i \in Indices, Webhook(i), ~CountScans(i) PROVE RemovingOK'
  <2>1. /\ events' = events
        /\ \E place \in {"sent", "over"} : delivery' = [delivery EXCEPT ![i] = place]
        /\ doomed' = [doomed EXCEPT ![i] = {}] \/ doomed' = doomed
        /\ handled' = handled \/ Handled(i) \/ Handled(0)
    BY <1>3 DEF Webhook, Redeliver, ActivateInstallation, SetStatus, IgnoreSync, SyncAdded,
       RemoveUnscanned, Over, github
  <2>2. \A x \in Indices : delivery'[x] = "removing" =>
          x # i /\ delivery[x] = "removing" /\ doomed'[x] = doomed[x]
    BY <2>1 DEF TypeInv, TypeOK
  <2>3. \A k \in 1 .. Len(handled) : k \in 1 .. Len(handled') /\ handled'[k] = handled[k]
    BY <2>1, HandledGrows
  <2> QED  BY <2>1, <2>2, <2>3 DEF RemovingOK
<1>4. CASE UNCHANGED <<events, delivery, doomed, handled>>
  BY <1>4 DEF RemovingOK
<1> QED
  BY <1>1, <1>2, <1>3, <1>4 DEF Next, vars, Login, ResolveTarget, PersistScan, github, webhook

(* What a step leaves alone of the tables.                                 *)
LEMMA MirrorStays ==
  ASSUME TypeInv, NEW g, History(g), Mirror(g), NEW h,
         \A m \in 0 .. Len(events) : h[m] = g[m],
         Len(events) <= Len(events'), Len(events') \in Nat,
         UNCHANGED <<handled, installation, repos>>, scans \subseteq scans',
         \A i \in Indices : delivery[i] = "removing" =>
           delivery'[i] = "removing" /\ doomed'[i] = doomed[i]
  PROVE  Mirror(h)'
<1> SUFFICES ASSUME InOrder'
             PROVE  Len(handled') <= Len(events') /\ Tables(h, Len(handled))'
  BY DEF Mirror
<1>1. InOrder
  BY DEF InOrder
<1>2. Len(handled) \in Nat /\ Len(events) \in Nat /\ Len(handled) <= Len(events)
  BY <1>1 DEF Mirror, TypeInv, TypeOK
<1>3. Len(handled') <= Len(events')
  BY <1>2
<1>4. h[Len(handled)] = g[Len(handled)] /\ Tables(g, Len(handled))
  BY <1>1, <1>2 DEF Mirror
<1>5. \A row \in repos : (HasScans(row) => HasScans(row)') /\ (Doomed(row) => Doomed(row)')
  BY DEF HasScans, Doomed
<1> QED  BY <1>3, <1>4, <1>5 DEF Tables

(* The rows after an upsert.                                               *)
LEMMA UpsertMirrors ==
  ASSUME TypeInv, NEW named \in SUBSET Repos, UpsertRepos(named)
  PROVE  /\ \A r \in named : \E row \in repos' : row.repo = r
         /\ \A row \in repos : row \in repos'
         /\ \A row \in repos' : row \in repos \/ row.repo \in named
<1>1. /\ {row.repo : row \in repos'} = {row.repo : row \in repos} \union named
      /\ repos \subseteq repos' /\ \A row \in repos' : row \in repos \/ row.repo \in named
  BY UpsertTypes DEF TypeInv
<1> QED  BY <1>1

(* The handlers, in turn.  A delivery that waits is in no removal.          *)
LEMMA DoomedStays ==
  ASSUME TypeInv, NEW i \in Indices, delivery[i] = "sent", Over(i)
  PROVE  \A row : Doomed(row) => Doomed(row)'
  BY DEF TypeInv, TypeOK, Over, Doomed

LEMMA ActivateMirrors ==
  ASSUME TypeInv, NEW g, NEW i \in Indices, ActivateInstallation(i), Turn(g, i),
         events[i].sender \in registered
  PROVE  Tables(g, i)'
<1> DEFINE e == events[i]
           m == Len(handled)
<1>1. /\ e.kind \in {"created", "unsuspend"} /\ delivery[i] = "sent" /\ Over(i)
      /\ installation' = [owner |-> OwnerAfterUpsert(e.sender), status |-> "active"]
      /\ UpsertRepos(e.repos) /\ UNCHANGED scans
  BY DEF ActivateInstallation, Delivered, StatusAfterUpsert, Turn
<1>2. e \in Events
  BY <1>1, DeliveredIsAnEvent, TypesGiveRecords DEF TypeInv
<1>3. /\ \A r \in e.repos : \E row \in repos' : row.repo = r
      /\ \A row \in repos : row \in repos'
      /\ \A row \in repos' : row \in repos \/ row.repo \in e.repos
  BY <1>1, <1>2, UpsertMirrors DEF Events
<1>4. installation' # NoInstallation /\ installation'.status = g[i].status /\ i > 0
  <2>1. g[i].status = "active"
    BY <1>1 DEF Turn, Follows
  <2>2. installation' \in Installed
    BY TypesGiveRecords, RecordsStep, <1>1, <1>2 DEF TypeInv, TypeOK, OwnerAfterUpsert, Installed,
       Statuses, Events
  <2> QED  BY <1>1, <2>1, <2>2, SentinelsOK DEF Turn
<1>5. g[i].repos \subseteq g[m].repos \union e.repos /\ e.repos \subseteq g[i].repos
  BY <1>1 DEF Turn, Follows
<1>6. g[m].repos \subseteq g[i].repos
  BY <1>1 DEF Turn, Follows
<1>7. \A r \in g[i].repos : \E row \in repos' : row.repo = r
  BY <1>3, <1>5 DEF Turn, Tables
<1>8. \A row \in repos' : row.repo \in g[i].repos \/ HasScans(row)' \/ Doomed(row)'
  <2>1. \A row : (HasScans(row) => HasScans(row)') /\ (Doomed(row) => Doomed(row)')
    BY <1>1, DoomedStays DEF HasScans
  <2> QED  BY <1>3, <1>5, <1>6, <2>1 DEF Turn, Tables
<1> QED  BY <1>4, <1>7, <1>8 DEF Tables

LEMMA StatusMirrors ==
  ASSUME TypeInv, NEW g, NEW i \in Indices, SetStatus(i), Turn(g, i),
         installation # NoInstallation
  PROVE  Tables(g, i)'
<1> DEFINE e == events[i]
           m == Len(handled)
<1>1. /\ e.kind \in {"deleted", "suspend"} /\ delivery[i] = "sent" /\ Over(i)
      /\ installation' = [installation EXCEPT !.status = StatusFor(e.kind)]
      /\ UNCHANGED <<repos, scans>>
  BY DEF SetStatus, Delivered
<1>2. installation' # NoInstallation /\ installation'.status = g[i].status /\ i > 0
  <2>1. g[i].status = StatusFor(e.kind)
    BY <1>1 DEF Turn, Follows, StatusFor
  <2>2. installation' \in Installed /\ installation'.status = StatusFor(e.kind)
    BY <1>1 DEF TypeInv, TypeOK, Installed, StatusFor, Statuses
  <2> QED  BY <2>1, <2>2, SentinelsOK DEF Turn
<1>3. g[i].repos = g[m].repos
  BY <1>1 DEF Turn, Follows
<1>4. \A row : (HasScans(row) => HasScans(row)') /\ (Doomed(row) => Doomed(row)')
  BY <1>1, DoomedStays DEF HasScans
<1> QED  BY <1>1, <1>2, <1>3, <1>4 DEF Tables, Turn

(* Repositories are added and removed while the installation is active.    *)
LEMMA StillActive ==
  ASSUME TypeInv, NEW g, NEW i \in Indices, Turn(g, i), events[i].kind \in {"added", "removed"},
         installation # NoInstallation, UNCHANGED installation
  PROVE  i > 0 /\ installation' # NoInstallation /\ installation'.status = g[i].status
<1>1. g[i].status = "active" /\ g[i - 1].status = "active"
  BY DEF Turn, Follows
<1>2. Len(handled) > 0 /\ installation.status = g[Len(handled)].status /\ i > 0
  BY DEF Turn, Tables
<1> QED  BY <1>1, <1>2 DEF Turn

LEMMA AddedMirrors ==
  ASSUME TypeInv, NEW g, NEW i \in Indices, SyncAdded(i), Turn(g, i)
  PROVE  Tables(g, i)'
<1> DEFINE e == events[i]
           m == Len(handled)
<1>1. /\ e.kind = "added" /\ delivery[i] = "sent" /\ Over(i) /\ UpsertRepos(e.repos)
      /\ installation # NoInstallation /\ UNCHANGED <<installation, scans>>
  BY DEF SyncAdded, Delivered
<1>2. e \in Events
  BY <1>1, DeliveredIsAnEvent, TypesGiveRecords DEF TypeInv
<1>3. /\ \A r \in e.repos : \E row \in repos' : row.repo = r
      /\ \A row \in repos : row \in repos'
      /\ \A row \in repos' : row \in repos \/ row.repo \in e.repos
  BY <1>1, <1>2, UpsertMirrors DEF Events
<1>4. i > 0 /\ installation' # NoInstallation /\ installation'.status = g[i].status
  BY <1>1, StillActive
<1>5. /\ g[i].repos \subseteq g[m].repos \union e.repos
      /\ e.repos \subseteq g[i].repos /\ g[m].repos \subseteq g[i].repos
  BY <1>1 DEF Turn, Follows
<1>6. \A row : (HasScans(row) => HasScans(row)') /\ (Doomed(row) => Doomed(row)')
  BY <1>1, DoomedStays DEF HasScans
<1>7. \A r \in g[i].repos : \E row \in repos' : row.repo = r
  BY <1>3, <1>5 DEF Turn, Tables
<1>8. \A row \in repos' : row.repo \in g[i].repos \/ HasScans(row)' \/ Doomed(row)'
  BY <1>3, <1>5, <1>6 DEF Turn, Tables
<1> QED  BY <1>4, <1>7, <1>8 DEF Tables

LEMMA CountMirrors ==
  ASSUME TypeInv, NEW g, NEW i \in Indices, CountScans(i), Turn(g, i)
  PROVE  Tables(g, i)'
<1> DEFINE e == events[i]
           m == Len(handled)
<1>1. /\ e.kind = "removed" /\ delivery[i] = "sent"
      /\ delivery' = [delivery EXCEPT ![i] = "removing"]
      /\ doomed' = [doomed EXCEPT ![i] = {row \in repos : row.repo \in e.repos /\ ~HasScans(row)}]
      /\ installation # NoInstallation /\ UNCHANGED <<installation, repos, scans>>
  BY DEF CountScans, Delivered, catalog
<1>2. i > 0 /\ installation' # NoInstallation /\ installation'.status = g[i].status
  BY <1>1, StillActive
<1>3. g[m].repos \subseteq g[i].repos \union e.repos /\ g[i].repos \subseteq g[m].repos
  BY <1>1 DEF Turn, Follows
<1>4. \A row : (HasScans(row) => HasScans(row)') /\ (Doomed(row) => Doomed(row)')
  BY <1>1 DEF TypeInv, TypeOK, HasScans, Doomed
<1>5. \A row \in repos : row.repo \in e.repos => HasScans(row) \/ Doomed(row)'
  BY <1>1 DEF TypeInv, TypeOK, Doomed
<1>6. \A row \in repos' : row.repo \in g[i].repos \/ HasScans(row)' \/ Doomed(row)'
  BY <1>1, <1>3, <1>4, <1>5 DEF Turn, Tables
<1>7. \A r \in g[i].repos : \E row \in repos' : row.repo = r
  BY <1>1, <1>3 DEF Turn, Tables
<1> QED  BY <1>2, <1>6, <1>7 DEF Tables

(* A removal is only ever finished as the last event handled: otherwise    *)
(* the events are out of order from then on.                               *)
LEMMA RemoveMirrors ==
  ASSUME TypeInv, RemovingOK, NEW g, NEW i \in Indices, RemoveUnscanned(i), Turn(g, i),
         ~Referenced(doomed[i])
  PROVE  Tables(g, i)'
<1> DEFINE e == events[i]
           m == Len(handled)
<1>1. /\ delivery[i] = "removing" /\ Over(i) /\ repos' = repos \ doomed[i]
      /\ UNCHANGED <<installation, scans>>
  BY DEF RemoveUnscanned
<1>2. /\ e.kind = "removed" /\ \A row \in doomed[i] : row.repo \in e.repos
      /\ \E k \in 1 .. Len(handled) : handled[k] = i
  BY <1>1 DEF RemovingOK
<1>3. m = i
  <2>1. PICK k \in 1 .. Len(handled) : handled[k] = i
    BY <1>2
  <2>2. k = i /\ i <= m /\ m \in Nat
    BY <2>1 DEF Turn, InOrder, TypeInv, TypeOK
  <2> QED  BY <2>2 DEF Turn
<1>4. g[i].repos \intersect e.repos = {}
  BY <1>2 DEF Turn, Follows
<1>5. installation # NoInstallation /\ installation.status = g[i].status /\ i > 0
  BY <1>3 DEF Turn, Tables
<1>6. \A row : HasScans(row) => HasScans(row)'
  BY <1>1 DEF HasScans
<1>7. \A row : Doomed(row) => row \in doomed[i] \/ Doomed(row)'
  BY <1>1 DEF TypeInv, TypeOK, Over, Doomed
<1>8. \A r \in g[i].repos : \E row \in repos' : row.repo = r
  BY <1>1, <1>2, <1>3, <1>4 DEF Turn, Tables
<1>9. \A row \in repos' : row.repo \in g[i].repos \/ HasScans(row)' \/ Doomed(row)'
  BY <1>1, <1>3, <1>6, <1>7 DEF Turn, Tables
<1> QED  BY <1>1, <1>5, <1>8, <1>9 DEF Tables

LEMMA WebhookMirrors ==
  ASSUME TypeInv, RemovingOK, NEW g, History(g), Mirror(g), NEW i \in Indices, Webhook(i)
  PROVE  Mirror(g)'
<1>1. UNCHANGED <<events, granted, scans>> /\ delivery[i] # "none"
  BY DEF Webhook, Redeliver, ActivateInstallation, SetStatus, IgnoreSync, SyncAdded,
     CountScans, RemoveUnscanned, Delivered, github
<1>2. CASE UNCHANGED <<handled, installation, repos>>
           /\ \A x \in Indices : delivery[x] = "removing" =>
                delivery'[x] = "removing" /\ doomed'[x] = doomed[x]
  <2>1. Len(events') \in Nat /\ Len(events) <= Len(events')
    BY <1>1 DEF TypeInv, TypeOK
  <2> QED  BY <1>1, <1>2, <2>1, MirrorStays
<1>3. ASSUME Handled(i), Turn(g, i) => Tables(g, i)'
      PROVE  Mirror(g)'
  <2> SUFFICES ASSUME InOrder'
               PROVE  Len(handled') <= Len(events') /\ Tables(g, Len(handled))'
    BY DEF Mirror
  <2>1. Turn(g, i)
    BY <1>1, <1>3, Handling
  <2> QED  BY <1>1, <1>3, <2>1 DEF Turn
<1>4. ASSUME Over(i), delivery[i] = "sent", UNCHANGED <<handled, installation, repos>>
      PROVE  Mirror(g)'
  <2>1. \A x \in Indices : delivery[x] = "removing" =>
          delivery'[x] = "removing" /\ doomed'[x] = doomed[x]
    BY <1>4 DEF Over, TypeInv, TypeOK
  <2> QED  BY <1>2, <1>4, <2>1
<1>5. CASE Redeliver(i)
  <2>1. \A x \in Indices : delivery[x] = "removing" =>
          delivery'[x] = "removing" /\ doomed'[x] = doomed[x]
    BY <1>5 DEF Redeliver, TypeInv, TypeOK
  <2> QED  BY <1>2, <1>5, <2>1 DEF Redeliver, catalog
<1>6. CASE ActivateInstallation(i)
  <2>1. CASE events[i].sender \in registered
    BY <1>3, <1>6, <2>1, ActivateMirrors DEF ActivateInstallation
  <2>2. CASE events[i].sender \notin registered
    BY <1>4, <1>6, <2>2 DEF ActivateInstallation, Delivered, catalog
  <2> QED  BY <2>1, <2>2
<1>7. CASE SetStatus(i)
  <2>1. CASE installation # NoInstallation
    BY <1>3, <1>7, <2>1, StatusMirrors DEF SetStatus
  <2>2. CASE installation = NoInstallation
    BY <1>4, <1>7, <2>2 DEF SetStatus, Delivered
  <2> QED  BY <2>1, <2>2
<1>8. CASE IgnoreSync(i)
  BY <1>4, <1>8 DEF IgnoreSync, Delivered, catalog
<1>9. CASE SyncAdded(i)
  BY <1>3, <1>9, AddedMirrors DEF SyncAdded
<1>10. CASE CountScans(i)
  BY <1>3, <1>10, CountMirrors DEF CountScans
<1>11. CASE RemoveUnscanned(i)
  <2>1. CASE ~Referenced(doomed[i])
    BY <1>3, <1>11, <2>1, RemoveMirrors DEF RemoveUnscanned
  <2>2. CASE Referenced(doomed[i])
    <3>1. Handled(0)
      BY <1>11, <2>2 DEF RemoveUnscanned
    <3>2. PICK k \in 1 .. Len(handled') : handled'[k] = 0
      BY <3>1, HandledGrows
    <3>3. k # 0 /\ ~InOrder'
      BY <3>2 DEF InOrder
    <3> QED  BY <3>3 DEF Mirror
  <2> QED  BY <2>1, <2>2
<1> QED
  BY <1>5, <1>6, <1>7, <1>8, <1>9, <1>10, <1>11 DEF Webhook

LEMMA MirrorStep == MirrorInv /\ [Next]_vars => MirrorInv'
<1> SUFFICES ASSUME MirrorInv, [Next]_vars PROVE MirrorInv'
  OBVIOUS
<1>1. TypeInv /\ RemovingOK /\ TypeInv' /\ RemovingOK'
  BY TypeStep, RemovingStep DEF MirrorInv
<1>2. PICK g : History(g) /\ Mirror(g)
  BY DEF MirrorInv
<1>3. Len(events) \in Nat /\ Len(events') \in Nat
  BY <1>1 DEF TypeInv, TypeOK
<1>4. CASE ChangeOnGitHub
  <2>1. PICK h : History(h)' /\ \A m \in 0 .. Len(events) : h[m] = g[m]
    BY <1>1, <1>2, <1>4, HistoryGoesOn
  <2>2. PICK u, kind, named : Raise(kind, named, u)
    BY <1>4 DEF ChangeOnGitHub, Install, Suspend, Unsuspend, Uninstall, AddRepos, RemoveRepos
  <2>3. Len(events) <= Len(events')
    BY <1>1, <1>3, <2>2 DEF Raise, TypeInv, TypeOK
  <2>4. \A i \in Indices : delivery[i] = "removing" =>
          delivery'[i] = "removing" /\ doomed'[i] = doomed[i]
    <3> SUFFICES ASSUME NEW i \in Indices, delivery[i] = "removing"
                 PROVE  delivery'[i] = "removing" /\ doomed'[i] = doomed[i]
      OBVIOUS
    <3>1. i <= Len(events) /\ i \in Nat
      BY <1>1, TypesGiveRecords DEF TypeInv, RecordsOK, Indices
    <3> QED  BY <1>1, <1>3, <2>2, <3>1 DEF Raise, TypeInv, TypeOK
  <2>5. Mirror(h)'
    BY <1>1, <1>2, <1>3, <2>1, <2>2, <2>3, <2>4, MirrorStays DEF Raise, catalog
  <2> QED  BY <1>1, <2>1, <2>5 DEF MirrorInv
<1>5. ASSUME NEW i \in Indices, Webhook(i) PROVE MirrorInv'
  <2>1. Mirror(g)'
    BY <1>1, <1>2, <1>5, WebhookMirrors
  <2>2. UNCHANGED <<events, granted>>
    BY <1>5 DEF Webhook, Redeliver, ActivateInstallation, SetStatus, IgnoreSync, SyncAdded,
       CountScans, RemoveUnscanned, github
  <2>3. History(g)'
    BY <1>2, <2>2 DEF History
  <2> QED  BY <1>1, <2>1, <2>3 DEF MirrorInv
<1>6. ASSUME UNCHANGED <<events, granted, delivery, doomed, handled, installation, repos>>,
             scans \subseteq scans'
      PROVE  MirrorInv'
  <2>1. Mirror(g)'
    BY <1>1, <1>2, <1>3, <1>6, MirrorStays
  <2>2. History(g)'
    BY <1>2, <1>6 DEF History
  <2> QED  BY <1>1, <2>1, <2>2 DEF MirrorInv
<1>7. ASSUME NEW u \in Users, Login(u) PROVE MirrorInv'
  BY <1>6, <1>7 DEF Login, github, webhook, catalog
<1>8. ASSUME NEW j \in Jobs, ResolveTarget(j) \/ PersistScan(j) PROVE MirrorInv'
  BY <1>6, <1>8 DEF ResolveTarget, PersistScan, github, webhook, catalog
<1>9. CASE UNCHANGED vars
  BY <1>6, <1>9 DEF vars
<1> QED
  BY <1>4, <1>5, <1>7, <1>8, <1>9 DEF Next

(* Whatever is installed, suspended, added, removed, scanned or sent twice,*)
(* events handled in their order leave the tables as GitHub has it.        *)
THEOREM TablesMirrorGitHub == Spec => []MirrorsGitHub
<1>1. MirrorInv => MirrorsGitHub
  <2> SUFFICES ASSUME MirrorInv, HandledInOrder, events # <<>>
               PROVE  /\ installation # NoInstallation /\ installation.status = granted.status
                      /\ granted.repos \subseteq {row.repo : row \in repos}
                      /\ \A row \in repos : row.repo \in granted.repos \/ HasScans(row)
    BY DEF MirrorsGitHub
  <2>1. PICK g : History(g) /\ Mirror(g)
    BY DEF MirrorInv
  <2>2. Len(events) \in Nat /\ Len(events) > 0
    BY DEF MirrorInv, TypeInv, TypeOK
  <2>3. InOrder /\ Len(handled) = Len(events)
    BY <2>2 DEF HandledInOrder, InOrder
  <2>4. Tables(g, Len(events)) /\ granted = g[Len(events)]
    BY <2>1, <2>3 DEF Mirror, History
  <2>5. \A row : ~Doomed(row)
    <3> SUFFICES ASSUME NEW i \in Indices PROVE delivery[i] # "removing"
      BY DEF Doomed
    <3>1. i \in Nat /\ i > 0
      BY DEF Indices
    <3> QED  BY <2>2, <3>1 DEF HandledInOrder, MirrorInv, TypeInv, TypeOK
  <2> QED  BY <2>2, <2>4, <2>5 DEF Tables
<1> QED
  BY <1>1, MirrorInit, MirrorStep, PTL DEF Spec

=============================================================================
