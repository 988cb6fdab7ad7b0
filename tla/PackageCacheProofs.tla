-------------------------- MODULE PackageCacheProofs --------------------------
(***************************************************************************)
(* Proofs about PackageCache, for any attempts, versions, window, interval *)
(* and budgets.                                                            *)
(*                                                                         *)
(* That a package is reused in time rests on AgedAlong: an entry is at     *)
(* least as old as the time its version has been superseded for, less what *)
(* the answer that named it the latest took, because it is dated by the    *)
(* arrival of that answer.  That is the argument in the comment on         *)
(* is_stale, with the answer's time put in.                                *)
(***************************************************************************)
EXTENDS PackageCache, WellFoundedInduction, TLAPS

VersionChosen ==
    launch.pc \notin { "idle", "ensure", "catalog" } => launch.version \in Versions

AgedAlong ==
    /\ \A v \in Versions : v >= published => outdated[v] = 0
    /\ \A v \in Versions : v \in Installed => outdated[v] <= entry[v].age + REQUEST_TIMEOUT
    /\ launch.pc = "answer" => outdated[launch.version] <= launch.stamp /\ launch.stamp <= REQUEST_TIMEOUT
    /\ launch.pc = "download" => outdated[launch.version] <= launch.stamp + REQUEST_TIMEOUT

IInv == TypeOK /\ VersionChosen /\ AgedAlong

-----------------------------------------------------------------------------
(* The newest entry exists. *)

LEMMA LeastNatural ==
    ASSUME NEW T \in SUBSET Nat, T # {}
    PROVE  \E x \in T : \A y \in T : x <= y
<1>1. PICK x \in T : \A y \in T : ~(<<y, x>> \in OpToRel(<, Nat))
  BY NatLessThanWellFounded, WFMin, Zenon
<1>2. ASSUME NEW y \in T
      PROVE  x <= y
  <2>1. ~(<<y, x>> \in { ss \in Nat \X Nat : ss[1] < ss[2] })
    BY <1>1, Zenon DEF OpToRel
  <2> QED BY <2>1
<1> QED BY <1>2

\* A cache that is not empty has an entry installed last.
LEMMA NewestIsInstalled ==
    ASSUME TypeOK, Installed # {}
    PROVE  NewestInstalled \in Installed
<1> DEFINE ages == { entry[v].age : v \in Installed }
<1>1. \A v \in Installed : v \in Versions /\ entry[v].age \in Nat
  BY PackageCacheAssumption DEF Installed, TypeOK, Entry, Ages
<1>2. PICK least \in ages : \A y \in ages : least <= y
  <2>1. ages \in SUBSET Nat /\ ages # {}
    BY <1>1
  <2> HIDE DEF ages
  <2> QED BY <2>1, LeastNatural
<1> DEFINE youngest == { v \in Installed : entry[v].age = least }
<1> DEFINE ranks == { MaxVersion - v : v \in youngest }
<1>3. PICK rank \in ranks : \A y \in ranks : rank <= y
  <2>1. ranks \in SUBSET Nat /\ ranks # {}
    BY <1>1, <1>2, PackageCacheAssumption DEF Versions
  <2> HIDE DEF ranks
  <2> QED BY <2>1, LeastNatural
<1>4. PICK v \in youngest : rank = MaxVersion - v
  BY <1>3
<1>5. ASSUME NEW w \in Installed
      PROVE  entry[v].age < entry[w].age \/ (entry[v].age = entry[w].age /\ v >= w)
  <2>1. least <= entry[w].age /\ entry[v].age = least
    BY <1>2, <1>4
  <2>2. CASE entry[w].age = least
    <3>1. MaxVersion - v <= MaxVersion - w
      BY <1>3, <1>4, <2>2
    <3> QED BY <1>1, <2>1, <2>2, <3>1, PackageCacheAssumption DEF Versions
  <2>3. CASE entry[w].age # least
    BY <1>1, <2>1, <2>3
  <2> QED BY <2>2, <2>3
<1>6. v \in Installed
  BY <1>4
<1> QED BY <1>5, <1>6, Zenon DEF NewestInstalled

-----------------------------------------------------------------------------
(* Steps shared by several actions. *)

Attempt == [ Attempts -> { "none", "starting", "running", "concluded" } ]

LEMMA LaunchAtTyped ==
    ASSUME NEW step \in Steps, NEW a \in Attempts \cup { None }, NEW issued \in 0 .. MAX_ATTEMPTS
    PROVE  LaunchAt(step, a, issued) \in Launch /\ LaunchAt(step, a, issued).pc = step
BY PackageCacheAssumption DEF LaunchAt, Launch, None, Ages

LEMMA NoLaunchTyped == NoLaunch \in Launch /\ NoLaunch.pc = "idle"
BY LaunchAtTyped, PackageCacheAssumption DEF NoLaunch, Steps

LEMMA FailMaterializeTyped ==
    ASSUME TypeOK, FailMaterialize
    PROVE  launch' \in Launch /\ attempt' \in Attempt /\ launch'.pc \in { "idle", "ensure" }
<1>1. CASE launch' = NoLaunch /\ attempt' = [ attempt EXCEPT ![launch.attempt] = "concluded" ]
  BY <1>1, NoLaunchTyped DEF TypeOK, Attempt
<1>2. CASE /\ launch.issued < MAX_ATTEMPTS
           /\ launch' = LaunchAt("ensure", launch.attempt, launch.issued + 1)
           /\ UNCHANGED attempt
  <2>1. launch.attempt \in Attempts \cup { None } /\ launch.issued + 1 \in 0 .. MAX_ATTEMPTS
    BY <1>2, PackageCacheAssumption DEF TypeOK, Launch
  <2>2. "ensure" \in Steps
    BY DEF Steps
  <2>3. launch' \in Launch /\ launch'.pc = "ensure"
    BY <1>2, <2>1, <2>2, LaunchAtTyped
  <2> QED BY <1>2, <2>3 DEF TypeOK, Attempt
<1> QED BY <1>1, <1>2 DEF FailMaterialize

LEMMA LookedUpTyped ==
    ASSUME TypeOK, NEW force \in BOOLEAN, NEW try \in 0 .. RETRY_BUDGET, launch' = LookedUp(force, try)
    PROVE  launch' \in Launch /\ launch'.pc = "catalog"
<1>1. launch \in Launch /\ 0 \in Ages
  BY PackageCacheAssumption DEF TypeOK, Ages
<1> QED BY <1>1 DEF Launch, LookedUp, Steps

LEMMA FailInstallTyped ==
    ASSUME TypeOK, FailInstall
    PROVE  launch' \in Launch /\ attempt' \in Attempt /\ launch'.pc \in { "idle", "ensure", "catalog" }
<1>1. CASE launch.tries < RETRY_BUDGET
  <2>1. launch.tries + 1 \in 0 .. RETRY_BUDGET
    BY <1>1, PackageCacheAssumption DEF TypeOK, Launch
  <2>2. launch' = LookedUp(launch.force, launch.tries + 1) /\ UNCHANGED attempt
    BY <1>1 DEF FailInstall
  <2>3. launch.force \in BOOLEAN
    BY DEF TypeOK, Launch
  <2> QED BY <2>1, <2>2, <2>3, LookedUpTyped DEF TypeOK, Attempt
<1>2. CASE ~(launch.tries < RETRY_BUDGET)
  BY <1>2, FailMaterializeTyped DEF FailInstall
<1> QED BY <1>1, <1>2

LEMMA PickedTyped ==
    ASSUME TypeOK, NEW v \in Versions, launch' = Picked(v)
    PROVE  launch' \in Launch /\ launch'.pc = "check" /\ launch'.version = v
<1>1. launch \in Launch /\ 0 \in 0 .. RETRY_BUDGET /\ 0 \in Ages
  BY PackageCacheAssumption DEF TypeOK, Ages
<1> QED BY <1>1 DEF Launch, Picked, Steps

\* Growing older keeps the type and the order of ages.
LEMMA OlderIsMonotone ==
    ASSUME NEW a \in Spans, NEW b \in Ages
    PROVE  LET a1 == Older(a, WINDOW + REQUEST_TIMEOUT + 1)
               b1 == Older(b, WINDOW + 1)
           IN  /\ a1 \in Spans /\ b1 \in Ages /\ a1 <= a + 1
               /\ a <= b + REQUEST_TIMEOUT => a1 <= b1 + REQUEST_TIMEOUT
BY PackageCacheAssumption DEF Older, Ages, Spans

\* A directory lost or changed keeps the type, and adds no entry.
LEMMA FewerEntries ==
    ASSUME TypeOK, AgedAlong, UNCHANGED <<published, outdated>>,
           entry' \in [ Versions -> Entry ],
           \A v \in Versions : entry'[v].state = "complete" => entry'[v] = entry[v],
           launch'.pc \in { "answer", "download" } => launch' = launch
    PROVE  AgedAlong'
BY DEF AgedAlong, Installed, TypeOK

LEMMA AbsentTyped == Absent \in Entry /\ Headless \in Entry
BY PackageCacheAssumption DEF Absent, Headless, Entry, Ages

LEMMA EntriesGone ==
    ASSUME TypeOK, NEW gone,
           entry' = [ v \in Versions |-> IF v \in gone THEN Absent ELSE entry[v] ]
    PROVE  /\ entry' \in [ Versions -> Entry ]
           /\ \A v \in Versions : entry'[v].state = "complete" => entry'[v] = entry[v]
<1>1. Absent.state # "complete"
  BY DEF Absent
<1> QED BY <1>1, AbsentTyped DEF TypeOK

LEMMA EntryDamaged ==
    ASSUME TypeOK, NEW v \in Versions,
           entry' \in { entry, [ entry EXCEPT ![v] = Headless ] }
    PROVE  /\ entry' \in [ Versions -> Entry ]
           /\ \A w \in Versions : entry'[w].state = "complete" => entry'[w] = entry[w]
<1>1. Headless.state # "complete"
  BY DEF Headless
<1> QED BY <1>1, AbsentTyped DEF TypeOK

LEMMA HalfPrunedTyped ==
    ASSUME TypeOK, NEW last \in Obsolete, HalfPruned(last)
    PROVE  /\ entry' \in [ Versions -> Entry ]
           /\ \A v \in Versions : entry'[v].state = "complete" => entry'[v] = entry[v]
           /\ \A v \in Versions : v \notin Obsolete => entry'[v] = entry[v]
           /\ lease' \in [ Attempts -> Versions \cup { None, Torn } ]
<1>1. Absent.state # "complete" /\ Headless.state # "complete" /\ last \in Versions
  BY DEF Absent, Headless, Obsolete, Installed
<1>2. PICK gone \in SUBSET (Obsolete \ { last }), left \in { entry[last], Headless, Absent } :
        /\ entry' = [ v \in Versions |-> IF v \in gone THEN Absent
                                         ELSE IF v = last THEN left ELSE entry[v] ]
        /\ lease' = [ a \in Attempts |-> IF lease[a] \in gone THEN None ELSE lease[a] ]
  BY DEF HalfPruned
<1>3. left \in Entry /\ (left.state = "complete" => left = entry[last])
  BY <1>1, AbsentTyped DEF TypeOK
<1>4. lease' \in [ Attempts -> Versions \cup { None, Torn } ]
  BY <1>2 DEF TypeOK
<1> QED BY <1>1, <1>2, <1>3, <1>4, AbsentTyped DEF TypeOK

-----------------------------------------------------------------------------
(* The invariant. *)

LEMMA InitIInv == Init => IInv
<1> SUFFICES ASSUME Init PROVE IInv
  OBVIOUS
<1>1. TypeOK
  BY AbsentTyped, NoLaunchTyped, PackageCacheAssumption
     DEF Init, TypeOK, Versions, Spans, Prints, None
<1>2. VersionChosen
  BY NoLaunchTyped DEF Init, VersionChosen
<1>3. AgedAlong
  BY NoLaunchTyped DEF Init, AgedAlong, Installed, Absent
<1> QED BY <1>1, <1>2, <1>3 DEF IInv

LEMMA EnsurePreserves ==
    ASSUME IInv, Ensure
    PROVE  IInv'
<1>0. TypeOK
  BY DEF IInv
<1>1. CASE CheckIsDue
  <2>1. launch' = LookedUp(FALSE, 1) /\ 1 \in 0 .. RETRY_BUDGET
    BY <1>1, PackageCacheAssumption DEF Ensure
  <2>3. launch' \in Launch /\ launch'.pc = "catalog"
    BY <1>0, <2>1, LookedUpTyped
  <2> QED BY <2>3 DEF IInv, TypeOK, VersionChosen, AgedAlong, Installed, Ensure, github, cache
<1>2. CASE ~CheckIsDue
  <2>1. NewestInstalled \in Versions
    BY <1>0, <1>2, NewestIsInstalled DEF CheckIsDue, Installed
  <2>2. launch' \in Launch /\ launch'.pc = "check" /\ launch'.version \in Versions
    BY <1>0, <1>2, <2>1, PickedTyped DEF Ensure
  <2> QED BY <2>2 DEF IInv, TypeOK, VersionChosen, AgedAlong, Installed, Ensure, github, cache
<1> QED BY <1>1, <1>2

LEMMA PublishedPreserves ==
    ASSUME IInv, Published
    PROVE  IInv'
<1>0. TypeOK /\ AgedAlong
  BY DEF IInv
<1>1. launch \in Launch /\ published \in Versions /\ 0 \in Ages /\ 0 <= REQUEST_TIMEOUT
  BY <1>0, PackageCacheAssumption DEF TypeOK, Ages
<1>2. launch' \in Launch /\ launch'.pc = "answer" /\ launch'.version = published /\ launch'.stamp = 0
  BY <1>1 DEF Published, Launch, Steps
<1>3. outdated[published] = 0
  BY <1>0, <1>1, PackageCacheAssumption DEF AgedAlong, Versions
<1> QED BY <1>0, <1>1, <1>2, <1>3
       DEF IInv, TypeOK, VersionChosen, AgedAlong, Installed, Published, github, cache

LEMMA CatalogPreserves ==
    ASSUME IInv, Catalog
    PROVE  IInv'
<1> DEFINE named == launch.version
<1>0. TypeOK /\ AgedAlong /\ named \in Versions /\ launch.pc = "answer"
  BY DEF IInv, VersionChosen, Catalog
<1>1. 0 \in 0 .. CHECK_INTERVAL /\ 0 \in Ages
  BY PackageCacheAssumption DEF Ages
<1>2. CASE ~launch.force /\ named \in Installed
  <2>1. launch' = Picked(named) /\ lastCheck' = 0
    BY <1>2 DEF Catalog
  <2>2. launch' \in Launch /\ launch'.pc = "check" /\ launch'.version \in Versions
    BY <1>0, <2>1, PickedTyped
  <2> QED BY <1>1, <2>1, <2>2 DEF IInv, TypeOK, VersionChosen, AgedAlong, Installed, Catalog, github
<1>3. CASE ~launch.force /\ named \notin Installed /\ Installed # {} /\ ~IsStale(NewestInstalled)
  <2>1. launch' = Picked(NewestInstalled) /\ lastCheck' = 0
    BY <1>3 DEF Catalog
  <2>2. NewestInstalled \in Versions
    BY <1>0, <1>3, NewestIsInstalled DEF Installed
  <2>3. launch' \in Launch /\ launch'.pc = "check" /\ launch'.version \in Versions
    BY <1>0, <2>1, <2>2, PickedTyped
  <2> QED BY <1>1, <2>1, <2>3 DEF IInv, TypeOK, VersionChosen, AgedAlong, Installed, Catalog, github
<1>4. CASE ~(~launch.force /\ named \in Installed)
           /\ ~(~launch.force /\ named \notin Installed /\ Installed # {} /\ ~IsStale(NewestInstalled))
  <2>1. /\ launch' = [ launch EXCEPT !.pc = "download", !.stamp = 0 ]
        /\ UNCHANGED lastCheck
    BY <1>4 DEF Catalog
  <2>2. launch \in Launch
    BY <1>0 DEF TypeOK
  <2>3. launch' \in Launch /\ launch'.pc = "download" /\ launch'.version = named /\ launch'.stamp = 0
    BY <1>1, <2>1, <2>2 DEF Launch, Steps
  <2>4. outdated[named] <= 0 + REQUEST_TIMEOUT
    <3>1. outdated[named] \in Nat /\ launch.stamp \in Nat
      BY <1>0, PackageCacheAssumption DEF TypeOK, Spans, Launch, Ages
    <3> QED BY <1>0, <3>1, PackageCacheAssumption DEF AgedAlong
  <2> QED BY <1>0, <2>1, <2>3, <2>4 DEF IInv, TypeOK, VersionChosen, AgedAlong, Installed, Catalog, github
<1> QED BY <1>2, <1>3, <1>4

\* A launch that goes on from nothing chosen leaves the cache's invariant alone.
LEMMA BackToStart ==
    ASSUME IInv, launch' \in Launch, launch'.pc \in { "idle", "ensure", "catalog" },
           attempt' \in Attempt, UNCHANGED <<published, outdated, entry, lastCheck>>,
           print' \in [ Versions -> Prints ],
           lease' \in [ Attempts -> Versions \cup { None, Torn } ],
           budget' \in 0 .. MaxFaults
    PROVE  IInv'
BY DEF IInv, TypeOK, VersionChosen, AgedAlong, Installed, Attempt

LEMMA FaultTyped ==
    ASSUME TypeOK, Fault
    PROVE  budget' \in 0 .. MaxFaults
BY PackageCacheAssumption DEF TypeOK, Fault

LEMMA CommitPreserves ==
    ASSUME IInv, Commit
    PROVE  IInv'
<1>0. TypeOK /\ AgedAlong /\ launch.version \in Versions /\ launch.pc = "download"
  BY DEF IInv, VersionChosen, Commit
<1>1. CASE ~launch.force /\ entry[launch.version].state # "absent"
  <2>1. FailInstall /\ UNCHANGED <<published, outdated, entry, print, lastCheck, lease, budget>>
    BY <1>1 DEF Commit, github, cache
  <2> QED BY <1>0, <2>1, FailInstallTyped, BackToStart DEF TypeOK
<1>2. CASE ~(~launch.force /\ entry[launch.version].state # "absent")
  <2> DEFINE v == launch.version
  <2>1. /\ entry' = [ entry EXCEPT ![v] = NewEntry(launch.stamp) ]
        /\ print' = [ print EXCEPT ![v] = IF @ = "none" THEN "none" ELSE "moved" ]
        /\ lastCheck' = 0
        /\ launch' = [ launch EXCEPT !.pc = "record", !.force = FALSE, !.stamp = 0, !.tries = 0 ]
        /\ UNCHANGED <<published, outdated, attempt, lease, budget>>
    BY <1>2 DEF Commit, github
  <2>2. launch \in Launch /\ launch.stamp \in Ages /\ 0 \in Ages /\ 0 \in 0 .. RETRY_BUDGET
    BY <1>0, PackageCacheAssumption DEF TypeOK, Launch, Ages
  <2>3. launch' \in Launch /\ launch'.pc = "record" /\ launch'.version = v
    BY <2>1, <2>2 DEF Launch, Steps
  <2>4. NewEntry(launch.stamp) \in Entry /\ NewEntry(launch.stamp).age = launch.stamp
    BY <2>2 DEF NewEntry, Entry
  <2>5. TypeOK'
    BY <1>0, <2>1, <2>3, <2>4, PackageCacheAssumption DEF TypeOK, Prints
  <2>6. \A w \in Versions : w \in Installed' => outdated'[w] <= entry'[w].age + REQUEST_TIMEOUT
    <3> SUFFICES ASSUME NEW w \in Versions, w \in Installed'
                 PROVE  outdated'[w] <= entry'[w].age + REQUEST_TIMEOUT
      OBVIOUS
    <3>1. CASE w = v
      <4>1. entry'[w] = NewEntry(launch.stamp)
        BY <1>0, <2>1, <3>1 DEF TypeOK
      <4>2. outdated[w] <= launch.stamp + REQUEST_TIMEOUT
        BY <1>0, <3>1 DEF AgedAlong
      <4> QED BY <2>1, <2>4, <4>1, <4>2
    <3>2. CASE w # v
      BY <1>0, <2>1, <3>2 DEF AgedAlong, Installed, TypeOK
    <3> QED BY <3>1, <3>2
  <2>7. AgedAlong'
    BY <1>0, <2>1, <2>3, <2>6 DEF AgedAlong
  <2> QED BY <1>0, <2>3, <2>5, <2>7 DEF IInv, VersionChosen
<1> QED BY <1>1, <1>2

LEMMA CheckPreserves ==
    ASSUME IInv, Check
    PROVE  IInv'
<1>0. TypeOK /\ AgedAlong /\ launch.version \in Versions
  BY DEF IInv, VersionChosen, Check
<1>1. CASE Holds(launch.version)
  <2>1. launch' = [ launch EXCEPT !.pc = "copy" ] /\ UNCHANGED entry
    BY <1>1 DEF Check
  <2>2. launch' \in Launch /\ launch'.pc = "copy" /\ launch'.version \in Versions
    BY <1>0, <2>1 DEF TypeOK, Launch, Steps
  <2> QED BY <2>1, <2>2 DEF IInv, TypeOK, VersionChosen, AgedAlong, Installed, Check, github
<1>2. CASE ~Holds(launch.version)
  <2>1. /\ entry' = [ v \in Versions |-> IF v \in Installed THEN Absent ELSE entry[v] ]
        /\ launch' = LookedUp(TRUE, 1) /\ 1 \in 0 .. RETRY_BUDGET
    BY <1>2, PackageCacheAssumption DEF Check
  <2>3. launch' \in Launch /\ launch'.pc = "catalog"
    BY <1>0, <2>1, LookedUpTyped
  <2>4. /\ entry' \in [ Versions -> Entry ]
        /\ \A v \in Versions : entry'[v].state = "complete" => entry'[v] = entry[v]
    BY <1>0, <2>1, EntriesGone
  <2>5. AgedAlong'
    BY <1>0, <2>3, <2>4, FewerEntries DEF Check, github
  <2> QED BY <1>0, <2>3, <2>4, <2>5 DEF IInv, TypeOK, VersionChosen, Check, github
<1> QED BY <1>1, <1>2

LEMMA SetAsideFailsPreserves ==
    ASSUME IInv, SetAsideFails
    PROVE  IInv'
<1>0. TypeOK /\ AgedAlong
  BY DEF IInv
<1>1. PICK aside \in SUBSET Installed :
          entry' = [ v \in Versions |-> IF v \in aside THEN Absent ELSE entry[v] ]
  BY DEF SetAsideFails
<1>2. /\ entry' \in [ Versions -> Entry ]
      /\ \A v \in Versions : entry'[v].state = "complete" => entry'[v] = entry[v]
  BY <1>0, <1>1, EntriesGone
<1>3. launch' \in Launch /\ attempt' \in Attempt /\ launch'.pc \in { "idle", "ensure" }
  BY <1>0, FailMaterializeTyped DEF SetAsideFails
<1>4. AgedAlong'
  BY <1>0, <1>2, <1>3, FewerEntries DEF SetAsideFails, github
<1>5. budget' \in 0 .. MaxFaults
  BY <1>0, FaultTyped DEF SetAsideFails
<1> QED BY <1>0, <1>2, <1>3, <1>4, <1>5
     DEF IInv, TypeOK, VersionChosen, SetAsideFails, github, Attempt

LEMMA RecordPreserves ==
    ASSUME IInv, Record
    PROVE  IInv'
<1>0. TypeOK /\ launch.version \in Versions
  BY DEF IInv, VersionChosen, Record
<1>1. launch' \in Launch /\ launch'.pc = "copy" /\ launch'.version = launch.version
  BY <1>0 DEF Record, TypeOK, Launch, Steps
<1>2. print' \in [ Versions -> Prints ]
  BY <1>0 DEF Record, TypeOK, Prints
<1> QED BY <1>0, <1>1, <1>2 DEF IInv, TypeOK, VersionChosen, AgedAlong, Installed, Record, github

LEMMA CopyPreserves ==
    ASSUME IInv, Copy
    PROVE  IInv'
<1>0. TypeOK /\ launch.version \in Versions
  BY DEF IInv, VersionChosen, Copy
<1>1. CASE Holds(launch.version)
  <2>1. launch' \in Launch /\ launch'.pc = "lease" /\ launch'.version = launch.version /\ UNCHANGED attempt
    BY <1>0, <1>1 DEF Copy, TypeOK, Launch, Steps
  <2> QED BY <1>0, <2>1 DEF IInv, TypeOK, VersionChosen, AgedAlong, Installed, Copy, github, cache
<1>2. CASE ~Holds(launch.version)
  <2>1. FailMaterialize /\ UNCHANGED <<published, outdated, entry, print, lastCheck, lease, budget>>
    BY <1>2 DEF Copy, github, cache
  <2> QED BY <1>0, <2>1, FailMaterializeTyped, BackToStart DEF TypeOK
<1> QED BY <1>1, <1>2

LEMMA LeasePreserves ==
    ASSUME IInv, Lease
    PROVE  IInv'
<1>0. TypeOK /\ launch.version \in Versions
  BY DEF IInv, VersionChosen, Lease
<1>1. CASE launch.version \in Installed
  <2>1. launch' \in Launch /\ launch'.pc = "prune" /\ launch'.version = launch.version /\ UNCHANGED attempt
    BY <1>0, <1>1 DEF Lease, TypeOK, Launch, Steps
  <2>2. lease' \in [ Attempts -> Versions \cup { None, Torn } ]
    BY <1>0, <1>1 DEF Lease, TypeOK
  <2> QED BY <1>0, <2>1, <2>2 DEF IInv, TypeOK, VersionChosen, AgedAlong, Installed, Lease, github, cache
<1>2. CASE launch.version \notin Installed
  <2>1. FailMaterialize /\ UNCHANGED <<published, outdated, entry, print, lastCheck, lease, budget>>
    BY <1>2 DEF Lease, github, cache
  <2> QED BY <1>0, <2>1, FailMaterializeTyped, BackToStart DEF TypeOK
<1> QED BY <1>1, <1>2

LEMMA PrunePreserves ==
    ASSUME IInv, Prune
    PROVE  IInv'
<1>0. TypeOK /\ AgedAlong
  BY DEF IInv
<1>1. launch' \in Launch /\ launch'.pc = "idle"
  BY NoLaunchTyped DEF Prune
<1>2. CASE LeasesReadable
  <2>1. Removed(Obsolete) /\ attempt' = [ attempt EXCEPT ![launch.attempt] = "running" ]
    BY <1>2 DEF Prune
  <2>2. /\ entry' \in [ Versions -> Entry ]
        /\ \A v \in Versions : entry'[v].state = "complete" => entry'[v] = entry[v]
    BY <1>0, <2>1, EntriesGone DEF Removed
  <2>3. lease' \in [ Attempts -> Versions \cup { None, Torn } ]
    BY <1>0, <2>1 DEF Removed, TypeOK
  <2>4. AgedAlong'
    BY <1>0, <1>1, <2>2, FewerEntries DEF Prune, github
  <2>5. attempt' \in Attempt
    BY <1>0, <2>1 DEF TypeOK, Attempt
  <2> QED BY <1>0, <1>1, <2>2, <2>3, <2>4, <2>5 DEF IInv, TypeOK, VersionChosen, Prune, github, Attempt
<1>3. CASE ~LeasesReadable
  BY <1>0, <1>1, <1>3 DEF IInv, TypeOK, VersionChosen, AgedAlong, Installed, Prune, github
<1> QED BY <1>2, <1>3

\* A job damages one directory.
LEMMA DamagePreserves ==
    ASSUME IInv, NEW v \in Versions,
           entry' \in { entry, [ entry EXCEPT ![v] = Headless ] },
           print' = [ print EXCEPT ![v] = IF @ = "same" THEN "moved" ELSE @ ],
           UNCHANGED <<published, outdated, lastCheck, lease, attempt, launch>>, Fault
    PROVE  IInv'
<1>0. TypeOK /\ AgedAlong
  BY DEF IInv
<1>1. /\ entry' \in [ Versions -> Entry ]
      /\ \A w \in Versions : entry'[w].state = "complete" => entry'[w] = entry[w]
  BY <1>0, EntryDamaged
<1>2. print' \in [ Versions -> Prints ]
  BY <1>0 DEF TypeOK, Prints
<1>3. AgedAlong'
  BY <1>0, <1>1, FewerEntries
<1>4. budget' \in 0 .. MaxFaults
  BY <1>0, FaultTyped
<1> QED BY <1>0, <1>1, <1>2, <1>3, <1>4 DEF IInv, TypeOK, VersionChosen

LEMMA PruneFailsPreserves ==
    ASSUME IInv, PruneFails
    PROVE  IInv'
<1>0. TypeOK /\ AgedAlong
  BY DEF IInv
<1>1. launch' \in Launch /\ launch'.pc = "idle"
  BY NoLaunchTyped DEF PruneFails
<1>2. PICK last \in Obsolete :
        /\ HalfPruned(last)
        /\ print' = [ print EXCEPT ![last] = IF @ = "same" THEN "moved" ELSE @ ]
  BY DEF PruneFails
<1>3. /\ entry' \in [ Versions -> Entry ]
      /\ \A v \in Versions : entry'[v].state = "complete" => entry'[v] = entry[v]
      /\ lease' \in [ Attempts -> Versions \cup { None, Torn } ]
  BY <1>0, <1>2, HalfPrunedTyped
<1>4. AgedAlong'
  BY <1>0, <1>1, <1>3, FewerEntries DEF PruneFails, github
<1>5. print' \in [ Versions -> Prints ]
  BY <1>0, <1>2 DEF TypeOK, Prints
<1>6. budget' \in 0 .. MaxFaults
  BY <1>0, FaultTyped DEF PruneFails
<1> QED BY <1>0, <1>1, <1>3, <1>4, <1>5, <1>6 DEF IInv, TypeOK, VersionChosen, PruneFails, github

LEMMA CrashPreserves ==
    ASSUME IInv, Crash
    PROVE  IInv'
<1>0. TypeOK /\ AgedAlong
  BY DEF IInv
<1>1. launch' \in Launch /\ launch'.pc = "idle"
  BY NoLaunchTyped DEF Crash
<1>2. /\ entry' \in [ Versions -> Entry ]
      /\ \A v \in Versions : entry'[v].state = "complete" => entry'[v] = entry[v]
      /\ lease' \in [ Attempts -> Versions \cup { None, Torn } ]
  <2>1. CASE UNCHANGED <<entry, lease>>
    BY <1>0, <2>1 DEF TypeOK
  <2>2. CASE lease' = [ lease EXCEPT ![launch.attempt] = Torn ] /\ UNCHANGED entry
    BY <1>0, <2>2 DEF TypeOK
  <2>3. CASE \E last \in Obsolete : HalfPruned(last)
    BY <1>0, <2>3, HalfPrunedTyped
  <2> QED BY <2>1, <2>2, <2>3 DEF Crash
<1>3. AgedAlong'
  BY <1>0, <1>1, <1>2, FewerEntries DEF Crash, github
<1>4. print' \in [ Versions -> Prints ] /\ lastCheck' \in 0 .. CHECK_INTERVAL
  BY PackageCacheAssumption DEF Crash, Prints
<1>5. budget' \in 0 .. MaxFaults
  BY <1>0, FaultTyped DEF Crash
<1> QED BY <1>0, <1>1, <1>2, <1>3, <1>4, <1>5 DEF IInv, TypeOK, VersionChosen, Crash, github

LEMMA TickPreserves ==
    ASSUME IInv, Tick
    PROVE  IInv'
<1> DEFINE span(v) == Older(outdated[v], WINDOW + REQUEST_TIMEOUT + 1)
           age(a) == Older(a, WINDOW + 1)
<1>0. TypeOK /\ AgedAlong
  BY DEF IInv
<1>1. /\ \A v \in Versions : outdated[v] \in Spans /\ entry[v] \in Entry /\ entry[v].age \in Ages
      /\ launch.stamp \in Ages /\ 0 \in Spans /\ Ages \subseteq Nat /\ Spans \subseteq Nat
  BY <1>0, PackageCacheAssumption DEF TypeOK, Entry, Launch, Ages, Spans
<1>2. /\ \A v \in Versions : span(v) \in Spans /\ age(entry[v].age) \in Ages
      /\ age(launch.stamp) \in Ages
  BY <1>1, OlderIsMonotone
<1>3. \A v \in Versions : outdated'[v] = span(v) \/ outdated'[v] = 0
  BY DEF Tick
<1>4. outdated' \in [ Versions -> Spans ] /\ entry' \in [ Versions -> Entry ]
  <2>1. outdated' = [ v \in Versions |-> IF v < published THEN span(v) ELSE 0 ]
    BY DEF Tick
  <2>2. entry' = [ v \in Versions |->
                    IF v \in Installed THEN [ entry[v] EXCEPT !.age = age(@) ] ELSE entry[v] ]
    BY DEF Tick
  <2>3. \A v \in Versions : [ entry[v] EXCEPT !.age = age(@) ] \in Entry
    BY <1>1, <1>2 DEF Entry
  <2> QED BY <1>1, <1>2, <2>1, <2>2, <2>3
<1>5. lastCheck' \in 0 .. CHECK_INTERVAL
  BY <1>0, PackageCacheAssumption DEF Tick, TypeOK, Older
<1>6. /\ launch' \in Launch /\ launch'.pc = launch.pc /\ launch'.version = launch.version
      /\ launch.pc \in { "answer", "download" } => launch'.stamp = age(launch.stamp)
  BY <1>0, <1>2 DEF Tick, TypeOK, Launch
<1>7. \A v \in Versions : v >= published => outdated'[v] = 0
  BY <1>0, PackageCacheAssumption DEF Tick, TypeOK, Versions
<1>8. ASSUME NEW v \in Versions, v \in Installed'
      PROVE  outdated'[v] <= entry'[v].age + REQUEST_TIMEOUT
  <2>1. entry[v].state = "complete"
    BY <1>1, <1>8 DEF Tick, Installed, Entry
  <2>2. entry'[v].age = age(entry[v].age)
    BY <1>1, <2>1 DEF Tick, Installed, Entry
  <2>3. outdated[v] <= entry[v].age + REQUEST_TIMEOUT
    BY <1>0, <2>1 DEF AgedAlong, Installed
  <2>4. span(v) <= age(entry[v].age) + REQUEST_TIMEOUT
    BY <1>1, <2>3, OlderIsMonotone
  <2>5. 0 <= age(entry[v].age) + REQUEST_TIMEOUT
    BY <1>1, <1>2, PackageCacheAssumption DEF Ages
  <2> QED BY <1>3, <2>2, <2>4, <2>5
<1>9. ASSUME launch'.pc = "download"
      PROVE  outdated'[launch'.version] <= launch'.stamp + REQUEST_TIMEOUT
  <2>1. launch.pc = "download" /\ launch.version \in Versions
    BY <1>6, <1>9 DEF IInv, VersionChosen
  <2>2. outdated[launch.version] <= launch.stamp + REQUEST_TIMEOUT
    BY <1>0, <2>1 DEF AgedAlong
  <2>3. span(launch.version) <= age(launch.stamp) + REQUEST_TIMEOUT
    BY <1>1, <2>1, <2>2, OlderIsMonotone
  <2>4. 0 <= age(launch.stamp) + REQUEST_TIMEOUT
    BY <1>2, PackageCacheAssumption DEF Ages
  <2> QED BY <1>3, <1>6, <2>1, <2>3, <2>4
<1>10. ASSUME launch'.pc = "answer"
       PROVE  outdated'[launch'.version] <= launch'.stamp /\ launch'.stamp <= REQUEST_TIMEOUT
  <2>1. launch.pc = "answer" /\ launch.version \in Versions
    BY <1>6, <1>10 DEF IInv, VersionChosen
  <2>2. outdated[launch.version] <= launch.stamp /\ launch.stamp < REQUEST_TIMEOUT
    BY <1>0, <2>1 DEF AgedAlong, Tick
  <2>3. age(launch.stamp) = launch.stamp + 1
    BY <1>1, <2>2, PackageCacheAssumption DEF Older, Ages
  <2>4. span(launch.version) <= outdated[launch.version] + 1
    BY <1>1, <2>1, OlderIsMonotone
  <2>5. outdated[launch.version] \in Nat /\ launch.stamp \in Nat /\ span(launch.version) \in Nat
    BY <1>1, <1>2, <2>1
  <2> HIDE DEF span, age
  <2> QED BY <1>3, <1>6, <2>1, <2>2, <2>3, <2>4, <2>5, PackageCacheAssumption
<1>11. AgedAlong'
  BY <1>7, <1>8, <1>9, <1>10 DEF AgedAlong, Tick
<1> QED BY <1>0, <1>4, <1>5, <1>6, <1>11 DEF IInv, TypeOK, VersionChosen, Tick

\* The steps beside the launch, and its beginning.
LEMMA BesidePreserves ==
    ASSUME IInv, NEW a \in Attempts, Begin(a) \/ End(a) \/ Orphaned(a) \/ Clean(a)
    PROVE  IInv'
<1>0. TypeOK
  BY DEF IInv
<1>1. CASE Begin(a)
  <2>1. 1 \in 0 .. MAX_ATTEMPTS /\ "ensure" \in Steps
    BY PackageCacheAssumption DEF Steps
  <2>2. launch' \in Launch /\ launch'.pc = "ensure"
    BY <1>1, <2>1, LaunchAtTyped DEF Begin
  <2>3. attempt' \in Attempt
    BY <1>0, <1>1 DEF Begin, TypeOK, Attempt
  <2> QED BY <1>0, <1>1, <2>2, <2>3, BackToStart DEF Begin, github, cache, TypeOK
<1>2. CASE End(a)
  BY <1>2 DEF IInv, TypeOK, VersionChosen, AgedAlong, Installed, End, github, cache
<1>3. CASE Orphaned(a)
  BY <1>3 DEF IInv, TypeOK, VersionChosen, AgedAlong, Installed, Orphaned, github, cache
<1>4. CASE Clean(a)
  BY <1>4 DEF IInv, TypeOK, VersionChosen, AgedAlong, Installed, Clean, Release, github, cache
<1> QED BY <1>1, <1>2, <1>3, <1>4

LEMMA FaultsPreserve ==
    ASSUME IInv, Faults
    PROVE  IInv'
<1>0. TypeOK
  BY DEF IInv
<1>1. CASE InstallFails
  BY <1>0, <1>1, FailInstallTyped, FaultTyped, BackToStart DEF InstallFails, github, cache, TypeOK
<1>2. CASE Unverifiable
  <2>1. attempt' \in Attempt
    BY <1>0, <1>2 DEF Unverifiable, TypeOK, Attempt
  <2>2. launch' \in Launch /\ launch'.pc = "idle"
    BY <1>2, NoLaunchTyped DEF Unverifiable
  <2> QED BY <1>0, <1>2, <2>1, <2>2, FaultTyped, BackToStart DEF Unverifiable, github, cache, TypeOK
<1>3. CASE SetAsideFails
  BY <1>3, SetAsideFailsPreserves
<1>4. CASE CopyFails
  BY <1>0, <1>4, FailMaterializeTyped, FaultTyped, BackToStart DEF CopyFails, github, cache, TypeOK
<1>5. CASE PruneFails
  BY <1>5, PruneFailsPreserves
<1>6. CASE Crash
  BY <1>6, CrashPreserves
<1>7. CASE \E v \in Versions : JobWrites(v)
  BY <1>7, DamagePreserves DEF JobWrites, github
<1> QED BY <1>1, <1>2, <1>3, <1>4, <1>5, <1>6, <1>7 DEF Faults

LEMMA PublishPreserves ==
    ASSUME IInv, Publish
    PROVE  IInv'
<1>1. published' \in Versions /\ published' >= published /\ published \in Nat /\ published' \in Nat
  BY PackageCacheAssumption DEF IInv, Publish, TypeOK, Versions
<1>2. \A v \in Versions : v >= published' => v >= published
  BY <1>1 DEF Versions
<1> QED BY <1>1, <1>2 DEF IInv, TypeOK, VersionChosen, AgedAlong, Installed, Publish, cache

LEMMA NextPreserves == IInv /\ [Next]_vars => IInv'
<1> SUFFICES ASSUME IInv, [Next]_vars PROVE IInv'
  OBVIOUS
<1>1. CASE UNCHANGED vars
  BY <1>1 DEF IInv, TypeOK, VersionChosen, AgedAlong, Installed, vars
<1>2. CASE LaunchStep
  BY <1>2, EnsurePreserves, PublishedPreserves, CatalogPreserves, CommitPreserves, CheckPreserves, RecordPreserves,
     CopyPreserves, LeasePreserves, PrunePreserves DEF LaunchStep
<1> QED BY <1>1, <1>2, BesidePreserves, FaultsPreserve, PublishPreserves, TickPreserves DEF Next

LEMMA Inductive == Spec => []IInv
BY InitIInv, NextPreserves, PTL DEF Spec

-----------------------------------------------------------------------------
(* The theorems. *)

\* Every budget and every age keeps its bound, whatever fails and how often
\* (install, materialize_with_retry).
THEOREM TypeCorrect == Spec => []TypeOK
BY Inductive, PTL DEF IInv

\* A package reused from disk has been superseded no longer than GitHub's
\* window and the time a lookup's answer may take, for any window, interval,
\* timeout and duration of a download (is_stale).
THEOREM PackagesReusedInTime == Spec => ReusedInTime
<1>1. ASSUME IInv, [Next]_vars, launch.pc \in { "ensure", "answer" }, launch'.pc = "check"
      PROVE  outdated[launch'.version] <= WINDOW + REQUEST_TIMEOUT
  <2>0. TypeOK /\ AgedAlong
    BY <1>1 DEF IInv
  <2>1. launch' # launch /\ launch'.pc \notin { "idle", "ensure", "catalog" }
    BY <1>1
  <2>2. ~InstallFails /\ ~Unverifiable /\ ~Crash
    BY <2>0, <2>1, FailInstallTyped, NoLaunchTyped DEF InstallFails, Unverifiable, Crash
  <2>3. ~Tick
    BY <1>1, <2>0 DEF Tick, TypeOK, Launch
  <2>4. Ensure \/ Catalog
    BY <1>1, <2>1, <2>2, <2>3
       DEF Next, vars, LaunchStep, Faults, Begin, End, Orphaned, Clean, Publish, Published, Commit,
           Check, Record, Copy, Lease, Prune, SetAsideFails, CopyFails, PruneFails, JobWrites
  <2>5. ASSUME Installed # {}, ~IsStale(NewestInstalled), launch' = Picked(NewestInstalled)
        PROVE  outdated[launch'.version] <= WINDOW + REQUEST_TIMEOUT
    <3>1. NewestInstalled \in Versions /\ NewestInstalled \in Installed
      BY <2>0, <2>5, NewestIsInstalled DEF Installed
    <3>2. launch'.version = NewestInstalled
      BY <2>0, <2>5, <3>1, PickedTyped
    <3>3. /\ outdated[NewestInstalled] <= entry[NewestInstalled].age + REQUEST_TIMEOUT
          /\ outdated[NewestInstalled] \in Nat /\ entry[NewestInstalled].age \in Nat
      BY <2>0, <3>1, PackageCacheAssumption DEF AgedAlong, TypeOK, Entry, Ages, Spans
    <3>4. entry[NewestInstalled].age <= WINDOW
      BY <2>5, <3>3, PackageCacheAssumption DEF IsStale
    <3> QED BY <3>2, <3>3, <3>4, PackageCacheAssumption
  <2>6. CASE Ensure
    <3>1. ~CheckIsDue
      <4> SUFFICES ASSUME CheckIsDue PROVE FALSE
        OBVIOUS
      <4>1. launch' = LookedUp(FALSE, 1) /\ 1 \in 0 .. RETRY_BUDGET
        BY <2>6, PackageCacheAssumption DEF Ensure
      <4> QED BY <1>1, <2>0, <4>1, LookedUpTyped
    <3> QED BY <2>5, <2>6, <3>1 DEF Ensure, CheckIsDue
  <2>7. CASE Catalog
    <3>0. launch.version \in Versions /\ launch.pc = "answer"
      BY <1>1, <2>7 DEF IInv, VersionChosen, Catalog
    <3>1. CASE launch' = Picked(launch.version)
      <4>1. launch'.version = launch.version
        BY <2>0, <3>0, <3>1, PickedTyped
      <4>2. outdated[launch.version] <= launch.stamp /\ launch.stamp <= REQUEST_TIMEOUT
        BY <2>0, <3>0 DEF AgedAlong
      <4>3. outdated[launch.version] \in Nat /\ launch.stamp \in Nat
        BY <2>0, <3>0, PackageCacheAssumption DEF TypeOK, Launch, Ages, Spans
      <4> QED BY <4>1, <4>2, <4>3, PackageCacheAssumption
    <3>2. CASE launch' = [ launch EXCEPT !.pc = "download", !.stamp = 0 ]
      BY <1>1, <2>0, <3>2 DEF TypeOK, Launch
    <3> QED BY <2>5, <2>7, <3>1, <3>2 DEF Catalog
  <2> QED BY <2>4, <2>6, <2>7
<1>2. IInv /\ [Next]_vars =>
        [ launch.pc \in { "ensure", "answer" } /\ launch'.pc = "check" =>
            outdated[launch'.version] <= WINDOW + REQUEST_TIMEOUT ]_launch
  BY <1>1
<1> QED BY <1>2, Inductive, PTL DEF Spec, ReusedInTime

\* No prune, complete, failed or cut short, touches a package that a live
\* attempt's lease names (prune).
THEOREM LeasesAreRespected == Spec => LeasedIsKept
<1>1. ASSUME IInv, [Next]_vars, NEW v \in Versions, NEW a \in Attempts,
             v \in Installed, entry'[v].state # "complete",
             lease[a] = v, attempt[a] \in { "starting", "running" },
             launch.pc # "check"
      PROVE  launch' = launch
  <2>0. TypeOK
    BY <1>1 DEF IInv
  <2>1. v \notin Obsolete
    BY <1>1 DEF Obsolete, InUse, Holders, Counts
  <2>2. entry' # entry
    BY <1>1 DEF Installed
  <2>3. CASE Commit
    <3>1. entry' = [ entry EXCEPT ![launch.version] = NewEntry(launch.stamp) ]
      BY <2>2, <2>3 DEF Commit, cache
    <3>2. NewEntry(launch.stamp).state = "complete"
      BY DEF NewEntry
    <3> QED BY <1>1, <2>0, <3>1, <3>2 DEF TypeOK, Installed
  <2>4. CASE Prune
    BY <1>1, <2>1, <2>4 DEF Prune, Removed, Installed
  <2>5. CASE PruneFails
    BY <1>1, <2>0, <2>1, <2>5, HalfPrunedTyped DEF PruneFails, Installed
  <2>6. CASE Crash
    BY <1>1, <2>0, <2>1, <2>2, <2>6, HalfPrunedTyped DEF Crash, Installed
  <2>7. CASE Tick
    BY <1>1, <2>0, <2>7 DEF Tick, Installed, TypeOK, Entry
  <2>8. CASE \E w \in Versions : JobWrites(w)
    BY <2>8 DEF JobWrites
  <2> QED
    BY <1>1, <2>2, <2>3, <2>4, <2>5, <2>6, <2>7, <2>8
       DEF Next, vars, LaunchStep, Faults, Begin, End, Orphaned, Clean, Publish, Ensure, Published, Catalog, Check,
           Record, Copy, Lease, InstallFails, Unverifiable, SetAsideFails, CopyFails, cache
<1>2. IInv /\ [Next]_vars =>
        [ \A v \in Versions :
            v \in Installed /\ entry'[v].state # "complete"
            /\ (\E a \in Attempts : lease[a] = v /\ attempt[a] \in { "starting", "running" }) =>
              launch.pc = "check" \/ launch' = launch ]_entry
  BY <1>1
<1> QED BY <1>2, Inductive, PTL DEF Spec, LeasedIsKept
===============================================================================
