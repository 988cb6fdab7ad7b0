----------------------------- MODULE PackageCache -----------------------------
(***************************************************************************)
(* The cache of runner packages (PackageCache, crates/agent/src/package.rs) *)
(* and how a launch takes its runtime from it (CachedRuntimePackages,      *)
(* crates/agent/src/lifecycle.rs), on a host that fingerprints its trees.  *)
(*                                                                         *)
(* One launch at a time: it holds the host's allocation lock.  Beside it   *)
(* attempts end and are cleaned, jobs run under the account that owns the  *)
(* cache and may change it, GitHub publishes, and the daemon may die.      *)
(* A step is what happens between two awaits.  What lies in the staging    *)
(* area is never read and is left out; so is what a package contains.      *)
(*                                                                         *)
(* An instant is kept as its age, up to the age at which it no longer      *)
(* matters.                                                                *)
(***************************************************************************)
EXTENDS Naturals

CONSTANTS
    Attempts,        \* runner attempts, each standing for one id after another
    MaxVersion,      \* bound on the versions GitHub publishes
    WINDOW,          \* how long GitHub accepts a version that was superseded
    CHECK_INTERVAL,  \* how often the published version is looked up
    REQUEST_TIMEOUT, \* how long a lookup's answer may be under way
    RETRY_BUDGET,    \* tries of one installation
    MAX_ATTEMPTS,    \* materializations of one launch
    MaxFaults        \* bound on failures, crashes and changes by a job

ASSUME PackageCacheAssumption ==
    /\ MaxVersion \in Nat \ {0} /\ WINDOW \in Nat /\ CHECK_INTERVAL \in Nat
    /\ REQUEST_TIMEOUT \in 0 .. WINDOW
    /\ RETRY_BUDGET \in Nat \ {0} /\ MAX_ATTEMPTS \in Nat \ {0} /\ MaxFaults \in Nat

VARIABLES
    published,  \* on GitHub: the latest version
    outdated,   \* on GitHub: for how long each version has been superseded
    entry,      \* on disk: the directory of each version
    print,      \* TrustedTrees: whether each tree is as this process recorded it
    lastCheck,  \* in memory: for how long the last lookup is past
    lease,      \* on disk: the version each attempt holds
    attempt,    \* the journal's row of each attempt
    launch,     \* the launch that holds the allocation lock
    budget      \* faults still to come

github == <<published, outdated>>
cache == <<entry, print, lastCheck>>
vars == <<published, outdated, entry, print, lastCheck, lease, attempt, launch, budget>>

-----------------------------------------------------------------------------
\* Values

Versions == 1 .. MaxVersion
None == 0
Torn == MaxVersion + 1        \* a lease whose write a crash cut short
Ages == 0 .. WINDOW + 1
Spans == 0 .. WINDOW + REQUEST_TIMEOUT + 1

Older(age, most) == IF age < most THEN age + 1 ELSE age

\* "headless" is a directory without a readable manifest, which is no entry.
Entry == [ state: { "absent", "complete", "headless" }, age: Ages ]
Absent == [ state |-> "absent", age |-> 0 ]
Headless == [ state |-> "headless", age |-> 0 ]

\* A print is there and still holds, is there and has moved, or was never made.
Prints == { "none", "same", "moved" }

Steps == { "idle", "ensure", "catalog", "answer", "download", "check", "record", "copy", "lease", "prune" }

Launch == [ pc: Steps, attempt: Attempts \cup { None }, version: Versions \cup { None },
            force: BOOLEAN,              \* reinstalling
            stamp: Ages,                 \* since GitHub answered; then, since the answer was read
            tries: 0 .. RETRY_BUDGET, issued: 0 .. MAX_ATTEMPTS ]

\* A launch that has chosen nothing yet.
LaunchAt(step, a, issued) ==
    [ pc |-> step, attempt |-> a, version |-> None, force |-> FALSE,
      stamp |-> 0, tries |-> 0, issued |-> issued ]

NoLaunch == LaunchAt("idle", None, 0)

Init ==
    /\ published = 1 /\ outdated = [ v \in Versions |-> 0 ]
    /\ entry = [ v \in Versions |-> Absent ] /\ print = [ v \in Versions |-> "none" ]
    /\ lastCheck = CHECK_INTERVAL
    /\ lease = [ a \in Attempts |-> None ]
    /\ attempt = [ a \in Attempts |-> "none" ]
    /\ launch = NoLaunch
    /\ budget = MaxFaults

Fault == budget > 0 /\ budget' = budget - 1

-----------------------------------------------------------------------------
\* Reading the cache

Installed == { v \in Versions : entry[v].state = "complete" }

\* The entry installed last; of several, the highest version.
NewestInstalled ==
    CHOOSE v \in Installed :
        \A w \in Installed : entry[v].age < entry[w].age \/ (entry[v].age = entry[w].age /\ v >= w)

IsStale(v) == entry[v].age > WINDOW

CheckIsDue == Installed = {} \/ IsStale(NewestInstalled) \/ lastCheck >= CHECK_INTERVAL

-----------------------------------------------------------------------------
\* A launch takes a package

Begin(a) ==
    /\ launch.pc = "idle" /\ attempt[a] = "none"
    /\ attempt' = [ attempt EXCEPT ![a] = "starting" ]
    /\ launch' = LaunchAt("ensure", a, 1)
    /\ UNCHANGED <<github, cache, lease, budget>>

\* The package is there: next, whether it is as this process left it.
Picked(v) == [ launch EXCEPT !.pc = "check", !.version = v, !.stamp = 0, !.tries = 0 ]

\* The published version is looked up, for the given try.
LookedUp(force, try) ==
    [ launch EXCEPT !.pc = "catalog", !.version = None, !.force = force, !.stamp = 0, !.tries = try ]

Ensure ==
    /\ launch.pc = "ensure"
    /\ launch' = IF CheckIsDue THEN LookedUp(FALSE, 1)
                               ELSE Picked(NewestInstalled)
    /\ UNCHANGED <<github, cache, lease, attempt, budget>>

\* GitHub names the version it publishes; the answer is under way.
Published ==
    /\ launch.pc = "catalog"
    /\ launch' = [ launch EXCEPT !.pc = "answer", !.version = published, !.stamp = 0 ]
    /\ UNCHANGED <<github, cache, lease, attempt, budget>>

\* install_once from the answer to the download: reuse the version it names, or
\* one that is still fresh, unless forced.  The clock is read here.
Catalog ==
    /\ launch.pc = "answer"
    /\ LET named == launch.version
       IN  CASE ~launch.force /\ named \in Installed ->
                    launch' = Picked(named) /\ lastCheck' = 0
             [] ~launch.force /\ named \notin Installed /\ Installed # {} /\ ~IsStale(NewestInstalled) ->
                    launch' = Picked(NewestInstalled) /\ lastCheck' = 0
             [] OTHER ->
                    /\ launch' = [ launch EXCEPT !.pc = "download", !.stamp = 0 ]
                    /\ UNCHANGED lastCheck
    /\ UNCHANGED <<github, entry, print, lease, attempt, budget>>

\* A materialization failed: it is tried again while demand persists, or the
\* attempt is concluded.  Either way nothing of its copy is left.
FailMaterialize ==
    \/ /\ launch.issued < MAX_ATTEMPTS
       /\ launch' = LaunchAt("ensure", launch.attempt, launch.issued + 1)
       /\ UNCHANGED attempt
    \/ /\ launch' = NoLaunch
       /\ attempt' = [ attempt EXCEPT ![launch.attempt] = "concluded" ]

\* Mutant: an installation is tried until it succeeds.
RetryForEver == launch' = LookedUp(launch.force, launch.tries + 1) /\ UNCHANGED attempt

\* One try of an installation failed.
FailInstall ==
    IF launch.tries < RETRY_BUDGET
    THEN launch' = LookedUp(launch.force, launch.tries + 1) /\ UNCHANGED attempt
    ELSE FailMaterialize

\* The catalog is not reached, its answer is lost or late, or the transfer, the
\* digest or the extraction fails.
InstallFails ==
    /\ launch.pc \in { "catalog", "answer", "download" } /\ Fault
    /\ FailInstall
    /\ UNCHANGED <<github, cache, lease>>

\* No digest to check against: terminal, no retry.
Unverifiable ==
    /\ launch.pc = "answer" /\ Fault
    /\ launch' = NoLaunch
    /\ attempt' = [ attempt EXCEPT ![launch.attempt] = "concluded" ]
    /\ UNCHANGED <<github, cache, lease>>

\* Mutant: an entry is dated by the end of its download.
StampedAtCommit(stamp) == [ state |-> "complete", age |-> 0 ]

\* An entry is dated by the arrival of the answer that named it.
NewEntry(stamp) == [ state |-> "complete", age |-> stamp ]

\* Fetched, verified, extracted and renamed into place: the single commit.
\* The rename fails on a directory that is there; a forced installation sets it
\* aside before.  (No other installation runs, so no entry is found here.)
Commit ==
    /\ launch.pc = "download"
    /\ LET v == launch.version
       IN  IF ~launch.force /\ entry[v].state # "absent"
           THEN FailInstall /\ UNCHANGED cache
           ELSE /\ entry' = [ entry EXCEPT ![v] = NewEntry(launch.stamp) ]
                /\ print' = [ print EXCEPT ![v] = IF @ = "none" THEN "none" ELSE "moved" ]
                /\ lastCheck' = 0
                /\ launch' = [ launch EXCEPT !.pc = "record", !.force = FALSE, !.stamp = 0, !.tries = 0 ]
                /\ UNCHANGED attempt
    /\ UNCHANGED <<github, lease, budget>>

\* A tree is trusted while it is as this process recorded it.
Holds(v) == print[v] = "same"

\* What this process cannot vouch for is reinstalled, everything else with it.
Check ==
    /\ launch.pc = "check"
    /\ IF Holds(launch.version)
       THEN launch' = [ launch EXCEPT !.pc = "copy" ] /\ UNCHANGED entry
       ELSE /\ entry' = [ v \in Versions |-> IF v \in Installed THEN Absent ELSE entry[v] ]
            /\ launch' = LookedUp(TRUE, 1)
    /\ UNCHANGED <<github, print, lastCheck, lease, attempt, budget>>

\* An entry cannot be set aside; those before it were.
SetAsideFails ==
    /\ launch.pc = "check" /\ ~Holds(launch.version) /\ Fault
    /\ \E aside \in SUBSET Installed :
        /\ aside # Installed
        /\ entry' = [ v \in Versions |-> IF v \in aside THEN Absent ELSE entry[v] ]
    /\ FailMaterialize
    /\ UNCHANGED <<github, print, lastCheck, lease>>

\* The print of a tree this launch installed, whatever it is by now.
Record ==
    /\ launch.pc = "record"
    /\ print' = [ print EXCEPT ![launch.version] = "same" ]
    /\ launch' = [ launch EXCEPT !.pc = "copy" ]
    /\ UNCHANGED <<github, entry, lastCheck, lease, attempt, budget>>

\* Checked again after the copy: the tree may have changed under it.
Copy ==
    /\ launch.pc = "copy"
    /\ IF Holds(launch.version)
       THEN launch' = [ launch EXCEPT !.pc = "lease" ] /\ UNCHANGED attempt
       ELSE FailMaterialize
    /\ UNCHANGED <<github, cache, lease, budget>>

CopyFails ==
    /\ launch.pc = "copy" /\ Fault
    /\ FailMaterialize
    /\ UNCHANGED <<github, cache, lease>>

Lease ==
    /\ launch.pc = "lease"
    /\ IF launch.version \in Installed
       THEN /\ lease' = [ lease EXCEPT ![launch.attempt] = launch.version ]
            /\ launch' = [ launch EXCEPT !.pc = "prune" ]
            /\ UNCHANGED attempt
       ELSE FailMaterialize /\ UNCHANGED lease
    /\ UNCHANGED <<github, cache, budget>>

-----------------------------------------------------------------------------
\* Pruning, at the end of a materialization

Holders(v) == { a \in Attempts : lease[a] = v }

Counts(a) == attempt[a] \in { "starting", "running" }

\* Mutant: a lease counts once its runner has started.
InUseOnceRunning(v) == \E a \in Holders(v) : attempt[a] = "running"

\* An attempt the journal counts against capacity holds it.
InUse(v) == \E a \in Holders(v) : Counts(a)

Obsolete == { v \in Installed : v # launch.version /\ ~InUse(v) }

\* A lease that cannot be read may name any version: if there is another
\* version at all, the launch fails.
LeasesReadable == Installed \subseteq { launch.version } \/ \A a \in Attempts : lease[a] # Torn

Removed(versions) ==
    /\ entry' = [ v \in Versions |-> IF v \in versions THEN Absent ELSE entry[v] ]
    /\ lease' = [ a \in Attempts |-> IF lease[a] \in versions THEN None ELSE lease[a] ]

\* What is left of the launch is modelled in Lifecycle.  A launch that fails
\* here leaves its attempt to supervision.
Prune ==
    /\ launch.pc = "prune"
    /\ IF LeasesReadable
       THEN Removed(Obsolete) /\ attempt' = [ attempt EXCEPT ![launch.attempt] = "running" ]
       ELSE UNCHANGED <<entry, lease, attempt>>
    /\ launch' = NoLaunch
    /\ UNCHANGED <<github, print, lastCheck, budget>>

\* The prune stops at one version, those before it gone with their leases: its
\* directory is as it was, without its manifest, or gone with its leases unspent.
HalfPruned(last) ==
    \E gone \in SUBSET (Obsolete \ { last }), left \in { entry[last], Headless, Absent } :
        /\ entry' = [ v \in Versions |-> IF v \in gone THEN Absent
                                         ELSE IF v = last THEN left ELSE entry[v] ]
        /\ lease' = [ a \in Attempts |-> IF lease[a] \in gone THEN None ELSE lease[a] ]

PruneFails ==
    /\ launch.pc = "prune" /\ LeasesReadable /\ Fault
    /\ \E last \in Obsolete :
        /\ HalfPruned(last)
        /\ print' = [ print EXCEPT ![last] = IF @ = "same" THEN "moved" ELSE @ ]
    /\ launch' = NoLaunch
    /\ UNCHANGED <<github, lastCheck, attempt>>

-----------------------------------------------------------------------------
\* Beside the launch

\* The runner ends.
End(a) ==
    /\ attempt[a] = "running"
    /\ attempt' = [ attempt EXCEPT ![a] = "concluded" ]
    /\ UNCHANGED <<github, cache, lease, launch, budget>>

\* An attempt no launch goes on with is concluded by supervision.
Orphaned(a) ==
    /\ attempt[a] = "starting" /\ launch.attempt # a
    /\ attempt' = [ attempt EXCEPT ![a] = "concluded" ]
    /\ UNCHANGED <<github, cache, lease, launch, budget>>

\* Mutant: a lease that cannot be read is left behind.
KeepTorn(a) == lease' = [ lease EXCEPT ![a] = IF @ = Torn THEN Torn ELSE None ]

\* Whatever the attempt held, and whether or not its lease can be read.
Release(a) == lease' = [ lease EXCEPT ![a] = None ]

Clean(a) ==
    /\ attempt[a] = "concluded"
    /\ Release(a)
    /\ attempt' = [ attempt EXCEPT ![a] = "none" ]
    /\ UNCHANGED <<github, cache, launch, budget>>

\* A job changes a tree, or its manifest too.
JobWrites(v) ==
    /\ v \in Installed /\ (\E a \in Attempts : attempt[a] = "running") /\ Fault
    /\ entry' \in { entry, [ entry EXCEPT ![v] = Headless ] }
    /\ print' = [ print EXCEPT ![v] = IF @ = "same" THEN "moved" ELSE @ ]
    /\ UNCHANGED <<github, lastCheck, lease, attempt, launch>>

\* The daemon dies and starts again: it remembers no lookup and vouches for no
\* tree; a lease or a removal under way is left half done.
Crash ==
    /\ Fault
    /\ launch' = NoLaunch /\ lastCheck' = CHECK_INTERVAL
    /\ print' = [ v \in Versions |-> "none" ]
    /\ \/ UNCHANGED <<entry, lease>>
       \/ launch.pc = "lease" /\ lease' = [ lease EXCEPT ![launch.attempt] = Torn ] /\ UNCHANGED entry
       \/ launch.pc = "prune" /\ LeasesReadable /\ \E last \in Obsolete : HalfPruned(last)
    /\ UNCHANGED <<github, attempt>>

Publish ==
    /\ published < MaxVersion
    /\ published' = published + 1
    /\ UNCHANGED <<outdated, cache, lease, attempt, launch, budget>>

\* One unit of time: lookups, downloads and copies take some.  An answer that is
\* under way for REQUEST_TIMEOUT has arrived or is given up.
Tick ==
    /\ launch.pc \notin { "ensure", "check", "lease", "prune" }
    /\ launch.pc = "answer" => launch.stamp < REQUEST_TIMEOUT
    /\ outdated' = [ v \in Versions |->
                       IF v < published THEN Older(outdated[v], WINDOW + REQUEST_TIMEOUT + 1) ELSE 0 ]
    /\ entry' = [ v \in Versions |->
                    IF v \in Installed THEN [ entry[v] EXCEPT !.age = Older(@, WINDOW + 1) ] ELSE entry[v] ]
    /\ lastCheck' = Older(lastCheck, CHECK_INTERVAL)
    /\ launch' = IF launch.pc \in { "answer", "download" }
                 THEN [ launch EXCEPT !.stamp = Older(@, WINDOW + 1) ] ELSE launch
    /\ UNCHANGED <<published, print, lease, attempt, budget>>

LaunchStep == Ensure \/ Published \/ Catalog \/ Commit \/ Check \/ Record \/ Copy \/ Lease \/ Prune

Faults ==
    \/ InstallFails \/ Unverifiable \/ SetAsideFails \/ CopyFails \/ PruneFails \/ Crash
    \/ \E v \in Versions : JobWrites(v)

Next ==
    \/ \E a \in Attempts : Begin(a) \/ End(a) \/ Orphaned(a) \/ Clean(a)
    \/ LaunchStep \/ Faults \/ Publish \/ Tick

Spec == Init /\ [][Next]_vars

(* Fairness: demand persists and the loops poll, a launch goes on, supervision and *)
(* cleanup come round.  Nothing is assumed of jobs, of GitHub's releases or of     *)
(* faults, of which there are finitely many.                                       *)
Fairness ==
    /\ WF_vars(\E a \in Attempts : Begin(a)) /\ WF_vars(LaunchStep)
    /\ \A a \in Attempts : WF_vars(Orphaned(a)) /\ WF_vars(Clean(a))

LiveSpec == Spec /\ Fairness

-----------------------------------------------------------------------------
\* Properties

TypeOK ==
    /\ published \in Versions /\ outdated \in [ Versions -> Spans ]
    /\ entry \in [ Versions -> Entry ] /\ print \in [ Versions -> Prints ]
    /\ lastCheck \in 0 .. CHECK_INTERVAL
    /\ lease \in [ Attempts -> Versions \cup { None, Torn } ]
    /\ attempt \in [ Attempts -> { "none", "starting", "running", "concluded" } ]
    /\ launch \in Launch
    /\ budget \in 0 .. MaxFaults

\* A package reused from disk was superseded no longer than WINDOW ago, give or
\* take what the lookup's answer took, although GitHub says neither when a version
\* was published nor when it was superseded and a download may take long.  The
\* comment on is_stale leaves the answer's time out ("bounded exactly"): the
\* clock is read after it, so a version may be superseded before its stamp.
ReusedInTime ==
    [][ launch.pc \in { "ensure", "answer" } /\ launch'.pc = "check" =>
          outdated[launch'.version] <= WINDOW + REQUEST_TIMEOUT ]_launch

\* A package that a live attempt's lease names leaves the cache only for a
\* reinstallation, which takes everything, or because a job took it (prune).
LeasedIsKept ==
    [][ \A v \in Versions :
          v \in Installed /\ entry'[v].state # "complete"
          /\ (\E a \in Attempts : lease[a] = v /\ attempt[a] \in { "starting", "running" }) =>
            launch.pc = "check" \/ launch' = launch ]_entry

\* A host starts runners again after every crash, failed installation, half
\* removed package and torn lease, unless the published version's directory has
\* lost its manifest: the rename then fails for good (download_verify_and_install).
LaunchesGoOn ==
    []<>((\E a \in Attempts : attempt[a] = "running") \/ entry[published].state = "headless")
===============================================================================
