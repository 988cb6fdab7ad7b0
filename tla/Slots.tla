-------------------------------- MODULE Slots --------------------------------
(***************************************************************************)
(* Persistent workspaces (crates/agent/src/lifecycle.rs,                   *)
(* crates/app/src/cli/workspace.rs): the numbered slots `<root>/sN` in     *)
(* which the runners of one repository keep their `_work`, leased through  *)
(* the journal and scrubbed after each attempt, while operators change or  *)
(* remove the setting and other target loops clean what they find          *)
(* concluded.  A loop serves a repository while some profile of it is      *)
(* stored: when that changes, the daemon (crates/app/src/cli/daemon.rs)    *)
(* drains and begins anew with the repositories that are left.             *)
(*                                                                         *)
(* A directory is what it is, whose runner files it holds and what stands  *)
(* in it as `_work`; two roots overlap when they are the same one.  The    *)
(* daemon runs its loops on one thread, so what a loop does between two    *)
(* awaits is one step.                                                     *)
(***************************************************************************)
EXTENDS Naturals

CONSTANTS
    Policies,       \* profiles
    RepositoryOf,   \* the repository each is a profile of
    Roots,          \* directories there may be slots in
    RootsOf,        \* those the operators of each profile name
    Demanded,       \* profiles GitHub has jobs for
    Ceiling,        \* max_capacity of every policy
    MaxSlot,        \* bound on the slots there may be directories for
    Attempts,       \* launches, each made once
    MaxChanges,     \* bound on what operators change
    MaxCrashes      \* bound on restarts of the daemon

ASSUME SlotsAssumption ==
    /\ Ceiling \in Nat \ {0} /\ MaxSlot \in Nat /\ Ceiling <= MaxSlot
    /\ MaxChanges \in Nat /\ MaxCrashes \in Nat
    /\ DOMAIN RepositoryOf = Policies
    /\ RootsOf \in [ Policies -> SUBSET Roots ]

NoRoot == "ephemeral"
Removed == "removed"
NoRequest == "none"
NoAttempt == "none"
NoPolicy == "none"

Repositories == { RepositoryOf[p] : p \in Policies }
Directories == Roots \X (1 .. MaxSlot)

VARIABLES
    stored,     \* the journal: the workspace policy of each profile
    attempt,    \* the journal: the attempts
    request,    \* set-workspace: validated and not yet written
    serving,    \* the repositories there is a target loop for
    drain,      \* the daemon has asked its loops to finish
    loaded,     \* the copy of the policies each target loop runs with
    loop,       \* the pass of each target loop
    launching,  \* the launch under way, which holds the allocation lock
    dir,        \* the file system
    changes,    \* changes made
    crashes     \* restarts made

generation == <<serving, drain>>

vars == <<stored, attempt, request, loaded, loop, launching, dir, generation, changes, crashes>>

-----------------------------------------------------------------------------
\* Values

\* `current` is history: whether the stored setting agreed with the launch.
Row == [ state: { "none", "allocated", "running", "concluded", "cleaned" },
         policy: Policies \cup { NoPolicy }, root: Roots \cup { NoRoot },
         slot: 0 .. Ceiling, current: BOOLEAN ]

NoRow == [ state |-> "none", policy |-> NoPolicy, root |-> NoRoot, slot |-> 0, current |-> TRUE ]

Directory == [ kind: { "absent", "real", "link" }, files: SUBSET Attempts,
               work: { "none", "real", "link" } ]

Absent == [ kind |-> "absent", files |-> {}, work |-> "none" ]

\* `drain` is what the loop has heard of it.
IdleLoop == [ pc |-> "idle", drain |-> FALSE, left |-> {}, copy |-> {} ]

Init ==
    /\ stored = [ p \in Policies |-> NoRoot ]
    /\ attempt = [ a \in Attempts |-> NoRow ]
    /\ request = [ p \in Policies |-> NoRequest ]
    /\ serving = Repositories /\ drain = FALSE
    /\ loaded = stored
    /\ loop = [ t \in Repositories |-> IdleLoop ]
    /\ launching = NoAttempt
    /\ dir = [ d \in Directories |-> Absent ]
    /\ changes = 0 /\ crashes = 0

Uncleaned(a) == attempt[a].state \in { "allocated", "running", "concluded" }

Persistent(a) == attempt[a].root # NoRoot

DirectoryOf(a) == <<attempt[a].root, attempt[a].slot>>

Becomes(a, state) == attempt' = [ attempt EXCEPT ![a].state = state ]

-----------------------------------------------------------------------------
\* repo set-workspace and repo remove

UncleanedOf(p) == { a \in Attempts : attempt[a].policy = p /\ Uncleaned(a) }

\* No other repository keeps its slots there.  The profiles of one repository
\* are one owner, and may name the same root.
Preflight(p, workspace) ==
    workspace = NoRoot \/ \A q \in Policies : RepositoryOf[q] # RepositoryOf[p] => stored[q] # workspace

RequestChange(p, workspace) ==
    /\ changes < MaxChanges /\ changes' = changes + 1
    /\ request[p] = NoRequest /\ stored[p] \notin { Removed, workspace }
    /\ UncleanedOf(p) = {} /\ Preflight(p, workspace)
    /\ request' = [ request EXCEPT ![p] = workspace ]
    /\ UNCHANGED <<stored, attempt, loaded, loop, launching, dir, generation, crashes>>

\* Mutant: the attempts were counted when the command began.
FenceRevisionOnly(p) == stored[p] # Removed

\* The transaction confirms the revision and the count again.
FenceConfirmed(p) == stored[p] # Removed /\ UncleanedOf(p) = {}

CommitChange(p) ==
    /\ request[p] # NoRequest
    /\ stored' = IF FenceConfirmed(p) THEN [ stored EXCEPT ![p] = request[p] ] ELSE stored
    /\ request' = [ request EXCEPT ![p] = NoRequest ]
    /\ UNCHANGED <<attempt, loaded, loop, launching, dir, generation, changes, crashes>>

\* Without --purge the attempts stay in the journal.
RemovePolicy(p) ==
    /\ changes < MaxChanges /\ changes' = changes + 1
    /\ stored[p] # Removed
    /\ stored' = [ stored EXCEPT ![p] = Removed ]
    /\ UNCHANGED <<attempt, request, loaded, loop, launching, dir, generation, crashes>>

-----------------------------------------------------------------------------
\* A target loop: it reads its policies, supervises each, and launches

Pc(p) == loop[RepositoryOf[p]].pc

PoliciesOf(t) == { p \in Policies : RepositoryOf[p] = t }

\* refresh_policies: what is stored, and the last copy when nothing is.
Refreshed(t) ==
    [ p \in Policies |->
        IF p \in PoliciesOf(t) /\ \E q \in PoliciesOf(t) : stored[q] # Removed
        THEN stored[p] ELSE loaded[p] ]

BeginPass(t) ==
    /\ t \in serving /\ loop[t].pc = "idle"
    /\ loaded' = Refreshed(t)
    /\ loop' = [ loop EXCEPT ![t] =
            [ pc |-> "supervising", drain |-> drain, copy |-> {},
              left |-> { p \in PoliciesOf(t) : Refreshed(t)[p] # Removed } ] ]
    /\ UNCHANGED <<stored, attempt, request, launching, dir, generation, changes, crashes>>

\* supervise lists the attempts of one policy and then visits them.
Supervise(p) ==
    LET t == RepositoryOf[p]
    IN  /\ Pc(p) = "supervising" /\ loop[t].copy = {} /\ p \in loop[t].left
        /\ loop' = [ loop EXCEPT ![t].left = @ \ {p}, ![t].copy = UncleanedOf(p) ]
        /\ UNCHANGED <<stored, attempt, request, loaded, launching, dir, generation, changes, crashes>>

Visited(a) == loop' = [ loop EXCEPT ![RepositoryOf[attempt[a].policy]].copy = @ \ {a} ]

Visiting(a) == attempt[a].policy # NoPolicy /\ a \in loop[RepositoryOf[attempt[a].policy]].copy

\* The runner is alive, or a retry is not due.
PassOver(a) ==
    /\ Visiting(a)
    /\ Visited(a)
    /\ UNCHANGED <<stored, attempt, request, loaded, launching, dir, generation, changes, crashes>>

\* The process is gone, or a launch of a daemon before never started one.
Conclude(a) ==
    /\ Visiting(a) /\ attempt[a].state \in { "allocated", "running" } /\ launching # a
    /\ Becomes(a, "concluded")
    /\ UNCHANGED <<stored, request, loaded, loop, launching, dir, generation, changes, crashes>>

EndSupervision(t) ==
    /\ loop[t].pc = "supervising" /\ loop[t].left = {} /\ loop[t].copy = {}
    /\ loop' = [ loop EXCEPT ![t].pc = "sweeping" ]
    /\ UNCHANGED <<stored, attempt, request, loaded, launching, dir, generation, changes, crashes>>

\* What is concluded has been swept, or is left to a later pass.
EndSweep(t) ==
    /\ loop[t].pc = "sweeping"
    /\ loop' = [ loop EXCEPT ![t].pc = "launching" ]
    /\ UNCHANGED <<stored, attempt, request, loaded, launching, dir, generation, changes, crashes>>

\* local_active: a runner of a profile the loop still has.
LocalActive(t) ==
    { a \in Attempts : /\ attempt[a].state \in { "allocated", "running" }
                       /\ RepositoryOf[attempt[a].policy] = t /\ loaded[attempt[a].policy] # Removed }

EndPass(t) ==
    /\ loop[t].pc = "launching"
    /\ ~(launching # NoAttempt /\ RepositoryOf[attempt[launching].policy] = t)
    /\ loop' = [ loop EXCEPT ![t] =
            [ IdleLoop EXCEPT !.pc = IF loop[t].drain /\ LocalActive(t) = {} THEN "done" ELSE "idle" ] ]
    /\ UNCHANGED <<stored, attempt, request, loaded, launching, dir, generation, changes, crashes>>

-----------------------------------------------------------------------------
\* Launch, under the allocation lock

\* Every uncleaned attempt in a slot holds it, of whatever root.
Leases(p) == { attempt[a].slot : a \in { b \in UncleanedOf(p) : Persistent(b) } }

\* Mutant: the ceiling is left to the allocator.
LowestFreeUnbounded(p) == { s \in 1 .. MaxSlot : s \notin Leases(p) /\ \A u \in 1 .. s - 1 : u \in Leases(p) }

\* lowest_free_slot: none when every slot up to the ceiling is held.
LowestFree(p) == { s \in 1 .. Ceiling : s \notin Leases(p) /\ \A u \in 1 .. s - 1 : u \in Leases(p) }

\* create_or_validate_slot and accept_reusable_slot.
Reusable(d) == dir[d].kind # "link" /\ dir[d].files = {} /\ dir[d].work # "link"

\* The policy, if there is one with a root, names this one.
Agrees(p, root) == root = NoRoot \/ stored[p] \in { NoRoot, Removed, root }

Allocated(a, p, root, slot) ==
    attempt' = [ attempt EXCEPT ![a] = [ state |-> "allocated", policy |-> p, root |-> root,
                                         slot |-> slot, current |-> Agrees(p, root) ] ]

\* One new name is as good as another.
Fresh == CHOOSE a \in Attempts : attempt[a] = NoRow

Allocate(a, p) ==
    /\ p \in Demanded /\ launching = NoAttempt /\ attempt[a] = NoRow /\ a = Fresh
    /\ Pc(p) = "launching" /\ ~loop[RepositoryOf[p]].drain /\ loaded[p] # Removed
    /\ launching' = a
    /\ IF loaded[p] = NoRoot
       THEN Allocated(a, p, NoRoot, 0) /\ UNCHANGED dir
       ELSE \E slot \in LowestFree(p) :
              LET d == <<loaded[p], slot>>
              IN  /\ Reusable(d)
                  /\ dir' = [ dir EXCEPT ![d].kind = "real" ]
                  /\ Allocated(a, p, loaded[p], slot)
    /\ UNCHANGED <<stored, request, loaded, loop, generation, changes, crashes>>

Materialize ==
    /\ launching # NoAttempt /\ Persistent(launching)
    /\ launching \notin dir[DirectoryOf(launching)].files
    /\ dir' = [ dir EXCEPT ![DirectoryOf(launching)].files = @ \cup { launching } ]
    /\ UNCHANGED <<stored, attempt, request, loaded, loop, launching, generation, changes, crashes>>

\* Mutant: the runtime is removed whole, as a disposable one is.
RemovedWhole(d) == { Absent }

\* remove_materialized_package: all but a real `_work`, as far as it goes.
RolledBack(d) == { [ dir[d] EXCEPT !.files = {} ], dir[d] }

\* fail_launch: the attempt is concluded, and cleaned by a later pass.
LaunchFails ==
    /\ launching # NoAttempt
    /\ \/ UNCHANGED dir
       \/ /\ Persistent(launching)
          /\ \E left \in RolledBack(DirectoryOf(launching)) :
               dir' = [ dir EXCEPT ![DirectoryOf(launching)] = left ]
    /\ Becomes(launching, "concluded")
    /\ launching' = NoAttempt
    /\ UNCHANGED <<stored, request, loaded, loop, generation, changes, crashes>>

Start ==
    /\ launching # NoAttempt
    /\ Persistent(launching) => launching \in dir[DirectoryOf(launching)].files
    /\ Becomes(launching, "running")
    /\ launching' = NoAttempt
    /\ UNCHANGED <<stored, request, loaded, loop, dir, generation, changes, crashes>>

-----------------------------------------------------------------------------
\* Cleanup

\* verify_journalled_slot: the policy agrees with the journalled path, and the
\* slot is not a link out of it.
Verified(a) ==
    /\ Agrees(attempt[a].policy, attempt[a].root)
    /\ dir[DirectoryOf(a)].kind # "link"

Scrubbed(d) == [ dir EXCEPT ![d].files = {} ]

\* clean_attempt: the directory first, then the row.
Clean(a) ==
    /\ IF Persistent(a)
       THEN Verified(a) /\ dir[DirectoryOf(a)].work # "link" /\ dir' = Scrubbed(DirectoryOf(a))
       ELSE UNCHANGED dir
    /\ Becomes(a, "cleaned")

\* Mutant: the row is written although the directory was not removed.
CleanedAnyway(a) ==
    /\ Persistent(a) /\ Verified(a)
    /\ dir' \in { dir, Scrubbed(DirectoryOf(a)) }
    /\ Becomes(a, "cleaned")

\* An entry is not removed, a `_work` that is a link stops the scrub, the package
\* is not released or the row is not written: the attempt stays concluded, and
\* more or less of the directory is gone.
CleanHalfway(a) ==
    /\ Persistent(a) /\ Verified(a)
    /\ dir' \in { dir, Scrubbed(DirectoryOf(a)) }
    /\ UNCHANGED attempt

\* By the loop that supervises it, from the row it listed: another loop may
\* have cleaned the attempt since.
CleanCopy(a) ==
    /\ Visiting(a) /\ attempt[a].state \in { "concluded", "cleaned" }
    /\ Clean(a) \/ CleanHalfway(a)
    /\ Visited(a)
    /\ UNCHANGED <<stored, request, loaded, launching, generation, changes, crashes>>

\* Mutant: another loop listed the attempt some time before it cleans it.
ListedEarlier(a) == attempt[a].state \in { "concluded", "cleaned" }

ListedNow(a) == attempt[a].state = "concluded"

\* clean_terminal_attempts: every loop cleans the attempts of the whole host,
\* those of removed policies too.  Listed and cleaned without an await.
Sweep(t, a) ==
    /\ loop[t].pc = "sweeping" /\ ListedNow(a)
    /\ Clean(a) \/ CleanHalfway(a)
    /\ UNCHANGED <<stored, request, loaded, loop, launching, generation, changes, crashes>>

-----------------------------------------------------------------------------
\* The jobs and the operator at the machine

\* A job works in its slot, and may replace `_work` or the slot by a link.
Job(a) ==
    /\ attempt[a].state = "running" /\ Persistent(a) /\ dir[DirectoryOf(a)].kind = "real"
    /\ \E after \in { [ dir[DirectoryOf(a)] EXCEPT !.work = "real" ],
                      [ dir[DirectoryOf(a)] EXCEPT !.work = "link" ],
                      [ Absent EXCEPT !.kind = "link" ] } :
         dir' = [ dir EXCEPT ![DirectoryOf(a)] = after ]
    /\ UNCHANGED <<stored, attempt, request, loaded, loop, launching, generation, changes, crashes>>

\* What the remediation of a quarantined slot asks for.
RemoveByHand(d) ==
    /\ dir[d].kind = "link" \/ dir[d].work = "link"
    /\ \A a \in Attempts : DirectoryOf(a) = d => attempt[a].state # "running"
    /\ dir' = [ dir EXCEPT ![d] = Absent ]
    /\ UNCHANGED <<stored, attempt, request, loaded, loop, launching, generation, changes, crashes>>

-----------------------------------------------------------------------------
\* The daemon's generations

\* active_autoscale_targets.
Targets == { RepositoryOf[p] : p \in { q \in Policies : stored[q] # Removed } }

\* wait_for_policy_set_change.
WatchPolicySet ==
    /\ serving # {} /\ ~drain /\ Targets # serving
    /\ drain' = TRUE
    /\ UNCHANGED <<stored, attempt, request, serving, loaded, loop, launching, dir, changes, crashes>>

\* A daemon reads the policies and has one loop for each target: the attempts of
\* a removed policy are recovered and supervised by none.  Without a target it
\* waits.
NewGeneration ==
    /\ serving' = Targets /\ drain' = FALSE
    /\ loaded' = stored
    /\ loop' = [ t \in Repositories |-> IdleLoop ]

\* Every loop has finished.
Reload ==
    /\ drain /\ \A t \in serving : loop[t].pc = "done"
    /\ NewGeneration
    /\ UNCHANGED <<stored, attempt, request, launching, dir, changes, crashes>>

\* The runners go on.
Restart ==
    /\ crashes < MaxCrashes /\ crashes' = crashes + 1
    /\ NewGeneration
    /\ launching' = NoAttempt
    /\ UNCHANGED <<stored, attempt, request, dir, changes>>

-----------------------------------------------------------------------------

Operator ==
    \/ \E p \in Policies :
          \/ \E workspace \in RootsOf[p] \cup { NoRoot } : RequestChange(p, workspace)
          \/ CommitChange(p) \/ RemovePolicy(p)
    \/ \E d \in Directories : RemoveByHand(d)

Visit(a) == PassOver(a) \/ Conclude(a) \/ CleanCopy(a)

Pass(t) ==
    \/ BeginPass(t) \/ EndSupervision(t) \/ EndSweep(t) \/ EndPass(t)
    \/ \E p \in PoliciesOf(t) : Supervise(p)
    \/ \E a \in Attempts : attempt[a].policy \in PoliciesOf(t) /\ Visit(a)
    \/ \E a \in Attempts : Sweep(t, a)

Launch == Materialize \/ LaunchFails \/ Start

Next ==
    \/ Operator
    \/ \E t \in Repositories : Pass(t)
    \/ \E a \in Attempts : Job(a) \/ \E p \in Policies : Allocate(a, p)
    \/ Launch \/ WatchPolicySet \/ Reload \/ Restart

Spec == Init /\ [][Next]_vars

\* Some loop cleans it.
Cleanup(a) == (CleanCopy(a) \/ \E t \in Repositories : Sweep(t, a)) /\ Clean(a)

\* Fairness: the daemon runs its loops, the launch and the watch on the policies,
\* and a concluded attempt whose cleanup is not refused is cleaned some time it is
\* tried.  Nothing is assumed of operators or jobs: a drain may last for ever.
Fairness ==
    /\ \A t \in Repositories : WF_vars(Pass(t))
    /\ WF_vars(Launch) /\ WF_vars(WatchPolicySet) /\ WF_vars(Reload)
    /\ \A a \in Attempts : SF_vars(Cleanup(a))

LiveSpec == Spec /\ Fairness

-----------------------------------------------------------------------------
\* Properties

TypeOK ==
    /\ stored \in [ Policies -> Roots \cup { NoRoot, Removed } ]
    /\ attempt \in [ Attempts -> Row ]
    /\ request \in [ Policies -> Roots \cup { NoRoot, NoRequest } ]
    /\ serving \subseteq Repositories /\ drain \in BOOLEAN
    /\ loaded \in [ Policies -> Roots \cup { NoRoot, Removed } ]
    /\ loop \in [ Repositories -> [ pc: { "idle", "supervising", "sweeping", "launching", "done" },
                                    drain: BOOLEAN, left: SUBSET Policies, copy: SUBSET Attempts ] ]
    /\ launching \in Attempts \cup { NoAttempt }
    /\ dir \in [ Directories -> Directory ]
    /\ changes \in 0 .. MaxChanges /\ crashes \in 0 .. MaxCrashes

\* A runner at work keeps its own files and finds no other's beside them: no
\* cleanup, however late and from whichever loop's copy of a row, reaches the
\* slot of a runner that has leased it since (clean_terminal_attempts).
RunnerUndisturbed ==
    \A a \in Attempts :
        attempt[a].state = "running" /\ Persistent(a) =>
            dir[DirectoryOf(a)].kind = "link" \/ dir[DirectoryOf(a)].files = { a }

\* The files of a cleaned attempt are gone, although each step of a cleanup may
\* fail and be tried again by another loop: a directory that holds any is leased
\* by an attempt that still has to be cleaned (clean_attempt).
CleanedLeavesNothing ==
    \A d \in Directories : dir[d].files # {} => \E a \in Attempts : Uncleaned(a) /\ DirectoryOf(a) = d

\* What jobs left in a real `_work` is lost to no launch, rollback, cleanup or
\* change of setting: only a job at work there takes it away
\* (remove_materialized_package, scrub_slot_entries).
WorkIsKept ==
    [][ \A d \in Directories :
          dir[d].work = "real" /\ dir'[d].work # "real" =>
            \E a \in Attempts : attempt[a].state = "running" /\ DirectoryOf(a) = d ]_dir

\* A concluded attempt gives its slot back, although operators change settings at
\* any time and remove its own policy, which ends the loop that supervised it: the
\* sweep of any other loop cleans it, in this generation of the daemon or a later
\* one (update_policy_confirming_uncleaned_count, verify_journalled_slot,
\* clean_terminal_attempts).  Not when a job put a link in the way, when the host
\* is left without a repository to serve, and so without a loop, or when the
\* attempt was launched with a copy of an older setting: that one is quarantined
\* for ever.
SlotGivenBack ==
    \A a \in Attempts :
        attempt[a].state = "concluded" /\ attempt[a].current ~>
            \/ attempt[a].state = "cleaned"
            \/ serving = {}
            \/ Persistent(a) /\ (dir[DirectoryOf(a)].kind = "link" \/ dir[DirectoryOf(a)].work = "link")
===============================================================================
