-------------------------------- MODULE Fence --------------------------------
(***************************************************************************)
(* Recovering a wedged WSL distribution without ending a job in it.        *)
(*                                                                         *)
(* A Windows watchdog (crates/app/src/cli/wsl_watchdog.rs) may terminate   *)
(* the distribution a guest daemon launches runners in.  The two share a   *)
(* directory and nothing else: no lock works across that boundary, so the  *)
(* launch fence is a directory either side creates, the drain request and  *)
(* the guest's heartbeat are files beside it                               *)
(* (crates/platform/src/wsl/fence.rs), and the guest takes the fence for   *)
(* each launch (WslRecoveryAllocationLock, crates/agent/src/reconcile.rs). *)
(*                                                                         *)
(* Every change of the shared directory is an action, and so is every read *)
(* it depends on.  Two watchdogs exist when a login-mode or hand-started   *)
(* daemon runs beside the lifecycle companion; only a watchdog takes the   *)
(* distribution down here.                                                 *)
(* Ages are flags: a claim or a request is "old" once it is past the five  *)
(* minutes after which it counts as abandoned.                             *)
(***************************************************************************)
EXTENDS Naturals

CONSTANTS
    Watchdogs,        \* the processes that watch the distribution
    MaxGeneration,    \* bound on the recovery generations ever minted
    FailureThreshold, \* FAILURE_THRESHOLD, 3
    Confirmations,    \* how often quiet evidence must be seen in a row, 2
    LaunchOutcomes,   \* what a launch may come to: "started", "failed"
    MaxFaults         \* bound on crashes of either side and calls that fail

ASSUME FenceAssumption ==
    /\ MaxGeneration \in Nat /\ FailureThreshold \in Nat /\ Confirmations \in Nat
    /\ MaxFaults \in Nat /\ LaunchOutcomes \subseteq { "started", "failed" }

VARIABLES
    fence,     \* the launch-fence directory and the owner recorded in it
    request,   \* drain-request.json: its generation, 0 when there is none
    heartbeat, \* guest-heartbeat.json
    wsl,       \* the distribution: probes succeed only when it is "up"
    guest,     \* the guest daemon's launch path
    journal,   \* what the guest's journal says of its runner
    runner,    \* what the runner really does
    watchdog,  \* each watchdog's Tracker and where its observation stands
    minted,    \* generations minted so far
    faults     \* crashes and failed calls so far

shared == <<fence, request, heartbeat>>
inside == <<guest, journal, runner>>
vars == <<fence, request, heartbeat, wsl, guest, journal, runner, watchdog, minted, faults>>

-----------------------------------------------------------------------------
\* Values

Generation == 0 .. MaxGeneration

Nobody == [ kind |-> "none", gen |-> 0 ]
Guest == [ kind |-> "guest", gen |-> 0 ]
Windows(g) == [ kind |-> "windows", gen |-> g ]
Owner == { Nobody, Guest } \cup { Windows(g) : g \in Generation }

NoFence == [ dir |-> FALSE, owner |-> Nobody, old |-> FALSE ]
Claimed(owner) == [ dir |-> TRUE, owner |-> owner, old |-> FALSE ]

NoRequest == [ gen |-> 0, old |-> FALSE ]

\* seen: the watchdogs that have counted this heartbeat; targets: it lists the
\* targets whose runners GitHub is asked about.
NoHeartbeat == [ there |-> FALSE, ack |-> 0, journal |-> "none", targets |-> FALSE,
                 seen |-> {} ]

GuestPc == { "off", "idle", "owner", "check", "launching", "release",
             "judge", "reread", "remove", "retry" }
GuestOff == [ pc |-> "off", judged |-> Nobody, claiming |-> FALSE ]

WatchPc == { "rest", "claim", "owner", "beat", "inventory", "terminate",
             "verify", "clear", "unfence", "clear_request", "unrequest", "retire",
             "retire_fence", "retire_request", "reset" }
Watching == { "rest", "claim", "owner", "beat", "inventory", "terminate", "verify" }

\* A Tracker as it starts, and the locals of one observation: what the heartbeat it
\* read says (beat: whether it lists targets; quiet: the guest reports no work),
\* the generation being cleared and where that returns to.
NoTracker == [ pc |-> "rest", gen |-> 0, failures |-> 0, held |-> FALSE,
               zero |-> 0, nobusy |-> 0, empty |-> 0, beat |-> "none", quiet |-> FALSE,
               clearing |-> 0, then |-> "reset" ]
Tracker == [ pc : WatchPc, gen : Generation, failures : 0 .. FailureThreshold,
             held : BOOLEAN, zero : 0 .. Confirmations, nobusy : 0 .. Confirmations, empty : 0 .. Confirmations,
             beat : { "none", "listed", "unlisted" }, quiet : BOOLEAN,
             clearing : Generation,
             then : { "retire", "retire_request", "reset" } ]

TypeOK ==
    /\ fence \in [ dir : BOOLEAN, owner : Owner, old : BOOLEAN ]
    /\ request \in [ gen : Generation, old : BOOLEAN ]
    /\ heartbeat \in [ there : BOOLEAN, ack : Generation,
                       journal : { "none", "active", "busy" }, targets : BOOLEAN,
                       seen : SUBSET Watchdogs ]
    /\ wsl \in { "up", "wedged", "down" }
    /\ guest \in [ pc : GuestPc, judged : Owner, claiming : BOOLEAN ]
    /\ journal \in { "none", "active", "busy" }
    /\ runner \in { "none", "starting", "online", "busy" }
    /\ watchdog \in [Watchdogs -> Tracker]
    /\ minted \in Generation
    /\ faults \in 0 .. MaxFaults

Init ==
    /\ fence = NoFence /\ request = NoRequest /\ heartbeat = NoHeartbeat
    /\ wsl = "up"
    /\ guest = GuestOff /\ journal = "none" /\ runner = "none"
    /\ watchdog = [w \in Watchdogs |-> NoTracker]
    /\ minted = 0 /\ faults = 0

-----------------------------------------------------------------------------
(***************************************************************************)
(* Shared file operations.                                                 *)
(***************************************************************************)
Fault == faults < MaxFaults /\ faults' = faults + 1
NoFault == UNCHANGED faults

\* remove_dir_all of the fence, whatever it holds by now; when it fails it may
\* have removed the owner record already.
RemoveFence == NoFault /\ fence' = NoFence
RemoveFenceFails ==
    /\ Fault
    /\ fence' \in { fence, [fence EXCEPT !.owner = Nobody, !.old = FALSE] }

\* write_json creates the directory when it is not there any more.
WriteOwner(owner) == NoFault /\ fence' = Claimed(owner)

\* The record could not be written: the directory is given back.
WriteOwnerFails == Fault /\ fence' = NoFence

-----------------------------------------------------------------------------
(***************************************************************************)
(* The guest: one launcher, one claim at a time.                           *)
(***************************************************************************)
GuestAt(pc) == guest.pc = pc
GuestGoes(pc) == guest' = [guest EXCEPT !.pc = pc]
GuestOnly == UNCHANGED <<request, heartbeat, wsl, journal, runner, watchdog, minted>>

\* reset_launch_state: a starting daemon first reclaims a claim whose owner is gone.
GuestStart ==
    /\ GuestAt("off") /\ wsl # "down"
    /\ guest' = [ pc |-> "judge", judged |-> Nobody, claiming |-> FALSE ]
    /\ UNCHANGED fence /\ GuestOnly /\ NoFault

\* try_claim: create_dir, which only one side can.
GuestClaim ==
    /\ guest.pc \in { "idle", "retry" }
    /\ IF ~fence.dir
       THEN fence' = Claimed(Nobody) /\ GuestGoes("owner")
       ELSE /\ UNCHANGED fence
            /\ IF GuestAt("idle") THEN guest' = [guest EXCEPT !.pc = "judge", !.claiming = TRUE]
               ELSE GuestGoes("idle")
    /\ GuestOnly /\ NoFault

GuestWriteOwner ==
    /\ GuestAt("owner")
    /\ \/ WriteOwner(Guest) /\ GuestGoes("check")
       \/ WriteOwnerFails /\ GuestGoes("idle")
    /\ GuestOnly

\* A claim is good only while no drain is requested.  It is given back then, and
\* when the request cannot be read or the host's own allocation lock is busy.
GuestCheckRequest ==
    /\ GuestAt("check")
    /\ \/ request = NoRequest /\ GuestGoes("launching")
       \/ GuestGoes("release")
    /\ UNCHANGED fence /\ GuestOnly /\ NoFault

\* One launch, which may fail or find no room.
GuestLaunch ==
    /\ GuestAt("launching")
    /\ \/ /\ journal = "none" /\ runner = "none" /\ "started" \in LaunchOutcomes
          /\ journal' = "active" /\ runner' = "starting"
       \/ /\ journal # "none" \/ runner # "none" \/ "failed" \in LaunchOutcomes
          /\ UNCHANGED <<journal, runner>>
    /\ GuestGoes("release")
    /\ UNCHANGED <<shared, wsl, watchdog, minted, faults>>

\* A release that fails leaves the claim to the next reclaim.
GuestRelease ==
    /\ GuestAt("release")
    /\ RemoveFence \/ RemoveFenceFails
    /\ GuestGoes("idle")
    /\ GuestOnly

\* Mutant: a Windows claim is judged like a guest's.
GuestJudgeAnyone ==
    /\ GuestAt("judge")
    /\ IF fence.owner # Nobody \/ (fence.dir /\ fence.old)
       THEN guest' = [guest EXCEPT !.pc = "reread", !.judged = fence.owner]
       ELSE GuestGoes("idle")
    /\ UNCHANGED fence /\ GuestOnly /\ NoFault

\* Mutant: a claim without an owner record is honoured for good.
GuestJudgeRecorded ==
    /\ GuestAt("judge")
    /\ IF fence.owner = Guest
       THEN guest' = [guest EXCEPT !.pc = "reread", !.judged = fence.owner]
       ELSE GuestGoes("idle")
    /\ UNCHANGED fence /\ GuestOnly /\ NoFault

\* reclaim_unheld: only this daemon launches here and it holds no claim, so a
\* guest owner is gone, unless the operating system will not say; a claim with no
\* owner is abandoned once it is old; a Windows claim is honoured.
GuestJudge ==
    LET stale == fence.owner = Guest \/ (fence.dir /\ fence.owner = Nobody /\ fence.old)
    IN  /\ GuestAt("judge")
        /\ \/ /\ stale /\ NoFault
              /\ guest' = [guest EXCEPT !.pc = "reread", !.judged = fence.owner]
           \/ ~stale /\ NoFault /\ GuestGoes("idle")
           \/ stale /\ Fault /\ GuestGoes("idle")
        /\ UNCHANGED fence /\ GuestOnly

GuestReread ==
    /\ GuestAt("reread")
    /\ GuestGoes(IF fence.owner = guest.judged THEN "remove" ELSE "idle")
    /\ UNCHANGED fence /\ GuestOnly /\ NoFault

GuestRemove ==
    /\ GuestAt("remove")
    /\ \/ RemoveFence /\ GuestGoes(IF guest.claiming THEN "retry" ELSE "idle")
       \/ RemoveFenceFails /\ GuestGoes("idle")
    /\ GuestOnly

\* The heartbeat task.  A list of policies that cannot be read is sent empty; a
\* journal that cannot be read is sent as unknown, which only ever vetoes.
GuestHeartbeat ==
    /\ ~GuestAt("off")
    /\ \E targets \in BOOLEAN :
         /\ IF targets THEN NoFault ELSE Fault
         /\ heartbeat' = [ there |-> TRUE, ack |-> request.gen, journal |-> journal,
                           targets |-> targets, seen |-> {} ]
    /\ UNCHANGED <<fence, request, wsl, inside, watchdog, minted>>

\* Supervision copies what it sees of the runner into the journal, later.
GuestSupervise ==
    /\ ~GuestAt("off")
    /\ journal' = CASE runner = "none" -> "none"
                    [] runner = "busy" -> "busy"
                    [] OTHER           -> "active"
    /\ journal' # journal
    /\ UNCHANGED <<shared, wsl, guest, runner, watchdog, minted, faults>>

-----------------------------------------------------------------------------
(***************************************************************************)
(* A watchdog: one observation every few seconds.                          *)
(***************************************************************************)
At(w, pc) == watchdog[w].pc = pc
Goes(w, pc) == watchdog' = [watchdog EXCEPT ![w].pc = pc]
WindowsOnly == UNCHANGED <<heartbeat, wsl, inside, minted>>

\* A healthy probe ends the recovery this watchdog was driving, if any, and then
\* looks for one that a predecessor left.
ObserveHealthy(w) ==
    /\ At(w, "rest") /\ wsl = "up"
    /\ watchdog' = [watchdog EXCEPT ![w] =
                      IF @.gen = 0 THEN [@ EXCEPT !.pc = "retire"]
                      ELSE [@ EXCEPT !.pc = "clear", !.clearing = watchdog[w].gen, !.gen = 0,
                                     !.then = "retire"]]
    /\ UNCHANGED <<fence, request>> /\ WindowsOnly /\ NoFault

\* The request is written before the fence is tried.  A generation is minted
\* once per recovery and kept in memory only.
ObserveFailure(w) ==
    LET g == IF watchdog[w].gen = 0 THEN minted + 1 ELSE watchdog[w].gen
        counted == [watchdog[w] EXCEPT !.gen = g,
                      !.failures = IF @ < FailureThreshold THEN @ + 1 ELSE @]
    IN  /\ At(w, "rest") /\ wsl # "up" /\ g <= MaxGeneration
        /\ minted' = IF g > minted THEN g ELSE minted
        /\ \/ /\ NoFault /\ request' = [ gen |-> g, old |-> FALSE ]
              /\ watchdog' = [watchdog EXCEPT ![w] =
                                [counted EXCEPT !.pc = IF counted.held THEN "beat" ELSE "claim"]]
           \/ /\ Fault /\ UNCHANGED request
              /\ watchdog' = [watchdog EXCEPT ![w] = counted]
        /\ UNCHANGED <<fence, heartbeat, wsl, inside>>

\* A directory that is there already is this watchdog's only when its record
\* names this generation.
Claim(w) ==
    /\ At(w, "claim")
    /\ IF ~fence.dir
       THEN fence' = Claimed(Nobody) /\ Goes(w, "owner")
       ELSE /\ UNCHANGED fence
            /\ watchdog' = [watchdog EXCEPT ![w].pc = "beat",
                              ![w].held = (fence.owner = Windows(watchdog[w].gen))]
    /\ UNCHANGED request /\ WindowsOnly /\ NoFault

ClaimOwner(w) ==
    /\ At(w, "owner")
    /\ \/ /\ WriteOwner(Windows(watchdog[w].gen))
          /\ watchdog' = [watchdog EXCEPT ![w].pc = "beat", ![w].held = TRUE]
       \/ WriteOwnerFails /\ Goes(w, "beat")
    /\ UNCHANGED request /\ WindowsOnly

\* Mutant: the counters do not saturate.
AddOneAlways(n) == n + 1

\* The counters saturate; Confirmations is as far as they are compared.
AddOne(n) == IF n < Confirmations THEN n + 1 ELSE n

\* update_guest_quiescence: a heartbeat counts once, and only towards the
\* generation it acknowledges.
Quiescence(w) ==
    LET acked == heartbeat.ack = watchdog[w].gen
    IN  CASE ~heartbeat.there -> [watchdog[w] EXCEPT !.zero = 0]
          [] heartbeat.there /\ w \in heartbeat.seen -> watchdog[w]
          [] OTHER -> [watchdog[w] EXCEPT
                !.zero = IF acked /\ heartbeat.journal = "none" THEN AddOne(@) ELSE 0,
                !.nobusy = IF acked /\ heartbeat.journal # "busy" THEN AddOne(@) ELSE 0]

\* What `decide` demands of the guest's report.
GuestQuiet(t) ==
    /\ heartbeat.there /\ heartbeat.ack = t.gen
    /\ heartbeat.journal # "busy"
    /\ IF heartbeat.journal = "none" THEN t.zero = Confirmations ELSE t.nobusy = Confirmations

ReadHeartbeat(w) ==
    LET t == Quiescence(w)
    IN  /\ At(w, "beat")
        /\ watchdog' = [watchdog EXCEPT ![w] =
             [t EXCEPT !.pc = "inventory", !.quiet = GuestQuiet(t),
                       !.beat = CASE ~heartbeat.there  -> "none"
                                  [] heartbeat.targets -> "listed"
                                  [] OTHER             -> "unlisted"]]
        /\ heartbeat' = [heartbeat EXCEPT !.seen = IF heartbeat.there THEN @ \cup {w} ELSE @]
        /\ UNCHANGED <<fence, request, wsl, inside, minted, faults>>

\* Mutant: the fence need not be held.
TerminateUnfenced(t) == t.failures >= FailureThreshold /\ t.quiet /\ t.empty = Confirmations

\* What `decide` demands before it answers TerminateNamed; the rest of the evidence
\* (the span of the failure, the heartbeat's age, the task's ownership, WSL 2,
\* unmanaged services, the circuit breaker) does not move with this protocol and
\* may veto it at any time.
TerminateNamed(t) == t.failures >= FailureThreshold /\ t.held /\ t.quiet /\ t.empty = Confirmations

Rested(t) == [t EXCEPT !.pc = "rest", !.beat = "none", !.quiet = FALSE]
Decided(t) ==
    { Rested(t) }
    \cup (IF TerminateNamed(t) THEN { [t EXCEPT !.pc = "terminate"] } ELSE {})

\* github_inventory over the targets that heartbeat lists (no target, nothing
\* online), and the decision on its answer.  One that fails is no answer.
ReadInventory(w) ==
    LET online == watchdog[w].beat = "listed" /\ runner \in { "online", "busy" }
        refused == [watchdog[w] EXCEPT !.empty = IF watchdog[w].beat = "none" THEN @ ELSE 0]
        answered == [watchdog[w] EXCEPT !.empty = IF online THEN 0 ELSE AddOne(@)]
    IN  /\ At(w, "inventory")
        /\ \E t \in (IF watchdog[w].beat = "none" THEN {} ELSE Decided(answered))
                     \cup { Rested(refused) } :
              watchdog' = [watchdog EXCEPT ![w] = t]
        /\ UNCHANGED <<fence, request>> /\ WindowsOnly /\ NoFault

\* recover_named: everything in the distribution ends, the daemon included.
Terminate(w) ==
    /\ At(w, "terminate")
    /\ \/ /\ wsl' = "down" /\ guest' = GuestOff /\ runner' = "none"
          /\ Goes(w, "verify")
       \/ /\ UNCHANGED <<wsl, guest, runner>>
          /\ watchdog' = [watchdog EXCEPT ![w] = Rested(@)]
    /\ UNCHANGED <<shared, journal, minted, faults>>

\* It came back, or it did not within the time allowed.
Verify(w) ==
    /\ At(w, "verify")
    /\ \/ /\ wsl = "up"
          /\ watchdog' = [watchdog EXCEPT ![w] =
                            [@ EXCEPT !.pc = "clear", !.clearing = watchdog[w].gen, !.then = "reset"]]
       \/ watchdog' = [watchdog EXCEPT ![w] = Rested(@)]
    /\ UNCHANGED <<fence, request>> /\ WindowsOnly /\ NoFault

-----------------------------------------------------------------------------
(* clear_recovery, and the retirement of what nobody drives any more.  An error
   ends the retirement; the clearing of one's own recovery ignores it. *)

Erred(w) == Goes(w, IF watchdog[w].then = "retire" THEN "retire" ELSE "reset")
Cleared(w) == Goes(w, watchdog[w].then)

\* Mutant: the fence is removed whoever holds it.
ClearAnyOwner(w) ==
    /\ At(w, "clear")
    /\ Goes(w, "unfence")
    /\ UNCHANGED <<fence, request>> /\ WindowsOnly /\ NoFault

ClearOwner(w) ==
    /\ At(w, "clear")
    /\ Goes(w, IF fence.owner = Windows(watchdog[w].clearing) THEN "unfence" ELSE "clear_request")
    /\ UNCHANGED <<fence, request>> /\ WindowsOnly /\ NoFault

Unfence(w) ==
    /\ At(w, "unfence")
    /\ \/ RemoveFence /\ Goes(w, "clear_request")
       \/ RemoveFenceFails /\ Erred(w)
    /\ UNCHANGED request /\ WindowsOnly

ClearRequest(w) ==
    /\ At(w, "clear_request")
    /\ IF request.gen \in { 0, watchdog[w].clearing } THEN Goes(w, "unrequest") ELSE Cleared(w)
    /\ UNCHANGED <<fence, request>> /\ WindowsOnly /\ NoFault

Unrequest(w) ==
    /\ At(w, "unrequest")
    /\ \/ NoFault /\ request' = NoRequest /\ Cleared(w)
       \/ Fault /\ UNCHANGED request /\ Erred(w)
    /\ UNCHANGED fence /\ WindowsOnly

\* Mutant: nothing a predecessor left is ever retired.
RetireNothing(w) ==
    /\ At(w, "retire")
    /\ Goes(w, "reset")
    /\ UNCHANGED <<fence, request>> /\ WindowsOnly /\ NoFault

\* retire_abandoned_windows_recovery: neither the request nor the claim may be young.
Retire(w) ==
    LET there == request.gen # 0 \/ fence.owner.kind = "windows"
        young == \/ request.gen # 0 /\ ~request.old
                 \/ fence.owner.kind = "windows" /\ ~fence.old
    IN  /\ At(w, "retire")
        /\ Goes(w, IF there /\ ~young THEN "retire_fence" ELSE "reset")
        /\ UNCHANGED <<fence, request>> /\ WindowsOnly /\ NoFault

\* The claim and the request are cleared each by its own generation.
RetireFence(w) ==
    /\ At(w, "retire_fence")
    /\ watchdog' = [watchdog EXCEPT ![w] =
         IF fence.owner.kind = "windows"
         THEN [@ EXCEPT !.pc = "clear", !.clearing = fence.owner.gen, !.then = "retire_request"]
         ELSE [@ EXCEPT !.pc = "retire_request"]]
    /\ UNCHANGED <<fence, request>> /\ WindowsOnly /\ NoFault

RetireRequest(w) ==
    /\ At(w, "retire_request")
    /\ watchdog' = [watchdog EXCEPT ![w] =
         IF request.gen # 0
         THEN [@ EXCEPT !.pc = "clear", !.clearing = request.gen, !.then = "reset"]
         ELSE [@ EXCEPT !.pc = "reset"]]
    /\ UNCHANGED <<fence, request>> /\ WindowsOnly /\ NoFault

\* The observation ends healthy: the tracker starts over (the last heartbeat it
\* counted excepted).
Reset(w) ==
    /\ At(w, "reset")
    /\ watchdog' = [watchdog EXCEPT ![w] = NoTracker]
    /\ UNCHANGED <<fence, request>> /\ WindowsOnly /\ NoFault

-----------------------------------------------------------------------------
(***************************************************************************)
(* The world: the distribution, the runner, time and crashes.              *)
(***************************************************************************)
WslChanges ==
    /\ wsl' \in CASE wsl = "up"     -> { "wedged" }
                  [] wsl = "wedged" -> { "up" }
                  [] wsl = "down"   -> { "up", "wedged" }
    /\ UNCHANGED <<shared, inside, watchdog, minted, faults>>

RunnerMoves ==
    /\ runner # "none"
    /\ runner' \in CASE runner = "starting" -> { "online", "none" }
                     [] runner = "online"   -> { "busy", "none" }
                     [] runner = "busy"     -> { "none" }
    /\ UNCHANGED <<shared, wsl, guest, journal, watchdog, minted, faults>>

\* A claimer writes its record straight after making the directory, and a live
\* watchdog rewrites its request every few seconds: neither grows old under its hands.
FenceAges ==
    /\ fence.dir /\ ~fence.old
    /\ ~GuestAt("owner") /\ \A w \in Watchdogs : ~At(w, "owner")
    /\ fence' = [fence EXCEPT !.old = TRUE]
    /\ UNCHANGED <<request, heartbeat, wsl, inside, watchdog, minted, faults>>

RequestAges ==
    /\ request.gen # 0 /\ ~request.old
    /\ \A w \in Watchdogs : watchdog[w].gen = 0
    /\ request' = [request EXCEPT !.old = TRUE]
    /\ UNCHANGED <<fence, heartbeat, wsl, inside, watchdog, minted, faults>>

\* The guest daemon dies; its runner lives on.
GuestCrash ==
    /\ ~GuestAt("off") /\ Fault
    /\ guest' = GuestOff
    /\ UNCHANGED <<shared, wsl, journal, runner, watchdog, minted>>

\* A watchdog dies and its successor starts, with an empty tracker.
WatchdogCrash(w) ==
    /\ watchdog[w] # NoTracker /\ Fault
    /\ watchdog' = [watchdog EXCEPT ![w] = NoTracker]
    /\ heartbeat' = [heartbeat EXCEPT !.seen = @ \ {w}]
    /\ UNCHANGED <<fence, request, wsl, inside, minted>>

-----------------------------------------------------------------------------
GuestStep ==
    \/ GuestStart \/ GuestClaim \/ GuestWriteOwner \/ GuestCheckRequest \/ GuestLaunch
    \/ GuestRelease \/ GuestJudge \/ GuestReread \/ GuestRemove

Recover(w) ==
    \/ ObserveFailure(w) \/ Claim(w) \/ ClaimOwner(w) \/ ReadHeartbeat(w)
    \/ ReadInventory(w) \/ Terminate(w) \/ Verify(w)

Settle(w) ==
    \/ ObserveHealthy(w) \/ ClearOwner(w) \/ Unfence(w) \/ ClearRequest(w) \/ Unrequest(w)
    \/ Retire(w) \/ RetireFence(w) \/ RetireRequest(w) \/ Reset(w)

Next ==
    \/ GuestStep \/ GuestHeartbeat \/ GuestSupervise
    \/ \E w \in Watchdogs : Recover(w) \/ Settle(w) \/ WatchdogCrash(w)
    \/ WslChanges \/ RunnerMoves \/ FenceAges \/ RequestAges \/ GuestCrash

Spec == Init /\ [][Next]_vars

(***************************************************************************)
(* Fairness: the guest daemon and the watchdogs keep running what is ready *)
(* and are restarted, and clocks advance.  The world owes nothing.         *)
(***************************************************************************)
Fairness ==
    /\ WF_vars(GuestStep) /\ WF_vars(FenceAges) /\ WF_vars(RequestAges)
    /\ \A w \in Watchdogs : WF_vars(Recover(w) \/ Settle(w))

FairSpec == Spec /\ Fairness

-----------------------------------------------------------------------------
(***************************************************************************)
(* Properties                                                              *)
(***************************************************************************)

\* The only watchdog of a distribution, when it believes it holds the fence, does:
\* fence_held is remembered from one observation to the next and never read again,
\* while the claim is a directory that the guest judges and may remove.  (A second
\* watchdog takes a claim over without the first one noticing.)
HeldIsHeld ==
    \A w \in Watchdogs :
        (Watchdogs = {w} /\ watchdog[w].held /\ watchdog[w].pc \in Watching)
            => fence.owner = Windows(watchdog[w].gen)

\* The distribution is never terminated under a launch: "either this guard owns
\* the directory and finishes the one launch already in progress, or Windows owns
\* it and no new launch can pass" (WslRecoveryAllocationLock).
LaunchNotInterrupted ==
    \A w \in Watchdogs : At(w, "terminate") => ~GuestAt("launching")

\* Neither side removes the other's claim: a guest's claim goes only by the
\* guest's own step, a Windows claim only by a watchdog's, although both look at
\* the owner record some calls before they remove the directory.
ClaimsAreRespected ==
    [][ /\ (fence.owner = Guest /\ fence'.owner # Guest) => guest' # guest
        /\ (fence.owner.kind = "windows" /\ fence'.owner # fence.owner) => watchdog' # watchdog
      ]_vars

\* A healthy distribution does not stay fenced: what a watchdog left behind when
\* it died in mid-recovery is retired by its successor.
LaunchesResume ==
    (wsl = "up" /\ (request.gen # 0 \/ fence.owner.kind = "windows"))
        ~> (wsl # "up" \/ (request.gen = 0 /\ fence.owner.kind # "windows"))

\* No claim outlives its owner for good: what a guest left when it died in
\* mid-launch, and a directory whose record was never written, are reclaimed.
FenceIsFreed == fence.dir ~> (~fence.dir \/ wsl # "up")
=============================================================================
