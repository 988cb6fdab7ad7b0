------------------------------- MODULE Polling -------------------------------
(***************************************************************************)
(* The target loops of one daemon (run_target_loop,                        *)
(* crates/app/src/cli/daemon.rs) over the demand gateway they share        *)
(* (RestDemand, crates/github/src/demand.rs), woken by a coordinator and   *)
(* drained by the daemon.                                                  *)
(*                                                                         *)
(* A loop polls its repositories one after another, each from a reading    *)
(* another loop left or from GitHub under the repository's gate, decides,  *)
(* and sleeps.  The daemon runs every task on one thread, so a step is     *)
(* what happens between two awaits.  GitHub answers a listing at one       *)
(* moment ("fetch" to "answer") and the answer arrives at a later one.     *)
(* Reads of the host's own journal succeed.                                *)
(***************************************************************************)
EXTENDS Pacing, Sequences

CONSTANTS
    Loops,          \* the target loops
    Scope,          \* the repositories each covers, in the order it reads them
    Jobs,           \* jobs that may be queued
    RepositoryOf,   \* the repository of each
    DRAIN_DEADLINE, \* how long a shutdown may drain
    Asked,          \* waits GitHub may ask for with a rate limit
    Drains          \* the phases the daemon may enter to end, {} to watch it run

Repositories == { RepositoryOf[j] : j \in Jobs } \cup UNION { { Scope[l][i] : i \in DOMAIN Scope[l] } : l \in Loops }

ASSUME PollingAssumption ==
    /\ RepositoryOf \in [ Jobs -> Repositories ]
    /\ \A l \in Loops : Scope[l] \in Seq(Repositories) /\ Len(Scope[l]) > 0
    /\ "none" \notin Loops
    /\ DRAIN_DEADLINE \in Nat /\ Asked \subseteq Nat
    /\ Drains \subseteq { "stopping", "upgrading" }

VARIABLES
    loop,      \* each target loop
    reading,   \* SharedReadings.readings: per repository the jobs read and their age
    gate,      \* SharedReadings.gates: who holds each repository's gate
    hold,      \* RestDemand.hold, the host-wide quiet period
    job,       \* on GitHub: each job's state, and how long it has waited
    runners,   \* live runners of each loop's policies
    daemon,    \* what run_generation is doing, and whether it was told to stop
    noticed    \* history: jobs some loop was handed

gateway == <<reading, gate, hold>>
vars == <<loop, reading, gate, hold, job, runners, daemon, noticed>>

-----------------------------------------------------------------------------
\* Values

None == "none"

Reading == [ jobs: SUBSET Jobs, age: 0 .. IDLE ]

\* No reading anybody would be handed: a reading is shared while younger than IDLE.
NoReading == [ jobs |-> {}, age |-> IDLE ]

Places == { "start", "poll", "gate", "fetch", "answer", "settle", "sleep", "done", "failed" }
Outcomes == { "ready", "low_quota", "rate_limited", "offline", "blocked", "cancelled", "skipped" }
DrainKind == { None, "shutdown", "upgrade" }

Loop == [ pc: Places,
          next: Nat,                        \* the next repository of its scope
          handed: SUBSET Jobs,              \* jobs in the readings of this pass
          outcome: Outcomes,                \* how its last poll ended
          floor: Nat,                       \* the wait GitHub asked for, when it did
          age: 0 .. IDLE,                   \* of the reading it is fetching
          draining: DrainKind,
          drainLeft: 0 .. DRAIN_DEADLINE,
          cancelled: BOOLEAN,               \* its CancelToken
          disabled: BOOLEAN,                \* its policies, as it holds them, were asked to disable
          left: Nat,                        \* until it polls again
          scheduled: Nat,                   \* until it would have, had no wake come
          sincePoll: 0 .. WAKE_MIN_GAP,     \* since its last poll began
          throttled: BOOLEAN,               \* its pace is a slowdown
          permit: BOOLEAN,                  \* its Notify holds a wake
          offline: 0 .. MaxOffline ]        \* offline polls in a row

NewLoop == [ pc |-> "start", next |-> 1, handed |-> {}, outcome |-> "ready", floor |-> 0, age |-> 0,
             draining |-> None, drainLeft |-> 0, cancelled |-> FALSE, disabled |-> FALSE,
             left |-> 0, scheduled |-> 0, sincePoll |-> WAKE_MIN_GAP, throttled |-> FALSE,
             permit |-> FALSE, offline |-> 0 ]

Job == [ state: { "new", "queued", "gone" }, waited: 0 .. IDLE ]

Phases == { "running", "stopping", "upgrading", "stopped", "failed" }

Alive == daemon.phase \in { "running", "stopping", "upgrading" }
Queued(repository) == { j \in Jobs : job[j].state = "queued" /\ RepositoryOf[j] = repository }

Init ==
    /\ loop = [ l \in Loops |-> NewLoop ]
    /\ reading = [ r \in Repositories |-> NoReading ]
    /\ gate = [ r \in Repositories |-> None ]
    /\ hold = NoHold
    /\ job = [ j \in Jobs |-> [ state |-> "new", waited |-> 0 ] ]
    /\ runners = [ l \in Loops |-> 0 ]
    /\ daemon = [ phase |-> "running", stop |-> FALSE ]
    /\ noticed = {}

Becomes(l, record) == loop' = [ loop EXCEPT ![l] = record ]

-----------------------------------------------------------------------------
\* The top of a pass

\* Mutant: the loop's policies are disabled and its token is left alone.
DrainWithoutCancel(self, kind) ==
    [ self EXCEPT !.pc = "poll", !.draining = kind, !.disabled = TRUE,
                  !.drainLeft = IF kind = "shutdown" THEN DRAIN_DEADLINE ELSE 0 ]

\* Mutant: a shutdown waits as long as an upgrade does.
DrainWithoutDeadline(self, kind) ==
    [ self EXCEPT !.pc = "poll", !.draining = "upgrade", !.disabled = TRUE, !.cancelled = TRUE ]

BeginDrain(self, kind) ==
    [ self EXCEPT !.pc = "poll", !.draining = kind, !.disabled = TRUE, !.cancelled = TRUE,
                  !.drainLeft = IF kind = "shutdown" THEN DRAIN_DEADLINE ELSE 0 ]

\* The drain a loop is already in when it starts.
Start(l) ==
    /\ Alive /\ loop[l].pc = "start"
    /\ Becomes(l, CASE daemon.phase = "stopping" -> BeginDrain(loop[l], "shutdown")
                    [] daemon.phase = "upgrading" -> BeginDrain(loop[l], "upgrade")
                    [] OTHER -> [ loop[l] EXCEPT !.pc = "poll" ])
    /\ UNCHANGED <<gateway, job, runners, daemon, noticed>>

DeadlinePassed(self) == self.draining = "shutdown" /\ self.drainLeft = 0

StopAtDeadline(l) ==
    /\ Alive /\ loop[l].pc = "poll" /\ DeadlinePassed(loop[l])
    /\ Becomes(l, [ loop[l] EXCEPT !.pc = "done" ])
    /\ UNCHANGED <<gateway, job, runners, daemon, noticed>>

\* refresh_policies: the policies the loop holds are replaced by the store's, to
\* which no drain wrote, unless the store cannot be read.
Refreshed(disabled, readable) == disabled /\ ~readable

\* A stored wake is answered by this poll.
Poll(l) ==
    /\ Alive /\ loop[l].pc = "poll" /\ ~DeadlinePassed(loop[l])
    /\ \E readable \in BOOLEAN :
        LET disabled == Refreshed(loop[l].disabled, readable)
        IN  Becomes(l, [ loop[l] EXCEPT !.pc = IF disabled THEN "settle" ELSE "gate",
                                        !.outcome = IF disabled THEN "skipped" ELSE "ready",
                                        !.disabled = disabled, !.permit = FALSE, !.sincePoll = 0,
                                        !.next = 1, !.handed = {}, !.floor = 0 ])
    /\ UNCHANGED <<gateway, job, runners, daemon, noticed>>

-----------------------------------------------------------------------------
\* One repository's reading

Wants(l) == Scope[l][loop[l].next]

\* The poll of a cancelled loop ends before it takes the gate.
Withdraw(l) ==
    /\ Alive /\ loop[l].pc = "gate" /\ loop[l].cancelled
    /\ Becomes(l, [ loop[l] EXCEPT !.pc = "settle", !.outcome = "cancelled" ])
    /\ UNCHANGED <<gateway, job, runners, daemon, noticed>>

\* Mutant: a poll ends one repository early.
HandedAllButOne(self, l, jobs) ==
    [ self EXCEPT !.handed = @ \cup jobs, !.age = 0, !.next = @ + 1,
                  !.pc = IF self.next + 1 >= Len(Scope[l]) THEN "settle" ELSE "gate" ]

\* The loop with one more reading: the next repository, or the end of the poll.
Handed(self, l, jobs) ==
    [ self EXCEPT !.handed = @ \cup jobs, !.age = 0, !.next = @ + 1,
                  !.pc = IF self.next = Len(Scope[l]) THEN "settle" ELSE "gate" ]

Failed(self, outcome, floor) ==
    [ self EXCEPT !.pc = "settle", !.outcome = outcome, !.floor = floor, !.age = 0, !.handed = {} ]

Fresh(r) == r.age < IDLE

TakeShared(l) ==
    /\ Alive /\ loop[l].pc = "gate" /\ ~loop[l].cancelled /\ gate[Wants(l)] = None
    /\ Fresh(reading[Wants(l)])
    /\ Becomes(l, Handed(loop[l], l, reading[Wants(l)].jobs))
    /\ noticed' = noticed \cup reading[Wants(l)].jobs
    /\ UNCHANGED <<gateway, job, runners, daemon>>

\* Inside the quiet period no request is sent.
Suppressed(l) ==
    /\ Alive /\ loop[l].pc = "gate" /\ ~loop[l].cancelled /\ gate[Wants(l)] = None
    /\ ~Fresh(reading[Wants(l)]) /\ Live(hold)
    /\ Becomes(l, Failed(loop[l], "rate_limited", hold.left))
    /\ UNCHANGED <<gateway, job, runners, daemon, noticed>>

\* The gate is held across the fetch.
Request(l) ==
    /\ Alive /\ loop[l].pc = "gate" /\ ~loop[l].cancelled /\ gate[Wants(l)] = None
    /\ ~Fresh(reading[Wants(l)]) /\ ~Live(hold)
    /\ gate' = [ gate EXCEPT ![Wants(l)] = l ]
    /\ Becomes(l, [ loop[l] EXCEPT !.pc = "fetch", !.age = 0 ])
    /\ UNCHANGED <<reading, hold, job, runners, daemon, noticed>>

\* GitHub reads its queue: what the answer will say.
Serve(l) ==
    /\ loop[l].pc = "fetch"
    /\ Becomes(l, [ loop[l] EXCEPT !.pc = "answer", !.floor = 0,
                                   !.handed = @ \cup Queued(Wants(l)) ])
    /\ UNCHANGED <<gateway, job, runners, daemon, noticed>>

Released(l) == gate' = [ gate EXCEPT ![Wants(l)] = None ]

\* Mutant: a reading is stamped when its answer arrives.
StampedOnArrival(l) ==
    reading' = [ reading EXCEPT ![Wants(l)] =
        [ jobs |-> { j \in loop[l].handed : RepositoryOf[j] = Wants(l) }, age |-> 0 ] ]

\* A reading is stamped with the moment its gate was taken.
KeepReading(l) ==
    reading' = [ reading EXCEPT ![Wants(l)] =
        [ jobs |-> { j \in loop[l].handed : RepositoryOf[j] = Wants(l) }, age |-> loop[l].age ] ]

\* The answer arrives.
Answer(l) ==
    /\ Alive /\ loop[l].pc = "answer"
    /\ KeepReading(l) /\ Released(l)
    /\ hold' = ClearHold(hold)
    /\ Becomes(l, Handed(loop[l], l, {}))
    /\ noticed' = noticed \cup loop[l].handed
    /\ UNCHANGED <<job, runners, daemon>>

\* GitHub says the credential is rate limited.
AnswerLimited(l) ==
    /\ Alive /\ loop[l].pc = "fetch" /\ Released(l)
    /\ \E kind \in { "primary", "secondary" }, asked \in Asked :
        /\ hold' = HoldFor(hold, kind, asked)
        /\ Becomes(l, Failed(loop[l], "rate_limited", hold'.left))
    /\ UNCHANGED <<reading, job, runners, daemon, noticed>>

\* A later request of the same reading, after another loop met the limit.
LaterSuppressed(l) ==
    /\ Alive /\ loop[l].pc = "fetch" /\ Live(hold) /\ Released(l)
    /\ Becomes(l, Failed(loop[l], "rate_limited", hold.left))
    /\ UNCHANGED <<reading, hold, job, runners, daemon, noticed>>

\* GitHub is not reached, or refuses the credential.
AnswerFails(l) ==
    /\ Alive /\ loop[l].pc = "fetch" /\ Released(l)
    /\ \E outcome \in { "offline", "blocked" } : Becomes(l, Failed(loop[l], outcome, 0))
    /\ UNCHANGED <<reading, hold, job, runners, daemon, noticed>>

\* An aggregate steps over a repository that alone cannot be read.
StepOver(l) ==
    /\ Alive /\ loop[l].pc = "fetch" /\ Len(Scope[l]) > 1 /\ Released(l)
    /\ Becomes(l, Handed(loop[l], l, {}))
    /\ UNCHANGED <<reading, hold, job, runners, daemon, noticed>>

-----------------------------------------------------------------------------
\* The rest of a pass

\* active_owned: a poll that failed leaves no allocation to count in.
CountsRunners(outcome) == outcome \in { "ready", "low_quota", "skipped" }

\* Mutant: an upgrade leaves at the first pass that counts.
UpgradeLeavesEarly(self, outcome, live) ==
    \/ self.draining = "shutdown" /\ CountsRunners(outcome) /\ live = 0
    \/ self.draining = "upgrade"

Drained(self, outcome, live) ==
    \/ self.draining = "shutdown" /\ CountsRunners(outcome) /\ live = 0
    \/ self.draining = "upgrade" /\ live = 0

\* Capped by the deadline of a shutdown.
SleepFor(self, delay) == IF self.draining = "shutdown" THEN Least(delay, self.drainLeft) ELSE delay

\* A runner is started for demand the pass saw, or none is (no capacity, a
\* failed launch); a successful poll may also say the hourly quota is low.
Settle(l) ==
    /\ Alive /\ loop[l].pc = "settle"
    /\ \E outcome \in IF loop[l].outcome = "ready" THEN { "ready", "low_quota" } ELSE { loop[l].outcome },
          reset \in Asked,
          started \in IF loop[l].handed # {} /\ runners[l] = 0 THEN { 0, 1 } ELSE { 0 } :
        LET live == runners[l] + started
            offline == IF outcome = "offline" THEN Least(loop[l].offline + 1, MaxOffline) ELSE 0
            quiet == outcome = "ready" /\ live = 0 /\ loop[l].handed = {}
        IN  \E next \in NextPolls(IF outcome = "skipped" THEN "ready" ELSE outcome, quiet,
                                  IF outcome = "low_quota" THEN reset ELSE loop[l].floor, offline) :
            /\ runners' = [ runners EXCEPT ![l] = live ]
            /\ Becomes(l, [ loop[l] EXCEPT !.pc = IF Drained(loop[l], outcome, live) THEN "done" ELSE "sleep",
                                           !.outcome = outcome, !.floor = 0, !.handed = {}, !.next = 1,
                                           !.left = SleepFor(loop[l], next.delay),
                                           !.scheduled = SleepFor(loop[l], next.delay),
                                           !.throttled = IsThrottled(next.pace), !.offline = offline ])
    /\ UNCHANGED <<gateway, job, daemon, noticed>>

\* The contact record cannot be written, which ends the loop.
RecordFails(l) ==
    /\ Alive /\ loop[l].pc = "settle" /\ loop[l].outcome = "ready" /\ loop[l].draining = None
    /\ Becomes(l, [ loop[l] EXCEPT !.pc = "failed" ])
    /\ UNCHANGED <<gateway, job, runners, daemon, noticed>>

-----------------------------------------------------------------------------
\* Asleep

Expire(l) ==
    /\ Alive /\ loop[l].pc = "sleep" /\ loop[l].left = 0
    /\ Becomes(l, [ loop[l] EXCEPT !.pc = "poll", !.scheduled = 0 ])
    /\ UNCHANGED <<gateway, job, runners, daemon, noticed>>

\* Mutant: a wake is honoured at any pace.
HonourAlways(self) == self.draining = None

HonourWakes(self) == self.draining = None /\ ~self.throttled

TakeWake(l) ==
    /\ Alive /\ loop[l].pc = "sleep" /\ loop[l].permit /\ HonourWakes(loop[l])
    /\ Becomes(l, [ loop[l] EXCEPT !.permit = FALSE, !.left = WokenDeadline(@, loop[l].sincePoll) ])
    /\ UNCHANGED <<gateway, job, runners, daemon, noticed>>

\* A sleeping loop hears of a shutdown, in an upgrade too, or of an upgrade.
HearDrain(l) ==
    /\ loop[l].pc = "sleep"
    /\ \E kind \in DrainKind :
        /\ \/ kind = "shutdown" /\ daemon.phase = "stopping" /\ loop[l].draining # "shutdown"
           \/ kind = "upgrade" /\ daemon.phase = "upgrading" /\ loop[l].draining = None
        /\ Becomes(l, [ BeginDrain(loop[l], kind) EXCEPT !.left = 0, !.scheduled = 0 ])
    /\ UNCHANGED <<gateway, job, runners, daemon, noticed>>

-----------------------------------------------------------------------------
\* A wake, the daemon and the world

\* WakeRoutes::deliver: one target takes the wake.  It may come late or twice.
Wake(j, l) ==
    /\ Alive /\ job[j].state # "new" /\ \E i \in DOMAIN Scope[l] : Scope[l][i] = RepositoryOf[j]
    /\ reading' = [ reading EXCEPT ![RepositoryOf[j]] = NoReading ]
    /\ Becomes(l, [ loop[l] EXCEPT !.permit = TRUE ])
    /\ UNCHANGED <<gate, hold, job, runners, daemon, noticed>>

\* The service manager or the operator asks the daemon to stop.
AskStop ==
    /\ Alive /\ ~daemon.stop /\ "stopping" \in Drains
    /\ daemon' = [ daemon EXCEPT !.stop = TRUE ]
    /\ UNCHANGED <<loop, gateway, job, runners, noticed>>

\* run_generation waits for one of these and then for its loops alone.
HearStop ==
    /\ daemon.phase = "running" /\ daemon.stop
    /\ daemon' = [ daemon EXCEPT !.phase = "stopping" ]
    /\ UNCHANGED <<loop, gateway, job, runners, noticed>>

\* A newer binary is installed, or the set of targets changed.
HearUpgrade ==
    /\ daemon.phase = "running" /\ "upgrading" \in Drains
    /\ daemon' = [ daemon EXCEPT !.phase = "upgrading" ]
    /\ UNCHANGED <<loop, gateway, job, runners, noticed>>

LoopLost ==
    /\ Alive /\ \E l \in Loops : loop[l].pc = "failed"
    /\ daemon' = [ daemon EXCEPT !.phase = "failed" ]
    /\ UNCHANGED <<loop, gateway, job, runners, noticed>>

JoinLoops ==
    /\ daemon.phase \in { "stopping", "upgrading" } /\ \A l \in Loops : loop[l].pc = "done"
    /\ daemon' = [ daemon EXCEPT !.phase = "stopped" ]
    /\ UNCHANGED <<loop, gateway, job, runners, noticed>>

QueueJob(j) ==
    /\ job[j].state = "new"
    /\ job' = [ job EXCEPT ![j].state = "queued" ]
    /\ UNCHANGED <<loop, gateway, runners, daemon, noticed>>

\* A runner of this host or of another takes the job, or it is cancelled.
JobLeaves(j) ==
    /\ job[j].state = "queued"
    /\ job' = [ job EXCEPT ![j] = [ state |-> "gone", waited |-> 0 ] ]
    /\ UNCHANGED <<loop, gateway, runners, daemon, noticed>>

RunnerEnds(l) ==
    /\ runners[l] > 0
    /\ runners' = [ runners EXCEPT ![l] = @ - 1 ]
    /\ UNCHANGED <<loop, gateway, job, daemon, noticed>>

LoopAges(self) ==
    [ self EXCEPT !.left = Greatest(@ - 1, 0), !.scheduled = Greatest(@ - 1, 0),
                  !.drainLeft = Greatest(@ - 1, 0), !.sincePoll = Least(@ + 1, WAKE_MIN_GAP),
                  !.age = IF self.pc \in { "fetch", "answer" } THEN Least(@ + 1, IDLE) ELSE @ ]

\* A loop that has, or gives the daemon, something to do at once; a request, the rest of a pass and
\* a sleep take time.
Busy(l) ==
    \/ loop[l].pc \in { "start", "poll", "failed" }
    \/ loop[l].pc = "gate" /\ (gate[Wants(l)] = None \/ loop[l].cancelled)
    \/ loop[l].pc = "sleep" /\ loop[l].left = 0

\* One unit of time.
Tick ==
    /\ Alive /\ \A l \in Loops : ~Busy(l)
    /\ loop' = [ l \in Loops |-> LoopAges(loop[l]) ]
    /\ reading' = [ r \in Repositories |-> IF reading[r].age + 1 < IDLE
                                           THEN [ reading[r] EXCEPT !.age = @ + 1 ] ELSE NoReading ]
    /\ hold' = HoldAges(hold)
    /\ job' = [ j \in Jobs |-> IF job[j].state = "queued"
                               THEN [ job[j] EXCEPT !.waited = Least(@ + 1, IDLE) ] ELSE job[j] ]
    /\ UNCHANGED <<gate, runners, daemon, noticed>>

LoopStep(l) ==
    \/ Start(l) \/ StopAtDeadline(l) \/ Poll(l) \/ Withdraw(l)
    \/ TakeShared(l) \/ Suppressed(l) \/ Request(l)
    \/ Answer(l) \/ AnswerLimited(l) \/ LaterSuppressed(l) \/ AnswerFails(l) \/ StepOver(l)
    \/ Settle(l) \/ RecordFails(l) \/ Expire(l) \/ TakeWake(l) \/ HearDrain(l)

Next ==
    \/ \E l \in Loops : LoopStep(l) \/ Serve(l) \/ RunnerEnds(l)
    \/ \E j \in Jobs : QueueJob(j) \/ JobLeaves(j) \/ \E l \in Loops : Wake(j, l)
    \/ AskStop \/ HearStop \/ HearUpgrade \/ LoopLost \/ JoinLoops \/ Tick

Spec == Init /\ [][Next]_vars

-----------------------------------------------------------------------------
(* Fairness: the runtime runs every task that can go on, timers fire, a request *)
(* ends one way or another (the client has a timeout), the gate is handed out   *)
(* in order, no repository is unreadable for ever, and a sleep whose timer,     *)
(* wake and drain are ready together takes each in its turn (select! picks at   *)
(* random).                                                                     *)

Fairness ==
    /\ WF_vars(Tick) /\ WF_vars(HearStop) /\ WF_vars(LoopLost) /\ WF_vars(JoinLoops)
    /\ \A l \in Loops :
        /\ WF_vars(LoopStep(l) /\ loop[l].pc # "gate")
        /\ SF_vars(Withdraw(l) \/ TakeShared(l) \/ Suppressed(l) \/ Request(l))
        /\ \A i \in DOMAIN Scope[l] : SF_vars(Serve(l) /\ loop[l].next = i)
        /\ WF_vars(Expire(l)) /\ SF_vars(HearDrain(l))

LiveSpec == Spec /\ Fairness

-----------------------------------------------------------------------------
\* Properties

TypeOK ==
    /\ loop \in [ Loops -> Loop ]
    /\ reading \in [ Repositories -> Reading ]
    /\ gate \in [ Repositories -> Loops \cup { None } ]
    /\ hold \in Hold
    /\ job \in [ Jobs -> Job ]
    /\ runners \in [ Loops -> 0 .. 1 ]
    /\ daemon \in [ phase: Phases, stop: BOOLEAN ]
    /\ noticed \subseteq Jobs

\* Whatever two loops' answers say in whichever order, a quiet period in force
\* is never cut short: only time shortens it ("a later answer never SHORTENS a
\* hold in force", hold_for).
HoldKept == [][ hold'.left >= hold.left \/ hold' = HoldAges(hold) ]_hold

\* A loop polls before the time its schedule set only because a drain began or
\* because a wake was honoured: never at a slowdown's pace, never while
\* draining, and never within WAKE_MIN_GAP of its last poll (run_target_loop).
ScheduleKept ==
    [][ \A l \in Loops :
          loop[l].pc = "sleep" /\ loop'[l].pc = "poll" =>
            \/ loop[l].scheduled = 0
            \/ loop'[l].draining # loop[l].draining
            \/ /\ loop[l].draining = None /\ ~loop[l].throttled
               /\ loop[l].sincePoll >= WAKE_MIN_GAP ]_loop

\* A loop handed another loop's reading sees every job that has been waiting
\* for the idle interval, however long the fetch behind the reading took
\* (repository_reading).
SharedIsRecent ==
    [][ \A l \in Loops :
          loop[l].pc = "gate" /\ loop'[l].next # loop[l].next =>
            \A j \in Queued(Wants(l)) : job[j].waited >= IDLE => j \in loop'[l].handed ]_loop

\* A draining loop starts no runner, although each pass reloads its policies
\* from a store that knows of no drain.
NoStartWhileDraining ==
    [][ \A l \in Loops : runners'[l] > runners[l] => loop[l].draining = None ]_runners

\* A daemon that hands over to a newer binary has let every job end.
UpgradeLetsJobsEnd ==
    [][ daemon.phase = "upgrading" /\ daemon'.phase = "stopped" =>
          \A l \in Loops : runners[l] = 0 ]_daemon

\* A queued job is noticed although every wake may be lost, or leaves, or the
\* daemon is told to stop: polling needs no coordinator.
JobNoticed ==
    \A j \in Jobs : job[j].state = "queued" ~>
                      (j \in noticed \/ job[j].state = "gone" \/ daemon.phase # "running")

\* A shutdown ends the daemon whatever GitHub says and whatever is running.
ShutdownEnds == daemon.phase = "stopping" ~> ~Alive
===============================================================================
