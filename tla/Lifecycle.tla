------------------------------ MODULE Lifecycle ------------------------------
(***************************************************************************)
(* The life of native runner attempts on one host: how the daemon launches *)
(* a runner, watches it, stops it, concludes it and cleans up after it     *)
(* (crates/agent/src/lifecycle.rs), against a GitHub registration and an   *)
(* operating-system process that move on their own, with a daemon that may *)
(* die between any two durable writes.                                     *)
(*                                                                         *)
(* The daemon is a single-threaded executor: code between two awaits is    *)
(* not interleaved with another target's loop, but GitHub, the process and *)
(* a crash can fall between any two of its effects.  So every durable      *)
(* write, signal and request is an action of its own, and the other loops  *)
(* take part (Sweep) only where this one awaits.                           *)
(***************************************************************************)
EXTENDS Attempt, Naturals

CONSTANTS
    Attempts,   \* the ephemeral native attempts of one policy
    Faults,     \* which of PossibleFaults the environment may inject
    START_LIMIT_BURST,  \* starts the service manager makes in one interval
    MaxCrashes  \* bound on the crashes of the daemon

PossibleFaults == { "unreachable", "identity_write", "recheck_refused", "slow_disk", "step",
                    "lost_delete", "withdrawn", "straggler" }

ASSUME FaultsAssumption ==
    Faults \subseteq PossibleFaults /\ MaxCrashes \in Nat /\ START_LIMIT_BURST \in Nat \ {0}

VARIABLES
    journal,    \* the attempts table of the store: attempt -> row
    disk,       \* what the attempt's runtime directory holds
    late,       \* the deadline of the attempt's current state has passed
    proc,       \* the listener process
    github,     \* the registration GitHub lists under the attempt's runner name
    daemon,     \* the daemon's phase
    memory,     \* what the daemon loses when it dies: the child map, exit codes
    todo,       \* rows a pass has read from the journal and not yet visited
    loop,       \* where the target's loop stands and what it holds in locals
    crashes,    \* crashes so far
    starts,     \* the service manager: starts of the daemon in its current interval
    history     \* what really happened, for the properties only

world == <<proc, github>>
vars == <<journal, disk, late, proc, github, daemon, memory, todo, loop, crashes, starts, history>>

-----------------------------------------------------------------------------
\* Values

None == "-"

NoRow == [ state |-> "none", outcome |-> None, rid |-> FALSE, pid |-> FALSE ]
Row == [ state : AttemptState \cup { "none" }, outcome : AttemptOutcome \cup { None },
         rid : BOOLEAN, pid : BOOLEAN ]

\* The runtime directory and the files in it that decisions read: the runner-id
\* sidecar, the process identity (either file), the unresolved-process marker,
\* the terminate intent, and the runner's own diagnostics.
NoDisk == [ tree |-> FALSE, rid |-> FALSE, identity |-> FALSE, unresolved |-> FALSE,
            intent |-> FALSE, diag |-> "none" ]
Disk == [ tree : BOOLEAN, rid : BOOLEAN, identity : BOOLEAN, unresolved : BOOLEAN,
          intent : BOOLEAN, diag : { "none", "listener", "worker" } ]

\* "waiting" for a job, "working" on one, or exited with or without success.
ProcState == { "none", "waiting", "working", "exit0", "exit1" }
Alive(a) == proc[a] \in { "waiting", "working" }

\* What a visit has decided to do, in the order it is done: stop the process,
\* delete the registration, walk one edge, conclude.
NoPlan == [ kill |-> None, dereg |-> FALSE, walk |-> None, outcome |-> None ]
Plan == [ kill : { None, "intent", "stop", "recheck" }, dereg : BOOLEAN,
          walk : AttemptState \cup { None }, outcome : AttemptOutcome \cup { None } ]

LaunchPc == { "materialize", "register", "sidecar", "jit", "spawn", "identity", "started" }
VisitPc == { "observe", "decide", "act", "clean" }

AtRest == [ pc |-> "rest", at |-> None, row |-> NoRow, alive |-> FALSE,
            obs |-> "unreachable", plan |-> NoPlan ]
Loop == [ pc : { "rest", "next" } \cup LaunchPc \cup VisitPc,
          at : Attempts \cup { None }, row : Row, alive : BOOLEAN,
          obs : GithubObservation, plan : Plan ]

Fresh == [ children |-> {}, succeeded |-> {}, unresolved |-> FALSE ]
Nothing == [ assigned |-> {}, stopped |-> {} ]

\* One type invariant for the records above.
TypeOK ==
    /\ journal \in [Attempts -> Row]
    /\ disk \in [Attempts -> Disk]
    /\ late \in [Attempts -> BOOLEAN]
    /\ proc \in [Attempts -> ProcState]
    /\ github \in [Attempts -> { "absent", "idle", "busy" }]
    /\ daemon \in { "down", "failed", "recovering", "running" }
    /\ memory \in [ children : SUBSET Attempts, succeeded : SUBSET Attempts,
                    unresolved : BOOLEAN ]
    /\ todo \in [Attempts -> Row]
    /\ loop \in Loop
    /\ crashes \in 0 .. MaxCrashes
    /\ starts \in 0 .. START_LIMIT_BURST
    /\ history \in [ assigned : SUBSET Attempts, stopped : SUBSET Attempts ]

Init ==
    /\ journal = [a \in Attempts |-> NoRow]
    /\ disk = [a \in Attempts |-> NoDisk]
    /\ late = [a \in Attempts |-> FALSE]
    /\ proc = [a \in Attempts |-> "none"]
    /\ github = [a \in Attempts |-> "absent"]
    /\ daemon = "down"
    /\ memory = Fresh
    /\ todo = [a \in Attempts |-> NoRow]
    /\ loop = AtRest
    /\ crashes = 0 /\ starts = 0
    /\ history = Nothing

-----------------------------------------------------------------------------
\* Writing the journal: record_attempt replaces the row by the loop's copy, and
\* every transition restarts the clock its next deadline is measured from.

Record(a, row) ==
    /\ journal' = [journal EXCEPT ![a] = row]
    /\ late' = [late EXCEPT ![a] = FALSE]

\* RunnerAttempt::registered_idle and assigned_job also store the runner id.
Walked(row, to) ==
    [row EXCEPT !.state = to, !.rid = row.rid \/ to \in { "idle", "busy" }]

Started(row) == [row EXCEPT !.state = "starting", !.pid = TRUE]

ConcludedRow(row, outcome) ==
    [row EXCEPT !.state = TerminalState(outcome), !.outcome = outcome]

\* The pass goes on with the next row, or gives up: an error ends a
\* supervision pass, and ends the daemon while it is still recovering.
Visited(a) ==
    /\ todo' = [todo EXCEPT ![a] = NoRow]
    /\ loop' = [AtRest EXCEPT !.pc = "next"]

NothingTodo == [a \in Attempts |-> NoRow]

Aborted ==
    /\ loop' = AtRest
    /\ todo' = NothingTodo
    /\ IF daemon = "recovering"
       THEN daemon' = "down" /\ memory' = Fresh
       ELSE UNCHANGED <<daemon, memory>>

-----------------------------------------------------------------------------
(***************************************************************************)
(* Passes: startup recovery and supervision visit the same way.            *)
(***************************************************************************)

\* The daemon starts, and first recovers every attempt.
Start ==
    /\ daemon' = "recovering"
    /\ todo' = journal
    /\ loop' = [AtRest EXCEPT !.pc = "next"]
    /\ UNCHANGED <<journal, disk, late, world, memory, crashes, history>>

\* The service manager starts a daemon that is down, up to its limit.
Restart ==
    /\ daemon = "down" /\ starts < START_LIMIT_BURST
    /\ starts' = starts + 1
    /\ Start

\* At the limit it gives up: the unit stays failed until somebody starts it.
GiveUp ==
    /\ daemon = "down" /\ starts = START_LIMIT_BURST
    /\ daemon' = "failed"
    /\ UNCHANGED <<journal, disk, late, world, memory, todo, loop, crashes, starts, history>>

StartByHand ==
    /\ daemon = "failed"
    /\ starts' = 1
    /\ Start

\* The interval the starts are counted in passes.
IntervalPasses ==
    /\ daemon # "failed" /\ starts > 0
    /\ starts' = 0
    /\ UNCHANGED <<journal, disk, late, world, daemon, memory, todo, loop, crashes, history>>

BeginPass ==
    /\ daemon = "running" /\ loop.pc = "rest"
    /\ todo' = journal
    /\ loop' = [AtRest EXCEPT !.pc = "next"]
    /\ UNCHANGED <<journal, disk, late, world, daemon, memory, crashes, starts, history>>

\* Recovery that left a native attempt undecided does not open the host for
\* launches: the daemon exits and is started again.
EndPass ==
    /\ loop.pc = "next" /\ todo = NothingTodo
    /\ loop' = AtRest
    /\ IF daemon = "recovering" /\ memory.unresolved
       THEN daemon' = "down" /\ memory' = Fresh
       ELSE daemon' = "running" /\ UNCHANGED memory
    /\ UNCHANGED <<journal, disk, late, world, todo, crashes, starts, history>>

\* A cleaned attempt whose directory came back is scrubbed once more, when that
\* works; otherwise it waits for a later pass.
VisitCleaned(a) ==
    /\ loop.pc = "next" /\ todo[a].state = "cleaned"
    /\ disk' \in { disk, [disk EXCEPT ![a] = NoDisk] }
    /\ Visited(a)
    /\ UNCHANGED <<journal, late, world, daemon, memory, crashes, starts, history>>

\* Mutant: a concluded attempt is left to whoever else may clean it.
VisitTerminalIdly(a) ==
    /\ loop.pc = "next" /\ todo[a].state \in Concluded
    /\ Visited(a)
    /\ UNCHANGED <<journal, disk, late, world, daemon, memory, crashes, starts, history>>

VisitTerminal(a) ==
    /\ loop.pc = "next" /\ todo[a].state \in Concluded
    /\ loop' = [AtRest EXCEPT !.pc = "clean", !.at = a, !.row = todo[a]]
    /\ UNCHANGED <<journal, disk, late, world, daemon, memory, todo, crashes, starts, history>>

\* NativeProcesses::is_alive: a child of this daemon is asked directly, any
\* other process through the identity on disk.  An operating system that
\* refuses to answer reads as "dead".
InspectAnswers(a, row) ==
    IF a \in memory.children THEN { Alive(a) }
    ELSE IF ~disk[a].identity THEN { FALSE }
    ELSE { Alive(a) } \cup (IF "recheck_refused" \in Faults THEN { FALSE } ELSE {})

InspectRefuses(a, row) ==
    /\ a \notin memory.children
    /\ ~disk[a].identity
    /\ row.pid \/ disk[a].unresolved

\* What is_alive remembers of a child it found exited.
Remembered(a) ==
    IF a \in memory.children /\ proc[a] = "exit0"
    THEN [memory EXCEPT !.succeeded = @ \cup {a}] ELSE memory

Inspect(a) ==
    /\ loop.pc = "next" /\ todo[a].state \in ConcludableFrom
    /\ ~InspectRefuses(a, todo[a])
    /\ \E alive \in InspectAnswers(a, todo[a]) :
         loop' = [AtRest EXCEPT !.pc = "observe", !.at = a, !.row = todo[a], !.alive = alive]
    /\ memory' = Remembered(a)
    /\ UNCHANGED <<journal, disk, late, world, daemon, todo, crashes, starts, history>>

InspectError(a) ==
    /\ loop.pc = "next" /\ todo[a].state \in ConcludableFrom
    /\ InspectRefuses(a, todo[a])
    /\ Aborted
    /\ UNCHANGED <<journal, disk, late, world, crashes, starts, history>>

\* The inventory answer, as old as the request; a runner id seen for the first
\* time is written beside the runtime before anything else.
Observe ==
    /\ loop.pc = "observe"
    /\ \E obs \in { github[loop.at] } \cup ({ "unreachable" } \cap Faults) :
         /\ loop' = [loop EXCEPT !.pc = "decide", !.obs = obs]
         /\ disk' = [disk EXCEPT ![loop.at].rid = @ \/ obs \in { "idle", "busy" }]
    /\ UNCHANGED <<journal, late, world, daemon, memory, todo, crashes, starts, history>>

-----------------------------------------------------------------------------
(***************************************************************************)
(* The decision of reconcile_one, first match first.                       *)
(***************************************************************************)
Registered(obs) == obs \in { "idle", "busy" }

\* The spawn reached the disk and the `starting` row did not: take that edge
\* first.
AdoptionPending ==
    loop.row.state = "jit_received" /\ loop.alive /\ disk[loop.at].identity

\* Whether the runner ran a job, by the diagnostics it left; "Unknown" when it
\* left none or the directory does not answer in time.
JobEvidence(a) ==
    CASE disk[a].diag = "worker"   -> { "RanAJob" }
      [] disk[a].diag = "listener" -> { "NoJob" }
      [] OTHER                     -> { "Unknown" }

Evidence(a) == JobEvidence(a) \cup (IF "slow_disk" \in Faults THEN { "Unknown" } ELSE {})

\* Mutant: a clean exit is taken for a completed job.
SucceededMeansJob(state, obs, evidence) ==
    [NoPlan EXCEPT !.dereg = Registered(obs),
                   !.walk = IF state = "busy" THEN None ELSE "busy",
                   !.outcome = "CompletedJob"]

\* The walk and the outcome the diagnostics justify for a child that exited with
\* success.
Succeeded(state, obs, evidence) ==
    LET finish(walk, outcome) ==
          [NoPlan EXCEPT !.dereg = Registered(obs), !.walk = walk, !.outcome = outcome]
    IN  CASE state \in { "starting", "idle" } /\ evidence = "RanAJob"
               -> finish("busy", "CompletedJob")
          [] state = "busy" /\ evidence = "RanAJob"
               -> finish(None, "CompletedJob")
          [] state = "busy" /\ evidence = "NoJob"
               -> finish("idle", "ExitedIdleWithoutWork")
          [] state = "busy" /\ evidence = "Unknown" /\ obs = "absent"
               -> finish(None, "CompletedJob")
          [] OTHER -> NoPlan

SucceededPlan(evidence) ==
    IF /\ ~loop.alive /\ loop.obs # "unreachable"
       /\ loop.row.state \in { "starting", "idle", "busy" }
       /\ loop.at \in memory.succeeded
    THEN Succeeded(loop.row.state, loop.obs, evidence) ELSE NoPlan

NotTakenUp(evidence) ==
    /\ loop.alive /\ loop.row.state = "busy" /\ loop.obs = "idle"
    /\ evidence = "NoJob"

StoppedEarlier == disk[loop.at].intent /\ ~loop.alive

LostHandoff ==
    /\ loop.row.state \in { "allocated", "jit_received" }
    /\ ~loop.alive /\ Registered(loop.obs)

Concluding(dereg, outcome) == [NoPlan EXCEPT !.dereg = dereg, !.outcome = outcome]

\* recovery_decision, as the steps reconcile_one takes for it.
RecoveryPlan ==
    LET decision == RecoveryDecision(loop.row.state, loop.alive, loop.obs, late[loop.at])
    IN  CASE decision.kind = "Observe"  -> [NoPlan EXCEPT !.walk = decision.arg]
          [] decision.kind = "Conclude" -> Concluding(Registered(loop.obs), decision.arg)
          [] decision.kind = "Terminate" ->
               [Concluding(TRUE, IF decision.arg = "ExitedIdleWithoutWork" THEN decision.arg
                                 ELSE "TerminatedAfterRegistrationTimeout")
                  EXCEPT !.kill = "intent"]
          [] OTHER -> NoPlan

ReconcilePlan(evidence) ==
    IF SucceededPlan(evidence) # NoPlan THEN SucceededPlan(evidence)
    ELSE IF NotTakenUp(evidence) THEN [NoPlan EXCEPT !.walk = "idle"]
    ELSE IF StoppedEarlier THEN Concluding(TRUE, "TerminatedAfterRegistrationTimeout")
    ELSE IF LostHandoff THEN Concluding(TRUE, "JitExpired")
    ELSE RecoveryPlan

\* GitHub did not answer, so recovery leaves the attempt undecided.
Deferring ==
    RecoveryDecision(loop.row.state, loop.alive, loop.obs, late[loop.at]).kind = "Defer"

\* The two edges reconcile_one journals on the way to its decision.
Expiring == LostHandoff /\ ~StoppedEarlier /\ loop.row.state = "allocated"

WalkBeforeDeciding ==
    /\ loop.pc = "decide"
    /\ AdoptionPending \/ Expiring
    /\ LET row == IF AdoptionPending THEN Started(loop.row)
                  ELSE Walked(loop.row, "jit_received")
       IN  /\ Record(loop.at, row)
           /\ loop' = [loop EXCEPT !.row = row]
    /\ UNCHANGED <<disk, world, daemon, memory, todo, crashes, starts, history>>

Decide ==
    /\ loop.pc = "decide"
    /\ ~AdoptionPending /\ ~Expiring
    /\ \E evidence \in Evidence(loop.at) :
         LET plan == ReconcilePlan(evidence)
         IN  IF plan = NoPlan
             THEN /\ Visited(loop.at)
                  /\ memory' = [memory EXCEPT !.unresolved = @ \/ Deferring]
             ELSE /\ loop' = [loop EXCEPT !.pc = "act", !.plan = plan]
                  /\ UNCHANGED <<memory, todo>>
    /\ UNCHANGED <<journal, disk, late, world, daemon, crashes, starts, history>>

-----------------------------------------------------------------------------
(***************************************************************************)
(* Carrying a decision out.                                                *)
(***************************************************************************)
Acting(kill) == loop.pc = "act" /\ loop.plan.kill = kill

\* Mutant: the signal is sent with no intent on disk.
SkipTerminateIntent ==
    /\ Acting("intent")
    /\ loop' = [loop EXCEPT !.plan.kill = "stop"]
    /\ UNCHANGED <<journal, disk, late, world, daemon, memory, todo, crashes, starts, history>>

\* The intent is on disk before the signal is sent.
RecordTerminateIntent ==
    /\ Acting("intent")
    /\ disk' = [disk EXCEPT ![loop.at].intent = TRUE]
    /\ loop' = [loop EXCEPT !.plan.kill = "stop"]
    /\ UNCHANGED <<journal, late, world, daemon, memory, todo, crashes, starts, history>>

\* A child is reaped before terminate returns; a process this daemon did not
\* start may be signalled and not gone yet.
Terminate ==
    LET a == loop.at
        gone == { [proc EXCEPT ![a] = e] : e \in { "exit0", "exit1" } }
    IN  /\ Acting("stop")
        /\ IF Alive(a) /\ (a \in memory.children \/ disk[a].identity)
           THEN /\ proc' \in gone \cup (IF a \in memory.children THEN {} ELSE { proc })
                /\ history' = [history EXCEPT !.stopped = @ \cup {a}]
           ELSE UNCHANGED <<proc, history>>
        /\ loop' = [loop EXCEPT !.plan.kill = "recheck"]
        /\ UNCHANGED <<journal, disk, late, github, daemon, memory, todo, crashes, starts>>

\* Mutant: the signal is taken for the death.
RecheckNothing ==
    /\ Acting("recheck")
    /\ loop' = [loop EXCEPT !.plan.kill = None]
    /\ UNCHANGED <<journal, disk, late, world, daemon, memory, todo, crashes, starts, history>>

\* What proves the process died is a second look at it, not the signal.
Recheck ==
    LET a == loop.at
    IN  /\ Acting("recheck")
        /\ ~InspectRefuses(a, loop.row)
        /\ \E alive \in InspectAnswers(a, loop.row) :
             IF alive
             THEN /\ Visited(a)
                  /\ memory' = [Remembered(a) EXCEPT !.unresolved = TRUE]
             ELSE /\ loop' = [loop EXCEPT !.plan.kill = None]
                  /\ memory' = Remembered(a)
                  /\ UNCHANGED todo
        /\ UNCHANGED <<journal, disk, late, world, daemon, crashes, starts, history>>

\* GitHub refuses to delete a busy runner; any other request may also be lost,
\* before or after it took effect.  No runner id, no request.  A failure is
\* logged and stepped over.
DeregisterRunner ==
    LET a == loop.at
        known == loop.row.rid \/ disk[a].rid
    IN  /\ Acting(None) /\ loop.plan.dereg
        /\ \/ known /\ github[a] # "busy" /\ github' = [github EXCEPT ![a] = "absent"]
           \/ known /\ (github[a] = "busy" \/ "lost_delete" \in Faults) /\ UNCHANGED github
           \/ ~known /\ UNCHANGED github
        /\ loop' = [loop EXCEPT !.plan.dereg = FALSE]
        /\ UNCHANGED <<journal, disk, late, proc, daemon, memory, todo, crashes, starts, history>>

Walk ==
    /\ Acting(None) /\ ~loop.plan.dereg /\ loop.plan.walk # None
    /\ CanTransition(loop.row.state, loop.plan.walk)
    /\ LET row == Walked(loop.row, loop.plan.walk)
       IN  /\ Record(loop.at, row)
           /\ IF loop.plan.outcome = None THEN Visited(loop.at)
              ELSE /\ loop' = [loop EXCEPT !.row = row, !.plan.walk = None]
                   /\ UNCHANGED todo
    /\ UNCHANGED <<disk, world, daemon, memory, crashes, starts, history>>

Conclude ==
    /\ Acting(None) /\ ~loop.plan.dereg /\ loop.plan.walk = None
    /\ CanConclude(loop.row.state, loop.plan.outcome)
    /\ LET row == ConcludedRow(loop.row, loop.plan.outcome)
       IN  /\ Record(loop.at, row)
           /\ loop' = [loop EXCEPT !.pc = "clean", !.row = row, !.plan = NoPlan]
    /\ UNCHANGED <<disk, world, daemon, memory, todo, crashes, starts, history>>

\* clean_attempt: the directory goes first, the row follows.
CleanedRow(row) == [row EXCEPT !.state = "cleaned"]

Clean ==
    /\ loop.pc = "clean"
    /\ disk' = [disk EXCEPT ![loop.at] = NoDisk]
    /\ Record(loop.at, CleanedRow(loop.row))
    /\ Visited(loop.at)
    /\ UNCHANGED <<world, daemon, memory, crashes, starts, history>>

\* The directory could not be removed, or the retry is not due: a later pass.
CleanDeferred ==
    /\ loop.pc = "clean"
    /\ Visited(loop.at)
    /\ UNCHANGED <<journal, disk, late, world, daemon, memory, crashes, starts, history>>

\* The directory is gone and the package lease or the journal refused: an error.
CleanHalfway ==
    /\ loop.pc = "clean" /\ "step" \in Faults
    /\ disk' = [disk EXCEPT ![loop.at] = NoDisk]
    /\ Aborted
    /\ UNCHANGED <<journal, late, world, crashes, starts, history>>

\* A durable write or a signal that fails, and an edge the domain refuses, end
\* the pass where it stands.
Refused ==
    \/ "step" \in Faults
    \/ InspectRefuses(loop.at, loop.row)
    \/ loop.plan.walk # None /\ ~CanTransition(loop.row.state, loop.plan.walk)
    \/ loop.plan.walk = None /\ ~CanConclude(loop.row.state, loop.plan.outcome)

StepFails ==
    /\ loop.pc = "act" /\ Refused
    /\ ~(loop.plan.kill = None /\ loop.plan.dereg)
    /\ Aborted
    /\ UNCHANGED <<journal, disk, late, world, crashes, starts, history>>

-----------------------------------------------------------------------------
(***************************************************************************)
(* Launching.                                                              *)
(***************************************************************************)
Launching(pc) == daemon = "running" /\ loop.pc = pc

\* The directory is placed, then the row is journalled, before anything external.
Allocate(a) ==
    /\ Launching("rest") /\ journal[a].state = "none"
    /\ LET row == [NoRow EXCEPT !.state = "allocated"]
       IN  /\ Record(a, row)
           /\ loop' = [AtRest EXCEPT !.pc = "materialize", !.at = a, !.row = row]
    /\ disk' = [disk EXCEPT ![a].tree = TRUE]
    /\ UNCHANGED <<world, daemon, memory, todo, crashes, starts, history>>

FailLaunch(reason) ==
    /\ Record(loop.at, ConcludedRow(loop.row, reason))
    /\ loop' = AtRest

Materialize ==
    /\ Launching("materialize")
    /\ \/ /\ loop' = [loop EXCEPT !.pc = "register"]
          /\ UNCHANGED <<journal, late>>
       \/ FailLaunch("OtherFailure")
    /\ UNCHANGED <<disk, world, daemon, memory, todo, crashes, starts, history>>

\* The request may be refused, answered, or take effect without its answer ever
\* arriving; a retry then finds the runner name taken.
Register ==
    LET a == loop.at
        registered == [github EXCEPT ![a] = "idle"]
    IN  /\ Launching("register")
        /\ \/ /\ github[a] = "absent"
              /\ github' = registered
              /\ loop' = [loop EXCEPT !.pc = "sidecar"]
              /\ UNCHANGED <<journal, late>>
           \/ /\ github' \in { github, registered }
              /\ FailLaunch("JitRequestFailed")
        /\ UNCHANGED <<disk, proc, daemon, memory, todo, crashes, starts, history>>

WriteRunnerId ==
    /\ Launching("sidecar")
    /\ disk' = [disk EXCEPT ![loop.at].rid = TRUE]
    /\ loop' = [loop EXCEPT !.pc = "jit"]
    /\ UNCHANGED <<journal, late, world, daemon, memory, todo, crashes, starts, history>>

JitReceived ==
    /\ Launching("jit")
    /\ LET row == Walked(loop.row, "jit_received")
       IN  /\ Record(loop.at, row)
           /\ loop' = [loop EXCEPT !.pc = "spawn", !.row = row]
    /\ UNCHANGED <<disk, world, daemon, memory, todo, crashes, starts, history>>

\* The listener runs, or never did (after the retries the policy allows).
Spawn ==
    /\ Launching("spawn")
    /\ \/ /\ proc' = [proc EXCEPT ![loop.at] = "waiting"]
          /\ loop' = [loop EXCEPT !.pc = "identity"]
          /\ UNCHANGED <<journal, late>>
       \/ /\ FailLaunch("ProcessStartFailed")
          /\ UNCHANGED proc
    /\ UNCHANGED <<disk, github, daemon, memory, todo, crashes, starts, history>>

\* The identity is synced before the child is put in the map.
PersistIdentity ==
    /\ Launching("identity")
    /\ disk' = [disk EXCEPT ![loop.at].identity = TRUE]
    /\ memory' = [memory EXCEPT !.children = @ \cup { loop.at }]
    /\ loop' = [loop EXCEPT !.pc = "started"]
    /\ UNCHANGED <<journal, late, world, daemon, todo, crashes, starts, history>>

\* abort_spawned_child: stop the child; failing that make its identity durable
\* after all; failing that keep it in the map and try to leave a marker.
AbortSpawnedChild ==
    LET a == loop.at
    IN  /\ Launching("identity") /\ "identity_write" \in Faults
        /\ \/ /\ proc' = [proc EXCEPT ![a] = IF Alive(a) THEN "exit1" ELSE @]
              /\ FailLaunch("ProcessStartFailed")
              /\ UNCHANGED <<disk, memory>>
           \/ /\ disk' \in { [disk EXCEPT ![a].identity = TRUE],
                             [disk EXCEPT ![a].unresolved = TRUE], disk }
              /\ memory' = [memory EXCEPT !.children = @ \cup {a}]
              /\ loop' = [loop EXCEPT !.pc = "started"]
              /\ UNCHANGED <<journal, late, proc>>
        /\ UNCHANGED <<github, daemon, todo, crashes, starts, history>>

RecordStarted ==
    /\ Launching("started")
    /\ Record(loop.at, Started(loop.row))
    /\ loop' = AtRest
    /\ UNCHANGED <<disk, world, daemon, memory, todo, crashes, starts, history>>

\* The launch returns an error without concluding the attempt: supervision will
\* find it in the state it was left in.
LaunchFails ==
    /\ daemon = "running" /\ "step" \in Faults
    /\ loop.pc \in { "sidecar", "jit", "started" }
    /\ loop' = AtRest
    /\ UNCHANGED <<journal, disk, late, world, daemon, memory, todo, crashes, starts, history>>

-----------------------------------------------------------------------------
(***************************************************************************)
(* The other loops, time, and the world outside the daemon.                *)
(***************************************************************************)
Awaiting ==
    \/ loop.pc \in { "rest", "observe", "materialize", "register", "spawn" }
    \/ loop.pc = "act" /\ loop.plan.kill = None /\ loop.plan.dereg

\* Mutant: scale-down also reclaims a runner that is merely idle.
SweepIdleToo(a) ==
    /\ daemon = "running" /\ Awaiting
    /\ journal[a].state \in Concluded \cup { "idle" }
    /\ disk' = [disk EXCEPT ![a] = NoDisk]
    /\ Record(a, CleanedRow(journal[a]))
    /\ UNCHANGED <<world, daemon, memory, todo, loop, crashes, starts, history>>

\* clean_terminal_attempts and scale_down, of this loop between passes or of
\* another one while this one awaits: the row is read again and cleaned in one
\* go; a failure leaves it to the backoff.
Sweep(a) ==
    /\ daemon = "running" /\ Awaiting
    /\ journal[a].state \in Concluded
    /\ disk' = [disk EXCEPT ![a] = NoDisk]
    /\ Record(a, CleanedRow(journal[a]))
    /\ UNCHANGED <<world, daemon, memory, todo, loop, crashes, starts, history>>

DeadlinePasses(a) ==
    /\ journal[a].state \in ConcludableFrom /\ ~late[a]
    /\ late' = [late EXCEPT ![a] = TRUE]
    /\ UNCHANGED <<journal, disk, world, daemon, memory, todo, loop, crashes, starts, history>>

Crash ==
    /\ daemon \in { "recovering", "running" } /\ crashes < MaxCrashes
    /\ crashes' = crashes + 1
    /\ daemon' = "down"
    /\ memory' = Fresh
    /\ todo' = NothingTodo
    /\ loop' = AtRest
    /\ UNCHANGED <<journal, disk, late, world, starts, history>>

Inside == <<journal, late, daemon, memory, todo, loop, crashes, starts>>

ListenerLogs(a) ==
    /\ proc[a] = "waiting" /\ disk[a].tree /\ disk[a].diag = "none"
    /\ disk' = [disk EXCEPT ![a].diag = "listener"]
    /\ UNCHANGED <<Inside, world, history>>

AssignJob(a) ==
    /\ proc[a] = "waiting" /\ github[a] = "idle"
    /\ github' = [github EXCEPT ![a] = "busy"]
    /\ history' = [history EXCEPT !.assigned = @ \cup {a}]
    /\ UNCHANGED <<Inside, disk, proc>>

WithdrawJob(a) ==
    /\ proc[a] = "waiting" /\ github[a] = "busy" /\ "withdrawn" \in Faults
    /\ github' = [github EXCEPT ![a] = "idle"]
    /\ UNCHANGED <<Inside, disk, proc, history>>

TakeJob(a) ==
    /\ proc[a] = "waiting" /\ github[a] = "busy"
    /\ proc' = [proc EXCEPT ![a] = "working"]
    /\ disk' = [disk EXCEPT ![a].diag = IF disk[a].tree THEN "worker" ELSE @]
    /\ UNCHANGED <<Inside, github, history>>

\* The job ends and the one-shot listener with it, or the process just dies.
Exit(a) ==
    /\ Alive(a)
    /\ \E e \in { "exit0", "exit1" } : proc' = [proc EXCEPT ![a] = e]
    /\ UNCHANGED <<Inside, disk, github, history>>

\* GitHub notices that the runner is gone: first not busy, then not there.
Retire(a) ==
    /\ ~Alive(a) /\ github[a] # "absent"
    /\ github' = [github EXCEPT ![a] = IF github[a] = "busy" THEN "idle" ELSE "absent"]
    /\ UNCHANGED <<Inside, disk, proc, history>>

\* A child of the job outlives it and writes into the directory again.
Straggle(a) ==
    /\ proc[a] \in { "exit0", "exit1" } /\ journal[a].state = "cleaned" /\ ~disk[a].tree
    /\ "straggler" \in Faults
    /\ disk' = [disk EXCEPT ![a].tree = TRUE]
    /\ UNCHANGED <<Inside, world, history>>

-----------------------------------------------------------------------------
Visit(a) == VisitCleaned(a) \/ VisitTerminal(a) \/ Inspect(a) \/ InspectError(a)

Act ==
    \/ WalkBeforeDeciding \/ Decide \/ RecordTerminateIntent \/ Terminate \/ Recheck
    \/ DeregisterRunner \/ Walk \/ Conclude \/ Clean \/ CleanDeferred \/ CleanHalfway
    \/ StepFails

Launch ==
    \/ Materialize \/ Register \/ WriteRunnerId \/ JitReceived \/ Spawn
    \/ PersistIdentity \/ AbortSpawnedChild \/ RecordStarted \/ LaunchFails

Environment(a) ==
    \/ ListenerLogs(a) \/ AssignJob(a) \/ WithdrawJob(a) \/ TakeJob(a) \/ Exit(a)
    \/ Retire(a) \/ Straggle(a)

Next ==
    \/ Restart \/ GiveUp \/ StartByHand \/ IntervalPasses \/ Crash
    \/ BeginPass \/ EndPass \/ Observe \/ Act \/ Launch
    \/ \E a \in Attempts :
          Visit(a) \/ Allocate(a) \/ Sweep(a) \/ DeadlinePasses(a) \/ Environment(a)

Spec == Init /\ [][Next]_vars

(***************************************************************************)
(* Fairness.  The service manager restarts the daemon up to its limit, and *)
(* nobody need start it by hand after that; an executor that runs keeps    *)
(* running whatever is ready; deadlines pass; GitHub is not unreachable    *)
(* every time it is asked about an attempt; and a directory that can be    *)
(* removed is, some time it is tried.  Nothing is assumed of the           *)
(* processes, of jobs or of GitHub retiring registrations.                 *)
(***************************************************************************)
Fairness ==
    /\ WF_vars(Restart \/ GiveUp) /\ WF_vars(BeginPass) /\ WF_vars(EndPass)
    /\ WF_vars(Observe) /\ WF_vars(Act) /\ WF_vars(Launch)
    /\ WF_vars(\E a \in Attempts : Visit(a))
    /\ \A a \in Attempts :
         /\ WF_vars(DeadlinePasses(a))
         /\ SF_vars(Observe /\ loop.at = a /\ loop'.obs # "unreachable")
         /\ SF_vars(Clean /\ loop.at = a)

FairSpec == Spec /\ Fairness

-----------------------------------------------------------------------------
(***************************************************************************)
(* Properties                                                              *)
(***************************************************************************)

\* The journal keeps its promise although every write replaces the whole row
\* with a copy that may have been read several awaits ago.
Diagram == INSTANCE AttemptJournal WITH rows <- journal
JournalKeepsItsPromise == Diagram!Spec

\* A listener whose identity reached the disk is never counted out while it
\* runs: whatever the order of exits, kills, restarts and stale observations,
\* its attempt is concluded only once it is dead (is_alive re-read after
\* terminate; recovery_decision's Terminate in place of Conclude).
AccountedRunner ==
    \A a \in Attempts : Alive(a) /\ disk[a].identity => journal[a].state \notin Terminal

\* A runner this agent stopped is never reported as one that died by itself,
\* even if the daemon dies between the signal and the verdict: the terminate
\* intent is on disk before the signal (record_terminate_intent).
OwnKillsAreOwned ==
    \A a \in history.stopped :
        journal[a].outcome \notin { "ProcessExitedUnexpectedly", "Orphaned", "JitExpired" }

\* A job is reported completed only for a runner GitHub had given one, although
\* the inventory is sampled and a short job starts and ends between two samples
\* (JobEvidence, assignment_not_taken).
CompletedMeansAssigned ==
    \A a \in Attempts : journal[a].outcome = "CompletedJob" => a \in history.assigned

\* An attempt whose process is gone, or never came to be, gives its slot back in
\* the end, whatever GitHub goes on listing for it, unless the service manager
\* gives the daemon up: every recovery GitHub does not answer costs one of the
\* starts it makes in an interval (reconcile_one, recover_startup).
SlotReturned ==
    \A a \in Attempts :
        (journal[a].state \in ConcludableFrom /\ ~Alive(a))
            ~> (journal[a].state \in Terminal \/ Alive(a) \/ daemon = "failed")

\* A concluded attempt is cleaned in the end, with the same proviso
\* (clean_or_quarantine).
EventuallyCleaned ==
    \A a \in Attempts :
        journal[a].state \in Concluded ~> (journal[a].state = "cleaned" \/ daemon = "failed")
==============================================================================
