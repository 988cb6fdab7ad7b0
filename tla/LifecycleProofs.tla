--------------------------- MODULE LifecycleProofs ---------------------------
(***************************************************************************)
(* What holds of the native lifecycle whatever the number of attempts, of  *)
(* crashes and of faults: the journal keeps the promise of AttemptJournal, *)
(* and its verdicts are true of what happened outside the daemon.          *)
(***************************************************************************)
EXTENDS Lifecycle, TLAPS

-----------------------------------------------------------------------------
(* The copies of rows a pass holds. *)

\* A copy says what the journal says, but for a concluded attempt that was
\* cleaned since.
Current(a, row) ==
    journal[a] = row \/ (row.state \in Concluded /\ journal[a] = CleanedRow(row))

\* Where a loop holds the row of an attempt that has no verdict yet.
LaunchesUnregistered == { "materialize", "register", "sidecar", "jit" }
LaunchesRegistered == { "spawn", "identity", "started" }
Decides == { "observe", "decide", "act" }
Holds == LaunchPc \cup Decides

NoRowIsBlank == \A a \in Attempts : journal[a].state = "none" => journal[a] = NoRow

TodoOfAPass == loop.pc \notin { "next" } \cup VisitPc => todo = NothingTodo

TodoIsCurrent ==
    \A a \in Attempts :
        todo[a].state # "none" /\ ~(loop.pc \in VisitPc /\ loop.at = a) => Current(a, todo[a])

RowIsCurrent ==
    /\ loop.pc \in Holds \cup { "clean" } => loop.at \in Attempts
    /\ loop.pc \in Holds => journal[loop.at] = loop.row
    /\ loop.pc \in LaunchesUnregistered => loop.row.state = "allocated"
    /\ loop.pc \in LaunchesRegistered => loop.row.state = "jit_received"
    /\ loop.pc \in Decides => loop.row.state \in ConcludableFrom
    /\ loop.pc = "clean" => loop.row.state \in Concluded /\ Current(loop.at, loop.row)

\* What a visit decides: it walks only to what GitHub lists, and only a runner
\* that idled or registered too late is stopped; a visit that acts without
\* walking has a verdict.
OwnVerdicts == { "ExitedIdleWithoutWork", "TerminatedAfterRegistrationTimeout" }

PlanIsSound ==
    loop.pc = "act" =>
        /\ loop.plan.walk \in { None, "idle", "busy" }
        /\ loop.plan.kill # None => loop.plan.outcome \in OwnVerdicts
        /\ loop.plan.walk = None => loop.plan.outcome # None

CInv ==
    TypeOK /\ NoRowIsBlank /\ TodoOfAPass /\ TodoIsCurrent /\ RowIsCurrent /\ PlanIsSound

-----------------------------------------------------------------------------
(* Assignment: what the daemon knows of a job was true of GitHub. *)

AssignedSeen ==
    \A a \in Attempts :
        \/ github[a] = "busy" \/ disk[a].diag = "worker"
        \/ journal[a].state = "busy" \/ journal[a].outcome = "CompletedJob"
        => a \in history.assigned

AssignedPlanned ==
    /\ loop.pc = "decide" /\ loop.obs = "busy" => loop.at \in history.assigned
    /\ loop.pc = "act" /\ (loop.plan.walk = "busy" \/ loop.plan.outcome = "CompletedJob")
         => loop.at \in history.assigned

AInv == AssignedSeen /\ AssignedPlanned

-----------------------------------------------------------------------------
(* Kills: the intent stays on disk until the attempt has its verdict. *)

ForeignVerdicts == { "ProcessExitedUnexpectedly", "Orphaned", "JitExpired" }

IntentStays ==
    /\ \A a \in history.stopped : journal[a].state \notin Terminal => disk[a].intent
    /\ loop.pc = "act" /\ loop.plan.kill \in { "stop", "recheck" } => disk[loop.at].intent

OwnedPlanned ==
    loop.pc = "act" /\ loop.at \in history.stopped => loop.plan.outcome \notin ForeignVerdicts

VerdictLast == \A a \in Attempts : journal[a].state \notin Terminal => journal[a].outcome = None

KInv == IntentStays /\ OwnKillsAreOwned /\ OwnedPlanned /\ VerdictLast

-----------------------------------------------------------------------------
(* Deaths: a process that may be looked for is found dead before its attempt  *)
(* is concluded, as long as the operating system answers.                     *)

Gone(a) == ~Alive(a) \/ ~disk[a].identity

NotYetIdentified ==
    /\ \A a \in Attempts : journal[a].state = "none" => ~disk[a].identity
    /\ loop.pc \in LaunchPc \ { "started" } => ~disk[loop.at].identity

DeadWhenRead ==
    /\ loop.pc \in Decides /\ ~loop.alive => Gone(loop.at)
    /\ loop.pc = "act" /\ loop.plan.kill = None /\ loop.plan.outcome # None => Gone(loop.at)

DInv == AccountedRunner /\ NotYetIdentified /\ DeadWhenRead

-----------------------------------------------------------------------------
(* Decisions. *)

\* What recovery_decision may say of an attempt without a verdict.
LEMMA DecisionFacts ==
    ASSUME NEW state \in ConcludableFrom, NEW alive \in BOOLEAN, NEW obs \in GithubObservation,
           NEW past \in BOOLEAN
    PROVE  LET d == RecoveryDecision(state, alive, obs, past)
           IN  /\ d.kind = "Observe" =>
                     \/ d.arg \in { "idle", "busy" } /\ d.arg = obs
                     \/ ~alive /\ obs \in { "idle", "busy" } /\ state \in { "allocated", "jit_received" }
               /\ d.kind = "Conclude" => ~alive /\ d.arg \in AttemptOutcome \ { "CompletedJob" }
               /\ d.kind = "Terminate" => d.arg \in { "RegistrationTimedOut", "ExitedIdleWithoutWork" }
<1> DEFINE d == RecoveryDecision(state, alive, obs, past)
<1>1. state \notin Terminal
  BY DEF ConcludableFrom, Terminal, Concluded
<1>2. CASE obs = "unreachable"
  <2>1. d = Decision("Defer", "-")
    BY <1>1, <1>2 DEF RecoveryDecision, Terminal
  <2> QED BY <2>1 DEF Decision
<1>3. CASE obs # "unreachable"
  <2>1. CASE state \in { "allocated", "jit_received" }
    <3>1. d = RecoverUnstarted(state, alive, obs, past)
      BY <1>1, <1>3, <2>1 DEF RecoveryDecision, Terminal
    <3> QED BY <2>1, <3>1 DEF RecoverUnstarted, Decision, AttemptOutcome, FailureReason
  <2>2. CASE state = "starting"
    <3>1. d = RecoverStarting(alive, obs, past)
      BY <1>1, <1>3, <2>2 DEF RecoveryDecision, Terminal
    <3> QED BY <3>1 DEF RecoverStarting, Decision, AttemptOutcome, FailureReason
  <2>3. CASE state = "idle"
    <3>1. d = RecoverIdle(alive, obs, past)
      BY <1>1, <1>3, <2>3 DEF RecoveryDecision, Terminal
    <3> QED BY <3>1 DEF RecoverIdle, Decision, AttemptOutcome, FailureReason
  <2>4. CASE state = "busy"
    <3>1. d = IF alive THEN Decision("Adopt", "-") ELSE Decision("Conclude", "Orphaned")
      BY <1>1, <1>3, <2>4 DEF RecoveryDecision, Terminal
    <3> QED BY <3>1 DEF Decision, AttemptOutcome
  <2>5. CASE state \in { "preparing", "prepared" }
    <3>1. d = Decision("Wait", "-")
      BY <1>1, <1>3, <2>5 DEF RecoveryDecision, Terminal
    <3> QED BY <3>1 DEF Decision
  <2> QED BY <2>1, <2>2, <2>3, <2>4, <2>5 DEF ConcludableFrom
<1> QED BY <1>2, <1>3

LEMMA NoPlanTyped ==
    /\ NoPlan \in Plan /\ NoPlan.kill = None /\ ~NoPlan.dereg
    /\ NoPlan.walk = None /\ NoPlan.outcome = None
BY DEF NoPlan, Plan

LEMMA ConcludingTyped ==
    ASSUME NEW dereg \in BOOLEAN, NEW outcome \in AttemptOutcome
    PROVE  /\ Concluding(dereg, outcome) \in Plan /\ Concluding(dereg, outcome).kill = None
           /\ Concluding(dereg, outcome).walk = None /\ Concluding(dereg, outcome).outcome = outcome
BY DEF Concluding, NoPlan, Plan

\* What the plan of a visit may hold, and what it was decided from.
Sound(plan, evidence) ==
    /\ plan \in Plan /\ plan.walk \in { None, "idle", "busy" }
    /\ plan.kill \in { None, "intent" }
    /\ plan.kill # None => plan.outcome \in OwnVerdicts
    /\ plan.walk = None /\ plan.outcome = None => plan = NoPlan
    /\ plan.kill = None /\ plan.outcome # None => ~loop.alive
    /\ plan.outcome \in ForeignVerdicts => ~disk[loop.at].intent
    /\ plan.walk = "busy" \/ plan.outcome = "CompletedJob" =>
          evidence = "RanAJob" \/ loop.obs = "busy" \/ loop.row.state = "busy"

LEMMA SucceededSound ==
    ASSUME CInv, NEW evidence \in { "RanAJob", "NoJob", "Unknown" }
    PROVE  Sound(SucceededPlan(evidence), evidence)
<1>1. CASE ~(~loop.alive /\ loop.obs # "unreachable" /\ loop.row.state \in { "starting", "idle", "busy" }
              /\ loop.at \in memory.succeeded)
  <2>1. SucceededPlan(evidence) = NoPlan
    BY <1>1 DEF SucceededPlan
  <2> QED BY <2>1, NoPlanTyped DEF Sound, None, ForeignVerdicts, OwnVerdicts
<1>2. CASE /\ ~loop.alive /\ loop.obs # "unreachable" /\ loop.row.state \in { "starting", "idle", "busy" }
           /\ loop.at \in memory.succeeded
  <2> DEFINE finish(walk, outcome) ==
               [NoPlan EXCEPT !.dereg = Registered(loop.obs), !.walk = walk, !.outcome = outcome]
  <2>1. SucceededPlan(evidence) = Succeeded(loop.row.state, loop.obs, evidence)
    BY <1>2 DEF SucceededPlan
  <2>2. ASSUME NEW walk \in { None, "idle", "busy" },
               NEW outcome \in { "CompletedJob", "ExitedIdleWithoutWork" },
               walk = "busy" \/ outcome = "CompletedJob" => evidence = "RanAJob" \/ loop.row.state = "busy"
        PROVE  Sound(finish(walk, outcome), evidence)
    <3>1. /\ finish(walk, outcome) \in Plan /\ finish(walk, outcome).kill = None
          /\ finish(walk, outcome).walk = walk /\ finish(walk, outcome).outcome = outcome
      <4>1. /\ walk \in AttemptState \cup { None } /\ outcome \in AttemptOutcome \cup { None }
            /\ Registered(loop.obs) \in BOOLEAN
        BY DEF AttemptState, AttemptOutcome, Registered
      <4> QED BY <4>1 DEF NoPlan, Plan
    <3> HIDE DEF finish
    <3> QED BY <3>1, <2>2, <1>2 DEF Sound, ForeignVerdicts, None
  <2>3. CASE loop.row.state \in { "starting", "idle" } /\ evidence = "RanAJob"
    <3>1. SucceededPlan(evidence) = finish("busy", "CompletedJob")
      BY <2>1, <2>3 DEF Succeeded
    <3> HIDE DEF finish
    <3> QED BY <3>1, <2>2, <2>3
  <2>4. CASE loop.row.state = "busy" /\ evidence = "RanAJob"
    <3>1. SucceededPlan(evidence) = finish(None, "CompletedJob")
      BY <2>1, <2>4 DEF Succeeded
    <3> HIDE DEF finish
    <3> QED BY <3>1, <2>2, <2>4
  <2>5. CASE loop.row.state = "busy" /\ evidence = "NoJob"
    <3>1. SucceededPlan(evidence) = finish("idle", "ExitedIdleWithoutWork")
      BY <2>1, <2>5 DEF Succeeded
    <3> HIDE DEF finish
    <3> QED BY <3>1, <2>2
  <2>6. CASE loop.row.state = "busy" /\ evidence = "Unknown" /\ loop.obs = "absent"
    <3>1. SucceededPlan(evidence) = finish(None, "CompletedJob")
      BY <2>1, <2>6 DEF Succeeded
    <3> HIDE DEF finish
    <3> QED BY <3>1, <2>2, <2>6
  <2>7. CASE \/ loop.row.state \in { "starting", "idle" } /\ evidence # "RanAJob"
             \/ loop.row.state = "busy" /\ evidence = "Unknown" /\ loop.obs # "absent"
    <3>1. SucceededPlan(evidence) = NoPlan
      BY <2>1, <2>7 DEF Succeeded
    <3> QED BY <3>1, NoPlanTyped DEF Sound, None, ForeignVerdicts, OwnVerdicts
  <2> QED BY <1>2, <2>3, <2>4, <2>5, <2>6, <2>7
<1> QED BY <1>1, <1>2

LEMMA RecoverySound ==
    ASSUME CInv, loop.pc = "decide", ~LostHandoff, ~StoppedEarlier,
           NEW evidence \in { "RanAJob", "NoJob", "Unknown" }
    PROVE  Sound(RecoveryPlan, evidence)
<1> DEFINE d == RecoveryDecision(loop.row.state, loop.alive, loop.obs, late[loop.at])
<1>1. /\ loop.row.state \in ConcludableFrom /\ loop.alive \in BOOLEAN /\ loop.obs \in GithubObservation
      /\ late[loop.at] \in BOOLEAN /\ loop.at \in Attempts
  BY DEF CInv, TypeOK, Loop, RowIsCurrent, Decides, Holds
<1>2. /\ d.kind = "Observe" =>
            \/ d.arg \in { "idle", "busy" } /\ d.arg = loop.obs
            \/ ~loop.alive /\ loop.obs \in { "idle", "busy" }
               /\ loop.row.state \in { "allocated", "jit_received" }
      /\ d.kind = "Conclude" => ~loop.alive /\ d.arg \in AttemptOutcome \ { "CompletedJob" }
      /\ d.kind = "Terminate" => d.arg \in { "RegistrationTimedOut", "ExitedIdleWithoutWork" }
  BY <1>1, DecisionFacts
<1>3. RecoveryPlan =
        CASE d.kind = "Observe"  -> [NoPlan EXCEPT !.walk = d.arg]
          [] d.kind = "Conclude" -> Concluding(Registered(loop.obs), d.arg)
          [] d.kind = "Terminate" ->
               [Concluding(TRUE, IF d.arg = "ExitedIdleWithoutWork" THEN d.arg
                                 ELSE "TerminatedAfterRegistrationTimeout") EXCEPT !.kill = "intent"]
          [] OTHER -> NoPlan
  BY DEF RecoveryPlan
<1> HIDE DEF d
<1>4. CASE d.kind = "Observe"
  <2>1. d.arg \in { "idle", "busy" } /\ d.arg = loop.obs
    BY <1>2, <1>4 DEF LostHandoff, Registered
  <2>2. RecoveryPlan = [NoPlan EXCEPT !.walk = d.arg]
    BY <1>3, <1>4
  <2>3. /\ RecoveryPlan \in Plan /\ RecoveryPlan.kill = None /\ RecoveryPlan.walk = d.arg
        /\ RecoveryPlan.outcome = None
    BY <2>1, <2>2 DEF NoPlan, Plan, AttemptState
  <2> QED BY <2>1, <2>3 DEF Sound, None, ForeignVerdicts
<1>5. CASE d.kind = "Conclude"
  <2>1. RecoveryPlan = Concluding(Registered(loop.obs), d.arg)
    BY <1>3, <1>5
  <2>2. d.arg \in AttemptOutcome \ { "CompletedJob" } /\ ~loop.alive /\ Registered(loop.obs) \in BOOLEAN
    BY <1>2, <1>5 DEF Registered
  <2>3. /\ RecoveryPlan \in Plan /\ RecoveryPlan.kill = None /\ RecoveryPlan.walk = None
        /\ RecoveryPlan.outcome = d.arg
    BY <2>1, <2>2, ConcludingTyped
  <2> QED BY <2>2, <2>3 DEF Sound, None, StoppedEarlier, AttemptOutcome, FailureReason
<1>6. CASE d.kind = "Terminate"
  <2> DEFINE o == IF d.arg = "ExitedIdleWithoutWork" THEN d.arg ELSE "TerminatedAfterRegistrationTimeout"
  <2>1. RecoveryPlan = [Concluding(TRUE, o) EXCEPT !.kill = "intent"]
    BY <1>3, <1>6
  <2>2. o \in OwnVerdicts
    BY DEF OwnVerdicts
  <2> HIDE DEF o
  <2>3. o \in AttemptOutcome /\ o \notin ForeignVerdicts /\ o # "CompletedJob"
    BY <2>2 DEF OwnVerdicts, AttemptOutcome, FailureReason, ForeignVerdicts
  <2> DEFINE c == Concluding(TRUE, o)
  <2>4. c \in Plan /\ c.walk = None /\ c.outcome = o
    BY <2>3, ConcludingTyped
  <2> HIDE DEF c
  <2>5. /\ [c EXCEPT !.kill = "intent"] \in Plan /\ [c EXCEPT !.kill = "intent"].kill = "intent"
        /\ [c EXCEPT !.kill = "intent"].walk = None /\ [c EXCEPT !.kill = "intent"].outcome = o
    BY <2>4 DEF Plan
  <2> QED BY <2>1, <2>2, <2>3, <2>5 DEF Sound, None, c, OwnVerdicts
<1>7. CASE d.kind \notin { "Observe", "Conclude", "Terminate" }
  <2>1. RecoveryPlan = NoPlan
    BY <1>3, <1>7
  <2> QED BY <2>1, NoPlanTyped DEF Sound, None, ForeignVerdicts, OwnVerdicts
<1> QED BY <1>4, <1>5, <1>6, <1>7

LEMMA ReconcileSound ==
    ASSUME CInv, loop.pc = "decide", NEW evidence \in { "RanAJob", "NoJob", "Unknown" }
    PROVE  Sound(ReconcilePlan(evidence), evidence)
<1>1. CASE SucceededPlan(evidence) # NoPlan
  BY <1>1, SucceededSound DEF ReconcilePlan
<1>2. CASE SucceededPlan(evidence) = NoPlan /\ NotTakenUp(evidence)
  <2>1. ReconcilePlan(evidence) = [NoPlan EXCEPT !.walk = "idle"]
    BY <1>2 DEF ReconcilePlan
  <2>2. /\ ReconcilePlan(evidence) \in Plan /\ ReconcilePlan(evidence).kill = None
        /\ ReconcilePlan(evidence).walk = "idle" /\ ReconcilePlan(evidence).outcome = None
    BY <2>1 DEF NoPlan, Plan, AttemptState
  <2> QED BY <2>2 DEF Sound, None, ForeignVerdicts
<1>3. CASE SucceededPlan(evidence) = NoPlan /\ ~NotTakenUp(evidence) /\ StoppedEarlier
  <2>1. ReconcilePlan(evidence) = Concluding(TRUE, "TerminatedAfterRegistrationTimeout")
    BY <1>3 DEF ReconcilePlan
  <2>2. "TerminatedAfterRegistrationTimeout" \in AttemptOutcome
    BY DEF AttemptOutcome, FailureReason
  <2> DEFINE p == Concluding(TRUE, "TerminatedAfterRegistrationTimeout")
  <2>a. p \in Plan /\ p.kill = None /\ p.walk = None /\ p.outcome = "TerminatedAfterRegistrationTimeout"
    BY <2>2, ConcludingTyped
  <2> HIDE DEF p
  <2>3. /\ ReconcilePlan(evidence) \in Plan /\ ReconcilePlan(evidence).kill = None
        /\ ReconcilePlan(evidence).walk = None
        /\ ReconcilePlan(evidence).outcome = "TerminatedAfterRegistrationTimeout"
    BY <2>1, <2>a DEF p
  <2> QED BY <1>3, <2>3 DEF Sound, None, ForeignVerdicts, StoppedEarlier
<1>4. CASE SucceededPlan(evidence) = NoPlan /\ ~NotTakenUp(evidence) /\ ~StoppedEarlier /\ LostHandoff
  <2>1. ReconcilePlan(evidence) = Concluding(TRUE, "JitExpired")
    BY <1>4 DEF ReconcilePlan
  <2>2. "JitExpired" \in AttemptOutcome
    BY DEF AttemptOutcome, FailureReason
  <2> DEFINE p == Concluding(TRUE, "JitExpired")
  <2>a. p \in Plan /\ p.kill = None /\ p.walk = None /\ p.outcome = "JitExpired"
    BY <2>2, ConcludingTyped
  <2> HIDE DEF p
  <2>3. /\ ReconcilePlan(evidence) \in Plan /\ ReconcilePlan(evidence).kill = None
        /\ ReconcilePlan(evidence).walk = None /\ ReconcilePlan(evidence).outcome = "JitExpired"
    BY <2>1, <2>a DEF p
  <2>4. ~loop.alive /\ ~disk[loop.at].intent
    BY <1>4 DEF LostHandoff, StoppedEarlier
  <2> QED BY <2>3, <2>4 DEF Sound, None
<1>5. CASE SucceededPlan(evidence) = NoPlan /\ ~NotTakenUp(evidence) /\ ~StoppedEarlier /\ ~LostHandoff
  BY <1>5, RecoverySound DEF ReconcilePlan
<1> QED BY <1>1, <1>2, <1>3, <1>4, <1>5

-----------------------------------------------------------------------------
(* Rows and the journal. *)

LEMMA ValuesTyped ==
    /\ NoRow \in Row /\ NoDisk \in Disk /\ AtRest \in Loop /\ AtRest.pc = "rest" /\ NothingTodo \in [Attempts -> Row]
    /\ \A a \in Attempts : NothingTodo[a] = NoRow
    /\ Fresh \in [ children : SUBSET Attempts, succeeded : SUBSET Attempts, unresolved : BOOLEAN ]
<1>1. NoRow \in Row
  BY DEF NoRow, Row
<1>2. AtRest \in Loop /\ AtRest.pc = "rest"
  BY <1>1, NoPlanTyped DEF AtRest, Loop, GithubObservation
<1>3. NothingTodo \in [Attempts -> Row] /\ \A a \in Attempts : NothingTodo[a] = NoRow
  BY <1>1 DEF NothingTodo
<1> QED BY <1>1, <1>2, <1>3 DEF NoDisk, Disk, Fresh

LEMMA WalkedTyped ==
    ASSUME NEW row \in Row, NEW to \in AttemptState
    PROVE  /\ Walked(row, to) \in Row /\ Walked(row, to).state = to /\ Walked(row, to).outcome = row.outcome
           /\ Walked(row, to).pid = row.pid /\ Walked(row, to).rid = (row.rid \/ to \in { "idle", "busy" })
<1>1. row.rid \in BOOLEAN
  BY DEF Row
<1> DEFINE rid == row.rid \/ to \in { "idle", "busy" }
<1>2. rid \in BOOLEAN
  BY <1>1
<1>3. Walked(row, to) = [row EXCEPT !.state = to, !.rid = rid]
  BY DEF Walked
<1> HIDE DEF rid
<1>4. /\ Walked(row, to) \in Row /\ Walked(row, to).state = to /\ Walked(row, to).outcome = row.outcome
      /\ Walked(row, to).pid = row.pid /\ Walked(row, to).rid = rid
  BY <1>2, <1>3 DEF Row
<1> QED BY <1>4 DEF rid

LEMMA StartedTyped ==
    ASSUME NEW row \in Row
    PROVE  /\ Started(row) \in Row /\ Started(row).state = "starting" /\ Started(row).outcome = row.outcome
           /\ Started(row).pid = TRUE /\ Started(row).rid = row.rid
BY DEF Started, Row, AttemptState

LEMMA ConcludedTyped ==
    ASSUME NEW row \in Row, NEW outcome \in AttemptOutcome
    PROVE  /\ ConcludedRow(row, outcome) \in Row /\ ConcludedRow(row, outcome).outcome = outcome
           /\ ConcludedRow(row, outcome).state = TerminalState(outcome)
           /\ TerminalState(outcome) \in Concluded
<1>1. TerminalState(outcome) \in Concluded
  BY DEF TerminalState, Concluded
<1>2. TerminalState(outcome) \in AttemptState
  BY <1>1 DEF Concluded, AttemptState
<1> QED BY <1>1, <1>2 DEF ConcludedRow, Row

LEMMA CleanedTyped ==
    ASSUME NEW row \in Row
    PROVE  /\ CleanedRow(row) \in Row /\ CleanedRow(row).state = "cleaned"
           /\ CleanedRow(row).outcome = row.outcome
BY DEF CleanedRow, Row, AttemptState

LEMMA RecordTyped ==
    ASSUME TypeOK, NEW a \in Attempts, NEW row \in Row, Record(a, row)
    PROVE  /\ journal' \in [Attempts -> Row] /\ late' \in [Attempts -> BOOLEAN]
           /\ journal'[a] = row /\ \A b \in Attempts : b # a => journal'[b] = journal[b]
<1>1. journal \in [Attempts -> Row] /\ late \in [Attempts -> BOOLEAN]
  BY DEF TypeOK
<1> QED BY <1>1 DEF Record

\* A row that was opened stays open.
LEMMA BlankKept ==
    ASSUME CInv, NEW a \in Attempts, journal'[a].state # "none",
           \A b \in Attempts : b # a => journal'[b] = journal[b]
    PROVE  NoRowIsBlank'
BY DEF CInv, NoRowIsBlank

LEMMA NoneIsNoState == "none" \notin AttemptState /\ "none" \notin Concluded /\ "none" \notin Terminal
BY DEF AttemptState, Concluded, Terminal

-----------------------------------------------------------------------------
(* The shapes of a step. *)

\* Neither the journal nor the loop moves.
LEMMA Unmoved ==
    ASSUME CInv, TypeOK', UNCHANGED <<journal, todo, loop>>
    PROVE  CInv'
<1>1. NoRowIsBlank' /\ TodoOfAPass' /\ TodoIsCurrent'
  BY DEF CInv, NoRowIsBlank, TodoOfAPass, TodoIsCurrent, Current
<1>2. RowIsCurrent' /\ PlanIsSound'
  BY DEF CInv, RowIsCurrent, PlanIsSound, Current
<1> QED BY <1>1, <1>2 DEF CInv

\* The loop comes to rest.
LEMMA Rests ==
    ASSUME TypeOK', NoRowIsBlank', loop' = AtRest, todo' = NothingTodo
    PROVE  CInv'
<1>1. loop'.pc = "rest" /\ \A a \in Attempts : todo'[a].state = "none"
  BY ValuesTyped DEF NoRow
<1>2. TodoOfAPass' /\ TodoIsCurrent'
  BY <1>1 DEF TodoOfAPass, TodoIsCurrent, NothingTodo
<1>3. RowIsCurrent' /\ PlanIsSound'
  BY <1>1 DEF RowIsCurrent, PlanIsSound, Holds, LaunchPc, Decides, LaunchesUnregistered, LaunchesRegistered
<1> QED BY <1>2, <1>3 DEF CInv

\* Where a visit of a is, or may begin.
At(a) == loop.pc = "next" \/ (loop.pc \in VisitPc /\ loop.at = a)

\* The visit of a ends.
LEMMA VisitEnds ==
    ASSUME CInv, TypeOK', NoRowIsBlank', NEW a \in Attempts, At(a), Visited(a),
           \A b \in Attempts : b # a => journal'[b] = journal[b]
    PROVE  CInv'
<1>1. loop'.pc = "next"
  BY DEF Visited, AtRest
<1>2. todo \in [Attempts -> Row] /\ todo' = [todo EXCEPT ![a] = NoRow]
  BY DEF CInv, TypeOK, Visited
<1>3. todo'[a].state = "none" /\ \A b \in Attempts : b # a => todo'[b] = todo[b]
  BY <1>2 DEF NoRow
<1>4. TodoIsCurrent'
  <2>1. SUFFICES ASSUME NEW b \in Attempts, todo'[b].state # "none" PROVE Current(b, todo[b])'
    BY DEF TodoIsCurrent
  <2>2. b # a /\ todo'[b] = todo[b] /\ journal'[b] = journal[b]
    BY <1>3, <2>1
  <2>3. Current(b, todo[b])
    BY <2>1, <2>2 DEF CInv, TodoIsCurrent, At, VisitPc
  <2> QED BY <2>2, <2>3 DEF Current
<1>5. TodoOfAPass'
  BY <1>1 DEF TodoOfAPass
<1>6. RowIsCurrent' /\ PlanIsSound'
  BY <1>1 DEF RowIsCurrent, PlanIsSound, Holds, LaunchPc, Decides, LaunchesUnregistered, LaunchesRegistered
<1> QED BY <1>4, <1>5, <1>6 DEF CInv

\* The visit of a begins or goes on.
LEMMA VisitGoesOn ==
    ASSUME CInv, TypeOK', NoRowIsBlank', NEW a \in Attempts, At(a), loop'.pc \in VisitPc, loop'.at = a,
           UNCHANGED todo, \A b \in Attempts : b # a => journal'[b] = journal[b],
           loop'.pc \in Decides => journal'[a] = loop'.row /\ loop'.row.state \in ConcludableFrom,
           loop'.pc = "clean" => loop'.row.state \in Concluded /\ Current(a, loop.row)',
           loop'.pc = "act" =>
               /\ loop'.plan.walk \in { None, "idle", "busy" }
               /\ loop'.plan.kill # None => loop'.plan.outcome \in OwnVerdicts
               /\ loop'.plan.walk = None => loop'.plan.outcome # None
    PROVE  CInv'
<1>1. TodoOfAPass'
  BY DEF TodoOfAPass
<1>2. TodoIsCurrent'
  <2>1. SUFFICES ASSUME NEW b \in Attempts, todo'[b].state # "none", b # a PROVE Current(b, todo[b])'
    BY DEF TodoIsCurrent
  <2>2. todo'[b] = todo[b] /\ journal'[b] = journal[b]
    BY <2>1
  <2>3. Current(b, todo[b])
    BY <2>1, <2>2 DEF CInv, TodoIsCurrent, At, VisitPc
  <2> QED BY <2>2, <2>3 DEF Current
<1>3. loop'.pc \notin LaunchPc
  BY DEF LaunchPc, VisitPc
<1>4. RowIsCurrent'
  BY <1>3 DEF RowIsCurrent, Holds, LaunchPc, LaunchesUnregistered, LaunchesRegistered
<1>5. PlanIsSound'
  BY DEF PlanIsSound
<1> QED BY <1>1, <1>2, <1>4, <1>5 DEF CInv

\* A launch begins or goes on.
LEMMA LaunchGoesOn ==
    ASSUME CInv, TypeOK', NoRowIsBlank', loop.pc \in { "rest" } \cup LaunchPc, loop'.pc \in LaunchPc,
           UNCHANGED todo, loop'.at \in Attempts, journal'[loop'.at] = loop'.row,
           loop'.pc \in LaunchesUnregistered => loop'.row.state = "allocated",
           loop'.pc \in LaunchesRegistered => loop'.row.state = "jit_received"
    PROVE  CInv'
<1>1. todo' = NothingTodo
  BY DEF CInv, TodoOfAPass, LaunchPc, VisitPc
<1>2. \A a \in Attempts : todo'[a].state = "none"
  BY <1>1, ValuesTyped DEF NoRow
<1>3. TodoOfAPass' /\ TodoIsCurrent'
  BY <1>1, <1>2 DEF TodoOfAPass, TodoIsCurrent, NothingTodo
<1>4. loop'.pc \notin Decides \cup { "clean", "act" }
  BY DEF LaunchPc, Decides
<1>5. RowIsCurrent' /\ PlanIsSound'
  BY <1>4 DEF RowIsCurrent, PlanIsSound, Holds
<1> QED BY <1>3, <1>5 DEF CInv

-----------------------------------------------------------------------------
(* Writes of the journal as steps of the abstract one. *)

\* The abstract journal speaks of the same states, edges and verdicts.
LEMMA SameDiagram ==
    /\ Diagram!ConcludableFrom = ConcludableFrom /\ Diagram!Concluded = Concluded
    /\ Diagram!AttemptOutcome = AttemptOutcome
    /\ \A from, to : Diagram!CanTransition(from, to) <=> CanTransition(from, to)
    /\ \A outcome : Diagram!TerminalState(outcome) = TerminalState(outcome)
    /\ \A state, outcome : Diagram!CanConclude(state, outcome) <=> CanConclude(state, outcome)
<1>1. Diagram!ConcludableFrom = ConcludableFrom /\ Diagram!Concluded = Concluded
  BY DEF Diagram!ConcludableFrom, ConcludableFrom, Diagram!Concluded, Concluded
<1>2. Diagram!AttemptOutcome = AttemptOutcome
  BY DEF Diagram!AttemptOutcome, AttemptOutcome, Diagram!FailureReason, FailureReason
<1>3. Diagram!LEGAL = LEGAL
  BY <1>1 DEF Diagram!LEGAL, LEGAL
<1>4. \A from, to : Diagram!CanTransition(from, to) <=> CanTransition(from, to)
  BY <1>3 DEF Diagram!CanTransition, CanTransition
<1>5. \A outcome : Diagram!TerminalState(outcome) = TerminalState(outcome)
  BY DEF Diagram!TerminalState, TerminalState
<1>6. \A outcome : Diagram!RequiredFrom(outcome) = RequiredFrom(outcome)
  BY <1>1 DEF Diagram!RequiredFrom, RequiredFrom
<1>7. \A state, outcome : Diagram!CanConclude(state, outcome) <=> CanConclude(state, outcome)
  BY <1>4, <1>5, <1>6 DEF Diagram!CanConclude, CanConclude
<1> QED BY <1>1, <1>2, <1>4, <1>5, <1>7

LEMMA RowEqual ==
    ASSUME NEW r \in Row, NEW t \in Row, r.state = t.state, r.outcome = t.outcome, r.rid = t.rid, r.pid = t.pid
    PROVE  r = t
BY DEF Row

LEMMA OpenRefines ==
    ASSUME TypeOK, NEW a \in Attempts, journal[a] = NoRow, Record(a, [NoRow EXCEPT !.state = "allocated"])
    PROVE  Diagram!Next
<1>1. journal \in [Attempts -> Row]
  BY DEF TypeOK
<1>2. journal' = [journal EXCEPT ![a].state = "allocated"]
  BY <1>1 DEF Record
<1>3. Diagram!Open(a)
  BY <1>2 DEF Diagram!Open, Diagram!Unopened, NoRow, None
<1> QED BY <1>3 DEF Diagram!Next

LEMMA WalkRefines ==
    ASSUME TypeOK, NEW a \in Attempts, NEW row \in Row, Record(a, row), row.state \in ConcludableFrom,
           CanTransition(journal[a].state, row.state), row.outcome = journal[a].outcome,
           row.pid = (journal[a].pid \/ row.state = "starting"),
           row.rid = (journal[a].rid \/ row.state \in { "idle", "busy" })
    PROVE  Diagram!Next
<1> DEFINE s == row.state
           old == journal[a]
           t == [old EXCEPT !.state = s, !.pid = old.pid \/ s = "starting",
                            !.rid = old.rid \/ s \in { "idle", "busy" }]
<1>1. journal \in [Attempts -> Row] /\ old \in Row
  BY DEF TypeOK
<1>2. s \in AttemptState /\ (old.pid \/ s = "starting") \in BOOLEAN
      /\ (old.rid \/ s \in { "idle", "busy" }) \in BOOLEAN
  BY <1>1 DEF ConcludableFrom, AttemptState, Row
<1>3. t \in Row /\ t.state = s /\ t.pid = (old.pid \/ s = "starting")
      /\ t.rid = (old.rid \/ s \in { "idle", "busy" }) /\ t.outcome = old.outcome
  BY <1>1, <1>2 DEF Row
<1> HIDE DEF t
<1>4. row = t
  BY <1>3, RowEqual
<1>5. journal' = [journal EXCEPT ![a] = t]
  BY <1>4 DEF Record
<1>6. journal' = [journal EXCEPT ![a].state = s, ![a].pid = @ \/ s = "starting",
                                ![a].rid = @ \/ s \in { "idle", "busy" }]
  BY <1>1, <1>5 DEF t
<1>7. Diagram!Walk(a)
  BY <1>6, SameDiagram DEF Diagram!Walk
<1> QED BY <1>7 DEF Diagram!Next

LEMMA ConcludeRefines ==
    ASSUME TypeOK, NEW a \in Attempts, NEW outcome \in AttemptOutcome, CanConclude(journal[a].state, outcome),
           Record(a, ConcludedRow(journal[a], outcome))
    PROVE  Diagram!Next
<1>1. journal \in [Attempts -> Row]
  BY DEF TypeOK
<1>2. journal' = [journal EXCEPT ![a].state = TerminalState(outcome), ![a].outcome = outcome]
  BY <1>1 DEF Record, ConcludedRow
<1>3. Diagram!Conclude(a)
  BY <1>2, SameDiagram DEF Diagram!Conclude
<1> QED BY <1>3 DEF Diagram!Next

LEMMA CleanRefines ==
    ASSUME TypeOK, NEW a \in Attempts, journal[a].state \in Concluded, Record(a, CleanedRow(journal[a]))
    PROVE  Diagram!Next
<1>1. journal \in [Attempts -> Row]
  BY DEF TypeOK
<1>2. journal' = [journal EXCEPT ![a].state = "cleaned"]
  BY <1>1 DEF Record, CleanedRow
<1>3. Diagram!Clean(a)
  BY <1>2, SameDiagram DEF Diagram!Clean
<1> QED BY <1>3 DEF Diagram!Next

-----------------------------------------------------------------------------
(* The passes. *)

LEMMA Holding ==
    ASSUME CInv, loop.pc \in Decides
    PROVE  /\ loop \in Loop /\ loop.at \in Attempts /\ loop.row \in Row /\ loop.row = journal[loop.at]
           /\ loop.row.state \in ConcludableFrom /\ At(loop.at)
<1>1. loop \in Loop /\ loop.at \in Attempts /\ loop.row = journal[loop.at]
      /\ loop.row.state \in ConcludableFrom
  BY DEF CInv, TypeOK, RowIsCurrent, Holds
<1>2. loop.row \in Row
  BY <1>1 DEF Loop
<1>3. At(loop.at)
  BY DEF At, Decides, VisitPc
<1> QED BY <1>1, <1>2, <1>3

LEMMA NextTyped ==
    [AtRest EXCEPT !.pc = "next"] \in Loop /\ [AtRest EXCEPT !.pc = "next"].pc = "next"
<1>1. AtRest \in Loop
  BY ValuesTyped
<1> QED BY <1>1 DEF Loop

LEMMA VisitedTyped ==
    ASSUME TypeOK, NEW a \in Attempts, Visited(a)
    PROVE  todo' \in [Attempts -> Row] /\ loop' \in Loop /\ loop'.pc = "next"
<1>1. todo \in [Attempts -> Row]
  BY DEF TypeOK
<1> QED BY <1>1, ValuesTyped, NextTyped DEF Visited

LEMMA AbortedTyped ==
    ASSUME TypeOK, Aborted
    PROVE  /\ todo' \in [Attempts -> Row] /\ loop' \in Loop /\ daemon' \in { "down", "failed", "recovering", "running" }
           /\ memory' \in [ children : SUBSET Attempts, succeeded : SUBSET Attempts, unresolved : BOOLEAN ]
           /\ loop' = AtRest /\ todo' = NothingTodo
<1>1. /\ daemon \in { "down", "failed", "recovering", "running" }
      /\ memory \in [ children : SUBSET Attempts, succeeded : SUBSET Attempts, unresolved : BOOLEAN ]
  BY DEF TypeOK
<1> QED BY <1>1, ValuesTyped DEF Aborted

LEMMA BlankUnchanged ==
    ASSUME CInv, UNCHANGED journal
    PROVE  NoRowIsBlank'
BY DEF CInv, NoRowIsBlank

\* A pass reads the whole journal.
LEMMA PassBegins ==
    ASSUME CInv, Restart \/ StartByHand \/ BeginPass
    PROVE  CInv' /\ journal' = journal
<1>0. starts' \in 0 .. START_LIMIT_BURST
  BY FaultsAssumption DEF CInv, TypeOK, Restart, StartByHand, BeginPass
<1>1. /\ UNCHANGED <<journal, disk, late, proc, github, memory, crashes, history>>
      /\ daemon' \in { "recovering", daemon }
      /\ todo' = journal /\ loop' = [AtRest EXCEPT !.pc = "next"]
  BY DEF Restart, StartByHand, Start, BeginPass, world
<1>2. loop' \in Loop /\ loop'.pc = "next"
  BY <1>1, NextTyped
<1>3. TypeOK /\ NoRowIsBlank
  BY DEF CInv
<1>4. TypeOK'
  BY <1>0, <1>1, <1>2, <1>3 DEF TypeOK
<1>5. NoRowIsBlank' /\ TodoIsCurrent' /\ TodoOfAPass'
  BY <1>1, <1>2, <1>3 DEF NoRowIsBlank, TodoIsCurrent, Current, TodoOfAPass
<1>6. RowIsCurrent' /\ PlanIsSound'
  BY <1>2 DEF RowIsCurrent, PlanIsSound, Holds, LaunchPc, Decides, LaunchesUnregistered, LaunchesRegistered
<1> QED BY <1>1, <1>4, <1>5, <1>6 DEF CInv

LEMMA EndPassStep ==
    ASSUME CInv, EndPass
    PROVE  CInv' /\ journal' = journal
<1>1. /\ UNCHANGED <<journal, disk, late, proc, github, todo, crashes, starts, history>>
      /\ todo = NothingTodo /\ loop' = AtRest
      /\ daemon' \in { "down", "running" } /\ memory' \in { Fresh, memory }
  BY DEF EndPass, world
<1>2. TypeOK'
  <2>1. TypeOK
    BY DEF CInv
  <2> QED BY <1>1, <2>1, ValuesTyped DEF TypeOK
<1> QED BY <1>1, <1>2, BlankUnchanged, Rests

LEMMA VisitCleanedStep ==
    ASSUME CInv, NEW a \in Attempts, VisitCleaned(a)
    PROVE  CInv' /\ journal' = journal
<1>1. /\ UNCHANGED <<journal, late, proc, github, daemon, memory, crashes, starts, history>>
      /\ loop.pc = "next" /\ disk' \in { disk, [disk EXCEPT ![a] = NoDisk] } /\ Visited(a)
  BY DEF VisitCleaned, world
<1>2. TypeOK'
  <2>1. TypeOK
    BY DEF CInv
  <2>2. disk' \in [Attempts -> Disk]
    BY <1>1, <2>1, ValuesTyped DEF TypeOK
  <2> QED BY <1>1, <2>1, <2>2, VisitedTyped DEF TypeOK
<1> QED BY <1>1, <1>2, BlankUnchanged, VisitEnds DEF At

LEMMA VisitTerminalStep ==
    ASSUME CInv, NEW a \in Attempts, VisitTerminal(a)
    PROVE  CInv' /\ journal' = journal
<1> DEFINE r == [AtRest EXCEPT !.pc = "clean", !.at = a, !.row = todo[a]]
<1>1. /\ UNCHANGED <<journal, disk, late, proc, github, daemon, memory, todo, crashes, starts, history>>
      /\ loop.pc = "next" /\ todo[a].state \in Concluded /\ loop' = r
  BY DEF VisitTerminal, world
<1>2. TypeOK
  BY DEF CInv
<1>3. r \in Loop /\ r.pc = "clean" /\ r.at = a /\ r.row = todo[a]
  <2>1. todo[a] \in Row /\ AtRest \in Loop
    BY <1>2, ValuesTyped DEF TypeOK
  <2> QED BY <2>1 DEF Loop, VisitPc
<1> HIDE DEF r
<1>4. TypeOK'
  BY <1>1, <1>2, <1>3 DEF TypeOK
<1>5. Current(a, todo[a])
  BY <1>1, NoneIsNoState DEF CInv, TodoIsCurrent, VisitPc
<1>6. Current(a, loop.row)'
  BY <1>1, <1>3, <1>5 DEF Current
<1>7. loop'.pc \in VisitPc /\ loop'.pc \notin Decides /\ loop'.pc # "act"
  BY <1>1, <1>3 DEF VisitPc, Decides
<1> QED BY <1>1, <1>3, <1>4, <1>6, <1>7, BlankUnchanged, VisitGoesOn DEF At

LEMMA RememberedTyped ==
    ASSUME TypeOK, NEW a \in Attempts
    PROVE  Remembered(a) \in [ children : SUBSET Attempts, succeeded : SUBSET Attempts, unresolved : BOOLEAN ]
BY DEF TypeOK, Remembered

LEMMA AnswersTyped ==
    ASSUME NEW a \in Attempts, NEW row, NEW alive \in InspectAnswers(a, row)
    PROVE  alive \in BOOLEAN
<1>1. Alive(a) \in BOOLEAN
  BY DEF Alive
<1>2. (IF "recheck_refused" \in Faults THEN { FALSE } ELSE {}) \subseteq { FALSE }
  OBVIOUS
<1>3. alive \in { Alive(a), FALSE }
  BY <1>2 DEF InspectAnswers
<1> QED BY <1>1, <1>3

LEMMA InspectStep ==
    ASSUME CInv, NEW a \in Attempts, Inspect(a)
    PROVE  CInv' /\ journal' = journal
<1>1. /\ UNCHANGED <<journal, disk, late, proc, github, daemon, todo, crashes, starts, history>>
      /\ loop.pc = "next" /\ todo[a].state \in ConcludableFrom /\ memory' = Remembered(a)
  BY DEF Inspect, world
<1>2. PICK alive \in InspectAnswers(a, todo[a]) :
        loop' = [AtRest EXCEPT !.pc = "observe", !.at = a, !.row = todo[a], !.alive = alive]
  BY DEF Inspect
<1>3. TypeOK
  BY DEF CInv
<1>4. alive \in BOOLEAN
  BY AnswersTyped
<1>5. loop' \in Loop /\ loop'.pc = "observe" /\ loop'.at = a /\ loop'.row = todo[a]
  <2>1. todo[a] \in Row /\ AtRest \in Loop
    BY <1>3, ValuesTyped DEF TypeOK
  <2> QED BY <1>2, <1>4, <2>1 DEF Loop, VisitPc
<1>6. TypeOK'
  BY <1>1, <1>3, <1>5, RememberedTyped DEF TypeOK
<1>7. todo[a] = journal[a]
  <2>1. todo[a].state # "none" /\ todo[a].state \notin Concluded
    BY <1>1 DEF ConcludableFrom, Concluded
  <2> QED BY <1>1, <2>1 DEF CInv, TodoIsCurrent, Current, VisitPc
<1>8. loop'.pc \in VisitPc /\ loop'.pc \notin { "act", "clean" }
  BY <1>5 DEF VisitPc
<1> QED BY <1>1, <1>5, <1>6, <1>7, <1>8, BlankUnchanged, VisitGoesOn DEF At

LEMMA InspectErrorStep ==
    ASSUME CInv, NEW a \in Attempts, InspectError(a)
    PROVE  CInv' /\ journal' = journal
<1>1. UNCHANGED <<journal, disk, late, proc, github, crashes, starts, history>> /\ Aborted
  BY DEF InspectError, world
<1>2. TypeOK
  BY DEF CInv
<1>3. TypeOK'
  BY <1>1, <1>2, AbortedTyped DEF TypeOK
<1> QED BY <1>1, <1>2, <1>3, AbortedTyped, BlankUnchanged, Rests

LEMMA ObserveStep ==
    ASSUME CInv, Observe
    PROVE  CInv' /\ journal' = journal
<1>1. /\ UNCHANGED <<journal, late, proc, github, daemon, memory, todo, crashes, starts, history>>
      /\ loop.pc = "observe"
  BY DEF Observe, world
<1>2. PICK obs \in { github[loop.at] } \cup ({ "unreachable" } \cap Faults) :
        /\ loop' = [loop EXCEPT !.pc = "decide", !.obs = obs]
        /\ disk' = [disk EXCEPT ![loop.at].rid = @ \/ obs \in { "idle", "busy" }]
  BY DEF Observe
<1>3. TypeOK /\ loop.pc \in Decides
  BY <1>1 DEF CInv, Decides
<1>4. /\ loop \in Loop /\ loop.at \in Attempts /\ loop.row = journal[loop.at]
      /\ loop.row.state \in ConcludableFrom /\ At(loop.at)
  BY <1>3, Holding
<1>5. obs \in GithubObservation
  BY <1>3, <1>4 DEF TypeOK, GithubObservation
<1>6. loop' \in Loop /\ loop'.pc = "decide" /\ loop'.at = loop.at /\ loop'.row = loop.row
  BY <1>2, <1>4, <1>5 DEF Loop, VisitPc
<1>7. disk' \in [Attempts -> Disk]
  <2> DEFINE d == [disk[loop.at] EXCEPT !.rid = disk[loop.at].rid \/ obs \in { "idle", "busy" }]
  <2>1. disk \in [Attempts -> Disk] /\ disk[loop.at] \in Disk /\ disk[loop.at].rid \in BOOLEAN
    BY <1>3, <1>4 DEF TypeOK, Disk
  <2>2. disk' = [disk EXCEPT ![loop.at] = d]
    BY <1>2, <2>1
  <2>3. d \in Disk
    BY <2>1 DEF Disk
  <2> HIDE DEF d
  <2> QED BY <2>1, <2>2, <2>3
<1>8. TypeOK'
  BY <1>1, <1>3, <1>6, <1>7 DEF TypeOK
<1>9. loop'.pc \in VisitPc /\ loop'.pc \notin { "act", "clean" }
  BY <1>6 DEF VisitPc
<1> QED BY <1>1, <1>4, <1>6, <1>8, <1>9, BlankUnchanged, VisitGoesOn

-----------------------------------------------------------------------------
(* Carrying a decision out. *)

LEMMA KillEdited ==
    ASSUME NEW r \in Loop, NEW kill \in { None, "intent", "stop", "recheck" }
    PROVE  LET e == [r EXCEPT !.plan.kill = kill]
           IN  /\ e \in Loop /\ e.pc = r.pc /\ e.at = r.at /\ e.row = r.row /\ e.alive = r.alive
               /\ e.plan.kill = kill /\ e.plan.dereg = r.plan.dereg
               /\ e.plan.walk = r.plan.walk /\ e.plan.outcome = r.plan.outcome
<1> DEFINE p == [r.plan EXCEPT !.kill = kill]
           e == [r EXCEPT !.plan = p]
<1>1. r.plan \in Plan
  BY DEF Loop
<1>2. /\ p \in Plan /\ p.kill = kill /\ p.dereg = r.plan.dereg
      /\ p.walk = r.plan.walk /\ p.outcome = r.plan.outcome
  BY <1>1 DEF Plan
<1>3. [r EXCEPT !.plan.kill = kill] = e
  BY DEF Loop
<1> HIDE DEF p
<1>4. e \in Loop /\ e.pc = r.pc /\ e.at = r.at /\ e.row = r.row /\ e.alive = r.alive /\ e.plan = p
  BY <1>2 DEF Loop
<1> QED BY <1>2, <1>3, <1>4

\* The visit carries on with its plan, one step of it done.
LEMMA PlanGoesOn ==
    ASSUME CInv, TypeOK', loop.pc = "act", UNCHANGED <<journal, todo>>,
           loop'.pc = "act", loop'.at = loop.at, loop'.row = loop.row,
           loop'.plan.walk = loop.plan.walk, loop'.plan.outcome = loop.plan.outcome,
           loop'.plan.kill # None => loop.plan.kill # None
    PROVE  CInv'
<1>1. loop.pc \in Decides /\ loop'.pc \in VisitPc /\ loop'.pc # "clean"
  BY DEF Decides, VisitPc
<1>2. loop.at \in Attempts /\ loop.row = journal[loop.at] /\ loop.row.state \in ConcludableFrom /\ At(loop.at)
  BY <1>1, Holding
<1>3. /\ loop'.plan.walk \in { None, "idle", "busy" }
      /\ loop'.plan.kill # None => loop'.plan.outcome \in OwnVerdicts
      /\ loop'.plan.walk = None => loop'.plan.outcome # None
  BY DEF CInv, PlanIsSound
<1> QED BY <1>1, <1>2, <1>3, BlankUnchanged, VisitGoesOn

LEMMA WalkBeforeDecidingStep ==
    ASSUME CInv, WalkBeforeDeciding
    PROVE  CInv' /\ Diagram!Next
<1> DEFINE row == IF AdoptionPending THEN Started(loop.row) ELSE Walked(loop.row, "jit_received")
<1>1. /\ UNCHANGED <<disk, proc, github, daemon, memory, todo, crashes, starts, history>>
      /\ loop.pc = "decide" /\ Record(loop.at, row) /\ loop' = [loop EXCEPT !.row = row]
      /\ AdoptionPending \/ Expiring
  BY DEF WalkBeforeDeciding, world
<1>2. TypeOK /\ loop.pc \in Decides
  BY <1>1 DEF CInv, Decides
<1>3. /\ loop \in Loop /\ loop.at \in Attempts /\ loop.row \in Row /\ loop.row = journal[loop.at]
      /\ At(loop.at)
  BY <1>2, Holding
<1>4. /\ row \in Row /\ row.state \in ConcludableFrom /\ row.outcome = loop.row.outcome
      /\ CanTransition(loop.row.state, row.state)
      /\ row.pid = (loop.row.pid \/ row.state = "starting")
      /\ row.rid = (loop.row.rid \/ row.state \in { "idle", "busy" })
  <2>0. loop.row.pid \in BOOLEAN /\ loop.row.rid \in BOOLEAN
    BY <1>3 DEF Row
  <2>1. CASE AdoptionPending
    <3>1. /\ Started(loop.row) \in Row /\ Started(loop.row).state = "starting"
          /\ Started(loop.row).outcome = loop.row.outcome
          /\ Started(loop.row).pid = TRUE /\ Started(loop.row).rid = loop.row.rid
      BY <1>3, StartedTyped
    <3>2. row = Started(loop.row) /\ loop.row.state = "jit_received"
      BY <2>1 DEF AdoptionPending
    <3> HIDE DEF row
    <3> QED BY <2>0, <3>1, <3>2 DEF ConcludableFrom, CanTransition, LEGAL
  <2>2. CASE ~AdoptionPending
    <3>1. "jit_received" \in AttemptState
      BY DEF AttemptState
    <3>2. LET w == Walked(loop.row, "jit_received")
          IN  /\ w \in Row /\ w.state = "jit_received" /\ w.outcome = loop.row.outcome
              /\ w.pid = loop.row.pid /\ w.rid = (loop.row.rid \/ "jit_received" \in { "idle", "busy" })
      BY <1>3, <3>1, WalkedTyped
    <3>3. row = Walked(loop.row, "jit_received") /\ loop.row.state = "allocated"
      BY <1>1, <2>2 DEF Expiring
    <3> HIDE DEF row
    <3> QED BY <2>0, <3>2, <3>3 DEF ConcludableFrom, CanTransition, LEGAL
  <2> QED BY <2>1, <2>2
<1> HIDE DEF row
<1>5. Diagram!Next
  BY <1>1, <1>2, <1>3, <1>4, WalkRefines
<1>6. /\ journal' \in [Attempts -> Row] /\ late' \in [Attempts -> BOOLEAN]
      /\ journal'[loop.at] = row /\ \A b \in Attempts : b # loop.at => journal'[b] = journal[b]
  BY <1>1, <1>2, <1>3, <1>4, RecordTyped
<1>7. loop' \in Loop /\ loop'.pc = "decide" /\ loop'.at = loop.at /\ loop'.row = row
  BY <1>1, <1>3, <1>4 DEF Loop
<1>8. TypeOK'
  BY <1>1, <1>2, <1>6, <1>7 DEF TypeOK
<1>9. NoRowIsBlank'
  <2>1. journal'[loop.at].state # "none"
    BY <1>4, <1>6 DEF ConcludableFrom
  <2> QED BY <1>3, <1>6, <2>1, BlankKept
<1>10. loop'.pc \in VisitPc /\ loop'.pc \notin { "act", "clean" }
  BY <1>7 DEF VisitPc
<1>11. CInv'
  BY <1>1, <1>3, <1>4, <1>6, <1>7, <1>8, <1>9, <1>10, VisitGoesOn
<1> QED BY <1>5, <1>11

LEMMA EvidenceTyped ==
    ASSUME NEW a, NEW evidence \in Evidence(a)
    PROVE  /\ evidence \in { "RanAJob", "NoJob", "Unknown" }
           /\ evidence = "RanAJob" => disk[a].diag = "worker"
<1>1. CASE evidence = "Unknown"
  BY <1>1
<1>2. CASE evidence # "Unknown"
  <2>1. evidence \in JobEvidence(a)
    BY <1>2 DEF Evidence
  <2>2. CASE disk[a].diag = "worker"
    BY <2>1, <2>2 DEF JobEvidence
  <2>3. CASE disk[a].diag = "listener"
    BY <2>1, <2>3 DEF JobEvidence
  <2>4. CASE disk[a].diag \notin { "worker", "listener" }
    BY <2>1, <2>4 DEF JobEvidence
  <2> QED BY <2>2, <2>3, <2>4
<1> QED BY <1>1, <1>2

\* What a decision leaves behind: a visit that ends, or a sound plan.
LEMMA DecideFacts ==
    ASSUME CInv, Decide
    PROVE  /\ UNCHANGED <<journal, disk, late, proc, github, daemon, crashes, starts, history>>
           /\ loop.pc = "decide"
           /\ \E evidence \in Evidence(loop.at) :
                \/ Visited(loop.at) /\ memory' = [memory EXCEPT !.unresolved = @ \/ Deferring]
                \/ /\ UNCHANGED <<memory, todo>> /\ Sound(ReconcilePlan(evidence), evidence)
                   /\ ReconcilePlan(evidence) # NoPlan
                   /\ loop' = [loop EXCEPT !.pc = "act", !.plan = ReconcilePlan(evidence)]
<1>1. /\ UNCHANGED <<journal, disk, late, proc, github, daemon, crashes, starts, history>>
      /\ loop.pc = "decide"
  BY DEF Decide, world
<1>2. PICK evidence \in Evidence(loop.at) :
        LET plan == ReconcilePlan(evidence)
        IN  IF plan = NoPlan
            THEN /\ Visited(loop.at)
                 /\ memory' = [memory EXCEPT !.unresolved = @ \/ Deferring]
            ELSE /\ loop' = [loop EXCEPT !.pc = "act", !.plan = plan]
                 /\ UNCHANGED <<memory, todo>>
  BY DEF Decide
<1>3. Sound(ReconcilePlan(evidence), evidence)
  BY <1>1, EvidenceTyped, ReconcileSound
<1> QED BY <1>1, <1>2, <1>3

LEMMA DecideStep ==
    ASSUME CInv, Decide
    PROVE  CInv' /\ journal' = journal
<1>1. /\ UNCHANGED <<journal, disk, late, proc, github, daemon, crashes, starts, history>>
      /\ loop.pc = "decide"
  BY DecideFacts
<1>2. TypeOK /\ loop.pc \in Decides
  BY <1>1 DEF CInv, Decides
<1>3. /\ loop \in Loop /\ loop.at \in Attempts /\ loop.row = journal[loop.at]
      /\ loop.row.state \in ConcludableFrom /\ At(loop.at)
  BY <1>2, Holding
<1>4. CASE Visited(loop.at) /\ memory' = [memory EXCEPT !.unresolved = @ \/ Deferring]
  <2>1. memory' \in [ children : SUBSET Attempts, succeeded : SUBSET Attempts, unresolved : BOOLEAN ]
    <3>1. memory \in [ children : SUBSET Attempts, succeeded : SUBSET Attempts, unresolved : BOOLEAN ]
      BY <1>2 DEF TypeOK
    <3>2. (memory.unresolved \/ Deferring) \in BOOLEAN
      BY <3>1 DEF Deferring
    <3> QED BY <1>4, <3>1, <3>2
  <2>2. TypeOK'
    BY <1>1, <1>2, <1>3, <1>4, <2>1, VisitedTyped DEF TypeOK
  <2> QED BY <1>1, <1>3, <1>4, <2>2, BlankUnchanged, VisitEnds
<1>5. ASSUME NEW evidence, UNCHANGED <<memory, todo>>, Sound(ReconcilePlan(evidence), evidence),
             ReconcilePlan(evidence) # NoPlan,
             loop' = [loop EXCEPT !.pc = "act", !.plan = ReconcilePlan(evidence)]
      PROVE  CInv'
  <2> DEFINE plan == ReconcilePlan(evidence)
  <2>1. /\ plan \in Plan /\ plan.walk \in { None, "idle", "busy" }
        /\ plan.kill # None => plan.outcome \in OwnVerdicts
        /\ plan.walk = None => plan.outcome # None
    BY <1>5 DEF Sound
  <2>2. loop' = [loop EXCEPT !.pc = "act", !.plan = plan]
    BY <1>5
  <2> HIDE DEF plan
  <2>3. loop' \in Loop /\ loop'.pc = "act" /\ loop'.at = loop.at /\ loop'.row = loop.row /\ loop'.plan = plan
    BY <1>3, <2>1, <2>2 DEF Loop, VisitPc
  <2>4. TypeOK'
    BY <1>1, <1>2, <1>5, <2>3 DEF TypeOK
  <2>5. loop'.pc \in VisitPc /\ loop'.pc # "clean"
    BY <2>3 DEF VisitPc
  <2> QED BY <1>1, <1>3, <1>5, <2>1, <2>3, <2>4, <2>5, BlankUnchanged, VisitGoesOn
<1> QED BY <1>1, <1>4, <1>5, DecideFacts

\* A file appears in the directory, or the directory goes.
LEMMA DiskTyped ==
    ASSUME TypeOK, NEW a \in Attempts
    PROVE  /\ [disk EXCEPT ![a].intent = TRUE] \in [Attempts -> Disk]
           /\ [disk EXCEPT ![a].identity = TRUE] \in [Attempts -> Disk]
           /\ [disk EXCEPT ![a].unresolved = TRUE] \in [Attempts -> Disk]
           /\ [disk EXCEPT ![a].rid = TRUE] \in [Attempts -> Disk]
           /\ [disk EXCEPT ![a].tree = TRUE] \in [Attempts -> Disk]
           /\ [disk EXCEPT ![a] = NoDisk] \in [Attempts -> Disk]
<1> DEFINE d == disk[a]
<1>1. disk \in [Attempts -> Disk] /\ d \in Disk /\ NoDisk \in Disk
  BY ValuesTyped DEF TypeOK
<1>2. /\ [d EXCEPT !.intent = TRUE] \in Disk /\ [d EXCEPT !.identity = TRUE] \in Disk
      /\ [d EXCEPT !.unresolved = TRUE] \in Disk /\ [d EXCEPT !.rid = TRUE] \in Disk
      /\ [d EXCEPT !.tree = TRUE] \in Disk
  BY <1>1 DEF Disk
<1>3. [disk EXCEPT ![a].intent = TRUE] \in [Attempts -> Disk]
  BY <1>1, <1>2
<1>4. [disk EXCEPT ![a].identity = TRUE] \in [Attempts -> Disk]
  BY <1>1, <1>2
<1>5. [disk EXCEPT ![a].unresolved = TRUE] \in [Attempts -> Disk]
  BY <1>1, <1>2
<1>6. [disk EXCEPT ![a].rid = TRUE] \in [Attempts -> Disk]
  BY <1>1, <1>2
<1>7. [disk EXCEPT ![a].tree = TRUE] \in [Attempts -> Disk]
  BY <1>1, <1>2
<1>8. [disk EXCEPT ![a] = NoDisk] \in [Attempts -> Disk]
  BY <1>1
<1> QED BY <1>3, <1>4, <1>5, <1>6, <1>7, <1>8

LEMMA RecordTerminateIntentStep ==
    ASSUME CInv, RecordTerminateIntent
    PROVE  CInv' /\ journal' = journal
<1>1. /\ UNCHANGED <<journal, late, proc, github, daemon, memory, todo, crashes, starts, history>>
      /\ loop.pc = "act" /\ loop.plan.kill = "intent"
      /\ disk' = [disk EXCEPT ![loop.at].intent = TRUE] /\ loop' = [loop EXCEPT !.plan.kill = "stop"]
  BY DEF RecordTerminateIntent, Acting, world
<1>2. TypeOK /\ loop.pc \in Decides
  BY <1>1 DEF CInv, Decides
<1>3. loop \in Loop /\ loop.at \in Attempts
  BY <1>2, Holding
<1>4. /\ loop' \in Loop /\ loop'.pc = "act" /\ loop'.at = loop.at /\ loop'.row = loop.row
      /\ loop'.plan.walk = loop.plan.walk /\ loop'.plan.outcome = loop.plan.outcome
  BY <1>1, <1>3, KillEdited
<1>5. disk' \in [Attempts -> Disk]
  BY <1>1, <1>2, <1>3, DiskTyped
<1>6. TypeOK'
  BY <1>1, <1>2, <1>4, <1>5 DEF TypeOK
<1> QED BY <1>1, <1>4, <1>6, PlanGoesOn DEF None

\* What terminate may do to the process and to the record of it.
LEMMA TerminateFacts ==
    ASSUME CInv, Terminate
    PROVE  /\ UNCHANGED <<journal, disk, late, github, daemon, memory, todo, crashes, starts>>
           /\ loop.pc = "act" /\ loop.plan.kill = "stop" /\ loop' = [loop EXCEPT !.plan.kill = "recheck"]
           /\ \/ proc' = proc
              \/ \E e \in { "exit0", "exit1" } : proc' = [proc EXCEPT ![loop.at] = e]
           /\ history' \in { history, [history EXCEPT !.stopped = @ \cup { loop.at }] }
<1> DEFINE a == loop.at
           gone == { [proc EXCEPT ![a] = e] : e \in { "exit0", "exit1" } }
<1>1. /\ UNCHANGED <<journal, disk, late, github, daemon, memory, todo, crashes, starts>>
      /\ loop.pc = "act" /\ loop.plan.kill = "stop" /\ loop' = [loop EXCEPT !.plan.kill = "recheck"]
      /\ IF Alive(a) /\ (a \in memory.children \/ disk[a].identity)
         THEN /\ proc' \in gone \cup (IF a \in memory.children THEN {} ELSE { proc })
              /\ history' = [history EXCEPT !.stopped = @ \cup {a}]
         ELSE UNCHANGED <<proc, history>>
  BY DEF Terminate, Acting
<1>2. (IF a \in memory.children THEN {} ELSE { proc }) \subseteq { proc }
  OBVIOUS
<1>3. proc' = proc \/ proc' \in gone
  BY <1>1, <1>2
<1> QED BY <1>1, <1>3

LEMMA TerminateStep ==
    ASSUME CInv, Terminate
    PROVE  CInv' /\ journal' = journal
<1>1. /\ UNCHANGED <<journal, disk, late, github, daemon, memory, todo, crashes, starts>>
      /\ loop.pc = "act" /\ loop.plan.kill = "stop" /\ loop' = [loop EXCEPT !.plan.kill = "recheck"]
      /\ \/ proc' = proc
         \/ \E e \in { "exit0", "exit1" } : proc' = [proc EXCEPT ![loop.at] = e]
      /\ history' \in { history, [history EXCEPT !.stopped = @ \cup { loop.at }] }
  BY TerminateFacts
<1>2. TypeOK /\ loop.pc \in Decides
  BY <1>1 DEF CInv, Decides
<1>3. loop \in Loop /\ loop.at \in Attempts
  BY <1>2, Holding
<1>4. /\ loop' \in Loop /\ loop'.pc = "act" /\ loop'.at = loop.at /\ loop'.row = loop.row
      /\ loop'.plan.walk = loop.plan.walk /\ loop'.plan.outcome = loop.plan.outcome
  BY <1>1, <1>3, KillEdited
<1>5. proc' \in [Attempts -> ProcState]
  BY <1>1, <1>2, <1>3 DEF TypeOK, ProcState
<1>6. history' \in [ assigned : SUBSET Attempts, stopped : SUBSET Attempts ]
  BY <1>1, <1>2, <1>3 DEF TypeOK
<1>7. TypeOK'
  BY <1>1, <1>2, <1>4, <1>5, <1>6 DEF TypeOK
<1> QED BY <1>1, <1>4, <1>7, PlanGoesOn DEF None

LEMMA RecheckFacts ==
    ASSUME CInv, Recheck
    PROVE  /\ UNCHANGED <<journal, disk, late, proc, github, daemon, crashes, starts, history>>
           /\ loop.pc = "act" /\ loop.plan.kill = "recheck"
           /\ \/ Visited(loop.at) /\ memory' = [Remembered(loop.at) EXCEPT !.unresolved = TRUE]
              \/ /\ loop' = [loop EXCEPT !.plan.kill = None] /\ memory' = Remembered(loop.at)
                 /\ UNCHANGED todo /\ FALSE \in InspectAnswers(loop.at, loop.row)
<1> DEFINE a == loop.at
<1>1. /\ UNCHANGED <<journal, disk, late, proc, github, daemon, crashes, starts, history>>
      /\ loop.pc = "act" /\ loop.plan.kill = "recheck"
  BY DEF Recheck, Acting, world
<1>2. PICK alive \in InspectAnswers(a, loop.row) :
        IF alive
        THEN /\ Visited(a)
             /\ memory' = [Remembered(a) EXCEPT !.unresolved = TRUE]
        ELSE /\ loop' = [loop EXCEPT !.plan.kill = None]
             /\ memory' = Remembered(a)
             /\ UNCHANGED todo
  BY DEF Recheck
<1>3. a \in Attempts
  BY <1>1, Holding DEF Decides
<1>4. alive \in BOOLEAN
  BY <1>3, AnswersTyped
<1>5. CASE alive
  BY <1>1, <1>2, <1>5
<1>6. CASE ~alive
  <2>1. FALSE \in InspectAnswers(loop.at, loop.row)
    BY <1>2, <1>4, <1>6
  <2> QED BY <1>1, <1>2, <1>6, <2>1
<1> QED BY <1>4, <1>5, <1>6

LEMMA RecheckStep ==
    ASSUME CInv, Recheck
    PROVE  CInv' /\ journal' = journal
<1>1. /\ UNCHANGED <<journal, disk, late, proc, github, daemon, crashes, starts, history>>
      /\ loop.pc = "act" /\ loop.plan.kill = "recheck"
      /\ \/ Visited(loop.at) /\ memory' = [Remembered(loop.at) EXCEPT !.unresolved = TRUE]
         \/ /\ loop' = [loop EXCEPT !.plan.kill = None] /\ memory' = Remembered(loop.at)
            /\ UNCHANGED todo
  BY RecheckFacts
<1>2. TypeOK /\ loop.pc \in Decides
  BY <1>1 DEF CInv, Decides
<1>3. loop \in Loop /\ loop.at \in Attempts /\ At(loop.at)
  BY <1>2, Holding
<1>4. Remembered(loop.at) \in [ children : SUBSET Attempts, succeeded : SUBSET Attempts, unresolved : BOOLEAN ]
  BY <1>2, <1>3, RememberedTyped
<1>5. memory' \in [ children : SUBSET Attempts, succeeded : SUBSET Attempts, unresolved : BOOLEAN ]
  <2> DEFINE m == Remembered(loop.at)
  <2>1. memory' \in { m, [m EXCEPT !.unresolved = TRUE] }
    BY <1>1
  <2>2. m \in [ children : SUBSET Attempts, succeeded : SUBSET Attempts, unresolved : BOOLEAN ]
    BY <1>4
  <2> HIDE DEF m
  <2>3. [m EXCEPT !.unresolved = TRUE] \in [ children : SUBSET Attempts, succeeded : SUBSET Attempts, unresolved : BOOLEAN ]
    BY <2>2
  <2> QED BY <2>1, <2>2, <2>3
<1>6. CASE Visited(loop.at)
  <2>1. TypeOK'
    BY <1>1, <1>2, <1>3, <1>5, <1>6, VisitedTyped DEF TypeOK
  <2> QED BY <1>1, <1>3, <1>6, <2>1, BlankUnchanged, VisitEnds
<1>7. CASE loop' = [loop EXCEPT !.plan.kill = None] /\ UNCHANGED todo
  <2>1. /\ loop' \in Loop /\ loop'.pc = "act" /\ loop'.at = loop.at /\ loop'.row = loop.row
        /\ loop'.plan.walk = loop.plan.walk /\ loop'.plan.outcome = loop.plan.outcome
        /\ loop'.plan.kill = None
    BY <1>1, <1>3, <1>7, KillEdited
  <2>2. TypeOK'
    BY <1>1, <1>2, <1>5, <1>7, <2>1 DEF TypeOK
  <2> QED BY <1>1, <1>7, <2>1, <2>2, PlanGoesOn
<1> QED BY <1>1, <1>6, <1>7

LEMMA DeregEdited ==
    ASSUME NEW r \in Loop
    PROVE  LET e == [r EXCEPT !.plan.dereg = FALSE]
           IN  /\ e \in Loop /\ e.pc = r.pc /\ e.at = r.at /\ e.row = r.row /\ e.alive = r.alive
               /\ e.plan.kill = r.plan.kill /\ e.plan.walk = r.plan.walk /\ e.plan.outcome = r.plan.outcome
<1> DEFINE p == [r.plan EXCEPT !.dereg = FALSE]
           e == [r EXCEPT !.plan = p]
<1>1. r.plan \in Plan
  BY DEF Loop
<1>2. /\ p \in Plan /\ p.kill = r.plan.kill /\ p.walk = r.plan.walk /\ p.outcome = r.plan.outcome
  BY <1>1 DEF Plan
<1>3. [r EXCEPT !.plan.dereg = FALSE] = e
  BY DEF Loop
<1> HIDE DEF p
<1>4. e \in Loop /\ e.pc = r.pc /\ e.at = r.at /\ e.row = r.row /\ e.alive = r.alive /\ e.plan = p
  BY <1>2 DEF Loop
<1> QED BY <1>2, <1>3, <1>4

LEMMA DeregisterRunnerStep ==
    ASSUME CInv, DeregisterRunner
    PROVE  CInv' /\ journal' = journal
<1>1. /\ UNCHANGED <<journal, disk, late, proc, daemon, memory, todo, crashes, starts, history>>
      /\ loop.pc = "act" /\ loop' = [loop EXCEPT !.plan.dereg = FALSE]
      /\ github' \in { github, [github EXCEPT ![loop.at] = "absent"] }
  BY DEF DeregisterRunner, Acting
<1>2. TypeOK /\ loop.pc \in Decides
  BY <1>1 DEF CInv, Decides
<1>3. loop \in Loop /\ loop.at \in Attempts
  BY <1>2, Holding
<1>4. /\ loop' \in Loop /\ loop'.pc = "act" /\ loop'.at = loop.at /\ loop'.row = loop.row
      /\ loop'.plan.walk = loop.plan.walk /\ loop'.plan.outcome = loop.plan.outcome
      /\ loop'.plan.kill = loop.plan.kill
  BY <1>1, <1>3, DeregEdited
<1>5. github' \in [Attempts -> { "absent", "idle", "busy" }]
  BY <1>1, <1>2, <1>3 DEF TypeOK
<1>6. TypeOK'
  BY <1>1, <1>2, <1>4, <1>5 DEF TypeOK
<1> QED BY <1>1, <1>4, <1>6, PlanGoesOn

LEMMA WalkStep ==
    ASSUME CInv, Walk
    PROVE  CInv' /\ Diagram!Next
<1> DEFINE to == loop.plan.walk
           row == Walked(loop.row, to)
<1>1. /\ UNCHANGED <<disk, proc, github, daemon, memory, crashes, starts, history>>
      /\ loop.pc = "act" /\ loop.plan.kill = None /\ to # None /\ CanTransition(loop.row.state, to)
      /\ Record(loop.at, row)
      /\ \/ Visited(loop.at)
         \/ /\ loop' = [loop EXCEPT !.row = row, !.plan.walk = None] /\ UNCHANGED todo
            /\ loop.plan.outcome # None
  BY DEF Walk, Acting, world
<1>2. TypeOK /\ loop.pc \in Decides /\ to \in { "idle", "busy" }
  BY <1>1 DEF CInv, Decides, PlanIsSound
<1>3. /\ loop \in Loop /\ loop.at \in Attempts /\ loop.row \in Row /\ loop.row = journal[loop.at]
      /\ At(loop.at)
  BY <1>2, Holding
<1>4. /\ row \in Row /\ row.state = to /\ row.outcome = loop.row.outcome
      /\ row.pid = loop.row.pid /\ row.rid = (loop.row.rid \/ to \in { "idle", "busy" })
  <2>1. to \in AttemptState
    BY <1>2 DEF AttemptState
  <2> QED BY <1>3, <2>1, WalkedTyped
<1>5. row.state \in ConcludableFrom /\ row.pid = (loop.row.pid \/ row.state = "starting")
  <2>1. loop.row.pid \in BOOLEAN
    BY <1>3 DEF Row
  <2> QED BY <1>2, <1>4, <2>1 DEF ConcludableFrom
<1> HIDE DEF row
<1>6. Diagram!Next
  BY <1>1, <1>2, <1>3, <1>4, <1>5, WalkRefines
<1>7. /\ journal' \in [Attempts -> Row] /\ late' \in [Attempts -> BOOLEAN]
      /\ journal'[loop.at] = row /\ \A b \in Attempts : b # loop.at => journal'[b] = journal[b]
  BY <1>1, <1>2, <1>3, <1>4, RecordTyped
<1>8. NoRowIsBlank'
  <2>1. journal'[loop.at].state # "none"
    BY <1>5, <1>7 DEF ConcludableFrom
  <2> QED BY <1>3, <1>7, <2>1, BlankKept
<1>9. CASE Visited(loop.at)
  <2>1. TypeOK'
    BY <1>1, <1>2, <1>3, <1>7, <1>9, VisitedTyped DEF TypeOK
  <2>2. CInv'
    BY <1>3, <1>7, <1>8, <1>9, <2>1, VisitEnds
  <2> QED BY <1>6, <2>2
<1>10. CASE /\ loop' = [loop EXCEPT !.row = row, !.plan.walk = None] /\ UNCHANGED todo
            /\ loop.plan.outcome # None
  <2> DEFINE p == [loop.plan EXCEPT !.walk = None]
  <2>1. loop.plan \in Plan
    BY <1>3 DEF Loop
  <2>2. p \in Plan /\ p.walk = None /\ p.kill = loop.plan.kill /\ p.outcome = loop.plan.outcome
    BY <2>1 DEF Plan
  <2>3. loop' = [loop EXCEPT !.row = row, !.plan = p]
    BY <1>3, <1>10 DEF Loop
  <2> HIDE DEF p
  <2>4. loop' \in Loop /\ loop'.pc = "act" /\ loop'.at = loop.at /\ loop'.row = row /\ loop'.plan = p
    BY <1>1, <1>3, <1>4, <2>2, <2>3 DEF Loop
  <2>5. TypeOK'
    BY <1>1, <1>2, <1>7, <1>10, <2>4 DEF TypeOK
  <2>6. loop'.pc \in VisitPc /\ loop'.pc # "clean"
    BY <2>4 DEF VisitPc
  <2>7. CInv'
    BY <1>1, <1>3, <1>5, <1>7, <1>8, <1>10, <2>2, <2>4, <2>5, <2>6, VisitGoesOn
  <2> QED BY <1>6, <2>7
<1> QED BY <1>1, <1>9, <1>10

LEMMA ConcludeFacts ==
    ASSUME CInv, Conclude
    PROVE  LET row == ConcludedRow(loop.row, loop.plan.outcome)
           IN  /\ UNCHANGED <<disk, proc, github, daemon, memory, todo, crashes, starts, history>>
               /\ loop.pc = "act" /\ loop.plan.kill = None /\ loop.plan.outcome \in AttemptOutcome
               /\ loop.at \in Attempts /\ loop.row = journal[loop.at] /\ Record(loop.at, row)
               /\ loop' = [loop EXCEPT !.pc = "clean", !.row = row, !.plan = NoPlan]
               /\ CanConclude(loop.row.state, loop.plan.outcome)
               /\ row \in Row /\ row.outcome = loop.plan.outcome /\ row.state \in Concluded
<1> DEFINE row == ConcludedRow(loop.row, loop.plan.outcome)
<1>1. /\ UNCHANGED <<disk, proc, github, daemon, memory, todo, crashes, starts, history>>
      /\ loop.pc = "act" /\ loop.plan.kill = None /\ loop.plan.walk = None
      /\ Record(loop.at, row) /\ loop' = [loop EXCEPT !.pc = "clean", !.row = row, !.plan = NoPlan]
      /\ CanConclude(loop.row.state, loop.plan.outcome)
  BY DEF Conclude, Acting, world
<1>2. loop \in Loop /\ loop.at \in Attempts /\ loop.row \in Row /\ loop.row = journal[loop.at]
  BY <1>1, Holding DEF Decides
<1>3. loop.plan.outcome \in AttemptOutcome
  <2>1. loop.plan.outcome # None
    BY <1>1 DEF CInv, PlanIsSound
  <2> QED BY <1>2, <2>1 DEF Loop, Plan
<1>4. row \in Row /\ row.outcome = loop.plan.outcome /\ row.state \in Concluded
  BY <1>2, <1>3, ConcludedTyped
<1> QED BY <1>1, <1>2, <1>3, <1>4

LEMMA ConcludeStep ==
    ASSUME CInv, Conclude
    PROVE  CInv' /\ Diagram!Next
<1> DEFINE row == ConcludedRow(loop.row, loop.plan.outcome)
<1>1. /\ UNCHANGED <<disk, proc, github, daemon, memory, todo, crashes, starts, history>>
      /\ loop.pc = "act" /\ loop.plan.outcome \in AttemptOutcome
      /\ loop.at \in Attempts /\ loop.row = journal[loop.at] /\ Record(loop.at, row)
      /\ loop' = [loop EXCEPT !.pc = "clean", !.row = row, !.plan = NoPlan]
      /\ CanConclude(loop.row.state, loop.plan.outcome)
      /\ row \in Row /\ row.state \in Concluded
  BY ConcludeFacts
<1>2. TypeOK /\ loop.pc \in Decides
  BY <1>1 DEF CInv, Decides
<1>3. loop \in Loop /\ At(loop.at)
  BY <1>2, Holding
<1>4. Diagram!Next
  BY <1>1, <1>2, ConcludeRefines
<1> HIDE DEF row
<1>5. /\ journal' \in [Attempts -> Row] /\ late' \in [Attempts -> BOOLEAN]
      /\ journal'[loop.at] = row /\ \A b \in Attempts : b # loop.at => journal'[b] = journal[b]
  BY <1>1, <1>2, RecordTyped
<1>6. NoRowIsBlank'
  <2>1. journal'[loop.at].state # "none"
    BY <1>1, <1>5, NoneIsNoState
  <2> QED BY <1>1, <1>5, <2>1, BlankKept
<1>7. loop' \in Loop /\ loop'.pc = "clean" /\ loop'.at = loop.at /\ loop'.row = row
  BY <1>1, <1>3, NoPlanTyped DEF Loop, VisitPc
<1>8. TypeOK'
  BY <1>1, <1>2, <1>5, <1>7 DEF TypeOK
<1>9. loop'.pc \in VisitPc /\ loop'.pc \notin Decides /\ loop'.pc # "act"
  BY <1>7 DEF VisitPc, Decides
<1>10. CInv'
  <2>1. PICK a \in Attempts : a = loop.at
    BY <1>1
  <2>2. Current(a, loop.row)'
    BY <1>5, <1>7, <2>1 DEF Current
  <2> QED BY <1>1, <1>3, <1>5, <1>6, <1>7, <1>8, <1>9, <2>1, <2>2, VisitGoesOn
<1> QED BY <1>4, <1>10

\* The row a visit cleans was concluded, and may have been cleaned meanwhile.
LEMMA CleanStep ==
    ASSUME CInv, Clean
    PROVE  CInv' /\ (journal' = journal \/ Diagram!Next)
<1> DEFINE row == CleanedRow(loop.row)
<1>1. /\ UNCHANGED <<proc, github, daemon, memory, crashes, starts, history>>
      /\ loop.pc = "clean" /\ disk' = [disk EXCEPT ![loop.at] = NoDisk]
      /\ Record(loop.at, row) /\ Visited(loop.at)
  BY DEF Clean, world
<1>2. /\ TypeOK /\ loop.at \in Attempts /\ loop.row.state \in Concluded /\ Current(loop.at, loop.row)
      /\ At(loop.at)
  BY <1>1 DEF CInv, RowIsCurrent, At, VisitPc
<1>3. loop.row \in Row
  BY <1>2 DEF TypeOK, Loop
<1>4. row \in Row /\ row.state = "cleaned"
  BY <1>3, CleanedTyped
<1>5. journal' = journal \/ Diagram!Next
  <2>1. CASE journal[loop.at] = loop.row
    BY <1>1, <1>2, <2>1, CleanRefines
  <2>2. CASE journal[loop.at] = row
    <3>1. journal \in [Attempts -> Row] /\ journal' = [journal EXCEPT ![loop.at] = row]
      BY <1>1, <1>2 DEF TypeOK, Record
    <3> HIDE DEF row
    <3>2. journal' = journal
      BY <2>2, <3>1
    <3> QED BY <3>2
  <2> QED BY <1>2, <2>1, <2>2 DEF Current
<1> HIDE DEF row
<1>6. /\ journal' \in [Attempts -> Row] /\ late' \in [Attempts -> BOOLEAN]
      /\ journal'[loop.at] = row /\ \A b \in Attempts : b # loop.at => journal'[b] = journal[b]
  BY <1>1, <1>2, <1>4, RecordTyped
<1>7. NoRowIsBlank'
  BY <1>2, <1>4, <1>6, BlankKept
<1>8. TypeOK'
  <2>1. disk' \in [Attempts -> Disk]
    BY <1>1, <1>2, DiskTyped
  <2> QED BY <1>1, <1>2, <1>6, <2>1, VisitedTyped DEF TypeOK
<1> QED BY <1>1, <1>2, <1>5, <1>6, <1>7, <1>8, VisitEnds

LEMMA CleanDeferredStep ==
    ASSUME CInv, CleanDeferred
    PROVE  CInv' /\ journal' = journal
<1>1. /\ UNCHANGED <<journal, disk, late, proc, github, daemon, memory, crashes, starts, history>>
      /\ loop.pc = "clean" /\ Visited(loop.at)
  BY DEF CleanDeferred, world
<1>2. TypeOK /\ loop.at \in Attempts /\ At(loop.at)
  BY <1>1 DEF CInv, RowIsCurrent, At, VisitPc
<1>3. TypeOK'
  BY <1>1, <1>2, VisitedTyped DEF TypeOK
<1> QED BY <1>1, <1>2, <1>3, BlankUnchanged, VisitEnds

LEMMA AbortStep ==
    ASSUME CInv, CleanHalfway \/ StepFails
    PROVE  CInv' /\ journal' = journal
<1>1. /\ UNCHANGED <<journal, late, proc, github, crashes, starts, history>> /\ Aborted
      /\ disk' = disk \/ (loop.pc = "clean" /\ disk' = [disk EXCEPT ![loop.at] = NoDisk])
  BY DEF CleanHalfway, StepFails, world
<1>2. TypeOK /\ (loop.pc = "clean" => loop.at \in Attempts)
  BY DEF CInv, RowIsCurrent
<1>3. TypeOK'
  <2>1. disk' \in [Attempts -> Disk]
    <3>1. CASE disk' = disk
      BY <1>2, <3>1 DEF TypeOK
    <3>2. CASE loop.pc = "clean" /\ disk' = [disk EXCEPT ![loop.at] = NoDisk]
      BY <1>2, <3>2, DiskTyped
    <3> QED BY <1>1, <3>1, <3>2
  <2> QED BY <1>1, <1>2, <2>1, AbortedTyped DEF TypeOK
<1> QED BY <1>1, <1>2, <1>3, AbortedTyped, BlankUnchanged, Rests

-----------------------------------------------------------------------------
(* Launching. *)

LEMMA LaunchHolding ==
    ASSUME CInv, loop.pc \in LaunchPc
    PROVE  /\ loop \in Loop /\ loop.at \in Attempts /\ loop.row \in Row /\ loop.row = journal[loop.at]
           /\ todo = NothingTodo /\ loop.row.state \in { "allocated", "jit_received" }
<1>1. /\ loop \in Loop /\ loop.at \in Attempts /\ loop.row = journal[loop.at] /\ todo = NothingTodo
  BY DEF CInv, TypeOK, RowIsCurrent, Holds, TodoOfAPass, LaunchPc, VisitPc
<1>2. loop.row \in Row
  BY <1>1 DEF Loop
<1>3. loop.row.state \in { "allocated", "jit_received" }
  BY DEF CInv, RowIsCurrent, LaunchPc, LaunchesUnregistered, LaunchesRegistered
<1> QED BY <1>1, <1>2, <1>3

LEMMA PcEdited ==
    ASSUME NEW r \in Loop, NEW pc \in LaunchPc
    PROVE  LET e == [r EXCEPT !.pc = pc]
           IN  e \in Loop /\ e.pc = pc /\ e.at = r.at /\ e.row = r.row
BY DEF Loop

\* A launch that gave up before it had a runner journals why.
LEMMA LaunchConcluded ==
    ASSUME CInv, loop.pc \in LaunchPc, NEW reason \in FailureReason, FailLaunch(reason)
    PROVE  /\ Diagram!Next /\ NoRowIsBlank' /\ loop' = AtRest /\ todo = NothingTodo /\ loop.at \in Attempts
           /\ journal' \in [Attempts -> Row] /\ late' \in [Attempts -> BOOLEAN] /\ loop' \in Loop
           /\ journal'[loop.at].outcome = reason /\ journal'[loop.at].state \in Concluded
           /\ \A b \in Attempts : b # loop.at => journal'[b] = journal[b]
<1> DEFINE row == ConcludedRow(loop.row, reason)
<1>1. Record(loop.at, row) /\ loop' = AtRest /\ TypeOK
  BY DEF FailLaunch, CInv
<1>2. /\ loop.at \in Attempts /\ loop.row \in Row /\ loop.row = journal[loop.at]
      /\ todo = NothingTodo /\ loop.row.state \in { "allocated", "jit_received" }
  BY LaunchHolding
<1>3. reason \in AttemptOutcome /\ reason \notin { "CompletedJob", "ExitedIdleWithoutWork", "Orphaned" }
  BY DEF AttemptOutcome, FailureReason
<1>4. CanConclude(loop.row.state, reason)
  <2>1. RequiredFrom(reason) = ConcludableFrom /\ TerminalState(reason) = "failed"
    BY <1>3 DEF RequiredFrom, TerminalState
  <2>2. loop.row.state \in ConcludableFrom
    BY <1>2 DEF ConcludableFrom
  <2> QED BY <2>1, <2>2 DEF CanConclude, CanTransition, LEGAL
<1>5. Diagram!Next
  BY <1>1, <1>2, <1>3, <1>4, ConcludeRefines
<1>6. row \in Row /\ row.outcome = reason /\ row.state \in Concluded
  BY <1>2, <1>3, ConcludedTyped
<1> HIDE DEF row
<1>7. /\ journal' \in [Attempts -> Row] /\ late' \in [Attempts -> BOOLEAN]
      /\ journal'[loop.at] = row /\ \A b \in Attempts : b # loop.at => journal'[b] = journal[b]
  BY <1>1, <1>2, <1>6, RecordTyped
<1>8. NoRowIsBlank'
  <2>1. journal'[loop.at].state # "none"
    BY <1>6, <1>7, NoneIsNoState
  <2> QED BY <1>2, <1>7, <2>1, BlankKept
<1> QED BY <1>1, <1>2, <1>5, <1>6, <1>7, <1>8, ValuesTyped

LEMMA AllocateStep ==
    ASSUME CInv, NEW a \in Attempts, Allocate(a)
    PROVE  CInv' /\ Diagram!Next
<1> DEFINE row == [NoRow EXCEPT !.state = "allocated"]
           l == [AtRest EXCEPT !.pc = "materialize", !.at = a, !.row = row]
<1>1. /\ UNCHANGED <<proc, github, daemon, memory, todo, crashes, starts, history>>
      /\ loop.pc = "rest" /\ journal[a].state = "none" /\ Record(a, row) /\ loop' = l
      /\ disk' = [disk EXCEPT ![a].tree = TRUE]
  BY DEF Allocate, Launching, world
<1>2. TypeOK /\ journal[a] = NoRow
  BY <1>1 DEF CInv, NoRowIsBlank
<1>3. Diagram!Next
  BY <1>1, <1>2, OpenRefines
<1>4. row \in Row /\ row.state = "allocated"
  BY DEF NoRow, Row, AttemptState
<1> HIDE DEF row
<1>5. l \in Loop /\ l.pc = "materialize" /\ l.at = a /\ l.row = row
  <2>1. AtRest \in Loop
    BY ValuesTyped
  <2> QED BY <1>4, <2>1 DEF Loop, LaunchPc
<1> HIDE DEF l
<1>6. /\ journal' \in [Attempts -> Row] /\ late' \in [Attempts -> BOOLEAN]
      /\ journal'[a] = row /\ \A b \in Attempts : b # a => journal'[b] = journal[b]
  BY <1>1, <1>2, <1>4, RecordTyped
<1>7. NoRowIsBlank'
  BY <1>4, <1>6, BlankKept
<1>8. TypeOK'
  <2>1. disk' \in [Attempts -> Disk]
    BY <1>1, <1>2, DiskTyped
  <2> QED BY <1>1, <1>2, <1>5, <1>6, <2>1 DEF TypeOK
<1>9. loop'.pc \in LaunchPc /\ loop'.pc \notin LaunchesRegistered
  BY <1>1, <1>5 DEF LaunchPc, LaunchesRegistered
<1>10. CInv'
  BY <1>1, <1>4, <1>5, <1>6, <1>7, <1>8, <1>9, LaunchGoesOn
<1> QED BY <1>3, <1>10

\* What a step of a launch leaves alone, and where it goes.
LEMMA LaunchRests ==
    ASSUME CInv, TypeOK', loop.pc \in LaunchPc, NoRowIsBlank', loop' = AtRest, UNCHANGED todo
    PROVE  CInv'
BY LaunchHolding, Rests

LEMMA LaunchAdvances ==
    ASSUME CInv, TypeOK', loop.pc \in LaunchPc, UNCHANGED <<journal, todo>>, NEW pc \in LaunchPc,
           loop' = [loop EXCEPT !.pc = pc],
           \/ loop.pc \in LaunchesUnregistered /\ pc \in LaunchesUnregistered
           \/ loop.pc \in LaunchesRegistered /\ pc \in LaunchesRegistered
    PROVE  CInv'
<1>1. loop'.pc = pc /\ loop'.at = loop.at /\ loop'.row = loop.row /\ loop.at \in Attempts
      /\ loop.row = journal[loop.at]
  BY LaunchHolding, PcEdited
<1>2. /\ loop'.pc \in LaunchesUnregistered => loop'.row.state = "allocated"
      /\ loop'.pc \in LaunchesRegistered => loop'.row.state = "jit_received"
  <2>1. ~(pc \in LaunchesUnregistered /\ pc \in LaunchesRegistered)
    BY DEF LaunchesUnregistered, LaunchesRegistered
  <2> QED BY <1>1, <2>1 DEF CInv, RowIsCurrent
<1> QED BY <1>1, <1>2, BlankUnchanged, LaunchGoesOn

LEMMA MaterializeStep ==
    ASSUME CInv, Materialize
    PROVE  CInv' /\ (journal' = journal \/ Diagram!Next)
<1>1. /\ UNCHANGED <<disk, proc, github, daemon, memory, todo, crashes, starts, history>>
      /\ loop.pc = "materialize"
      /\ \/ loop' = [loop EXCEPT !.pc = "register"] /\ UNCHANGED <<journal, late>>
         \/ FailLaunch("OtherFailure")
  BY DEF Materialize, Launching, world
<1>2. /\ TypeOK /\ loop.pc \in LaunchPc /\ loop \in Loop /\ "register" \in LaunchPc
      /\ loop.pc \in LaunchesUnregistered /\ "register" \in LaunchesUnregistered
      /\ "OtherFailure" \in FailureReason
  BY <1>1 DEF CInv, TypeOK, LaunchPc, LaunchesUnregistered, FailureReason
<1>3. CASE loop' = [loop EXCEPT !.pc = "register"] /\ UNCHANGED <<journal, late>>
  <2>1. TypeOK'
    BY <1>1, <1>2, <1>3, PcEdited DEF TypeOK
  <2> QED BY <1>1, <1>2, <1>3, <2>1, LaunchAdvances
<1>4. CASE FailLaunch("OtherFailure")
  <2>1. /\ Diagram!Next /\ NoRowIsBlank' /\ loop' = AtRest
        /\ journal' \in [Attempts -> Row] /\ late' \in [Attempts -> BOOLEAN] /\ loop' \in Loop
    BY <1>2, <1>4, LaunchConcluded
  <2>2. TypeOK'
    BY <1>1, <1>2, <2>1 DEF TypeOK
  <2> QED BY <1>1, <1>2, <2>1, <2>2, LaunchRests
<1> QED BY <1>1, <1>3, <1>4

LEMMA RegisterStep ==
    ASSUME CInv, Register
    PROVE  CInv' /\ (journal' = journal \/ Diagram!Next)
<1>1. /\ UNCHANGED <<disk, proc, daemon, memory, todo, crashes, starts, history>>
      /\ loop.pc = "register" /\ github' \in { github, [github EXCEPT ![loop.at] = "idle"] }
      /\ \/ loop' = [loop EXCEPT !.pc = "sidecar"] /\ UNCHANGED <<journal, late>>
         \/ FailLaunch("JitRequestFailed")
  BY DEF Register, Launching
<1>2. /\ TypeOK /\ loop.pc \in LaunchPc /\ loop \in Loop /\ "sidecar" \in LaunchPc
      /\ loop.pc \in LaunchesUnregistered /\ "sidecar" \in LaunchesUnregistered
      /\ "JitRequestFailed" \in FailureReason
  BY <1>1 DEF CInv, TypeOK, LaunchPc, LaunchesUnregistered, FailureReason
<1>3. github' \in [Attempts -> { "absent", "idle", "busy" }]
  <2>1. loop.at \in Attempts
    BY <1>2, LaunchHolding
  <2> QED BY <1>1, <1>2, <2>1 DEF TypeOK
<1>4. CASE loop' = [loop EXCEPT !.pc = "sidecar"] /\ UNCHANGED <<journal, late>>
  <2>1. TypeOK'
    BY <1>1, <1>2, <1>3, <1>4, PcEdited DEF TypeOK
  <2> QED BY <1>1, <1>2, <1>4, <2>1, LaunchAdvances
<1>5. CASE FailLaunch("JitRequestFailed")
  <2>1. /\ Diagram!Next /\ NoRowIsBlank' /\ loop' = AtRest
        /\ journal' \in [Attempts -> Row] /\ late' \in [Attempts -> BOOLEAN] /\ loop' \in Loop
    BY <1>2, <1>5, LaunchConcluded
  <2>2. TypeOK'
    BY <1>1, <1>2, <1>3, <2>1 DEF TypeOK
  <2> QED BY <1>1, <1>2, <2>1, <2>2, LaunchRests
<1> QED BY <1>1, <1>4, <1>5

LEMMA WriteRunnerIdStep ==
    ASSUME CInv, WriteRunnerId
    PROVE  CInv' /\ journal' = journal
<1>1. /\ UNCHANGED <<journal, late, proc, github, daemon, memory, todo, crashes, starts, history>>
      /\ loop.pc = "sidecar" /\ disk' = [disk EXCEPT ![loop.at].rid = TRUE]
      /\ loop' = [loop EXCEPT !.pc = "jit"]
  BY DEF WriteRunnerId, Launching, world
<1>2. /\ TypeOK /\ loop.pc \in LaunchPc /\ loop \in Loop /\ "jit" \in LaunchPc
      /\ loop.pc \in LaunchesUnregistered /\ "jit" \in LaunchesUnregistered
  BY <1>1 DEF CInv, TypeOK, LaunchPc, LaunchesUnregistered
<1>3. disk' \in [Attempts -> Disk]
  BY <1>1, <1>2, LaunchHolding, DiskTyped
<1>4. TypeOK'
  BY <1>1, <1>2, <1>3, PcEdited DEF TypeOK
<1> QED BY <1>1, <1>2, <1>4, LaunchAdvances

\* The launch walks the two edges of its own: jit_received and starting.
LEMMA LaunchWalks ==
    ASSUME CInv, loop.pc \in LaunchPc, NEW row \in Row, Record(loop.at, row),
           \/ loop.row.state = "allocated" /\ row = Walked(loop.row, "jit_received")
           \/ loop.row.state = "jit_received" /\ row = Started(loop.row)
    PROVE  /\ Diagram!Next /\ NoRowIsBlank' /\ journal'[loop.at] = row
           /\ journal' \in [Attempts -> Row] /\ late' \in [Attempts -> BOOLEAN]
           /\ \A b \in Attempts : b # loop.at => journal'[b] = journal[b]
<1>1. TypeOK
  BY DEF CInv
<1>2. loop.at \in Attempts /\ loop.row \in Row /\ loop.row = journal[loop.at]
  BY LaunchHolding
<1>3. loop.row.pid \in BOOLEAN /\ loop.row.rid \in BOOLEAN
  BY <1>2 DEF Row
<1>4. /\ row.state \in ConcludableFrom /\ row.outcome = loop.row.outcome
      /\ CanTransition(loop.row.state, row.state)
      /\ row.pid = (loop.row.pid \/ row.state = "starting")
      /\ row.rid = (loop.row.rid \/ row.state \in { "idle", "busy" })
  <2>1. CASE loop.row.state = "allocated" /\ row = Walked(loop.row, "jit_received")
    <3>1. "jit_received" \in AttemptState
      BY DEF AttemptState
    <3>2. /\ row.state = "jit_received" /\ row.outcome = loop.row.outcome
          /\ row.pid = loop.row.pid /\ row.rid = (loop.row.rid \/ "jit_received" \in { "idle", "busy" })
      BY <1>2, <2>1, <3>1, WalkedTyped
    <3> QED BY <1>3, <2>1, <3>2 DEF ConcludableFrom, CanTransition, LEGAL
  <2>2. CASE loop.row.state = "jit_received" /\ row = Started(loop.row)
    <3>1. /\ row.state = "starting" /\ row.outcome = loop.row.outcome
          /\ row.pid = TRUE /\ row.rid = loop.row.rid
      BY <1>2, <2>2, StartedTyped
    <3> QED BY <1>3, <2>2, <3>1 DEF ConcludableFrom, CanTransition, LEGAL
  <2> QED BY <2>1, <2>2
<1>5. Diagram!Next
  BY <1>1, <1>2, <1>4, WalkRefines
<1>6. /\ journal' \in [Attempts -> Row] /\ late' \in [Attempts -> BOOLEAN]
      /\ journal'[loop.at] = row /\ \A b \in Attempts : b # loop.at => journal'[b] = journal[b]
  BY <1>1, <1>2, RecordTyped
<1>7. NoRowIsBlank'
  <2>1. journal'[loop.at].state # "none"
    BY <1>4, <1>6 DEF ConcludableFrom
  <2> QED BY <1>2, <1>6, <2>1, BlankKept
<1> QED BY <1>5, <1>6, <1>7

LEMMA JitReceivedStep ==
    ASSUME CInv, JitReceived
    PROVE  CInv' /\ Diagram!Next
<1> DEFINE row == Walked(loop.row, "jit_received")
<1>1. /\ UNCHANGED <<disk, proc, github, daemon, memory, todo, crashes, starts, history>>
      /\ loop.pc = "jit" /\ Record(loop.at, row) /\ loop' = [loop EXCEPT !.pc = "spawn", !.row = row]
  BY DEF JitReceived, Launching, world
<1>2. TypeOK /\ loop.pc \in LaunchPc /\ loop \in Loop /\ loop.row.state = "allocated"
  BY <1>1 DEF CInv, TypeOK, LaunchPc, LaunchesUnregistered, RowIsCurrent
<1>3. loop.row \in Row /\ loop.at \in Attempts /\ "jit_received" \in AttemptState
  BY <1>2, LaunchHolding DEF AttemptState
<1>4. row \in Row /\ row.state = "jit_received"
  BY <1>3, WalkedTyped
<1>5. /\ Diagram!Next /\ NoRowIsBlank' /\ journal'[loop.at] = row
      /\ journal' \in [Attempts -> Row] /\ late' \in [Attempts -> BOOLEAN]
  BY <1>1, <1>2, <1>4, LaunchWalks
<1> HIDE DEF row
<1>6. loop' \in Loop /\ loop'.pc = "spawn" /\ loop'.at = loop.at /\ loop'.row = row
  BY <1>1, <1>2, <1>4 DEF Loop, LaunchPc
<1>7. TypeOK'
  BY <1>1, <1>2, <1>5, <1>6 DEF TypeOK
<1>8. loop'.pc \in LaunchPc /\ loop'.pc \notin LaunchesUnregistered
  BY <1>6 DEF LaunchPc, LaunchesUnregistered
<1>9. CInv'
  BY <1>1, <1>2, <1>3, <1>4, <1>5, <1>6, <1>7, <1>8, LaunchGoesOn
<1> QED BY <1>5, <1>9

LEMMA SpawnStep ==
    ASSUME CInv, Spawn
    PROVE  CInv' /\ (journal' = journal \/ Diagram!Next)
<1>1. /\ UNCHANGED <<disk, github, daemon, memory, todo, crashes, starts, history>>
      /\ loop.pc = "spawn" /\ proc' \in { proc, [proc EXCEPT ![loop.at] = "waiting"] }
      /\ \/ loop' = [loop EXCEPT !.pc = "identity"] /\ UNCHANGED <<journal, late>>
         \/ FailLaunch("ProcessStartFailed")
  BY DEF Spawn, Launching
<1>2. /\ TypeOK /\ loop.pc \in LaunchPc /\ loop \in Loop /\ "identity" \in LaunchPc
      /\ loop.pc \in LaunchesRegistered /\ "identity" \in LaunchesRegistered
      /\ "ProcessStartFailed" \in FailureReason
  BY <1>1 DEF CInv, TypeOK, LaunchPc, LaunchesRegistered, FailureReason
<1>3. proc' \in [Attempts -> ProcState]
  <2>1. loop.at \in Attempts
    BY <1>2, LaunchHolding
  <2> QED BY <1>1, <1>2, <2>1 DEF TypeOK, ProcState
<1>4. CASE loop' = [loop EXCEPT !.pc = "identity"] /\ UNCHANGED <<journal, late>>
  <2>1. TypeOK'
    BY <1>1, <1>2, <1>3, <1>4, PcEdited DEF TypeOK
  <2> QED BY <1>1, <1>2, <1>4, <2>1, LaunchAdvances
<1>5. CASE FailLaunch("ProcessStartFailed")
  <2>1. /\ Diagram!Next /\ NoRowIsBlank' /\ loop' = AtRest
        /\ journal' \in [Attempts -> Row] /\ late' \in [Attempts -> BOOLEAN] /\ loop' \in Loop
    BY <1>2, <1>5, LaunchConcluded
  <2>2. TypeOK'
    BY <1>1, <1>2, <1>3, <2>1 DEF TypeOK
  <2> QED BY <1>1, <1>2, <2>1, <2>2, LaunchRests
<1> QED BY <1>1, <1>4, <1>5

LEMMA ChildTyped ==
    ASSUME TypeOK, NEW a \in Attempts
    PROVE  [memory EXCEPT !.children = @ \cup {a}]
              \in [ children : SUBSET Attempts, succeeded : SUBSET Attempts, unresolved : BOOLEAN ]
BY DEF TypeOK

LEMMA PersistIdentityStep ==
    ASSUME CInv, PersistIdentity
    PROVE  CInv' /\ journal' = journal
<1>1. /\ UNCHANGED <<journal, late, proc, github, daemon, todo, crashes, starts, history>>
      /\ loop.pc = "identity" /\ disk' = [disk EXCEPT ![loop.at].identity = TRUE]
      /\ memory' = [memory EXCEPT !.children = @ \cup { loop.at }]
      /\ loop' = [loop EXCEPT !.pc = "started"]
  BY DEF PersistIdentity, Launching, world
<1>2. /\ TypeOK /\ loop.pc \in LaunchPc /\ loop \in Loop /\ "started" \in LaunchPc
      /\ loop.pc \in LaunchesRegistered /\ "started" \in LaunchesRegistered
  BY <1>1 DEF CInv, TypeOK, LaunchPc, LaunchesRegistered
<1>3. loop.at \in Attempts
  BY <1>2, LaunchHolding
<1>4. /\ disk' \in [Attempts -> Disk]
      /\ memory' \in [ children : SUBSET Attempts, succeeded : SUBSET Attempts, unresolved : BOOLEAN ]
  BY <1>1, <1>2, <1>3, ChildTyped, DiskTyped
<1>5. TypeOK'
  BY <1>1, <1>2, <1>4, PcEdited DEF TypeOK
<1> QED BY <1>1, <1>2, <1>5, LaunchAdvances

\* The child that has no identity on disk was stopped, or is kept.
LEMMA AbortFacts ==
    ASSUME CInv, AbortSpawnedChild
    PROVE  /\ UNCHANGED <<github, daemon, todo, crashes, starts, history>> /\ loop.pc = "identity"
           /\ \/ /\ proc' \in { proc, [proc EXCEPT ![loop.at] = "exit1"] }
                 /\ FailLaunch("ProcessStartFailed") /\ UNCHANGED <<disk, memory>>
              \/ /\ disk' \in { [disk EXCEPT ![loop.at].identity = TRUE],
                                [disk EXCEPT ![loop.at].unresolved = TRUE], disk }
                 /\ memory' = [memory EXCEPT !.children = @ \cup { loop.at }]
                 /\ loop' = [loop EXCEPT !.pc = "started"]
                 /\ UNCHANGED <<journal, late, proc>>
<1> DEFINE a == loop.at
<1>1. /\ UNCHANGED <<github, daemon, todo, crashes, starts, history>> /\ loop.pc = "identity"
      /\ \/ /\ proc' = [proc EXCEPT ![a] = IF Alive(a) THEN "exit1" ELSE @]
            /\ FailLaunch("ProcessStartFailed")
            /\ UNCHANGED <<disk, memory>>
         \/ /\ disk' \in { [disk EXCEPT ![a].identity = TRUE],
                           [disk EXCEPT ![a].unresolved = TRUE], disk }
            /\ memory' = [memory EXCEPT !.children = @ \cup {a}]
            /\ loop' = [loop EXCEPT !.pc = "started"]
            /\ UNCHANGED <<journal, late, proc>>
  BY DEF AbortSpawnedChild, Launching
<1>2. proc \in [Attempts -> ProcState]
  BY DEF CInv, TypeOK
<1>3. [proc EXCEPT ![a] = IF Alive(a) THEN "exit1" ELSE @] \in { proc, [proc EXCEPT ![a] = "exit1"] }
  <2>1. CASE Alive(a)
    BY <2>1
  <2>2. CASE ~Alive(a)
    BY <1>2, <2>2
  <2> QED BY <2>1, <2>2
<1> QED BY <1>1, <1>3

LEMMA AbortSpawnedChildStep ==
    ASSUME CInv, AbortSpawnedChild
    PROVE  CInv' /\ (journal' = journal \/ Diagram!Next)
<1>1. UNCHANGED <<github, daemon, todo, crashes, starts, history>> /\ loop.pc = "identity"
  BY AbortFacts
<1>2. /\ TypeOK /\ loop.pc \in LaunchPc /\ loop \in Loop /\ "started" \in LaunchPc
      /\ loop.pc \in LaunchesRegistered /\ "started" \in LaunchesRegistered
      /\ "ProcessStartFailed" \in FailureReason
  BY <1>1 DEF CInv, TypeOK, LaunchPc, LaunchesRegistered, FailureReason
<1>3. loop.at \in Attempts
  BY <1>2, LaunchHolding
<1>4. CASE /\ proc' \in { proc, [proc EXCEPT ![loop.at] = "exit1"] }
           /\ FailLaunch("ProcessStartFailed") /\ UNCHANGED <<disk, memory>>
  <2>1. /\ Diagram!Next /\ NoRowIsBlank' /\ loop' = AtRest
        /\ journal' \in [Attempts -> Row] /\ late' \in [Attempts -> BOOLEAN] /\ loop' \in Loop
    BY <1>2, <1>4, LaunchConcluded
  <2>2. proc' \in [Attempts -> ProcState]
    BY <1>2, <1>3, <1>4 DEF TypeOK, ProcState
  <2>3. TypeOK'
    BY <1>1, <1>2, <1>4, <2>1, <2>2 DEF TypeOK
  <2> QED BY <1>1, <1>2, <2>1, <2>3, LaunchRests
<1>5. CASE /\ disk' \in { [disk EXCEPT ![loop.at].identity = TRUE],
                          [disk EXCEPT ![loop.at].unresolved = TRUE], disk }
           /\ memory' = [memory EXCEPT !.children = @ \cup { loop.at }]
           /\ loop' = [loop EXCEPT !.pc = "started"]
           /\ UNCHANGED <<journal, late, proc>>
  <2>1. disk \in [Attempts -> Disk]
    BY <1>2 DEF TypeOK
  <2>2. /\ disk' \in [Attempts -> Disk]
        /\ memory' \in [ children : SUBSET Attempts, succeeded : SUBSET Attempts, unresolved : BOOLEAN ]
    <3>1. /\ [disk EXCEPT ![loop.at].identity = TRUE] \in [Attempts -> Disk]
          /\ [disk EXCEPT ![loop.at].unresolved = TRUE] \in [Attempts -> Disk]
      BY <1>2, <1>3, DiskTyped
    <3>2. disk' \in [Attempts -> Disk]
      BY <1>5, <2>1, <3>1
    <3>3. memory' \in [ children : SUBSET Attempts, succeeded : SUBSET Attempts, unresolved : BOOLEAN ]
      BY <1>2, <1>3, <1>5, ChildTyped
    <3> QED BY <3>2, <3>3
  <2>3. TypeOK'
    BY <1>1, <1>2, <1>5, <2>2, PcEdited DEF TypeOK
  <2> QED BY <1>1, <1>2, <1>5, <2>3, LaunchAdvances
<1> QED BY <1>4, <1>5, AbortFacts

LEMMA RecordStartedStep ==
    ASSUME CInv, RecordStarted
    PROVE  CInv' /\ Diagram!Next
<1> DEFINE row == Started(loop.row)
<1>1. /\ UNCHANGED <<disk, proc, github, daemon, memory, todo, crashes, starts, history>>
      /\ loop.pc = "started" /\ Record(loop.at, row) /\ loop' = AtRest
  BY DEF RecordStarted, Launching, world
<1>2. TypeOK /\ loop.pc \in LaunchPc /\ loop.row.state = "jit_received"
  BY <1>1 DEF CInv, LaunchPc, LaunchesRegistered, RowIsCurrent
<1>3. row \in Row
  BY <1>2, LaunchHolding, StartedTyped
<1>4. /\ Diagram!Next /\ NoRowIsBlank'
      /\ journal' \in [Attempts -> Row] /\ late' \in [Attempts -> BOOLEAN]
  BY <1>1, <1>2, <1>3, LaunchWalks
<1>5. TypeOK'
  BY <1>1, <1>2, <1>4, ValuesTyped DEF TypeOK
<1> QED BY <1>1, <1>2, <1>4, <1>5, LaunchRests

LEMMA LaunchFailsStep ==
    ASSUME CInv, LaunchFails
    PROVE  CInv' /\ journal' = journal
<1>1. /\ UNCHANGED <<journal, disk, late, proc, github, daemon, memory, todo, crashes, starts, history>>
      /\ loop.pc \in LaunchPc /\ loop' = AtRest
  BY DEF LaunchFails, LaunchPc, world
<1>2. TypeOK
  BY DEF CInv
<1>3. TypeOK'
  BY <1>1, <1>2, ValuesTyped DEF TypeOK
<1> QED BY <1>1, <1>3, BlankUnchanged, LaunchRests

-----------------------------------------------------------------------------
(* The other loops, time, crashes and the world. *)

\* A sweep of another loop falls where this one awaits, and there it holds no
\* row that a sweep may clean.
LEMMA SweepStep ==
    ASSUME CInv, NEW a \in Attempts, Sweep(a)
    PROVE  CInv' /\ Diagram!Next
<1> DEFINE row == CleanedRow(journal[a])
<1>1. /\ UNCHANGED <<proc, github, daemon, memory, todo, loop, crashes, starts, history>> /\ Awaiting
      /\ journal[a].state \in Concluded /\ disk' = [disk EXCEPT ![a] = NoDisk] /\ Record(a, row)
  BY DEF Sweep, world
<1>2. TypeOK
  BY DEF CInv
<1>3. Diagram!Next
  BY <1>1, <1>2, CleanRefines
<1>4. journal[a] \in Row
  BY <1>2 DEF TypeOK
<1>5. row \in Row /\ row.state = "cleaned"
  BY <1>4, CleanedTyped
<1>6. /\ journal' \in [Attempts -> Row] /\ late' \in [Attempts -> BOOLEAN]
      /\ journal'[a] = row /\ \A b \in Attempts : b # a => journal'[b] = journal[b]
  BY <1>1, <1>2, <1>5, RecordTyped
<1>7. NoRowIsBlank'
  BY <1>5, <1>6, BlankKept
<1>8. TypeOK'
  <2>1. disk' \in [Attempts -> Disk]
    BY <1>1, <1>2, DiskTyped
  <2> QED BY <1>1, <1>2, <1>6, <2>1 DEF TypeOK
<1>9. loop.pc # "clean"
  BY <1>1 DEF Awaiting
<1>10. loop.pc \in Holds => loop.at # a
  <2>1. loop.pc \in Holds => loop.pc \in Decides \/ loop.pc \in LaunchPc
    BY DEF Holds
  <2>2. ASSUME loop.pc \in Holds PROVE loop.row.state \in ConcludableFrom /\ journal[loop.at] = loop.row
    BY <2>1, <2>2, Holding, LaunchHolding DEF ConcludableFrom
  <2> QED BY <1>1, <2>2 DEF ConcludableFrom, Concluded
<1>11. TodoIsCurrent'
  <2>1. SUFFICES ASSUME NEW b \in Attempts, todo[b].state # "none", ~(loop.pc \in VisitPc /\ loop.at = b)
                 PROVE  journal'[b] = todo[b]
                        \/ (todo[b].state \in Concluded /\ journal'[b] = CleanedRow(todo[b]))
    BY <1>1 DEF TodoIsCurrent, Current
  <2>2. Current(b, todo[b])
    BY <2>1 DEF CInv, TodoIsCurrent
  <2>3. CASE b # a
    BY <1>6, <2>2, <2>3 DEF Current
  <2>4. CASE b = a
    <3>1. todo[a] \in Row
      BY <1>2 DEF TypeOK
    <3>2. journal[a] = todo[a]
      <4>1. CleanedRow(todo[a]).state \notin Concluded
        BY <3>1, CleanedTyped DEF Concluded
      <4> QED BY <1>1, <2>2, <2>4, <4>1 DEF Current
    <3> QED BY <1>1, <1>6, <2>4, <3>2
  <2> QED BY <2>3, <2>4
<1>12. TodoOfAPass' /\ PlanIsSound'
  BY <1>1 DEF CInv, TodoOfAPass, PlanIsSound, NothingTodo
<1>13. RowIsCurrent'
  <2>1. RowIsCurrent
    BY DEF CInv
  <2>2. loop' = loop
    BY <1>1
  <2>3. loop.pc \in Holds => journal'[loop.at] = journal[loop.at]
    BY <1>6, <1>10, <2>1 DEF RowIsCurrent
  <2> QED BY <1>9, <2>1, <2>2, <2>3 DEF RowIsCurrent
<1> QED BY <1>3, <1>7, <1>8, <1>11, <1>12, <1>13 DEF CInv

LEMMA DeadlinePassesStep ==
    ASSUME CInv, NEW a \in Attempts, DeadlinePasses(a)
    PROVE  CInv' /\ journal' = journal
<1>1. /\ UNCHANGED <<journal, disk, proc, github, daemon, memory, todo, loop, crashes, starts, history>>
      /\ late' = [late EXCEPT ![a] = TRUE]
  BY DEF DeadlinePasses, world
<1>2. TypeOK
  BY DEF CInv
<1>3. TypeOK'
  BY <1>1, <1>2 DEF TypeOK
<1> QED BY <1>1, <1>3, Unmoved

\* The service manager's own steps.
ManagerStep == GiveUp \/ IntervalPasses

LEMMA ManagerMoves ==
    ASSUME CInv, ManagerStep
    PROVE  CInv' /\ journal' = journal
<1>1. /\ UNCHANGED <<journal, disk, late, proc, github, memory, todo, loop, crashes, history>>
      /\ daemon' \in { "failed", daemon } /\ starts' \in { 0, starts }
  BY DEF ManagerStep, GiveUp, IntervalPasses, world
<1>2. TypeOK /\ 0 \in 0 .. START_LIMIT_BURST
  BY FaultsAssumption DEF CInv
<1>3. TypeOK'
  BY <1>1, <1>2 DEF TypeOK
<1> QED BY <1>1, <1>3, Unmoved

LEMMA CrashStep ==
    ASSUME CInv, Crash
    PROVE  CInv' /\ journal' = journal
<1>1. /\ UNCHANGED <<journal, disk, late, proc, github, starts, history>>
      /\ crashes < MaxCrashes /\ crashes' = crashes + 1 /\ daemon' = "down" /\ memory' = Fresh
      /\ todo' = NothingTodo /\ loop' = AtRest
  BY DEF Crash, world
<1>2. TypeOK
  BY DEF CInv
<1>3. crashes' \in 0 .. MaxCrashes
  BY <1>1, <1>2, FaultsAssumption DEF TypeOK
<1>4. TypeOK'
  BY <1>1, <1>2, <1>3, ValuesTyped DEF TypeOK
<1> QED BY <1>1, <1>4, BlankUnchanged, Rests

\* The world outside moves only what it owns.
LEMMA EnvironmentTyped ==
    ASSUME TypeOK, NEW a \in Attempts, Environment(a)
    PROVE  TypeOK' /\ UNCHANGED Inside
<1>1. /\ disk \in [Attempts -> Disk] /\ disk[a] \in Disk /\ proc \in [Attempts -> ProcState]
      /\ github \in [Attempts -> { "absent", "idle", "busy" }]
      /\ history \in [ assigned : SUBSET Attempts, stopped : SUBSET Attempts ]
  BY DEF TypeOK
<1>2. UNCHANGED Inside
  BY DEF Environment, ListenerLogs, AssignJob, WithdrawJob, TakeJob, Exit, Retire, Straggle
<1>3. proc' \in [Attempts -> ProcState]
  BY <1>1 DEF Environment, ListenerLogs, AssignJob, WithdrawJob, TakeJob, Exit, Retire, Straggle, world, ProcState
<1>4. github' \in [Attempts -> { "absent", "idle", "busy" }]
  BY <1>1 DEF Environment, ListenerLogs, AssignJob, WithdrawJob, TakeJob, Exit, Retire, Straggle, world
<1>5. history' \in [ assigned : SUBSET Attempts, stopped : SUBSET Attempts ]
  <2>1. history' \in { history, [history EXCEPT !.assigned = @ \cup {a}] }
    BY DEF Environment, ListenerLogs, AssignJob, WithdrawJob, TakeJob, Exit, Retire, Straggle
  <2> QED BY <1>1, <2>1
<1>6. disk' \in [Attempts -> Disk]
  <2>1. CASE ListenerLogs(a)
    <3> DEFINE d == [disk[a] EXCEPT !.diag = "listener"]
    <3>1. disk' = [disk EXCEPT ![a] = d]
      BY <1>1, <2>1 DEF ListenerLogs
    <3>2. d \in Disk
      BY <1>1 DEF Disk
    <3> HIDE DEF d
    <3> QED BY <1>1, <3>1, <3>2
  <2>2. CASE TakeJob(a)
    <3> DEFINE d == [disk[a] EXCEPT !.diag = IF disk[a].tree THEN "worker" ELSE disk[a].diag]
    <3>1. disk' = [disk EXCEPT ![a] = d]
      BY <1>1, <2>2 DEF TakeJob
    <3>2. d \in Disk
      BY <1>1 DEF Disk
    <3> HIDE DEF d
    <3> QED BY <1>1, <3>1, <3>2
  <2>3. CASE Straggle(a)
    BY <2>3, DiskTyped DEF Straggle
  <2>4. CASE AssignJob(a) \/ WithdrawJob(a) \/ Exit(a) \/ Retire(a)
    BY <1>1, <2>4 DEF AssignJob, WithdrawJob, Exit, Retire
  <2> QED BY <2>1, <2>2, <2>3, <2>4 DEF Environment
<1> QED BY <1>2, <1>3, <1>4, <1>5, <1>6 DEF TypeOK, Inside

LEMMA EnvironmentStep ==
    ASSUME CInv, NEW a \in Attempts, Environment(a)
    PROVE  CInv' /\ journal' = journal
<1>1. TypeOK' /\ UNCHANGED Inside
  BY EnvironmentTyped DEF CInv
<1> QED BY <1>1, Unmoved DEF Inside

-----------------------------------------------------------------------------
(* The journal's promise. *)

LEMMA InitC == Init => CInv
<1> SUFFICES ASSUME Init PROVE CInv
  OBVIOUS
<1>1. TypeOK
  <2>1. 0 \in 0 .. MaxCrashes /\ 0 \in 0 .. START_LIMIT_BURST
    BY FaultsAssumption
  <2>2. Nothing \in [ assigned : SUBSET Attempts, stopped : SUBSET Attempts ]
    BY DEF Nothing
  <2>3. "none" \in ProcState
    BY DEF ProcState
  <2> QED BY <2>1, <2>2, <2>3, ValuesTyped DEF Init, TypeOK
<1>2. loop.pc = "rest" /\ \A a \in Attempts : todo[a].state = "none" /\ journal[a] = NoRow
  BY ValuesTyped DEF Init, NoRow
<1>3. NoRowIsBlank /\ TodoOfAPass /\ TodoIsCurrent
  BY <1>2 DEF NoRowIsBlank, TodoOfAPass, TodoIsCurrent, Init, NothingTodo
<1>4. RowIsCurrent /\ PlanIsSound
  BY <1>2 DEF RowIsCurrent, PlanIsSound, Holds, LaunchPc, Decides, LaunchesUnregistered, LaunchesRegistered
<1> QED BY <1>1, <1>3, <1>4 DEF CInv

LEMMA NextC == CInv /\ [Next]_vars => CInv' /\ (journal' = journal \/ Diagram!Next)
<1> SUFFICES ASSUME CInv, [Next]_vars PROVE CInv' /\ (journal' = journal \/ Diagram!Next)
  OBVIOUS
<1>1. CASE UNCHANGED vars
  <2>1. UNCHANGED <<journal, disk, late, proc, github, daemon, memory, todo, loop, crashes, starts, history>>
    BY <1>1 DEF vars
  <2>2. TypeOK'
    BY <2>1 DEF CInv, TypeOK
  <2> QED BY <2>1, <2>2, Unmoved
<1>2. CASE Restart \/ StartByHand \/ BeginPass \/ GiveUp \/ IntervalPasses
  BY <1>2, PassBegins, ManagerMoves DEF ManagerStep
<1>3. CASE EndPass
  BY <1>3, EndPassStep
<1>4. CASE Observe
  BY <1>4, ObserveStep
<1>5. CASE Act
  BY <1>5, WalkBeforeDecidingStep, DecideStep, RecordTerminateIntentStep, TerminateStep, RecheckStep,
     DeregisterRunnerStep, WalkStep, ConcludeStep, CleanStep, CleanDeferredStep, AbortStep DEF Act
<1>6. CASE Launch
  BY <1>6, MaterializeStep, RegisterStep, WriteRunnerIdStep, JitReceivedStep, SpawnStep,
     PersistIdentityStep, AbortSpawnedChildStep, RecordStartedStep, LaunchFailsStep DEF Launch
<1>7. CASE Crash
  BY <1>7, CrashStep
<1>8. ASSUME NEW a \in Attempts,
             Visit(a) \/ Allocate(a) \/ Sweep(a) \/ DeadlinePasses(a) \/ Environment(a)
      PROVE  CInv' /\ (journal' = journal \/ Diagram!Next)
  <2>1. CASE Visit(a)
    BY <2>1, VisitCleanedStep, VisitTerminalStep, InspectStep, InspectErrorStep DEF Visit
  <2> QED BY <1>8, <2>1, AllocateStep, SweepStep, DeadlinePassesStep, EnvironmentStep
<1> QED BY <1>1, <1>2, <1>3, <1>4, <1>5, <1>6, <1>7, <1>8 DEF Next

\* Every record of the lifecycle keeps its type.
THEOREM TypeCorrect == Spec => []TypeOK
<1>1. CInv => TypeOK
  BY DEF CInv
<1> QED BY <1>1, InitC, NextC, PTL DEF Spec

\* The lifecycle implements the journal's promise, for any number of attempts,
\* faults and crashes: whatever copy of a row a pass still holds when it writes,
\* the row is opened once, walks legal edges, gets one verdict it can have and is
\* cleaned for good (record_attempt replaces the whole row).
THEOREM JournalImplemented == Spec => JournalKeepsItsPromise
<1>1. Init => Diagram!Init
  BY DEF Init, Diagram!Init, NoRow, None, Diagram!Unopened
<1>2. CInv /\ [Next]_vars => [Diagram!Next]_journal
  BY NextC
<1> QED BY <1>1, <1>2, InitC, NextC, PTL DEF Spec, JournalKeepsItsPromise, Diagram!Spec

-----------------------------------------------------------------------------
(* What the verdicts depend on, step by step. *)

\* Steps that move only the pass.
PassStep ==
    \/ Restart \/ StartByHand \/ ManagerStep \/ BeginPass \/ EndPass \/ CleanDeferred \/ StepFails
    \/ LaunchFails \/ Crash
    \/ \E a \in Attempts : VisitTerminal(a) \/ InspectError(a) \/ DeadlinePasses(a)

LEMMA PassFacts ==
    ASSUME PassStep
    PROVE  /\ UNCHANGED <<journal, disk, proc, github, history>>
           /\ loop'.pc \in { "rest", "next", "clean" } \/ loop' = loop
<1>1. AtRest.pc = "rest" /\ [AtRest EXCEPT !.pc = "next"].pc = "next"
  BY ValuesTyped, NextTyped
<1>2. \A a, r : [AtRest EXCEPT !.pc = "clean", !.at = a, !.row = r].pc = "clean"
  BY DEF AtRest
<1>3. CASE \E a \in Attempts : VisitTerminal(a) \/ InspectError(a) \/ DeadlinePasses(a)
  <2>1. PICK a \in Attempts : VisitTerminal(a) \/ InspectError(a) \/ DeadlinePasses(a)
    BY <1>3
  <2>2. CASE VisitTerminal(a)
    BY <1>2, <2>2 DEF VisitTerminal, world
  <2>3. CASE InspectError(a)
    BY <1>1, <2>3 DEF InspectError, Aborted, world
  <2>4. CASE DeadlinePasses(a)
    BY <2>4 DEF DeadlinePasses, world
  <2> QED BY <2>1, <2>2, <2>3, <2>4
<1>4. CASE Restart \/ StartByHand \/ ManagerStep \/ BeginPass \/ EndPass \/ CleanDeferred
  BY <1>1, <1>4 DEF Restart, StartByHand, Start, ManagerStep, GiveUp, IntervalPasses, BeginPass, EndPass,
                    CleanDeferred, Visited, world
<1>5. CASE StepFails \/ LaunchFails \/ Crash
  <2>1. loop' = AtRest /\ UNCHANGED <<journal, disk, proc, github, history>>
    BY <1>5 DEF StepFails, LaunchFails, Crash, Aborted, world
  <2> QED BY <1>1, <2>1
<1> QED BY <1>3, <1>4, <1>5 DEF PassStep

\* Steps that remove the directory of an attempt that has its verdict.
ScrubStep == Clean \/ CleanHalfway \/ \E a \in Attempts : VisitCleaned(a) \/ Sweep(a)

Scrubbed(a) ==
    /\ UNCHANGED <<proc, github, history>>
    /\ journal[a].state \in Terminal /\ journal'[a].state \in Terminal
    /\ journal'[a].outcome = journal[a].outcome /\ disk'[a] \in { disk[a], NoDisk }
    /\ \A b \in Attempts : b # a => journal'[b] = journal[b] /\ disk'[b] = disk[b]
    /\ loop'.pc \in { "rest", "next" } \/ (loop' = loop /\ (loop.pc \in Holds => loop.at # a))

LEMMA ScrubFacts ==
    ASSUME CInv, ScrubStep
    PROVE  \E a \in Attempts : Scrubbed(a)
<1>1. TypeOK
  BY DEF CInv
<1>2. AtRest.pc = "rest" /\ [AtRest EXCEPT !.pc = "next"].pc = "next"
  BY ValuesTyped, NextTyped
<1>3. "cleaned" \in Terminal /\ Concluded \subseteq Terminal
  BY DEF Terminal
<1>4. disk \in [Attempts -> Disk]
  BY <1>1 DEF TypeOK
<1>5. ASSUME NEW a \in Attempts, VisitCleaned(a) PROVE Scrubbed(a)
  <2>1. /\ UNCHANGED <<journal, proc, github, history>> /\ loop.pc = "next" /\ todo[a].state = "cleaned"
        /\ disk' \in { disk, [disk EXCEPT ![a] = NoDisk] } /\ loop' = [AtRest EXCEPT !.pc = "next"]
    BY <1>5 DEF VisitCleaned, Visited, world
  <2>2. journal[a].state = "cleaned"
    <3>1. Current(a, todo[a])
      BY <2>1 DEF CInv, TodoIsCurrent, VisitPc
    <3> QED BY <2>1, <3>1 DEF Current, Concluded
  <2> QED BY <1>2, <1>3, <1>4, <2>1, <2>2 DEF Scrubbed
<1>6. ASSUME NEW a \in Attempts, Sweep(a) PROVE Scrubbed(a)
  <2>1. /\ UNCHANGED <<proc, github, history, loop>> /\ journal[a].state \in Concluded
        /\ disk' = [disk EXCEPT ![a] = NoDisk] /\ Record(a, CleanedRow(journal[a]))
    BY <1>6 DEF Sweep, world
  <2>2. journal[a] \in Row
    BY <1>1 DEF TypeOK
  <2>3. /\ CleanedRow(journal[a]) \in Row /\ CleanedRow(journal[a]).state = "cleaned"
        /\ CleanedRow(journal[a]).outcome = journal[a].outcome
    BY <2>2, CleanedTyped
  <2>4. journal'[a] = CleanedRow(journal[a]) /\ \A b \in Attempts : b # a => journal'[b] = journal[b]
    BY <1>1, <2>1, <2>3, RecordTyped
  <2>5. loop.pc \in Holds => loop.at # a
    <3>1. ASSUME loop.pc \in Holds PROVE loop.row.state \in ConcludableFrom /\ journal[loop.at] = loop.row
      BY <3>1, Holding, LaunchHolding DEF ConcludableFrom, Holds
    <3> QED BY <2>1, <3>1 DEF ConcludableFrom, Concluded
  <2> QED BY <1>3, <1>4, <2>1, <2>3, <2>4, <2>5 DEF Scrubbed
<1>7. CASE Clean \/ CleanHalfway
  <2>1. /\ UNCHANGED <<proc, github, history>> /\ loop.pc = "clean" /\ disk' = [disk EXCEPT ![loop.at] = NoDisk]
        /\ journal' = journal \/ Record(loop.at, CleanedRow(loop.row))
        /\ loop'.pc \in { "rest", "next" }
    BY <1>2, <1>7 DEF Clean, CleanHalfway, Visited, Aborted, world
  <2>2. loop.at \in Attempts /\ loop.row \in Row /\ loop.row.state \in Concluded /\ Current(loop.at, loop.row)
    BY <1>1, <2>1 DEF CInv, RowIsCurrent, TypeOK, Loop
  <2>3. /\ CleanedRow(loop.row) \in Row /\ CleanedRow(loop.row).state = "cleaned"
        /\ CleanedRow(loop.row).outcome = loop.row.outcome
    BY <2>2, CleanedTyped
  <2>4. journal[loop.at].state \in Terminal /\ journal[loop.at].outcome = loop.row.outcome
    BY <1>3, <2>2, <2>3 DEF Current
  <2>5. /\ journal'[loop.at].state \in Terminal /\ journal'[loop.at].outcome = loop.row.outcome
        /\ \A b \in Attempts : b # loop.at => journal'[b] = journal[b]
    <3>1. CASE journal' = journal
      BY <2>4, <3>1
    <3>2. CASE Record(loop.at, CleanedRow(loop.row))
      BY <1>1, <1>3, <2>2, <2>3, <3>2, RecordTyped
    <3> QED BY <2>1, <3>1, <3>2
  <2>6. Scrubbed(loop.at)
    BY <1>4, <2>1, <2>2, <2>4, <2>5 DEF Scrubbed
  <2> QED BY <2>2, <2>6
<1> QED BY <1>5, <1>6, <1>7 DEF ScrubStep

\* Steps of a launch.
LaunchStep ==
    \/ Materialize \/ Register \/ WriteRunnerId \/ JitReceived \/ Spawn \/ PersistIdentity
    \/ AbortSpawnedChild \/ RecordStarted \/ \E a \in Attempts : Allocate(a)

EarlyLaunch == LaunchPc \ { "started" }
LaunchVerdicts == { "OtherFailure", "JitRequestFailed", "ProcessStartFailed" }

Launched(a) ==
    /\ UNCHANGED history
    /\ journal[a].state \in { "none", "allocated", "jit_received" }
    /\ \A b \in Attempts : b # a =>
          journal'[b] = journal[b] /\ disk'[b] = disk[b] /\ proc'[b] = proc[b] /\ github'[b] = github[b]
    /\ github'[a] \in { github[a], "idle" }
    /\ disk'[a].diag = disk[a].diag /\ disk'[a].intent = disk[a].intent
    /\ \/ /\ journal'[a].state \in { "allocated", "jit_received", "starting" }
          /\ journal'[a].outcome = journal[a].outcome
       \/ /\ journal'[a].state \in Concluded /\ journal'[a].outcome \in LaunchVerdicts
          /\ disk' = disk /\ loop.pc \in EarlyLaunch /\ loop.at = a
    /\ loop'.pc \in { "rest" } \cup LaunchPc
    /\ loop'.pc \in EarlyLaunch =>
          /\ loop'.at = a /\ disk'[a].identity = disk[a].identity
          /\ journal[a].state = "none" \/ (loop.pc \in EarlyLaunch /\ loop.at = a)

LEMMA DiskFields ==
    ASSUME NEW d \in [Attempts -> Disk], NEW a \in Attempts
    PROVE  /\ LET e == [d EXCEPT ![a].identity = TRUE]
              IN  e[a].diag = d[a].diag /\ e[a].intent = d[a].intent
                  /\ \A b \in Attempts : b # a => e[b] = d[b]
           /\ LET e == [d EXCEPT ![a].unresolved = TRUE]
              IN  e[a].diag = d[a].diag /\ e[a].intent = d[a].intent /\ e[a].identity = d[a].identity
                  /\ \A b \in Attempts : b # a => e[b] = d[b]
           /\ LET e == [d EXCEPT ![a].rid = TRUE]
              IN  e[a].diag = d[a].diag /\ e[a].intent = d[a].intent /\ e[a].identity = d[a].identity
                  /\ \A b \in Attempts : b # a => e[b] = d[b]
           /\ LET e == [d EXCEPT ![a].tree = TRUE]
              IN  e[a].diag = d[a].diag /\ e[a].intent = d[a].intent /\ e[a].identity = d[a].identity
                  /\ \A b \in Attempts : b # a => e[b] = d[b]
           /\ LET e == [d EXCEPT ![a].intent = TRUE]
              IN  e[a].diag = d[a].diag /\ e[a].intent = TRUE /\ e[a].identity = d[a].identity
                  /\ \A b \in Attempts : b # a => e[b] = d[b]
<1>1. d[a] \in Disk
  OBVIOUS
<1>2. LET e == [d EXCEPT ![a].identity = TRUE]
      IN  e[a].diag = d[a].diag /\ e[a].intent = d[a].intent
          /\ \A b \in Attempts : b # a => e[b] = d[b]
  BY <1>1 DEF Disk
<1>3. LET e == [d EXCEPT ![a].unresolved = TRUE]
      IN  e[a].diag = d[a].diag /\ e[a].intent = d[a].intent /\ e[a].identity = d[a].identity
          /\ \A b \in Attempts : b # a => e[b] = d[b]
  BY <1>1 DEF Disk
<1>4. LET e == [d EXCEPT ![a].rid = TRUE]
      IN  e[a].diag = d[a].diag /\ e[a].intent = d[a].intent /\ e[a].identity = d[a].identity
          /\ \A b \in Attempts : b # a => e[b] = d[b]
  BY <1>1 DEF Disk
<1>5. LET e == [d EXCEPT ![a].tree = TRUE]
      IN  e[a].diag = d[a].diag /\ e[a].intent = d[a].intent /\ e[a].identity = d[a].identity
          /\ \A b \in Attempts : b # a => e[b] = d[b]
  BY <1>1 DEF Disk
<1>6. LET e == [d EXCEPT ![a].intent = TRUE]
      IN  e[a].diag = d[a].diag /\ e[a].intent = TRUE /\ e[a].identity = d[a].identity
          /\ \A b \in Attempts : b # a => e[b] = d[b]
  BY <1>1 DEF Disk
<1> QED BY <1>2, <1>3, <1>4, <1>5, <1>6

\* A launch that gives up had no identity on disk.
LEMMA LaunchGivesUp ==
    ASSUME CInv, loop.pc \in EarlyLaunch, NEW reason \in LaunchVerdicts, FailLaunch(reason), UNCHANGED <<disk, history>>,
           github' \in { github, [github EXCEPT ![loop.at] = "idle"] },
           \A b \in Attempts : b # loop.at => proc'[b] = proc[b]
    PROVE  loop.at \in Attempts /\ Launched(loop.at)
<1>1. loop.pc \in LaunchPc /\ reason \in FailureReason /\ TypeOK
  BY DEF EarlyLaunch, LaunchVerdicts, FailureReason, CInv
<1>2. /\ loop' = AtRest /\ loop.at \in Attempts
      /\ journal'[loop.at].outcome = reason /\ journal'[loop.at].state \in Concluded
      /\ \A b \in Attempts : b # loop.at => journal'[b] = journal[b]
  BY <1>1, LaunchConcluded
<1>3. journal[loop.at].state \in { "none", "allocated", "jit_received" }
  BY <1>1, LaunchHolding
<1>4. loop'.pc = "rest" /\ "rest" \notin EarlyLaunch
  BY <1>2, ValuesTyped DEF EarlyLaunch, LaunchPc
<1>5. github \in [Attempts -> { "absent", "idle", "busy" }]
  BY <1>1 DEF TypeOK
<1>6. github'[loop.at] \in { github[loop.at], "idle" } /\ \A b \in Attempts : b # loop.at => github'[b] = github[b]
  BY <1>2, <1>5
<1> QED BY <1>2, <1>3, <1>4, <1>6 DEF Launched

\* A launch that goes on without writing the journal.
LEMMA LaunchQuiet ==
    ASSUME CInv, loop.pc \in EarlyLaunch, NEW pc \in LaunchPc, loop' = [loop EXCEPT !.pc = pc],
           UNCHANGED <<journal, history>>,
           disk'[loop.at].diag = disk[loop.at].diag, disk'[loop.at].intent = disk[loop.at].intent,
           pc # "started" => disk'[loop.at].identity = disk[loop.at].identity,
           github'[loop.at] \in { github[loop.at], "idle" },
           \A b \in Attempts : b # loop.at => disk'[b] = disk[b] /\ proc'[b] = proc[b] /\ github'[b] = github[b]
    PROVE  loop.at \in Attempts /\ Launched(loop.at)
<1>1. loop.pc \in LaunchPc
  BY DEF EarlyLaunch
<1>2. /\ loop \in Loop /\ loop.at \in Attempts /\ loop.row = journal[loop.at]
      /\ loop.row.state \in { "allocated", "jit_received" }
  BY <1>1, LaunchHolding
<1>3. loop'.pc = pc /\ loop'.at = loop.at
  BY <1>2, PcEdited
<1> QED BY <1>2, <1>3 DEF Launched, EarlyLaunch

LEMMA LaunchFacts ==
    ASSUME CInv, LaunchStep
    PROVE  \E a \in Attempts : Launched(a)
<1>1. /\ TypeOK /\ disk \in [Attempts -> Disk] /\ proc \in [Attempts -> ProcState]
      /\ github \in [Attempts -> { "absent", "idle", "busy" }] /\ loop \in Loop
  BY DEF CInv, TypeOK
<1>2. CASE Materialize
  <2>1. /\ UNCHANGED <<disk, proc, github, history>> /\ loop.pc = "materialize"
        /\ \/ loop' = [loop EXCEPT !.pc = "register"] /\ UNCHANGED journal
           \/ FailLaunch("OtherFailure")
    BY <1>2 DEF Materialize, Launching, world
  <2>2. loop.pc \in EarlyLaunch /\ "register" \in LaunchPc /\ "OtherFailure" \in LaunchVerdicts
    BY <2>1 DEF EarlyLaunch, LaunchPc, LaunchVerdicts
  <2>3. loop.at \in Attempts /\ Launched(loop.at)
    BY <2>1, <2>2, LaunchGivesUp, LaunchQuiet
  <2> QED BY <2>3
<1>3. CASE Register
  <2>1. /\ UNCHANGED <<disk, proc, history>> /\ loop.pc = "register"
        /\ github' \in { github, [github EXCEPT ![loop.at] = "idle"] }
        /\ \/ loop' = [loop EXCEPT !.pc = "sidecar"] /\ UNCHANGED journal
           \/ FailLaunch("JitRequestFailed")
    BY <1>3 DEF Register, Launching
  <2>2. loop.pc \in EarlyLaunch /\ "sidecar" \in LaunchPc /\ "JitRequestFailed" \in LaunchVerdicts
    BY <2>1 DEF EarlyLaunch, LaunchPc, LaunchVerdicts
  <2>3. loop.at \in Attempts
    BY <2>2, LaunchHolding DEF EarlyLaunch
  <2>4. github'[loop.at] \in { github[loop.at], "idle" } /\ \A b \in Attempts : b # loop.at => github'[b] = github[b]
    BY <1>1, <2>1, <2>3
  <2>5. loop.at \in Attempts /\ Launched(loop.at)
    BY <2>1, <2>2, <2>4, LaunchGivesUp, LaunchQuiet
  <2> QED BY <2>5
<1>4. CASE Spawn
  <2>1. /\ UNCHANGED <<disk, github, history>> /\ loop.pc = "spawn"
        /\ proc' \in { proc, [proc EXCEPT ![loop.at] = "waiting"] }
        /\ \/ loop' = [loop EXCEPT !.pc = "identity"] /\ UNCHANGED journal
           \/ FailLaunch("ProcessStartFailed")
    BY <1>4 DEF Spawn, Launching
  <2>2. loop.pc \in EarlyLaunch /\ "identity" \in LaunchPc /\ "ProcessStartFailed" \in LaunchVerdicts
    BY <2>1 DEF EarlyLaunch, LaunchPc, LaunchVerdicts
  <2>3. \A b \in Attempts : b # loop.at => proc'[b] = proc[b]
    BY <1>1, <2>1
  <2>4. loop.at \in Attempts /\ Launched(loop.at)
    BY <2>1, <2>2, <2>3, LaunchGivesUp, LaunchQuiet
  <2> QED BY <2>4
<1>5. CASE WriteRunnerId
  <2>1. /\ UNCHANGED <<journal, proc, github, history>> /\ loop.pc = "sidecar"
        /\ disk' = [disk EXCEPT ![loop.at].rid = TRUE] /\ loop' = [loop EXCEPT !.pc = "jit"]
    BY <1>5 DEF WriteRunnerId, Launching, world
  <2>2. loop.pc \in EarlyLaunch /\ "jit" \in LaunchPc
    BY <2>1 DEF EarlyLaunch, LaunchPc
  <2>3. loop.at \in Attempts
    BY <2>2, LaunchHolding DEF EarlyLaunch
  <2>4. /\ disk'[loop.at].diag = disk[loop.at].diag /\ disk'[loop.at].intent = disk[loop.at].intent
        /\ disk'[loop.at].identity = disk[loop.at].identity
        /\ \A b \in Attempts : b # loop.at => disk'[b] = disk[b]
    BY <1>1, <2>1, <2>3, DiskFields
  <2>5. loop.at \in Attempts /\ Launched(loop.at)
    BY <2>1, <2>2, <2>4, LaunchQuiet
  <2> QED BY <2>5
<1>6. CASE PersistIdentity
  <2>1. /\ UNCHANGED <<journal, proc, github, history>> /\ loop.pc = "identity"
        /\ disk' = [disk EXCEPT ![loop.at].identity = TRUE] /\ loop' = [loop EXCEPT !.pc = "started"]
    BY <1>6 DEF PersistIdentity, Launching, world
  <2>2. loop.pc \in EarlyLaunch /\ "started" \in LaunchPc
    BY <2>1 DEF EarlyLaunch, LaunchPc
  <2>3. loop.at \in Attempts
    BY <2>2, LaunchHolding DEF EarlyLaunch
  <2>4. /\ disk'[loop.at].diag = disk[loop.at].diag /\ disk'[loop.at].intent = disk[loop.at].intent
        /\ \A b \in Attempts : b # loop.at => disk'[b] = disk[b]
    BY <1>1, <2>1, <2>3, DiskFields
  <2>5. loop.at \in Attempts /\ Launched(loop.at)
    BY <2>1, <2>2, <2>4, LaunchQuiet
  <2> QED BY <2>5
<1>7. CASE AbortSpawnedChild
  <2>1. UNCHANGED <<github, history>> /\ loop.pc = "identity"
    BY <1>7, AbortFacts
  <2>2. loop.pc \in EarlyLaunch /\ "started" \in LaunchPc /\ "ProcessStartFailed" \in LaunchVerdicts
    BY <2>1 DEF EarlyLaunch, LaunchPc, LaunchVerdicts
  <2>3. loop.at \in Attempts
    BY <2>2, LaunchHolding DEF EarlyLaunch
  <2>4. CASE /\ proc' \in { proc, [proc EXCEPT ![loop.at] = "exit1"] }
             /\ FailLaunch("ProcessStartFailed") /\ UNCHANGED <<disk, memory>>
    <3>1. \A b \in Attempts : b # loop.at => proc'[b] = proc[b]
      BY <1>1, <2>4
    <3>2. loop.at \in Attempts /\ Launched(loop.at)
      BY <2>1, <2>2, <2>4, <3>1, LaunchGivesUp
    <3> QED BY <3>2
  <2>5. CASE /\ disk' \in { [disk EXCEPT ![loop.at].identity = TRUE],
                            [disk EXCEPT ![loop.at].unresolved = TRUE], disk }
             /\ loop' = [loop EXCEPT !.pc = "started"] /\ UNCHANGED <<journal, late, proc>>
    <3>1. /\ disk'[loop.at].diag = disk[loop.at].diag /\ disk'[loop.at].intent = disk[loop.at].intent
          /\ \A b \in Attempts : b # loop.at => disk'[b] = disk[b]
      <4>1. CASE disk' = [disk EXCEPT ![loop.at].identity = TRUE]
        BY <1>1, <2>3, <4>1, DiskFields
      <4>2. CASE disk' = [disk EXCEPT ![loop.at].unresolved = TRUE]
        BY <1>1, <2>3, <4>2, DiskFields
      <4>3. CASE disk' = disk
        BY <4>3
      <4> QED BY <2>5, <4>1, <4>2, <4>3
    <3>2. loop.at \in Attempts /\ Launched(loop.at)
      BY <2>1, <2>2, <2>5, <3>1, LaunchQuiet
    <3> QED BY <3>2
  <2> QED BY <1>7, <2>4, <2>5, AbortFacts
<1>8. CASE JitReceived
  <2> DEFINE row == Walked(loop.row, "jit_received")
  <2>1. /\ UNCHANGED <<disk, proc, github, history>> /\ loop.pc = "jit"
        /\ Record(loop.at, row) /\ loop' = [loop EXCEPT !.pc = "spawn", !.row = row]
    BY <1>8 DEF JitReceived, Launching, world
  <2>2. /\ loop.pc \in LaunchPc /\ loop.pc \in EarlyLaunch /\ loop.row.state = "allocated"
        /\ "jit_received" \in AttemptState /\ "spawn" \in LaunchPc
    BY <2>1 DEF CInv, EarlyLaunch, LaunchPc, LaunchesUnregistered, RowIsCurrent, AttemptState
  <2>3. loop.row \in Row /\ loop.at \in Attempts /\ loop.row = journal[loop.at]
    BY <2>2, LaunchHolding
  <2>4. row \in Row /\ row.state = "jit_received" /\ row.outcome = loop.row.outcome
    BY <2>2, <2>3, WalkedTyped
  <2>5. journal'[loop.at] = row /\ \A b \in Attempts : b # loop.at => journal'[b] = journal[b]
    BY <1>1, <2>1, <2>3, <2>4, RecordTyped
  <2> HIDE DEF row
  <2>6. loop'.pc = "spawn" /\ loop'.at = loop.at
    BY <1>1, <2>1 DEF Loop
  <2>7. Launched(loop.at)
    BY <2>1, <2>2, <2>3, <2>4, <2>5, <2>6 DEF Launched
  <2> QED BY <2>3, <2>7
<1>9. CASE RecordStarted
  <2> DEFINE row == Started(loop.row)
  <2>1. /\ UNCHANGED <<disk, proc, github, history>> /\ loop.pc = "started"
        /\ Record(loop.at, row) /\ loop' = AtRest
    BY <1>9 DEF RecordStarted, Launching, world
  <2>2. loop.pc \in LaunchPc
    BY <2>1 DEF LaunchPc
  <2>3. /\ loop.row \in Row /\ loop.at \in Attempts /\ loop.row = journal[loop.at]
        /\ loop.row.state \in { "allocated", "jit_received" }
    BY <2>2, LaunchHolding
  <2>4. row \in Row /\ row.state = "starting" /\ row.outcome = loop.row.outcome
    BY <2>3, StartedTyped
  <2>5. journal'[loop.at] = row /\ \A b \in Attempts : b # loop.at => journal'[b] = journal[b]
    BY <1>1, <2>1, <2>3, <2>4, RecordTyped
  <2> HIDE DEF row
  <2>6. loop'.pc = "rest" /\ "rest" \notin EarlyLaunch
    BY <2>1, ValuesTyped DEF EarlyLaunch, LaunchPc
  <2>7. Launched(loop.at)
    BY <2>1, <2>3, <2>4, <2>5, <2>6 DEF Launched
  <2> QED BY <2>3, <2>7
<1>10. ASSUME NEW a \in Attempts, Allocate(a) PROVE Launched(a)
  <2> DEFINE row == [NoRow EXCEPT !.state = "allocated"]
             l == [AtRest EXCEPT !.pc = "materialize", !.at = a, !.row = row]
  <2>1. /\ UNCHANGED <<proc, github, history>> /\ journal[a].state = "none" /\ Record(a, row) /\ loop' = l
        /\ disk' = [disk EXCEPT ![a].tree = TRUE]
    BY <1>10 DEF Allocate, Launching, world
  <2>2. row \in Row /\ row.state = "allocated" /\ row.outcome = None
    BY DEF NoRow, Row, AttemptState
  <2>3. journal[a].outcome = None
    BY <2>1 DEF CInv, NoRowIsBlank, NoRow
  <2>4. journal'[a] = row /\ \A b \in Attempts : b # a => journal'[b] = journal[b]
    BY <1>1, <2>1, <2>2, RecordTyped
  <2> HIDE DEF row
  <2>5. l.pc = "materialize" /\ l.at = a
    BY DEF AtRest
  <2> HIDE DEF l
  <2>6. /\ disk'[a].diag = disk[a].diag /\ disk'[a].intent = disk[a].intent
        /\ disk'[a].identity = disk[a].identity /\ \A b \in Attempts : b # a => disk'[b] = disk[b]
    BY <1>1, <2>1, DiskFields
  <2> QED BY <2>1, <2>2, <2>3, <2>4, <2>5, <2>6 DEF Launched, LaunchPc
<1> QED BY <1>2, <1>3, <1>4, <1>5, <1>6, <1>7, <1>8, <1>9, <1>10 DEF LaunchStep

\* What processes, jobs and GitHub may change by themselves.
Moved(b) ==
    /\ disk'[b].intent = disk[b].intent /\ disk'[b].identity = disk[b].identity
    /\ proc'[b] \in { "waiting", "working" } => Alive(b)
    /\ github'[b] = "busy" => github[b] = "busy" \/ b \in history'.assigned
    /\ disk'[b].diag = "worker" => disk[b].diag = "worker" \/ github[b] = "busy"

LEMMA EnvironmentFacts ==
    ASSUME TypeOK, NEW a \in Attempts, Environment(a)
    PROVE  /\ UNCHANGED <<journal, loop>> /\ history'.stopped = history.stopped
           /\ history.assigned \subseteq history'.assigned
           /\ \A b \in Attempts : Moved(b)
<1>1. /\ disk \in [Attempts -> Disk] /\ disk[a] \in Disk /\ proc \in [Attempts -> ProcState]
      /\ github \in [Attempts -> { "absent", "idle", "busy" }]
      /\ history \in [ assigned : SUBSET Attempts, stopped : SUBSET Attempts ]
  BY DEF TypeOK
<1>2. UNCHANGED <<journal, loop>>
  BY EnvironmentTyped DEF Inside
<1>3. history'.stopped = history.stopped /\ history.assigned \subseteq history'.assigned
  <2>1. history' \in { history, [history EXCEPT !.assigned = @ \cup {a}] }
    BY DEF Environment, ListenerLogs, AssignJob, WithdrawJob, TakeJob, Exit, Retire, Straggle
  <2> QED BY <1>1, <2>1
<1>4. ASSUME NEW b \in Attempts PROVE Moved(b)
  <2>1. CASE ListenerLogs(a)
    <3>1. /\ UNCHANGED <<proc, github>> /\ disk' = [disk EXCEPT ![a].diag = "listener"]
      BY <2>1 DEF ListenerLogs, world
    <3>2. /\ disk'[b].intent = disk[b].intent /\ disk'[b].identity = disk[b].identity
          /\ disk'[b].diag \in { disk[b].diag, "listener" }
      BY <1>1, <3>1 DEF Disk
    <3> QED BY <3>1, <3>2 DEF Moved, Alive
  <2>2. CASE AssignJob(a)
    <3>1. /\ UNCHANGED <<proc, disk>> /\ github' = [github EXCEPT ![a] = "busy"] /\ a \in history'.assigned
      BY <1>1, <2>2 DEF AssignJob
    <3> QED BY <1>1, <3>1 DEF Moved, Alive
  <2>3. CASE WithdrawJob(a)
    <3>1. UNCHANGED <<proc, disk>> /\ github' = [github EXCEPT ![a] = "idle"]
      BY <2>3 DEF WithdrawJob
    <3> QED BY <1>1, <3>1 DEF Moved, Alive
  <2>4. CASE TakeJob(a)
    <3> DEFINE d == IF disk[a].tree THEN "worker" ELSE disk[a].diag
    <3>1. /\ github' = github /\ github[a] = "busy" /\ proc[a] = "waiting"
          /\ proc' = [proc EXCEPT ![a] = "working"] /\ disk' = [disk EXCEPT ![a].diag = d]
      BY <2>4 DEF TakeJob
    <3> HIDE DEF d
    <3>2. /\ disk'[b].intent = disk[b].intent /\ disk'[b].identity = disk[b].identity
          /\ b # a => disk'[b].diag = disk[b].diag
      BY <1>1, <3>1 DEF Disk
    <3>3. proc'[b] \in { "waiting", "working" } => Alive(b)
      BY <1>1, <3>1 DEF Alive
    <3> QED BY <3>1, <3>2, <3>3 DEF Moved
  <2>5. CASE Exit(a)
    <3>1. UNCHANGED <<disk, github>> /\ \E e \in { "exit0", "exit1" } : proc' = [proc EXCEPT ![a] = e]
      BY <2>5 DEF Exit
    <3>2. proc'[b] \in { "waiting", "working" } => Alive(b)
      BY <1>1, <3>1 DEF Alive
    <3> QED BY <3>1, <3>2 DEF Moved
  <2>6. CASE Retire(a)
    <3> DEFINE g == IF github[a] = "busy" THEN "idle" ELSE "absent"
    <3>1. UNCHANGED <<disk, proc>> /\ github' = [github EXCEPT ![a] = g]
      BY <2>6 DEF Retire
    <3>2. g # "busy"
      OBVIOUS
    <3> HIDE DEF g
    <3> QED BY <1>1, <3>1, <3>2 DEF Moved, Alive
  <2>7. CASE Straggle(a)
    <3>1. UNCHANGED <<proc, github>> /\ disk' = [disk EXCEPT ![a].tree = TRUE]
      BY <2>7 DEF Straggle, world
    <3>2. /\ disk'[b].intent = disk[b].intent /\ disk'[b].identity = disk[b].identity
          /\ disk'[b].diag = disk[b].diag
      BY <1>1, <3>1, DiskFields
    <3> QED BY <3>1, <3>2 DEF Moved, Alive
  <2> QED BY <2>1, <2>2, <2>3, <2>4, <2>5, <2>6, <2>7 DEF Environment
<1> QED BY <1>2, <1>3, <1>4

\* What a visit writes to the journal on its way.
LEMMA WalkBeforeDecidingFacts ==
    ASSUME CInv, WalkBeforeDeciding
    PROVE  /\ UNCHANGED <<disk, proc, github, history>> /\ loop.pc = "decide" /\ loop'.pc = "decide"
           /\ loop.at \in Attempts /\ loop'.at = loop.at /\ loop'.alive = loop.alive /\ loop'.obs = loop.obs
           /\ journal'[loop.at].state \in { "starting", "jit_received" }
           /\ journal'[loop.at].outcome = journal[loop.at].outcome
           /\ \A b \in Attempts : b # loop.at => journal'[b] = journal[b]
<1> DEFINE row == IF AdoptionPending THEN Started(loop.row) ELSE Walked(loop.row, "jit_received")
<1>1. /\ UNCHANGED <<disk, proc, github, history>> /\ loop.pc = "decide"
      /\ Record(loop.at, row) /\ loop' = [loop EXCEPT !.row = row]
  BY DEF WalkBeforeDeciding, world
<1>2. TypeOK /\ loop.pc \in Decides
  BY <1>1 DEF CInv, Decides
<1>3. loop \in Loop /\ loop.at \in Attempts /\ loop.row \in Row /\ loop.row = journal[loop.at]
  BY <1>2, Holding
<1>4. row \in Row /\ row.state \in { "starting", "jit_received" } /\ row.outcome = loop.row.outcome
  <2>1. "jit_received" \in AttemptState
    BY DEF AttemptState
  <2>2. /\ Started(loop.row) \in Row /\ Started(loop.row).state = "starting"
        /\ Started(loop.row).outcome = loop.row.outcome
    BY <1>3, StartedTyped
  <2>3. /\ Walked(loop.row, "jit_received") \in Row /\ Walked(loop.row, "jit_received").state = "jit_received"
        /\ Walked(loop.row, "jit_received").outcome = loop.row.outcome
    BY <1>3, <2>1, WalkedTyped
  <2> QED BY <2>2, <2>3
<1> HIDE DEF row
<1>5. journal'[loop.at] = row /\ \A b \in Attempts : b # loop.at => journal'[b] = journal[b]
  BY <1>1, <1>2, <1>3, <1>4, RecordTyped
<1>6. loop'.pc = "decide" /\ loop'.at = loop.at /\ loop'.alive = loop.alive /\ loop'.obs = loop.obs
  BY <1>1, <1>3 DEF Loop
<1> QED BY <1>1, <1>3, <1>4, <1>5, <1>6

LEMMA WalkFacts ==
    ASSUME CInv, Walk
    PROVE  /\ UNCHANGED <<disk, proc, github, history>> /\ loop.pc = "act" /\ loop.plan.kill = None
           /\ loop.at \in Attempts /\ journal'[loop.at].state = loop.plan.walk
           /\ loop.plan.walk \in { "idle", "busy" } /\ journal'[loop.at].outcome = journal[loop.at].outcome
           /\ \A b \in Attempts : b # loop.at => journal'[b] = journal[b]
           /\ \/ loop'.pc = "next"
              \/ /\ loop'.pc = "act" /\ loop'.at = loop.at /\ loop'.alive = loop.alive
                 /\ loop'.plan.kill = None /\ loop'.plan.walk = None /\ loop'.plan.outcome = loop.plan.outcome
<1> DEFINE to == loop.plan.walk
           row == Walked(loop.row, to)
<1>1. /\ UNCHANGED <<disk, proc, github, history>>
      /\ loop.pc = "act" /\ loop.plan.kill = None /\ to # None /\ Record(loop.at, row)
      /\ \/ loop' = [AtRest EXCEPT !.pc = "next"]
         \/ loop' = [loop EXCEPT !.row = row, !.plan.walk = None]
  BY DEF Walk, Acting, Visited, world
<1>2. TypeOK /\ loop.pc \in Decides /\ to \in { "idle", "busy" }
  BY <1>1 DEF CInv, Decides, PlanIsSound
<1>3. loop \in Loop /\ loop.at \in Attempts /\ loop.row \in Row /\ loop.row = journal[loop.at]
  BY <1>2, Holding
<1>4. row \in Row /\ row.state = to /\ row.outcome = loop.row.outcome
  <2>1. to \in AttemptState
    BY <1>2 DEF AttemptState
  <2> QED BY <1>3, <2>1, WalkedTyped
<1> HIDE DEF row
<1>5. journal'[loop.at] = row /\ \A b \in Attempts : b # loop.at => journal'[b] = journal[b]
  BY <1>1, <1>2, <1>3, <1>4, RecordTyped
<1>6. CASE loop' = [AtRest EXCEPT !.pc = "next"]
  BY <1>1, <1>2, <1>3, <1>4, <1>5, <1>6, NextTyped
<1>7. CASE loop' = [loop EXCEPT !.row = row, !.plan.walk = None]
  <2>1. /\ loop'.pc = "act" /\ loop'.at = loop.at /\ loop'.alive = loop.alive
        /\ loop'.plan.kill = None /\ loop'.plan.walk = None /\ loop'.plan.outcome = loop.plan.outcome
    BY <1>1, <1>3, <1>7 DEF Loop, Plan
  <2> QED BY <1>1, <1>2, <1>3, <1>4, <1>5, <2>1
<1> QED BY <1>1, <1>6, <1>7

\* The steps of a plan that leave the journal alone.
PlanStep == RecordTerminateIntent \/ Terminate \/ Recheck \/ DeregisterRunner

LEMMA PlanFacts ==
    ASSUME CInv, PlanStep
    PROVE  /\ loop.pc = "act" /\ loop.at \in Attempts /\ UNCHANGED journal
           /\ history'.assigned = history.assigned
           /\ history'.stopped = history.stopped
              \/ (Terminate /\ history'.stopped = history.stopped \cup { loop.at })
           /\ github' \in { github, [github EXCEPT ![loop.at] = "absent"] }
           /\ disk' = disk \/ (RecordTerminateIntent /\ disk' = [disk EXCEPT ![loop.at].intent = TRUE])
           /\ proc' = proc \/ \E e \in { "exit0", "exit1" } : proc' = [proc EXCEPT ![loop.at] = e]
           /\ \/ loop'.pc = "next"
              \/ /\ loop'.pc = "act" /\ loop'.at = loop.at /\ loop'.alive = loop.alive
                 /\ loop'.plan.walk = loop.plan.walk /\ loop'.plan.outcome = loop.plan.outcome
                 /\ \/ loop'.plan.kill = loop.plan.kill
                    \/ loop.plan.kill = "intent" /\ loop'.plan.kill = "stop" /\ RecordTerminateIntent
                    \/ loop.plan.kill = "stop" /\ loop'.plan.kill = "recheck"
                    \/ loop.plan.kill = "recheck" /\ loop'.plan.kill = None
                       /\ FALSE \in InspectAnswers(loop.at, loop.row)
           /\ Terminate => loop.plan.kill = "stop"
<1>1. loop.pc = "act"
  BY DEF PlanStep, RecordTerminateIntent, Terminate, Recheck, DeregisterRunner, Acting
<1>2. loop \in Loop /\ loop.at \in Attempts /\ TypeOK
  BY <1>1, Holding DEF Decides, CInv
<1>3. history \in [ assigned : SUBSET Attempts, stopped : SUBSET Attempts ]
  BY <1>2 DEF TypeOK
<1>4. Terminate => loop.plan.kill = "stop"
  BY DEF Terminate, Acting
<1>5. ASSUME NEW kill \in { None, "intent", "stop", "recheck" }, loop' = [loop EXCEPT !.plan.kill = kill]
      PROVE  /\ loop'.pc = "act" /\ loop'.at = loop.at /\ loop'.alive = loop.alive
             /\ loop'.plan.walk = loop.plan.walk /\ loop'.plan.outcome = loop.plan.outcome
             /\ loop'.plan.kill = kill
  BY <1>1, <1>2, <1>5, KillEdited
<1>6. CASE RecordTerminateIntent
  <2>1. /\ UNCHANGED <<journal, proc, github, history>> /\ loop.plan.kill = "intent"
        /\ disk' = [disk EXCEPT ![loop.at].intent = TRUE] /\ loop' = [loop EXCEPT !.plan.kill = "stop"]
    BY <1>6 DEF RecordTerminateIntent, Acting, world
  <2> QED BY <1>1, <1>2, <1>4, <1>5, <1>6, <2>1
<1>7. CASE Terminate
  <2>1. /\ UNCHANGED <<journal, disk, github>> /\ loop.plan.kill = "stop"
        /\ loop' = [loop EXCEPT !.plan.kill = "recheck"]
        /\ \/ proc' = proc
           \/ \E e \in { "exit0", "exit1" } : proc' = [proc EXCEPT ![loop.at] = e]
        /\ history' \in { history, [history EXCEPT !.stopped = @ \cup { loop.at }] }
    BY <1>7, TerminateFacts
  <2>2. /\ history'.assigned = history.assigned
        /\ history'.stopped = history.stopped \/ history'.stopped = history.stopped \cup { loop.at }
    BY <1>3, <2>1
  <2> QED BY <1>1, <1>2, <1>5, <1>7, <2>1, <2>2
<1>8. CASE Recheck
  <2>1. /\ UNCHANGED <<journal, disk, proc, github, history>> /\ loop.plan.kill = "recheck"
        /\ \/ loop' = [AtRest EXCEPT !.pc = "next"]
           \/ loop' = [loop EXCEPT !.plan.kill = None] /\ FALSE \in InspectAnswers(loop.at, loop.row)
    BY <1>8, RecheckFacts DEF Visited
  <2>2. loop' = [AtRest EXCEPT !.pc = "next"] => loop'.pc = "next"
    BY NextTyped
  <2> QED BY <1>1, <1>2, <1>4, <1>5, <2>1, <2>2
<1>9. CASE DeregisterRunner
  <2>1. /\ UNCHANGED <<journal, disk, proc, history>> /\ loop' = [loop EXCEPT !.plan.dereg = FALSE]
        /\ github' \in { github, [github EXCEPT ![loop.at] = "absent"] }
    BY <1>9 DEF DeregisterRunner, Acting
  <2>2. /\ loop'.pc = "act" /\ loop'.at = loop.at /\ loop'.alive = loop.alive
        /\ loop'.plan.walk = loop.plan.walk /\ loop'.plan.outcome = loop.plan.outcome
        /\ loop'.plan.kill = loop.plan.kill
    BY <1>1, <1>2, <2>1, DeregEdited
  <2> QED BY <1>1, <1>2, <1>4, <2>1, <2>2
<1> QED BY <1>6, <1>7, <1>8, <1>9 DEF PlanStep

\* What an observation and a decision leave in the loop.
LEMMA ObserveFacts ==
    ASSUME CInv, Observe
    PROVE  /\ UNCHANGED <<journal, proc, github, history>> /\ loop.pc = "observe" /\ loop'.pc = "decide"
           /\ loop.at \in Attempts /\ loop'.at = loop.at /\ loop'.alive = loop.alive
           /\ loop'.obs \in { github[loop.at], "unreachable" }
           /\ \A b \in Attempts : /\ disk'[b].diag = disk[b].diag /\ disk'[b].intent = disk[b].intent
                                  /\ disk'[b].identity = disk[b].identity
<1>1. UNCHANGED <<journal, proc, github, history>> /\ loop.pc = "observe"
  BY DEF Observe, world
<1>2. PICK obs \in { github[loop.at] } \cup ({ "unreachable" } \cap Faults) :
        /\ loop' = [loop EXCEPT !.pc = "decide", !.obs = obs]
        /\ disk' = [disk EXCEPT ![loop.at].rid = @ \/ obs \in { "idle", "busy" }]
  BY DEF Observe
<1>3. loop \in Loop /\ loop.at \in Attempts
  BY <1>1, Holding DEF Decides
<1>4. loop'.pc = "decide" /\ loop'.at = loop.at /\ loop'.alive = loop.alive /\ loop'.obs = obs
  BY <1>2, <1>3 DEF Loop
<1>5. disk \in [Attempts -> Disk]
  BY DEF CInv, TypeOK
<1>6. \A b \in Attempts : /\ disk'[b].diag = disk[b].diag /\ disk'[b].intent = disk[b].intent
                          /\ disk'[b].identity = disk[b].identity
  BY <1>2, <1>3, <1>5 DEF Disk
<1> QED BY <1>1, <1>2, <1>3, <1>4, <1>6

LEMMA PlanDecided ==
    ASSUME CInv, Decide
    PROVE  /\ UNCHANGED <<journal, disk, proc, github, history>> /\ loop.pc = "decide" /\ loop.at \in Attempts
           /\ \/ loop'.pc = "next"
              \/ /\ loop'.pc = "act" /\ loop'.at = loop.at /\ loop'.alive = loop.alive
                 /\ \E evidence \in Evidence(loop.at) : Sound(loop'.plan, evidence)
<1>1. /\ UNCHANGED <<journal, disk, proc, github, history>> /\ loop.pc = "decide"
  BY DecideFacts
<1>2. loop \in Loop /\ loop.at \in Attempts
  BY <1>1, Holding DEF Decides
<1>3. PICK evidence \in Evidence(loop.at) :
        \/ Visited(loop.at)
        \/ /\ Sound(ReconcilePlan(evidence), evidence)
           /\ loop' = [loop EXCEPT !.pc = "act", !.plan = ReconcilePlan(evidence)]
  BY DecideFacts
<1>4. CASE Visited(loop.at)
  BY <1>1, <1>2, <1>4, NextTyped DEF Visited
<1>5. CASE /\ Sound(ReconcilePlan(evidence), evidence)
           /\ loop' = [loop EXCEPT !.pc = "act", !.plan = ReconcilePlan(evidence)]
  <2> DEFINE plan == ReconcilePlan(evidence)
  <2>1. Sound(plan, evidence) /\ loop' = [loop EXCEPT !.pc = "act", !.plan = plan]
    BY <1>5
  <2> HIDE DEF plan
  <2>2. loop'.pc = "act" /\ loop'.at = loop.at /\ loop'.alive = loop.alive /\ loop'.plan = plan
    BY <1>2, <2>1 DEF Loop
  <2>3. Sound(loop'.plan, evidence)
    BY <2>1, <2>2
  <2> QED BY <1>1, <1>2, <2>2, <2>3
<1> QED BY <1>3, <1>4, <1>5

LEMMA VerdictWritten ==
    ASSUME CInv, Conclude
    PROVE  /\ UNCHANGED <<disk, proc, github, history>> /\ loop.pc = "act" /\ loop.plan.kill = None
           /\ loop.plan.outcome # None /\ loop.at \in Attempts /\ loop'.pc = "clean"
           /\ journal'[loop.at].outcome = loop.plan.outcome /\ journal'[loop.at].state \in Concluded
           /\ \A b \in Attempts : b # loop.at => journal'[b] = journal[b]
<1> DEFINE row == ConcludedRow(loop.row, loop.plan.outcome)
<1>1. /\ UNCHANGED <<disk, proc, github, history>>
      /\ loop.pc = "act" /\ loop.plan.kill = None /\ loop.plan.outcome \in AttemptOutcome
      /\ loop.at \in Attempts /\ Record(loop.at, row)
      /\ loop' = [loop EXCEPT !.pc = "clean", !.row = row, !.plan = NoPlan]
      /\ row \in Row /\ row.outcome = loop.plan.outcome /\ row.state \in Concluded
  BY ConcludeFacts
<1> HIDE DEF row
<1>2. TypeOK /\ loop \in Loop
  BY DEF CInv, TypeOK
<1>3. journal'[loop.at] = row /\ \A b \in Attempts : b # loop.at => journal'[b] = journal[b]
  BY <1>1, <1>2, RecordTyped
<1>4. loop'.pc = "clean"
  BY <1>1, <1>2 DEF Loop
<1>5. loop.plan.outcome # None
  BY <1>1 DEF AttemptOutcome, FailureReason, None
<1> QED BY <1>1, <1>3, <1>4, <1>5

-----------------------------------------------------------------------------
(* Assignment. *)

\* No claim to a job that was not made before, and no decision resting on one.
LEMMA NothingClaimed ==
    ASSUME AInv, history.assigned \subseteq history'.assigned,
           \A b \in Attempts :
               /\ github'[b] = "busy" => github[b] = "busy" \/ b \in history'.assigned
               /\ disk'[b].diag = "worker" => disk[b].diag = "worker" \/ b \in history'.assigned
               /\ journal'[b].state = "busy" => journal[b].state = "busy" \/ b \in history'.assigned
               /\ journal'[b].outcome = "CompletedJob" =>
                      journal[b].outcome = "CompletedJob" \/ b \in history'.assigned,
           loop'.pc = "decide" /\ loop'.obs = "busy" =>
               loop'.at \in history'.assigned
               \/ (loop.pc = "decide" /\ loop.obs = "busy" /\ loop'.at = loop.at),
           loop'.pc = "act" /\ (loop'.plan.walk = "busy" \/ loop'.plan.outcome = "CompletedJob") =>
               loop'.at \in history'.assigned
               \/ (/\ loop.pc = "act" /\ loop'.at = loop.at
                   /\ loop.plan.walk = "busy" \/ loop.plan.outcome = "CompletedJob")
    PROVE  AInv'
<1>1. AssignedSeen'
  BY DEF AInv, AssignedSeen
<1>2. AssignedPlanned'
  BY DEF AInv, AssignedPlanned
<1> QED BY <1>1, <1>2 DEF AInv

LEMMA AssignedOutsideVisits ==
    ASSUME CInv, AInv, PassStep \/ ScrubStep \/ LaunchStep \/ (\E a \in Attempts : Environment(a) \/ Inspect(a))
    PROVE  AInv'
<1>1. CASE PassStep
  <2>1. /\ UNCHANGED <<journal, disk, github, history>>
        /\ loop'.pc \in { "rest", "next", "clean" } \/ loop' = loop
    BY <1>1, PassFacts
  <2> QED BY <2>1, NothingClaimed
<1>2. CASE ScrubStep
  <2>1. PICK a \in Attempts : Scrubbed(a)
    BY <1>2, ScrubFacts
  <2>2. NoDisk.diag # "worker" /\ "busy" \notin Terminal
    BY DEF NoDisk, Terminal, Concluded
  <2>3. UNCHANGED <<github, history>> /\ (loop'.pc \in { "rest", "next" } \/ loop' = loop)
    BY <2>1 DEF Scrubbed
  <2>4. \A b \in Attempts :
          /\ disk'[b].diag = "worker" => disk[b].diag = "worker"
          /\ journal'[b].state = "busy" => journal[b].state = "busy"
          /\ journal'[b].outcome = "CompletedJob" => journal[b].outcome = "CompletedJob"
    <3>1. SUFFICES ASSUME NEW b \in Attempts
                   PROVE  /\ disk'[b].diag = "worker" => disk[b].diag = "worker"
                          /\ journal'[b].state = "busy" => journal[b].state = "busy"
                          /\ journal'[b].outcome = "CompletedJob" => journal[b].outcome = "CompletedJob"
      OBVIOUS
    <3>2. CASE b = a
      BY <2>1, <2>2, <3>2 DEF Scrubbed
    <3>3. CASE b # a
      BY <2>1, <3>3 DEF Scrubbed
    <3> QED BY <3>2, <3>3
  <2> QED BY <2>3, <2>4, NothingClaimed
<1>3. CASE LaunchStep
  <2>1. PICK a \in Attempts : Launched(a)
    BY <1>3, LaunchFacts
  <2>2. history' = history /\ loop'.pc \notin { "decide", "act" }
    BY <2>1 DEF Launched, LaunchPc
  <2>3. \A b \in Attempts :
          /\ github'[b] = "busy" => github[b] = "busy"
          /\ disk'[b].diag = "worker" => disk[b].diag = "worker"
          /\ journal'[b].state = "busy" => journal[b].state = "busy"
          /\ journal'[b].outcome = "CompletedJob" => journal[b].outcome = "CompletedJob"
    <3>1. SUFFICES ASSUME NEW b \in Attempts
                   PROVE  /\ github'[b] = "busy" => github[b] = "busy"
                          /\ disk'[b].diag = "worker" => disk[b].diag = "worker"
                          /\ journal'[b].state = "busy" => journal[b].state = "busy"
                          /\ journal'[b].outcome = "CompletedJob" => journal[b].outcome = "CompletedJob"
      OBVIOUS
    <3>2. CASE b = a
      BY <2>1, <3>2 DEF Launched, LaunchVerdicts, Concluded
    <3>3. CASE b # a
      BY <2>1, <3>3 DEF Launched
    <3> QED BY <3>2, <3>3
  <2> QED BY <2>2, <2>3, NothingClaimed
<1>4. ASSUME NEW a \in Attempts, Environment(a) PROVE AInv'
  <2>1. /\ UNCHANGED <<journal, loop>> /\ history.assigned \subseteq history'.assigned
        /\ \A b \in Attempts : Moved(b)
    BY <1>4, EnvironmentFacts DEF CInv
  <2>2. \A b \in Attempts :
          /\ github'[b] = "busy" => github[b] = "busy" \/ b \in history'.assigned
          /\ disk'[b].diag = "worker" => disk[b].diag = "worker" \/ b \in history'.assigned
    BY <2>1 DEF Moved, AInv, AssignedSeen
  <2> QED BY <2>1, <2>2, NothingClaimed
<1>5. ASSUME NEW a \in Attempts, Inspect(a) PROVE AInv'
  <2>1. UNCHANGED <<journal, disk, github, history>> /\ loop'.pc = "observe"
    BY <1>5 DEF Inspect, world, AtRest
  <2> QED BY <2>1, NothingClaimed
<1> QED BY <1>1, <1>2, <1>3, <1>4, <1>5

LEMMA AssignedByVisits ==
    ASSUME CInv, AInv, Observe \/ WalkBeforeDeciding \/ Decide \/ PlanStep \/ Walk \/ Conclude
    PROVE  AInv'
<1>1. CASE Observe
  <2>1. /\ UNCHANGED <<journal, github, history>> /\ loop'.pc = "decide" /\ loop.at \in Attempts
        /\ loop'.at = loop.at /\ loop'.obs \in { github[loop.at], "unreachable" }
        /\ \A b \in Attempts : disk'[b].diag = disk[b].diag
    BY <1>1, ObserveFacts
  <2>2. loop'.obs = "busy" => loop'.at \in history'.assigned
    BY <2>1 DEF AInv, AssignedSeen
  <2> QED BY <2>1, <2>2, NothingClaimed
<1>2. CASE WalkBeforeDeciding
  <2>1. /\ UNCHANGED <<disk, github, history>> /\ loop.pc = "decide" /\ loop'.pc = "decide"
        /\ loop'.at = loop.at /\ loop'.obs = loop.obs
        /\ journal'[loop.at].state \in { "starting", "jit_received" }
        /\ journal'[loop.at].outcome = journal[loop.at].outcome
        /\ \A b \in Attempts : b # loop.at => journal'[b] = journal[b]
    BY <1>2, WalkBeforeDecidingFacts
  <2>2. \A b \in Attempts :
          /\ journal'[b].state = "busy" => journal[b].state = "busy"
          /\ journal'[b].outcome = "CompletedJob" => journal[b].outcome = "CompletedJob"
    BY <2>1
  <2> QED BY <2>1, <2>2, NothingClaimed
<1>3. CASE Decide
  <2>1. /\ UNCHANGED <<journal, disk, github, history>> /\ loop.pc = "decide" /\ loop.at \in Attempts
        /\ \/ loop'.pc = "next"
           \/ /\ loop'.pc = "act" /\ loop'.at = loop.at
              /\ \E evidence \in Evidence(loop.at) : Sound(loop'.plan, evidence)
    BY <1>3, PlanDecided
  <2>2. loop.row = journal[loop.at]
    BY <2>1, Holding DEF Decides
  <2>3. ASSUME loop'.pc = "act", loop'.plan.walk = "busy" \/ loop'.plan.outcome = "CompletedJob"
        PROVE  loop'.at \in history'.assigned
    <3>1. PICK evidence \in Evidence(loop.at) : Sound(loop'.plan, evidence)
      BY <2>1, <2>3
    <3>2. evidence = "RanAJob" \/ loop.obs = "busy" \/ loop.row.state = "busy"
      BY <2>3, <3>1 DEF Sound
    <3>3. evidence = "RanAJob" => disk[loop.at].diag = "worker"
      BY <3>1, EvidenceTyped
    <3> QED BY <2>1, <2>2, <2>3, <3>2, <3>3 DEF AInv, AssignedSeen, AssignedPlanned
  <2> QED BY <2>1, <2>3, NothingClaimed
<1>4. CASE PlanStep
  <2>1. /\ loop.pc = "act" /\ loop.at \in Attempts /\ UNCHANGED journal
        /\ history'.assigned = history.assigned
        /\ github' \in { github, [github EXCEPT ![loop.at] = "absent"] }
        /\ disk' = disk \/ disk' = [disk EXCEPT ![loop.at].intent = TRUE]
        /\ \/ loop'.pc = "next"
           \/ /\ loop'.pc = "act" /\ loop'.at = loop.at
              /\ loop'.plan.walk = loop.plan.walk /\ loop'.plan.outcome = loop.plan.outcome
    BY <1>4, PlanFacts
  <2>2. github \in [Attempts -> { "absent", "idle", "busy" }] /\ disk \in [Attempts -> Disk]
    BY DEF CInv, TypeOK
  <2>3. \A b \in Attempts : github'[b] = "busy" => github[b] = "busy"
    BY <2>1, <2>2
  <2>4. \A b \in Attempts : disk'[b].diag = disk[b].diag
    <3>1. CASE disk' = disk
      BY <3>1
    <3>2. CASE disk' = [disk EXCEPT ![loop.at].intent = TRUE]
      BY <2>1, <2>2, <3>2, DiskFields
    <3> QED BY <2>1, <3>1, <3>2
  <2> QED BY <2>1, <2>3, <2>4, NothingClaimed
<1>5. CASE Walk
  <2>1. /\ UNCHANGED <<disk, github, history>> /\ loop.pc = "act"
        /\ loop.at \in Attempts /\ journal'[loop.at].state = loop.plan.walk
        /\ journal'[loop.at].outcome = journal[loop.at].outcome
        /\ \A b \in Attempts : b # loop.at => journal'[b] = journal[b]
        /\ \/ loop'.pc = "next"
           \/ /\ loop'.pc = "act" /\ loop'.at = loop.at
              /\ loop'.plan.walk = None /\ loop'.plan.outcome = loop.plan.outcome
    BY <1>5, WalkFacts
  <2>2. \A b \in Attempts :
          /\ journal'[b].state = "busy" => journal[b].state = "busy" \/ b \in history'.assigned
          /\ journal'[b].outcome = "CompletedJob" => journal[b].outcome = "CompletedJob"
    BY <2>1 DEF AInv, AssignedPlanned
  <2> QED BY <2>1, <2>2, NothingClaimed DEF None
<1>6. CASE Conclude
  <2>1. /\ UNCHANGED <<disk, github, history>> /\ loop.pc = "act" /\ loop'.pc = "clean"
        /\ journal'[loop.at].outcome = loop.plan.outcome /\ journal'[loop.at].state \in Concluded
        /\ \A b \in Attempts : b # loop.at => journal'[b] = journal[b]
    BY <1>6, VerdictWritten
  <2>2. \A b \in Attempts :
          /\ journal'[b].state = "busy" => journal[b].state = "busy"
          /\ journal'[b].outcome = "CompletedJob" => journal[b].outcome = "CompletedJob" \/ b \in history'.assigned
    BY <2>1 DEF AInv, AssignedPlanned, Concluded
  <2> QED BY <2>1, <2>2, NothingClaimed
<1> QED BY <1>1, <1>2, <1>3, <1>4, <1>5, <1>6

\* Every step of the lifecycle is of one of these kinds.
LEMMA Kinds ==
    ASSUME Next
    PROVE  \/ PassStep \/ ScrubStep \/ LaunchStep
           \/ \E a \in Attempts : Environment(a) \/ Inspect(a)
           \/ Observe \/ WalkBeforeDeciding \/ Decide \/ PlanStep \/ Walk \/ Conclude
<1>1. Act => \/ WalkBeforeDeciding \/ Decide \/ PlanStep \/ Walk \/ Conclude \/ ScrubStep \/ PassStep
  BY DEF Act, PlanStep, ScrubStep, PassStep
<1>2. Launch => LaunchStep \/ PassStep
  BY DEF Launch, LaunchStep, PassStep
<1>3. ASSUME NEW a \in Attempts,
             Visit(a) \/ Allocate(a) \/ Sweep(a) \/ DeadlinePasses(a) \/ Environment(a)
      PROVE  PassStep \/ ScrubStep \/ LaunchStep \/ Environment(a) \/ Inspect(a)
  BY <1>3 DEF Visit, PassStep, ScrubStep, LaunchStep
<1>4. Restart \/ StartByHand \/ GiveUp \/ IntervalPasses \/ BeginPass \/ EndPass \/ Crash => PassStep
  BY DEF PassStep, ManagerStep
<1> QED BY <1>1, <1>2, <1>3, <1>4 DEF Next

LEMMA NextA == CInv /\ AInv /\ [Next]_vars => AInv'
<1>1. ASSUME CInv, AInv, Next PROVE AInv'
  BY <1>1, Kinds, AssignedOutsideVisits, AssignedByVisits
<1>2. ASSUME AInv, UNCHANGED vars PROVE AInv'
  <2>1. UNCHANGED <<journal, disk, github, loop, history>>
    BY <1>2 DEF vars
  <2> QED BY <1>2, <2>1, NothingClaimed
<1> QED BY <1>1, <1>2

LEMMA InitA == Init => AInv
<1> SUFFICES ASSUME Init PROVE AInv
  OBVIOUS
<1>1. AssignedSeen
  BY DEF Init, AssignedSeen, NoRow, NoDisk, None
<1>2. AssignedPlanned
  BY DEF Init, AssignedPlanned, AtRest
<1> QED BY <1>1, <1>2 DEF AInv

\* A job is reported completed only for a runner GitHub had given one, for any
\* number of attempts, however stale the inventory and whatever the diagnostics
\* lost (JobEvidence, assignment_not_taken).
THEOREM CompletedJobsWereAssigned == Spec => []CompletedMeansAssigned
<1>1. AInv => CompletedMeansAssigned
  BY DEF AInv, AssignedSeen, CompletedMeansAssigned
<1> QED BY <1>1, InitC, NextC, InitA, NextA, PTL DEF Spec

-----------------------------------------------------------------------------
(* Kills. *)

\* Nothing new is stopped, no intent goes while it is needed and no verdict of
\* an attempt that was stopped becomes a foreign one.
LEMMA NothingDisowned ==
    ASSUME CInv, KInv, history'.stopped = history.stopped,
           \A b \in Attempts :
               /\ journal'[b].state \notin Terminal =>
                     /\ journal[b].state \notin Terminal /\ journal'[b].outcome = journal[b].outcome
                     /\ disk[b].intent => disk'[b].intent
               /\ journal'[b].outcome \in ForeignVerdicts =>
                     journal[b].outcome \in ForeignVerdicts \/ b \notin history.stopped,
           loop'.pc = "act" =>
               /\ loop'.plan.kill \in { "stop", "recheck" } => disk'[loop'.at].intent
               /\ loop'.at \in history.stopped => loop'.plan.outcome \notin ForeignVerdicts
    PROVE  KInv'
<1>1. history.stopped \subseteq Attempts
  BY DEF CInv, TypeOK
<1>2. IntentStays'
  BY <1>1 DEF KInv, IntentStays
<1>3. OwnKillsAreOwned'
  BY <1>1 DEF KInv, OwnKillsAreOwned, ForeignVerdicts
<1>4. OwnedPlanned'
  BY DEF OwnedPlanned
<1>5. VerdictLast'
  BY DEF KInv, VerdictLast
<1> QED BY <1>2, <1>3, <1>4, <1>5 DEF KInv

\* The plan of the visit did not change, nor did the intent of its attempt.
LEMMA PlanKept ==
    ASSUME KInv, loop' = loop, loop.pc = "act" => disk'[loop.at].intent = disk[loop.at].intent
    PROVE  loop'.pc = "act" =>
               /\ loop'.plan.kill \in { "stop", "recheck" } => disk'[loop'.at].intent
               /\ loop'.at \in history.stopped => loop'.plan.outcome \notin ForeignVerdicts
BY DEF KInv, IntentStays, OwnedPlanned

LEMMA OwnedOutsideVisits ==
    ASSUME CInv, KInv, PassStep \/ ScrubStep \/ LaunchStep \/ (\E a \in Attempts : Environment(a) \/ Inspect(a))
    PROVE  KInv'
<1>1. CASE PassStep
  <2>1. /\ UNCHANGED <<journal, disk, history>>
        /\ loop'.pc \in { "rest", "next", "clean" } \/ loop' = loop
    BY <1>1, PassFacts
  <2> QED BY <2>1, NothingDisowned, PlanKept
<1>2. CASE ScrubStep
  <2>1. PICK a \in Attempts : Scrubbed(a)
    BY <1>2, ScrubFacts
  <2>2. \A b \in Attempts :
          /\ journal'[b].state \notin Terminal =>
                /\ journal[b].state \notin Terminal /\ journal'[b].outcome = journal[b].outcome
                /\ disk[b].intent => disk'[b].intent
          /\ journal'[b].outcome \in ForeignVerdicts => journal[b].outcome \in ForeignVerdicts
    BY <2>1 DEF Scrubbed
  <2>3. /\ history' = history
        /\ loop'.pc \in { "rest", "next" } \/ (loop' = loop /\ (loop.pc = "act" => loop.at # a))
    BY <2>1 DEF Scrubbed, Holds, Decides
  <2>4. loop.pc = "act" => loop.at \in Attempts
    BY DEF CInv, RowIsCurrent, Holds, Decides
  <2>5. loop' = loop /\ loop.pc = "act" => disk'[loop.at].intent = disk[loop.at].intent
    BY <2>1, <2>3, <2>4 DEF Scrubbed
  <2> QED BY <2>2, <2>3, <2>5, NothingDisowned, PlanKept
<1>3. CASE LaunchStep
  <2>1. PICK a \in Attempts : Launched(a)
    BY <1>3, LaunchFacts
  <2>2. history' = history /\ loop'.pc # "act"
    BY <2>1 DEF Launched, LaunchPc
  <2>3. LaunchVerdicts \cap ForeignVerdicts = {} /\ Concluded \subseteq Terminal
    BY DEF LaunchVerdicts, ForeignVerdicts, Terminal
  <2>4. journal[a].state \notin Terminal
    BY <2>1 DEF Launched, Terminal, Concluded
  <2>5. \A b \in Attempts :
          /\ journal'[b].state \notin Terminal =>
                /\ journal[b].state \notin Terminal /\ journal'[b].outcome = journal[b].outcome
                /\ disk[b].intent => disk'[b].intent
          /\ journal'[b].outcome \in ForeignVerdicts => journal[b].outcome \in ForeignVerdicts
    BY <2>1, <2>3, <2>4 DEF Launched
  <2> QED BY <2>2, <2>5, NothingDisowned
<1>4. ASSUME NEW a \in Attempts, Environment(a) PROVE KInv'
  <2>1. /\ UNCHANGED <<journal, loop>> /\ history'.stopped = history.stopped
        /\ \A b \in Attempts : disk'[b].intent = disk[b].intent
    BY <1>4, EnvironmentFacts DEF CInv, Moved
  <2>2. loop.pc = "act" => loop.at \in Attempts
    BY DEF CInv, RowIsCurrent, Holds, Decides
  <2> QED BY <2>1, <2>2, NothingDisowned, PlanKept
<1>5. ASSUME NEW a \in Attempts, Inspect(a) PROVE KInv'
  <2>1. UNCHANGED <<journal, disk, history>> /\ loop'.pc = "observe"
    BY <1>5 DEF Inspect, world, AtRest
  <2> QED BY <2>1, NothingDisowned
<1> QED BY <1>1, <1>2, <1>3, <1>4, <1>5

LEMMA Undecided ==
    ASSUME CInv, loop.pc \in Decides
    PROVE  loop.at \in Attempts /\ journal[loop.at].state \notin Terminal
<1>1. loop.at \in Attempts /\ journal[loop.at].state \in ConcludableFrom
  BY Holding
<1> QED BY <1>1 DEF ConcludableFrom, Terminal, Concluded

LEMMA OwnedByVisits ==
    ASSUME CInv, KInv, Observe \/ WalkBeforeDeciding \/ Decide \/ PlanStep \/ Walk \/ Conclude
    PROVE  KInv'
<1>1. CASE Observe
  <2>1. /\ UNCHANGED <<journal, history>> /\ loop'.pc = "decide"
        /\ \A b \in Attempts : disk'[b].intent = disk[b].intent
    BY <1>1, ObserveFacts
  <2> QED BY <2>1, NothingDisowned
<1>2. CASE WalkBeforeDeciding
  <2>1. /\ UNCHANGED <<disk, history>> /\ loop.pc = "decide" /\ loop'.pc = "decide"
        /\ journal'[loop.at].outcome = journal[loop.at].outcome
        /\ \A b \in Attempts : b # loop.at => journal'[b] = journal[b]
    BY <1>2, WalkBeforeDecidingFacts
  <2>2. journal[loop.at].state \notin Terminal
    BY <2>1, Undecided DEF Decides
  <2> QED BY <2>1, <2>2, NothingDisowned
<1>3. CASE Decide
  <2>1. /\ UNCHANGED <<journal, disk, history>> /\ loop.pc = "decide" /\ loop.at \in Attempts
        /\ \/ loop'.pc = "next"
           \/ /\ loop'.pc = "act" /\ loop'.at = loop.at
              /\ \E evidence \in Evidence(loop.at) : Sound(loop'.plan, evidence)
    BY <1>3, PlanDecided
  <2>2. journal[loop.at].state \notin Terminal
    BY <2>1, Undecided DEF Decides
  <2>3. ASSUME loop'.pc = "act"
        PROVE  /\ loop'.plan.kill \notin { "stop", "recheck" }
               /\ loop'.at \in history.stopped => loop'.plan.outcome \notin ForeignVerdicts
    <3>1. PICK evidence \in Evidence(loop.at) : Sound(loop'.plan, evidence)
      BY <2>1, <2>3
    <3>2. loop'.plan.kill \in { None, "intent" }
      BY <3>1 DEF Sound
    <3>3. loop'.plan.outcome \in ForeignVerdicts => ~disk[loop.at].intent
      BY <3>1 DEF Sound
    <3> QED BY <2>1, <2>2, <2>3, <3>2, <3>3 DEF KInv, IntentStays, None
  <2> QED BY <2>1, <2>3, NothingDisowned
<1>4. CASE PlanStep
  <2>1. /\ loop.pc = "act" /\ loop.at \in Attempts /\ UNCHANGED journal
        /\ history'.stopped = history.stopped
           \/ (loop.plan.kill = "stop" /\ history'.stopped = history.stopped \cup { loop.at })
        /\ disk' = disk \/ disk' = [disk EXCEPT ![loop.at].intent = TRUE]
        /\ \/ loop'.pc = "next"
           \/ /\ loop'.pc = "act" /\ loop'.at = loop.at /\ loop'.plan.outcome = loop.plan.outcome
              /\ \/ loop'.plan.kill = loop.plan.kill
                 \/ loop'.plan.kill = "stop" /\ disk' = [disk EXCEPT ![loop.at].intent = TRUE]
                 \/ loop.plan.kill = "stop" /\ loop'.plan.kill = "recheck"
                 \/ loop'.plan.kill = None
    BY <1>4, PlanFacts DEF RecordTerminateIntent
  <2>2. /\ disk \in [Attempts -> Disk] /\ history.stopped \subseteq Attempts
    BY DEF CInv, TypeOK
  <2>3. /\ \A b \in Attempts : disk[b].intent => disk'[b].intent
        /\ disk' = [disk EXCEPT ![loop.at].intent = TRUE] => disk'[loop.at].intent
    <3>1. CASE disk' = disk /\ disk' # [disk EXCEPT ![loop.at].intent = TRUE]
      BY <3>1
    <3>2. CASE disk' = [disk EXCEPT ![loop.at].intent = TRUE]
      BY <2>1, <2>2, <3>2, DiskFields
    <3> QED BY <2>1, <3>1, <3>2
  <2>4. history'.stopped # history.stopped => disk[loop.at].intent /\ loop.plan.outcome \notin ForeignVerdicts
    <3>1. loop.plan.kill = "stop" => disk[loop.at].intent
      BY <2>1 DEF KInv, IntentStays
    <3>2. loop.plan.kill = "stop" => loop.plan.outcome \in OwnVerdicts
      BY <2>1 DEF CInv, PlanIsSound, None
    <3> QED BY <2>1, <3>1, <3>2 DEF OwnVerdicts, ForeignVerdicts
  <2>5. journal[loop.at].state \notin Terminal /\ journal[loop.at].outcome = None
    BY <2>1, Undecided DEF Decides, KInv, VerdictLast
  <2>6. \A b \in history'.stopped : b \in history.stopped \/ (b = loop.at /\ history'.stopped # history.stopped)
    BY <2>1
  <2>7. IntentStays'
    <3>1. \A b \in history'.stopped : journal'[b].state \notin Terminal => disk'[b].intent
      BY <2>1, <2>2, <2>3, <2>4, <2>6 DEF KInv, IntentStays
    <3>2. loop'.pc = "act" /\ loop'.plan.kill \in { "stop", "recheck" } => disk'[loop'.at].intent
      BY <2>1, <2>3 DEF KInv, IntentStays, None
    <3> QED BY <3>1, <3>2 DEF IntentStays
  <2>8. OwnKillsAreOwned'
    BY <2>1, <2>5, <2>6 DEF KInv, OwnKillsAreOwned, None
  <2>9. OwnedPlanned'
    BY <2>1, <2>4, <2>6 DEF KInv, OwnedPlanned
  <2>10. VerdictLast'
    BY <2>1 DEF KInv, VerdictLast
  <2> QED BY <2>7, <2>8, <2>9, <2>10 DEF KInv
<1>5. CASE Walk
  <2>1. /\ UNCHANGED <<disk, history>> /\ loop.pc = "act"
        /\ journal'[loop.at].outcome = journal[loop.at].outcome
        /\ \A b \in Attempts : b # loop.at => journal'[b] = journal[b]
        /\ \/ loop'.pc = "next"
           \/ /\ loop'.pc = "act" /\ loop'.at = loop.at
              /\ loop'.plan.kill = None /\ loop'.plan.outcome = loop.plan.outcome
    BY <1>5, WalkFacts
  <2>2. journal[loop.at].state \notin Terminal
    BY <2>1, Undecided DEF Decides
  <2>3. loop.at \in history.stopped => loop.plan.outcome \notin ForeignVerdicts
    BY <2>1 DEF KInv, OwnedPlanned
  <2> QED BY <2>1, <2>2, <2>3, NothingDisowned DEF None
<1>6. CASE Conclude
  <2>1. /\ UNCHANGED <<disk, history>> /\ loop.pc = "act" /\ loop'.pc = "clean"
        /\ journal'[loop.at].outcome = loop.plan.outcome /\ journal'[loop.at].state \in Concluded
        /\ \A b \in Attempts : b # loop.at => journal'[b] = journal[b]
    BY <1>6, VerdictWritten
  <2>2. loop.at \in history.stopped => loop.plan.outcome \notin ForeignVerdicts
    BY <2>1 DEF KInv, OwnedPlanned
  <2>3. Concluded \subseteq Terminal
    BY DEF Terminal
  <2> QED BY <2>1, <2>2, <2>3, NothingDisowned
<1> QED BY <1>1, <1>2, <1>3, <1>4, <1>5, <1>6

LEMMA NextK == CInv /\ KInv /\ [Next]_vars => KInv'
<1>1. ASSUME CInv, KInv, Next PROVE KInv'
  BY <1>1, Kinds, OwnedOutsideVisits, OwnedByVisits
<1>2. ASSUME CInv, KInv, UNCHANGED vars PROVE KInv'
  <2>1. UNCHANGED <<journal, disk, loop, history>>
    BY <1>2 DEF vars
  <2> QED BY <1>2, <2>1, NothingDisowned, PlanKept
<1> QED BY <1>1, <1>2

LEMMA InitK == Init => KInv
<1> SUFFICES ASSUME Init PROVE KInv
  OBVIOUS
<1>1. history.stopped = {} /\ loop.pc = "rest"
  BY DEF Init, Nothing, AtRest
<1>2. VerdictLast
  BY DEF Init, VerdictLast, NoRow
<1> QED BY <1>1, <1>2 DEF KInv, IntentStays, OwnKillsAreOwned, OwnedPlanned

\* A runner this agent stopped is never reported as one that died by itself,
\* for any number of attempts and of crashes, the crash between the signal and
\* the verdict included (record_terminate_intent).
THEOREM OwnKillsOwned == Spec => []OwnKillsAreOwned
<1>1. KInv => OwnKillsAreOwned
  BY DEF KInv
<1> QED BY <1>1, InitC, NextC, InitK, NextK, PTL DEF Spec

-----------------------------------------------------------------------------
(* Deaths. *)

\* Nothing comes to life, and nothing that lives is concluded.
LEMMA NothingRevived ==
    ASSUME DInv,
           \A b \in Attempts :
               /\ Gone(b) => ~(proc'[b] \in { "waiting", "working" }) \/ ~disk'[b].identity
               /\ journal'[b].state \in Terminal => journal[b].state \in Terminal \/ Gone(b)
               /\ journal'[b].state = "none" => journal[b].state = "none"
               /\ disk'[b].identity => disk[b].identity,
           loop'.pc \in EarlyLaunch => ~disk'[loop'.at].identity,
           loop'.pc \in Decides => loop'.at \in Attempts,
           loop'.pc \in Decides /\ ~loop'.alive => Gone(loop'.at),
           loop'.pc = "act" /\ loop'.plan.kill = None /\ loop'.plan.outcome # None => Gone(loop'.at)
    PROVE  DInv'
<1>1. AccountedRunner'
  <2>1. SUFFICES ASSUME NEW b \in Attempts, proc'[b] \in { "waiting", "working" }, disk'[b].identity,
                        journal'[b].state \in Terminal
                 PROVE  FALSE
    BY DEF AccountedRunner, Alive
  <2>2. ~Gone(b)
    BY <2>1
  <2>3. Alive(b) /\ disk[b].identity /\ journal[b].state \in Terminal
    BY <2>1, <2>2 DEF Gone
  <2> QED BY <2>3 DEF DInv, AccountedRunner
<1>2. NotYetIdentified'
  BY DEF DInv, NotYetIdentified, EarlyLaunch
<1>3. DeadWhenRead'
  BY DEF DeadWhenRead, Gone, Alive, Decides
<1> QED BY <1>1, <1>2, <1>3 DEF DInv

\* The loop still looks at the attempt it looked at.
LEMMA LookKept ==
    ASSUME CInv, DInv, loop' = loop,
           loop.pc \in LaunchPc => disk'[loop.at].identity = disk[loop.at].identity
    PROVE  /\ loop'.pc \in EarlyLaunch => ~disk'[loop'.at].identity
           /\ loop'.pc \in Decides => loop'.at \in Attempts
           /\ loop'.pc \in Decides /\ ~loop'.alive => Gone(loop'.at)
           /\ loop'.pc = "act" /\ loop'.plan.kill = None /\ loop'.plan.outcome # None => Gone(loop'.at)
<1>1. loop'.pc \in EarlyLaunch => ~disk'[loop'.at].identity
  BY DEF DInv, NotYetIdentified, EarlyLaunch
<1>2. loop'.pc \in Decides => loop'.at \in Attempts
  BY DEF CInv, RowIsCurrent, Holds
<1>3. loop'.pc \in Decides /\ ~loop'.alive => Gone(loop'.at)
  BY DEF DInv, DeadWhenRead
<1>4. loop'.pc = "act" /\ loop'.plan.kill = None /\ loop'.plan.outcome # None => Gone(loop'.at)
  BY DEF DInv, DeadWhenRead
<1> QED BY <1>1, <1>2, <1>3, <1>4

\* An operating system that answers says "dead" only of a process that is, or
\* that nobody can look for.
LEMMA AnswersTrue ==
    ASSUME "recheck_refused" \notin Faults, NEW a \in Attempts, NEW row, FALSE \in InspectAnswers(a, row)
    PROVE  Gone(a)
<1>1. InspectAnswers(a, row) \subseteq (IF a \in memory.children \/ disk[a].identity THEN { Alive(a) } ELSE { FALSE })
  <2>1. CASE a \in memory.children
    BY <2>1 DEF InspectAnswers
  <2>2. CASE a \notin memory.children /\ ~disk[a].identity
    BY <2>2 DEF InspectAnswers
  <2>3. CASE a \notin memory.children /\ disk[a].identity
    <3>1. InspectAnswers(a, row) = { Alive(a) }
      BY <2>3 DEF InspectAnswers
    <3> QED BY <2>3, <3>1
  <2> QED BY <2>1, <2>2, <2>3
<1>2. CASE a \in memory.children \/ disk[a].identity
  <2>1. Alive(a) = FALSE
    BY <1>1, <1>2
  <2> QED BY <2>1 DEF Gone
<1>3. CASE ~disk[a].identity
  BY <1>3 DEF Gone
<1> QED BY <1>2, <1>3

LEMMA DeadOutsideVisits ==
    ASSUME "recheck_refused" \notin Faults, CInv, DInv,
           PassStep \/ ScrubStep \/ LaunchStep \/ (\E a \in Attempts : Environment(a) \/ Inspect(a))
    PROVE  DInv'
<1>0. {"rest", "next", "clean", "observe", "decide", "act"} \cap EarlyLaunch = {}
  BY DEF EarlyLaunch, LaunchPc
<1>1. CASE PassStep
  <2>1. /\ UNCHANGED <<journal, disk, proc>>
        /\ loop'.pc \in { "rest", "next", "clean" } \/ loop' = loop
    BY <1>1, PassFacts
  <2>2. \A b \in Attempts : Gone(b) => ~(proc'[b] \in { "waiting", "working" }) \/ ~disk'[b].identity
    BY <2>1 DEF Gone, Alive
  <2>3. CASE loop'.pc \in { "rest", "next", "clean" }
    <3>1. loop'.pc \notin EarlyLaunch /\ loop'.pc \notin Decides /\ loop'.pc # "act"
      BY <1>0, <2>3 DEF Decides
    <3> QED BY <2>1, <2>2, <3>1, NothingRevived
  <2>4. CASE loop' = loop
    BY <2>1, <2>2, <2>4, NothingRevived, LookKept
  <2> QED BY <2>1, <2>3, <2>4
<1>2. CASE ScrubStep
  <2>1. PICK a \in Attempts : Scrubbed(a)
    BY <1>2, ScrubFacts
  <2>2. ~NoDisk.identity /\ "none" \notin Terminal
    BY NoneIsNoState DEF NoDisk
  <2>3. \A b \in Attempts : disk'[b].identity => disk[b].identity
    BY <2>1, <2>2 DEF Scrubbed
  <2>4. \A b \in Attempts : Gone(b) => ~(proc'[b] \in { "waiting", "working" }) \/ ~disk'[b].identity
    BY <2>1, <2>3 DEF Scrubbed, Gone, Alive
  <2>5. \A b \in Attempts : /\ journal'[b].state \in Terminal => journal[b].state \in Terminal
                            /\ journal'[b].state = "none" => journal[b].state = "none"
    BY <2>1, <2>2 DEF Scrubbed
  <2>6. CASE loop'.pc \in { "rest", "next" }
    <3>1. loop'.pc \notin EarlyLaunch /\ loop'.pc \notin Decides /\ loop'.pc # "act"
      BY <1>0, <2>6 DEF Decides
    <3> QED BY <2>3, <2>4, <2>5, <3>1, NothingRevived
  <2>7. CASE loop' = loop /\ (loop.pc \in Holds => loop.at # a)
    <3>1. loop.pc \in LaunchPc => disk'[loop.at] = disk[loop.at]
      BY <2>1, <2>7, LaunchHolding DEF Scrubbed, Holds
    <3> QED BY <2>3, <2>4, <2>5, <2>7, <3>1, NothingRevived, LookKept
  <2> QED BY <2>1, <2>6, <2>7 DEF Scrubbed
<1>3. CASE LaunchStep
  <2>1. PICK a \in Attempts : Launched(a)
    BY <1>3, LaunchFacts
  <2>2. loop'.pc \notin Decides /\ loop'.pc # "act"
    BY <2>1 DEF Launched, LaunchPc, Decides
  <2>3. AccountedRunner'
    <3>1. SUFFICES ASSUME NEW b \in Attempts, proc'[b] \in { "waiting", "working" }, disk'[b].identity,
                          journal'[b].state \in Terminal
                   PROVE  FALSE
      BY DEF AccountedRunner, Alive
    <3>2. CASE b # a
      BY <2>1, <3>1, <3>2 DEF Launched, DInv, AccountedRunner, Alive
    <3>3. CASE b = a
      <4>1. disk' = disk /\ loop.pc \in EarlyLaunch /\ loop.at = a
        BY <2>1, <3>1, <3>3 DEF Launched, Terminal, Concluded
      <4> QED BY <3>1, <3>3, <4>1 DEF DInv, NotYetIdentified, EarlyLaunch
    <3> QED BY <3>2, <3>3
  <2>4. \A b \in Attempts : journal'[b].state = "none" => ~disk'[b].identity
    <3>1. journal'[a].state # "none"
      BY <2>1, NoneIsNoState DEF Launched
    <3> QED BY <2>1, <3>1 DEF Launched, DInv, NotYetIdentified
  <2>5. loop'.pc \in EarlyLaunch => ~disk'[loop'.at].identity
    BY <2>1 DEF Launched, DInv, NotYetIdentified, EarlyLaunch
  <2> QED BY <2>2, <2>3, <2>4, <2>5 DEF DInv, NotYetIdentified, DeadWhenRead, EarlyLaunch
<1>4. ASSUME NEW a \in Attempts, Environment(a) PROVE DInv'
  <2>1. UNCHANGED <<journal, loop>> /\ \A b \in Attempts : Moved(b)
    BY <1>4, EnvironmentFacts DEF CInv
  <2>2. \A b \in Attempts : disk'[b].identity = disk[b].identity
    BY <2>1 DEF Moved
  <2>3. \A b \in Attempts : Gone(b) => ~(proc'[b] \in { "waiting", "working" }) \/ ~disk'[b].identity
    BY <2>1, <2>2 DEF Moved, Gone
  <2>4. loop.pc \in LaunchPc => loop.at \in Attempts
    BY LaunchHolding
  <2> QED BY <2>1, <2>2, <2>3, <2>4, NothingRevived, LookKept
<1>5. ASSUME NEW a \in Attempts, Inspect(a) PROVE DInv'
  <2>1. UNCHANGED <<journal, disk, proc>>
    BY <1>5 DEF Inspect, world
  <2>2. PICK alive \in InspectAnswers(a, todo[a]) :
          loop' = [AtRest EXCEPT !.pc = "observe", !.at = a, !.row = todo[a], !.alive = alive]
    BY <1>5 DEF Inspect
  <2>3. loop'.pc = "observe" /\ loop'.at = a /\ loop'.alive = alive
    BY <2>2 DEF AtRest
  <2>4. alive \in BOOLEAN
    BY AnswersTyped
  <2>5. ~alive => Gone(a)
    <3>1. ~alive => FALSE \in InspectAnswers(a, todo[a])
      BY <2>2, <2>4
    <3> QED BY <3>1, AnswersTrue
  <2>6. \A b \in Attempts : Gone(b) => ~(proc'[b] \in { "waiting", "working" }) \/ ~disk'[b].identity
    BY <2>1 DEF Gone, Alive
  <2> QED BY <1>0, <2>1, <2>3, <2>5, <2>6, NothingRevived
<1> QED BY <1>1, <1>2, <1>3, <1>4, <1>5

LEMMA DeadByVisits ==
    ASSUME "recheck_refused" \notin Faults, CInv, DInv,
           Observe \/ WalkBeforeDeciding \/ Decide \/ PlanStep \/ Walk \/ Conclude
    PROVE  DInv'
<1>0. {"rest", "next", "clean", "observe", "decide", "act"} \cap EarlyLaunch = {}
  BY DEF EarlyLaunch, LaunchPc
<1>1. CASE Observe
  <2>1. /\ UNCHANGED <<journal, proc>> /\ loop.pc = "observe" /\ loop'.pc = "decide"
        /\ loop.at \in Attempts /\ loop'.at = loop.at /\ loop'.alive = loop.alive
        /\ \A b \in Attempts : disk'[b].identity = disk[b].identity
    BY <1>1, ObserveFacts
  <2>2. ~loop.alive => Gone(loop.at)
    BY <2>1 DEF DInv, DeadWhenRead, Decides
  <2>3. \A b \in Attempts : Gone(b) => ~(proc'[b] \in { "waiting", "working" }) \/ ~disk'[b].identity
    BY <2>1 DEF Gone, Alive
  <2> QED BY <1>0, <2>1, <2>2, <2>3, NothingRevived
<1>2. CASE WalkBeforeDeciding
  <2>1. /\ UNCHANGED <<disk, proc>> /\ loop.pc = "decide" /\ loop'.pc = "decide"
        /\ loop.at \in Attempts /\ loop'.at = loop.at /\ loop'.alive = loop.alive
        /\ journal'[loop.at].state \in { "starting", "jit_received" }
        /\ \A b \in Attempts : b # loop.at => journal'[b] = journal[b]
    BY <1>2, WalkBeforeDecidingFacts
  <2>2. ~loop.alive => Gone(loop.at)
    BY <2>1 DEF DInv, DeadWhenRead, Decides
  <2>3. \A b \in Attempts : Gone(b) => ~(proc'[b] \in { "waiting", "working" }) \/ ~disk'[b].identity
    BY <2>1 DEF Gone, Alive
  <2>4. \A b \in Attempts : /\ journal'[b].state \in Terminal => journal[b].state \in Terminal
                            /\ journal'[b].state = "none" => journal[b].state = "none"
    BY <2>1 DEF Terminal, Concluded
  <2> QED BY <1>0, <2>1, <2>2, <2>3, <2>4, NothingRevived
<1>3. CASE Decide
  <2>1. /\ UNCHANGED <<journal, disk, proc>> /\ loop.pc = "decide" /\ loop.at \in Attempts
        /\ \/ loop'.pc = "next"
           \/ /\ loop'.pc = "act" /\ loop'.at = loop.at /\ loop'.alive = loop.alive
              /\ \E evidence \in Evidence(loop.at) : Sound(loop'.plan, evidence)
    BY <1>3, PlanDecided
  <2>2. ~loop.alive => Gone(loop.at)
    BY <2>1 DEF DInv, DeadWhenRead, Decides
  <2>3. loop'.pc = "act" /\ loop'.plan.kill = None /\ loop'.plan.outcome # None => ~loop.alive
    <3>1. ASSUME loop'.pc = "act", loop'.plan.kill = None, loop'.plan.outcome # None PROVE ~loop.alive
      <4>1. PICK evidence \in Evidence(loop.at) : Sound(loop'.plan, evidence)
        BY <2>1, <3>1
      <4> QED BY <3>1, <4>1 DEF Sound
    <3> QED BY <3>1
  <2>4. \A b \in Attempts : Gone(b) => ~(proc'[b] \in { "waiting", "working" }) \/ ~disk'[b].identity
    BY <2>1 DEF Gone, Alive
  <2>5. "next" \notin Decides
    BY DEF Decides
  <2> QED BY <1>0, <2>1, <2>2, <2>3, <2>4, <2>5, NothingRevived
<1>4. CASE PlanStep
  <2>1. /\ loop.pc = "act" /\ loop.at \in Attempts /\ UNCHANGED journal
        /\ disk' = disk \/ disk' = [disk EXCEPT ![loop.at].intent = TRUE]
        /\ proc' = proc \/ \E e \in { "exit0", "exit1" } : proc' = [proc EXCEPT ![loop.at] = e]
        /\ \/ loop'.pc = "next"
           \/ /\ loop'.pc = "act" /\ loop'.at = loop.at /\ loop'.alive = loop.alive
              /\ loop'.plan.outcome = loop.plan.outcome
              /\ \/ loop'.plan.kill = loop.plan.kill
                 \/ loop'.plan.kill \in { "stop", "recheck" }
                 \/ loop'.plan.kill = None /\ FALSE \in InspectAnswers(loop.at, loop.row)
    BY <1>4, PlanFacts
  <2>2. disk \in [Attempts -> Disk] /\ proc \in [Attempts -> ProcState]
    BY DEF CInv, TypeOK
  <2>3. \A b \in Attempts : disk'[b].identity = disk[b].identity
    <3>1. CASE disk' = disk
      BY <3>1
    <3>2. CASE disk' = [disk EXCEPT ![loop.at].intent = TRUE]
      BY <2>1, <2>2, <3>2, DiskFields
    <3> QED BY <2>1, <3>1, <3>2
  <2>4. \A b \in Attempts : proc'[b] \in { "waiting", "working" } => Alive(b)
    BY <2>1, <2>2 DEF Alive
  <2>5. \A b \in Attempts : Gone(b) => ~(proc'[b] \in { "waiting", "working" }) \/ ~disk'[b].identity
    BY <2>3, <2>4 DEF Gone
  <2>6. ~loop.alive => Gone(loop.at)
    BY <2>1 DEF DInv, DeadWhenRead, Decides
  <2>7. loop'.pc = "act" /\ loop'.plan.kill = None /\ loop'.plan.outcome # None => Gone(loop.at)
    BY <2>1, AnswersTrue DEF DInv, DeadWhenRead, None
  <2>8. "next" \notin Decides
    BY DEF Decides
  <2> QED BY <1>0, <2>1, <2>3, <2>5, <2>6, <2>7, <2>8, NothingRevived
<1>5. CASE Walk
  <2>1. /\ UNCHANGED <<disk, proc>> /\ loop.pc = "act" /\ loop.plan.kill = None
        /\ loop.at \in Attempts /\ journal'[loop.at].state \in { "idle", "busy" }
        /\ \A b \in Attempts : b # loop.at => journal'[b] = journal[b]
        /\ \/ loop'.pc = "next"
           \/ /\ loop'.pc = "act" /\ loop'.at = loop.at /\ loop'.alive = loop.alive
              /\ loop'.plan.outcome = loop.plan.outcome
    BY <1>5, WalkFacts
  <2>2. /\ ~loop.alive => Gone(loop.at)
        /\ loop.plan.outcome # None => Gone(loop.at)
    BY <2>1 DEF DInv, DeadWhenRead, Decides
  <2>3. \A b \in Attempts : Gone(b) => ~(proc'[b] \in { "waiting", "working" }) \/ ~disk'[b].identity
    BY <2>1 DEF Gone, Alive
  <2>4. \A b \in Attempts : /\ journal'[b].state \in Terminal => journal[b].state \in Terminal
                            /\ journal'[b].state = "none" => journal[b].state = "none"
    BY <2>1 DEF Terminal, Concluded
  <2>5. "next" \notin Decides
    BY DEF Decides
  <2> QED BY <1>0, <2>1, <2>2, <2>3, <2>4, <2>5, NothingRevived
<1>6. CASE Conclude
  <2>1. /\ UNCHANGED <<disk, proc>> /\ loop.pc = "act" /\ loop.plan.kill = None /\ loop.plan.outcome # None
        /\ loop'.pc = "clean" /\ journal'[loop.at].state \in Concluded
        /\ \A b \in Attempts : b # loop.at => journal'[b] = journal[b]
    BY <1>6, VerdictWritten
  <2>2. Gone(loop.at)
    BY <2>1 DEF DInv, DeadWhenRead
  <2>3. \A b \in Attempts : Gone(b) => ~(proc'[b] \in { "waiting", "working" }) \/ ~disk'[b].identity
    BY <2>1 DEF Gone, Alive
  <2>4. \A b \in Attempts : /\ journal'[b].state \in Terminal => journal[b].state \in Terminal \/ Gone(b)
                            /\ journal'[b].state = "none" => journal[b].state = "none"
    BY <2>1, <2>2, NoneIsNoState
  <2>5. "clean" \notin Decides
    BY DEF Decides
  <2> QED BY <1>0, <2>1, <2>3, <2>4, <2>5, NothingRevived
<1> QED BY <1>1, <1>2, <1>3, <1>4, <1>5, <1>6

LEMMA NextD ==
    ASSUME "recheck_refused" \notin Faults
    PROVE  CInv /\ DInv /\ [Next]_vars => DInv'
<1>1. ASSUME CInv, DInv, Next PROVE DInv'
  BY <1>1, Kinds, DeadOutsideVisits, DeadByVisits
<1>2. ASSUME CInv, DInv, UNCHANGED vars PROVE DInv'
  <2>1. UNCHANGED <<journal, disk, proc, loop>>
    BY <1>2 DEF vars
  <2>2. \A b \in Attempts : Gone(b) => ~(proc'[b] \in { "waiting", "working" }) \/ ~disk'[b].identity
    BY <2>1 DEF Gone, Alive
  <2> QED BY <1>2, <2>1, <2>2, NothingRevived, LookKept
<1> QED BY <1>1, <1>2

LEMMA InitD == Init => DInv
<1> SUFFICES ASSUME Init PROVE DInv
  OBVIOUS
<1>1. loop.pc = "rest" /\ \A a \in Attempts : ~Alive(a) /\ ~disk[a].identity
  BY DEF Init, AtRest, NoDisk, Alive
<1>2. AccountedRunner
  BY <1>1 DEF AccountedRunner
<1>3. NotYetIdentified /\ DeadWhenRead
  BY <1>1 DEF NotYetIdentified, DeadWhenRead, LaunchPc, Decides
<1> QED BY <1>2, <1>3 DEF DInv

\* As long as the operating system answers when it is asked about a process, a
\* listener whose identity reached the disk is concluded only once it is dead,
\* for any number of attempts and whatever the order of exits, kills, crashes
\* and stale observations (is_alive re-read after terminate, recovery_decision).
THEOREM RunnersAccounted ==
    ASSUME "recheck_refused" \notin Faults
    PROVE  Spec => []AccountedRunner
<1>1. DInv => AccountedRunner
  BY DEF DInv
<1> QED BY <1>1, InitC, NextC, InitD, NextD, PTL DEF Spec
==============================================================================
