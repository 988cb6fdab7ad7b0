------------------------------- MODULE Attempt -------------------------------
(***************************************************************************)
(* The journalled runner attempt: its thirteen states, the legal edges     *)
(* between them, the outcomes it can conclude with, what still occupies a  *)
(* capacity slot, and what the agent decides about an attempt it finds in  *)
(* the journal (crates/domain/src/attempt.rs).                             *)
(*                                                                         *)
(* Everything here is a constant operator: the modules that own the        *)
(* journal (Lifecycle, Allocation and so on) apply it to their variables.  *)
(***************************************************************************)

AttemptState ==
    { "allocated", "preparing", "prepared", "jit_received", "starting",
      "idle", "busy", "finished", "failed", "orphaned",
      "destroying", "cleanup_deferred", "cleaned" }

\* The three terminal states that carry the verdict, before cleanup.
Concluded == { "finished", "failed", "orphaned" }

Terminal == Concluded \cup { "destroying", "cleanup_deferred", "cleaned" }

\* Written out in the code, and compared there with "every non-terminal state".
ConcludableFrom ==
    { "allocated", "preparing", "prepared", "jit_received", "starting",
      "idle", "busy" }

(***************************************************************************)
(* The transition list.  A self-transition is not in it.                   *)
(***************************************************************************)
LEGAL ==
       { <<"allocated", "jit_received">>, <<"allocated", "preparing">>,
         <<"preparing", "prepared">>, <<"prepared", "jit_received">>,
         <<"jit_received", "starting">>, <<"starting", "idle">>,
         <<"starting", "busy">>, <<"idle", "busy">>, <<"busy", "idle">> }
  \cup (ConcludableFrom \X { "failed", "orphaned" })
  \cup ({ "idle", "busy" } \X { "finished" })
  \cup (Concluded \X { "cleaned", "destroying" })
  \cup { <<"destroying", "cleanup_deferred">>,
         <<"cleanup_deferred", "destroying">>, <<"destroying", "cleaned">> }

CanTransition(from, to) == <<from, to>> \in LEGAL

\* An isolated attempt keeps its slot until its environment is proven gone; a
\* native one gives it back as soon as it is terminal.
CountsAgainstCapacity(state, native) ==
    state \notin Terminal \/ (~native /\ state # "cleaned")

-----------------------------------------------------------------------------
(***************************************************************************)
(* Outcomes.  A Failed outcome is named by its FailureReason; the reasons  *)
(* the lifecycle does not tell apart are one, "other_failure".             *)
(***************************************************************************)
FailureReason ==
    { "JitRequestFailed", "JitExpired", "ProcessStartFailed",
      "ProcessExitedUnexpectedly", "RegistrationTimedOut",
      "TerminatedAfterRegistrationTimeout", "OtherFailure" }

AttemptOutcome ==
    { "CompletedJob", "ExitedIdleWithoutWork", "Orphaned" } \cup FailureReason

\* Mutant: the verdict is written where the state belongs.
StateNamedByOutcome(outcome) ==
    IF outcome \in { "CompletedJob", "ExitedIdleWithoutWork" } THEN "finished" ELSE outcome

TerminalState(outcome) ==
    IF outcome \in { "CompletedJob", "ExitedIdleWithoutWork" } THEN "finished"
    ELSE IF outcome = "Orphaned" THEN "orphaned" ELSE "failed"

RequiredFrom(outcome) ==
    CASE outcome = "CompletedJob"          -> { "busy" }
      [] outcome = "ExitedIdleWithoutWork" -> { "idle" }
      [] OTHER                             -> ConcludableFrom

\* The guard of RunnerAttempt::conclude: the outcome is reachable from the
\* state, and the edge to its terminal state is legal.
CanConclude(state, outcome) ==
    /\ state \in RequiredFrom(outcome)
    /\ CanTransition(state, TerminalState(outcome))

-----------------------------------------------------------------------------
(***************************************************************************)
(* recovery_decision: what to do about an attempt found in `state`, given  *)
(* whether its process is alive, what GitHub lists ("unreachable",         *)
(* "absent", "idle" or "busy") and whether the deadline that applies to    *)
(* the state has passed since its last transition.                         *)
(***************************************************************************)
GithubObservation == { "unreachable", "absent", "idle", "busy" }

Decision(kind, arg) == [ kind |-> kind, arg |-> arg ]

\* Mutant: the handoff deadline is never applied.
RecoverUnstartedPatiently(state, alive, github, late) ==
    IF alive THEN Decision("Adopt", "-")
    ELSE IF github \in { "idle", "busy" }
         THEN Decision("Observe",
                       IF state = "allocated" THEN "jit_received" ELSE "starting")
    ELSE Decision("Wait", "-")

RecoverUnstarted(state, alive, github, late) ==
    IF alive THEN Decision("Adopt", "-")
    ELSE IF github \in { "idle", "busy" }
         THEN Decision("Observe",
                       IF state = "allocated" THEN "jit_received" ELSE "starting")
    ELSE IF late
         THEN Decision("Conclude",
                       IF state = "allocated" THEN "JitRequestFailed" ELSE "JitExpired")
    ELSE Decision("Wait", "-")

RecoverStarting(alive, github, late) ==
    IF github \in { "idle", "busy" } THEN Decision("Observe", github)
    ELSE IF ~alive THEN Decision("Conclude", "ProcessExitedUnexpectedly")
    ELSE IF ~late THEN Decision("Adopt", "-")
    ELSE Decision("Terminate", "RegistrationTimedOut")

RecoverIdle(alive, github, late) ==
    IF github = "busy" THEN Decision("Observe", "busy")
    ELSE IF github = "idle" THEN
         IF ~alive THEN Decision("Conclude", "Orphaned")
         ELSE IF late THEN Decision("Terminate", "ExitedIdleWithoutWork")
         ELSE Decision("Adopt", "-")
    ELSE IF alive THEN Decision("Adopt", "-")
    ELSE IF late THEN Decision("Conclude", "ExitedIdleWithoutWork")
    ELSE Decision("Conclude", "ProcessExitedUnexpectedly")

RecoveryDecision(state, alive, github, late) ==
    CASE state = "cleaned"                       -> Decision("Nothing", "-")
      [] state \in Terminal \ { "cleaned" }      -> Decision("Clean", "-")
      [] state \notin Terminal /\ github = "unreachable"
                                                 -> Decision("Defer", "-")
      [] OTHER ->
           CASE state \in { "allocated", "jit_received" }
                    -> RecoverUnstarted(state, alive, github, late)
             [] state = "starting" -> RecoverStarting(alive, github, late)
             [] state = "idle"     -> RecoverIdle(alive, github, late)
             [] state = "busy"     -> IF alive THEN Decision("Adopt", "-")
                                      ELSE Decision("Conclude", "Orphaned")
             [] OTHER              -> Decision("Wait", "-")
==============================================================================
