---------------------------- MODULE AttemptJournal ----------------------------
(***************************************************************************)
(* What the journal promises about one attempt, whoever writes it: the row *)
(* is opened once, walks legal edges, receives exactly one verdict, only   *)
(* from a state that can have it, and is then cleaned and never touched    *)
(* again (RunnerAttempt, crates/domain/src/attempt.rs).  The process id    *)
(* and the runner id, once recorded, stay.                                 *)
(*                                                                         *)
(* The store itself enforces none of this: record_attempt replaces the     *)
(* row.  Lifecycle implements it because of who writes when.               *)
(***************************************************************************)
EXTENDS Attempt

CONSTANT Attempts
VARIABLE rows

Unopened == [ state |-> "none", outcome |-> "-", rid |-> FALSE, pid |-> FALSE ]

Init == rows = [a \in Attempts |-> Unopened]

Open(a) ==
    /\ rows[a] = Unopened
    /\ rows' = [rows EXCEPT ![a].state = "allocated"]

Walk(a) ==
    \E s \in ConcludableFrom :
        /\ CanTransition(rows[a].state, s)
        /\ rows' = [rows EXCEPT ![a].state = s,
                                ![a].pid = @ \/ s = "starting",
                                ![a].rid = @ \/ s \in { "idle", "busy" }]

Conclude(a) ==
    \E outcome \in AttemptOutcome :
        /\ CanConclude(rows[a].state, outcome)
        /\ rows' = [rows EXCEPT ![a].state = TerminalState(outcome), ![a].outcome = outcome]

Clean(a) ==
    /\ rows[a].state \in Concluded
    /\ rows' = [rows EXCEPT ![a].state = "cleaned"]

Next == \E a \in Attempts : Open(a) \/ Walk(a) \/ Conclude(a) \/ Clean(a)

Spec == Init /\ [][Next]_rows
===============================================================================
