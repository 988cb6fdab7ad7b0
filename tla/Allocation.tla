------------------------------ MODULE Allocation ------------------------------
(***************************************************************************)
(* How a host decides to start runners.  The daemon runs one reconcile     *)
(* loop per target; every loop reads demand, computes how many runners its *)
(* policy still needs (crates/domain/src/capacity.rs) and starts them one  *)
(* at a time under the host-wide allocation lock                           *)
(* (crates/agent/src/reconcile.rs, Reconciler::start_runners).  The loops  *)
(* share the attempt journal and the host record, and an operator may      *)
(* rewrite the host capacity at any moment from another process.           *)
(*                                                                         *)
(* What happens to an attempt between its allocation and its cleanup is    *)
(* here any walk along the legal edges of Attempt; Lifecycle is the module *)
(* that says which edges the agent takes and why.                          *)
(***************************************************************************)
EXTENDS Attempt, Integers, FiniteSets

CONSTANTS
    Loops,       \* the target loops, each serving one autoscale policy
    Attempts,    \* identifiers the journal can hold; finitely many
    Isolated,    \* the loops whose policy runs isolated environments
    MinCapacity, \* [Loops -> Nat]: the policy's floor
    MaxCapacity, \* [Loops -> Nat \ {0}]: the policy's ceiling
    Capacities,  \* the values an operator may give the host capacity
    MaxDemand    \* bound on the queued jobs one poll reports

NoOne == "nobody"

ASSUME FiniteAttempts == IsFiniteSet(Attempts)
ASSUME LoopsAssumption == Isolated \subseteq Loops /\ NoOne \notin Loops
ASSUME CapacityAssumption ==
    /\ Capacities \subseteq Nat \ {0}
    /\ MaxDemand \in Nat
    /\ MinCapacity \in [Loops -> Nat]
    /\ MaxCapacity \in [Loops -> Nat \ {0}]
    /\ \A l \in Loops : MinCapacity[l] <= MaxCapacity[l]

VARIABLES
    journal,   \* attempt -> its row: the state and the policy that owns it
    capacity,  \* host_capacity in the host record
    lock,      \* who holds the allocation lock
    loop       \* the locals of each loop's start_runners

vars == <<journal, capacity, lock, loop>>

-----------------------------------------------------------------------------
\* Rows and counts

Unallocated == [ state |-> "none", owner |-> NoOne ]

Exists(a) == journal[a].state # "none"
Native(l) == l \notin Isolated

\* RunnerAttempt::counts_against_capacity, for a row that exists.
Counted(row) ==
    /\ row.state # "none"
    /\ CountsAgainstCapacity(row.state, Native(row.owner))

ActiveSet == { a \in Attempts : Counted(journal[a]) }
Active == Cardinality(ActiveSet)
ActiveOwnedSet(l) == { a \in ActiveSet : journal[a].owner = l }
ActiveOwned(l) == Cardinality(ActiveOwnedSet(l))

\* Runners already there, or on their way, that no job has taken yet.
UnassignedSupplySet(l) ==
    { a \in Attempts :
        /\ journal[a].owner = l
        /\ journal[a].state \in { "allocated", "preparing", "prepared",
                                  "jit_received", "starting", "idle" } }

-----------------------------------------------------------------------------
\* HostAllocator::allocate

\* Mutant: an unsigned subtraction written as a plain one.
WrappingSub(x, y) == x - y

SaturatingSub(x, y) == IF x >= y THEN x - y ELSE 0
AtMost(x, y) == IF x <= y THEN x ELSE y
Clamp(x, lo, hi) == IF x < lo THEN lo ELSE IF x > hi THEN hi ELSE x

Headroom == SaturatingSub(capacity, Active)

Target(l, demand) ==
    demand + SaturatingSub(ActiveOwned(l), Cardinality(UnassignedSupplySet(l)))

\* Mutant: the floor is applied, the ceiling is not.
FloorOnlyDesired(l, demand) ==
    IF Target(l, demand) < MinCapacity[l] THEN MinCapacity[l] ELSE Target(l, demand)

Desired(l, demand) == Clamp(Target(l, demand), MinCapacity[l], MaxCapacity[l])

ToStart(l, demand) ==
    AtMost(SaturatingSub(Desired(l, demand), ActiveOwned(l)), Headroom)

-----------------------------------------------------------------------------
(***************************************************************************)
(* A loop at rest has no locals.  pc says where start_runners stands:      *)
(* "polled" after the demand was read, "want" while it waits for the lock, *)
(* "decide" and "launch" and "launching" while it holds it.                *)
(***************************************************************************)
AtRest == [ pc |-> "rest", demand |-> 0, budget |-> 0, decided |-> FALSE,
            cap |-> 0, attempt |-> NoOne, started |-> 0 ]

HoldsLock == { "decide", "launch", "launching" }

LoopState ==
    [ pc : { "rest", "polled", "want" } \cup HoldsLock,
      demand : Nat, budget : Nat, decided : BOOLEAN, cap : Nat,
      attempt : Attempts \cup { NoOne }, started : Nat ]

TypeOK ==
    /\ journal \in [Attempts -> [ state : AttemptState \cup { "none" },
                                  owner : Loops \cup { NoOne } ]]
    /\ capacity \in Nat \ {0}
    /\ lock \in Loops \cup { NoOne }
    /\ loop \in [Loops -> LoopState]

Init ==
    /\ journal = [a \in Attempts |-> Unallocated]
    /\ capacity \in Capacities
    /\ lock = NoOne
    /\ loop = [l \in Loops |-> AtRest]

\* The demand a pass read stays what it was for the rest of the pass.
Poll(l) ==
    /\ loop[l].pc = "rest"
    /\ \E demand \in 0 .. MaxDemand :
         loop' = [loop EXCEPT ![l] = [AtRest EXCEPT !.pc = "polled", !.demand = demand]]
    /\ UNCHANGED <<journal, capacity, lock>>

\* The unlocked reading of start_runners: it decides whether to contend for
\* the lock at all, and bounds what the pass may start.
Intend(l) ==
    /\ loop[l].pc = "polled"
    /\ LET budget == ToStart(l, loop[l].demand)
       IN  loop' = [loop EXCEPT ![l] =
                      IF budget = 0 THEN AtRest
                      ELSE [@ EXCEPT !.pc = "want", !.budget = budget]]
    /\ UNCHANGED <<journal, capacity, lock>>

\* Mutant: the loop goes on although another one holds the lock.
AcquireRegardless(l) ==
    /\ loop[l].pc = "want"
    /\ lock' = l
    /\ loop' = [loop EXCEPT ![l].pc = "decide"]
    /\ UNCHANGED <<journal, capacity>>

Acquire(l) ==
    /\ loop[l].pc = "want"
    /\ lock = NoOne
    /\ lock' = l
    /\ loop' = [loop EXCEPT ![l].pc = "decide"]
    /\ UNCHANGED <<journal, capacity>>

\* The lock was refused: the bounded wait for it ran out, or a fence around it is
\* closed.  The rest of the budget is deferred to a later pass.
AcquireBusy(l) ==
    /\ loop[l].pc = "want"
    /\ loop' = [loop EXCEPT ![l] = AtRest]
    /\ UNCHANGED <<journal, capacity, lock>>

\* The host record or the journal could not be read, before the lock or under
\* it: nothing is granted, and the pass starts no more.
ReadFails(l) ==
    /\ loop[l].pc \in { "polled", "decide" }
    /\ loop' = [loop EXCEPT ![l] = AtRest]
    /\ lock' = IF loop[l].pc = "decide" THEN NoOne ELSE lock
    /\ UNCHANGED <<journal, capacity>>

\* Mutant: every round takes the fresh answer as its budget.
DecideAfresh(l) ==
    /\ loop[l].pc = "decide"
    /\ LET toStart == ToStart(l, loop[l].demand)
       IN  IF toStart = 0
           THEN /\ loop' = [loop EXCEPT ![l] = AtRest]
                /\ lock' = NoOne
           ELSE /\ loop' = [loop EXCEPT ![l] =
                              [@ EXCEPT !.pc = "launch", !.budget = toStart,
                                        !.decided = TRUE, !.cap = capacity]]
                /\ UNCHANGED lock
    /\ UNCHANGED <<journal, capacity>>

\* The same computation again, now under the lock.  Only the first one narrows
\* the budget; every one of them may end the pass.  The host record and the
\* journal are read back to back with no await between them, and the journal
\* holds every attempt this pass has launched, so one step reads both.
Decide(l) ==
    /\ loop[l].pc = "decide"
    /\ LET toStart == ToStart(l, loop[l].demand)
           budget  == IF loop[l].decided THEN loop[l].budget
                      ELSE AtMost(loop[l].budget, toStart)
       IN  IF toStart = 0 \/ budget = 0
           THEN /\ loop' = [loop EXCEPT ![l] = AtRest]
                /\ lock' = NoOne
           ELSE /\ loop' = [loop EXCEPT ![l] =
                              [@ EXCEPT !.pc = "launch", !.budget = budget,
                                        !.decided = TRUE, !.cap = capacity]]
                /\ UNCHANGED lock
    /\ UNCHANGED <<journal, capacity>>

\* allocate_attempt: the row is journalled before any external effect.
Allocate(l) ==
    /\ loop[l].pc = "launch"
    /\ \E a \in Attempts :
         /\ ~Exists(a)
         /\ journal' = [journal EXCEPT ![a] = [ state |-> "allocated", owner |-> l ]]
         /\ loop' = [loop EXCEPT ![l].pc = "launching", ![l].attempt = a]
    /\ UNCHANGED <<capacity, lock>>

\* The host is unfit, the provider is not ready or no workspace could be placed.
RefuseLaunch(l) ==
    /\ loop[l].pc = "launch"
    /\ loop' = [loop EXCEPT ![l] = AtRest]
    /\ lock' = NoOne
    /\ UNCHANGED <<journal, capacity>>

\* launch returned an attempt: the guard is dropped and the loop goes round
\* again while the pass still has budget.
LaunchOk(l) ==
    /\ loop[l].pc = "launching"
    /\ journal[loop[l].attempt].state = "starting"
    /\ lock' = NoOne
    /\ loop' = [loop EXCEPT ![l] =
                  IF loop[l].budget <= 1 THEN AtRest
                  ELSE [@ EXCEPT !.pc = "want", !.budget = loop[l].budget - 1,
                                 !.attempt = NoOne, !.started = loop[l].started + 1]]
    /\ UNCHANGED <<journal, capacity>>

\* launch failed; whatever it journalled stays, and the pass starts no more.
LaunchErr(l) ==
    /\ loop[l].pc = "launching"
    /\ lock' = NoOne
    /\ loop' = [loop EXCEPT ![l] = AtRest]
    /\ UNCHANGED <<journal, capacity>>

(***************************************************************************)
(* The rest of the system.                                                 *)
(***************************************************************************)
\* begin_prepare, mark_prepared, begin_destroy and defer_cleanup refuse a native
\* attempt, clean refuses an isolated one.
IsolatedOnly == { "preparing", "prepared", "destroying", "cleanup_deferred" }

MayTake(native, from, to) ==
    /\ CanTransition(from, to)
    /\ IF native THEN to \notin IsolatedOnly
       ELSE ~(from \in Concluded /\ to = "cleaned")

Advance(a) ==
    /\ Exists(a)
    /\ \E s \in AttemptState :
         /\ MayTake(Native(journal[a].owner), journal[a].state, s)
         /\ journal' = [journal EXCEPT ![a].state = s]
    /\ UNCHANGED <<capacity, lock, loop>>

\* An operator rewrites the host record from another process, with no lock.
SetHostCapacity ==
    /\ capacity' \in Capacities \ { capacity }
    /\ UNCHANGED <<journal, lock, loop>>

\* The daemon dies: the loops' locals and the operating system's file lock go,
\* the journal and the host record stay.
Crash ==
    /\ loop' = [l \in Loops |-> AtRest]
    /\ lock' = NoOne
    /\ UNCHANGED <<journal, capacity>>

Next ==
    \/ \E l \in Loops :
          \/ Poll(l) \/ Intend(l) \/ Acquire(l) \/ AcquireBusy(l) \/ ReadFails(l)
          \/ Decide(l) \/ Allocate(l) \/ RefuseLaunch(l) \/ LaunchOk(l) \/ LaunchErr(l)
    \/ \E a \in Attempts : Advance(a)
    \/ SetHostCapacity
    \/ Crash

Spec == Init /\ [][Next]_vars

-----------------------------------------------------------------------------
(***************************************************************************)
(* Properties                                                              *)
(***************************************************************************)

\* A loop between "read the headroom" and "journal the attempt" is alone there:
\* it holds the lock, and the slot it was granted is still free under the
\* capacity it read.  Two target loops that both saw the last free slot before
\* contending for the lock (reconcile.rs, start_runners) never both take it.
GrantStillFits ==
    \A l \in Loops : loop[l].pc = "launch" => lock = l /\ Active < loop[l].cap

\* A start fits the capacity its loop read under the lock.
StartsFitTheHost ==
    \A l \in Loops :
        loop[l].pc = "launch" /\ loop'[l].pc = "launching" => Cardinality(ActiveSet') <= loop[l].cap

\* A slot is occupied by a new attempt of the loop that holds the lock.
OnlyAllocationOccupies ==
    \A a \in Attempts :
        Counted(journal'[a]) /\ ~Counted(journal[a]) =>
            ~Exists(a) /\ lock = journal'[a].owner /\ loop[lock].pc = "launch"

\* The count of the host grows only by a start that fits it, whatever other
\* loops, crashes and an operator's rewrite of the host record do in between: no
\* legal edge, late cleanup or crash brings a terminal attempt back into the count
\* (start_runners, HostAllocator::allocate, counts_against_capacity).
CapacityRespected == [][ StartsFitTheHost /\ OnlyAllocationOccupies ]_vars

\* A policy never holds more runners than its max_capacity, although the count
\* it is checked against is read before the attempt is journalled.
PolicyCeiling == \A l \in Loops : ActiveOwned(l) <= MaxCapacity[l]

\* A pass starts no more runners than the demand it read, or the policy's floor
\* when that is larger: a runner that turned busy while the pass was still
\* launching raises the target, and only the budget of the first decision
\* (reconcile.rs, `budget.min(allocation.to_start)`) keeps the same queued job
\* from being answered twice.
StartsWithinDemand ==
    \A l \in Loops :
        loop[l].pc \in { "want" } \cup HoldsLock =>
            loop[l].started + loop[l].budget
                <= Clamp(loop[l].demand, MinCapacity[l], MaxCapacity[l])
==============================================================================
