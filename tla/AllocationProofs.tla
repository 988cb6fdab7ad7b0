--------------------------- MODULE AllocationProofs ---------------------------
(***************************************************************************)
(* Proofs about Allocation, for any number of loops, any journal, any      *)
(* policy bounds and any sequence of host-capacity rewrites.               *)
(*                                                                         *)
(* None of the properties is inductive alone.  What makes them so is that  *)
(* a loop inside its critical section holds the lock (LockHeld), that its  *)
(* policy still has room when it is about to journal (GrantWithinPolicy),  *)
(* that a pass which has only polled has started nothing (FreshPass) and   *)
(* that a row which exists has an owner (RowOwned).                        *)
(***************************************************************************)
EXTENDS Allocation, FiniteSetTheorems, TLAPS

RowOwned == \A a \in Attempts : Exists(a) => journal[a].owner \in Loops

LockHeld == \A l \in Loops : loop[l].pc \in HoldsLock => lock = l

GrantWithinPolicy ==
    \A l \in Loops : loop[l].pc = "launch" => ActiveOwned(l) < MaxCapacity[l]

FreshPass == \A l \in Loops : loop[l].pc = "polled" => loop[l].started = 0

IInv ==
    /\ TypeOK
    /\ FreshPass
    /\ RowOwned
    /\ LockHeld
    /\ GrantStillFits
    /\ GrantWithinPolicy
    /\ PolicyCeiling
    /\ StartsWithinDemand

-----------------------------------------------------------------------------
(* Facts about the attempt diagram and about counting. *)

\* No edge an attempt may take leads from an uncounted state to a counted one:
\* a slot that was given back is never silently taken again.
LEMMA EdgesNeverOccupy ==
    ASSUME NEW native \in BOOLEAN, NEW from, NEW to,
           MayTake(native, from, to), CountsAgainstCapacity(to, native)
    PROVE  CountsAgainstCapacity(from, native)
BY DEF MayTake, CanTransition, LEGAL, CountsAgainstCapacity, Terminal, Concluded,
       ConcludableFrom, IsolatedOnly

\* The counted attempts are finitely many, and so are those of one policy.
LEMMA CountsAreNaturals ==
    /\ IsFiniteSet(ActiveSet)
    /\ Active \in Nat
    /\ \A l : IsFiniteSet(ActiveOwnedSet(l)) /\ ActiveOwned(l) \in Nat
    /\ \A l : Cardinality(UnassignedSupplySet(l)) \in Nat
BY FiniteAttempts, FS_Subset, FS_CardinalityType
   DEF ActiveSet, Active, ActiveOwnedSet, ActiveOwned, UnassignedSupplySet

\* A step that leaves the journal alone leaves every count alone.
LEMMA SameJournalSameCounts ==
    ASSUME UNCHANGED journal
    PROVE  /\ ActiveSet' = ActiveSet /\ Active' = Active
           /\ \A l : ActiveOwnedSet(l)' = ActiveOwnedSet(l)
           /\ \A l : ActiveOwned(l)' = ActiveOwned(l)
BY DEF ActiveSet, Active, ActiveOwnedSet, ActiveOwned, Counted, Native

\* A walk along the diagram only ever gives slots back.
LEMMA AdvanceShrinks ==
    ASSUME TypeOK, NEW a \in Attempts, Advance(a)
    PROVE  /\ ActiveSet' \subseteq ActiveSet
           /\ \A l : ActiveOwnedSet(l)' \subseteq ActiveOwnedSet(l)
           /\ Active' \in Nat /\ Active' <= Active
           /\ \A l : ActiveOwned(l)' \in Nat /\ ActiveOwned(l)' <= ActiveOwned(l)
<1>1. PICK s \in AttemptState :
          /\ MayTake(Native(journal[a].owner), journal[a].state, s)
          /\ journal' = [journal EXCEPT ![a].state = s]
  BY DEF Advance
<1>2. \A b \in Attempts : Counted(journal[b])' => Counted(journal[b])
  <2> SUFFICES ASSUME NEW b \in Attempts, Counted(journal'[b])
               PROVE  Counted(journal[b])
    BY DEF Counted
  <2>1. CASE b = a
    <3>1. journal'[a].state = s /\ journal'[a].owner = journal[a].owner
      BY <1>1 DEF TypeOK
    <3>2. CountsAgainstCapacity(s, Native(journal[a].owner))
      BY <2>1, <3>1 DEF Counted
    <3>3. CountsAgainstCapacity(journal[a].state, Native(journal[a].owner))
      BY <1>1, <3>2, EdgesNeverOccupy DEF Native
    <3> QED BY <2>1, <3>3 DEF Counted, Advance, Exists
  <2>2. CASE b # a
    BY <1>1, <2>2 DEF Counted, TypeOK
  <2> QED BY <2>1, <2>2
<1>3. \A b \in Attempts : journal'[b].owner = journal[b].owner
  BY <1>1 DEF TypeOK
<1>4. ActiveSet' \subseteq ActiveSet
  BY <1>2 DEF ActiveSet
<1>5. \A l : ActiveOwnedSet(l)' \subseteq ActiveOwnedSet(l)
  BY <1>3, <1>4 DEF ActiveOwnedSet, ActiveSet
<1> QED
  BY <1>4, <1>5, CountsAreNaturals, FS_Subset, FS_CardinalityType DEF Active, ActiveOwned

\* Journalling an attempt takes exactly one slot, of the loop that journalled it.
LEMMA AllocateTakesOne ==
    ASSUME TypeOK, NEW l \in Loops, Allocate(l)
    PROVE  /\ Active' = Active + 1
           /\ ActiveOwned(l)' = ActiveOwned(l) + 1
           /\ \A k \in Loops \ {l} : ActiveOwned(k)' = ActiveOwned(k)
<1>1. PICK a \in Attempts :
          /\ ~Exists(a)
          /\ journal' = [journal EXCEPT ![a] = [ state |-> "allocated", owner |-> l ]]
  BY DEF Allocate
<1>2. ~Counted(journal[a]) /\ Counted(journal'[a]) /\ journal'[a].owner = l
  BY <1>1 DEF Counted, Exists, TypeOK, CountsAgainstCapacity, Terminal, Concluded
<1>3. \A b \in Attempts \ {a} : journal'[b] = journal[b]
  BY <1>1 DEF TypeOK
<1>4. ActiveSet' = ActiveSet \cup {a} /\ a \notin ActiveSet
  <2>1. ActiveSet' = { b \in Attempts : Counted(journal'[b]) }
    BY DEF ActiveSet, Counted, Native
  <2>2. \A b \in Attempts \ {a} : Counted(journal'[b]) <=> Counted(journal[b])
    BY <1>3
  <2> QED BY <1>2, <2>1, <2>2 DEF ActiveSet
<1>5. ActiveOwnedSet(l)' = ActiveOwnedSet(l) \cup {a} /\ a \notin ActiveOwnedSet(l)
  BY <1>2, <1>3, <1>4 DEF ActiveOwnedSet, ActiveSet
<1>6. \A k \in Loops \ {l} : ActiveOwnedSet(k)' = ActiveOwnedSet(k)
  BY <1>2, <1>3, <1>4 DEF ActiveOwnedSet, ActiveSet
<1>7. Active' = Active + 1
  BY <1>4, CountsAreNaturals, FS_AddElement DEF Active
<1>8. ActiveOwned(l)' = ActiveOwned(l) + 1
  BY <1>5, CountsAreNaturals, FS_AddElement DEF ActiveOwned
<1> QED BY <1>6, <1>7, <1>8 DEF ActiveOwned

\* What HostAllocator::allocate grants: never more than the clamped demand, and
\* only into room that both the host and the policy still have.
LEMMA GrantIsBounded ==
    ASSUME NEW l \in Loops, NEW demand \in Nat, capacity \in Nat
    PROVE  /\ ToStart(l, demand) \in Nat
           /\ ToStart(l, demand) <= Clamp(demand, MinCapacity[l], MaxCapacity[l])
           /\ ToStart(l, demand) > 0 =>
                Active < capacity /\ ActiveOwned(l) < MaxCapacity[l]
<1>1. MinCapacity[l] \in Nat /\ MaxCapacity[l] \in Nat /\ MinCapacity[l] <= MaxCapacity[l]
  BY CapacityAssumption
<1>2. Active \in Nat /\ ActiveOwned(l) \in Nat /\ Cardinality(UnassignedSupplySet(l)) \in Nat
  BY CountsAreNaturals
<1> QED BY <1>1, <1>2
           DEF ToStart, Desired, Target, Headroom, SaturatingSub, AtMost, Clamp

-----------------------------------------------------------------------------
(* The inductive invariant. *)

LEMMA InitIInv == Init => IInv
<1> SUFFICES ASSUME Init PROVE IInv
  OBVIOUS
<1>1. TypeOK
  BY CapacityAssumption DEF Init, TypeOK, Unallocated, LoopState, AtRest, HoldsLock
<1>2. RowOwned
  BY DEF Init, RowOwned, Exists, Unallocated
<1>3. \A l \in Loops : loop[l].pc = "rest"
  BY DEF Init, AtRest
<1>4. \A l : ActiveOwned(l) = 0
  <2>1. ActiveSet = {}
    BY DEF Init, ActiveSet, Counted, Unallocated
  <2> QED BY <2>1, FS_EmptySet DEF ActiveOwned, ActiveOwnedSet
<1>5. PolicyCeiling
  BY <1>4, CapacityAssumption DEF PolicyCeiling
<1> QED
  BY <1>1, <1>2, <1>3, <1>5
     DEF IInv, FreshPass, LockHeld, GrantStillFits, GrantWithinPolicy,
         StartsWithinDemand, HoldsLock

\* A loop that ends its pass, with or without giving the lock back, keeps the
\* invariant.
LEMMA Resting ==
    ASSUME IInv, NEW l \in Loops,
           loop' = [loop EXCEPT ![l] = AtRest],
           lock' = lock \/ (lock = l /\ lock' = NoOne),
           UNCHANGED <<journal, capacity>>
    PROVE  IInv'
<1>1. TypeOK'
  BY DEF IInv, TypeOK, LoopState, AtRest, HoldsLock
<1>2. loop'[l].pc = "rest" /\ \A k \in Loops \ {l} : loop'[k] = loop[k]
  BY DEF IInv, TypeOK, AtRest
<1>3. RowOwned' /\ PolicyCeiling'
  BY SameJournalSameCounts DEF IInv, RowOwned, Exists, PolicyCeiling
<1>4. LockHeld'
  BY <1>2, LoopsAssumption DEF IInv, LockHeld, HoldsLock
<1>5. GrantStillFits'
  BY <1>2, <1>4, SameJournalSameCounts DEF IInv, GrantStillFits, LockHeld, HoldsLock
<1>6. GrantWithinPolicy'
  BY <1>2, SameJournalSameCounts DEF IInv, GrantWithinPolicy
<1>7. StartsWithinDemand' /\ FreshPass'
  BY <1>2 DEF IInv, StartsWithinDemand, HoldsLock, FreshPass
<1> QED BY <1>1, <1>3, <1>4, <1>5, <1>6, <1>7 DEF IInv

\* A loop that moves on without touching the journal, the host record or any
\* other loop keeps the invariant, provided its own new locals are sound.
LEMMA Moving ==
    ASSUME IInv, NEW l \in Loops, NEW new \in LoopState,
           loop' = [loop EXCEPT ![l] = new],
           lock' = lock \/ (lock = NoOne /\ lock' = l)
                        \/ (lock = l /\ lock' = NoOne),
           UNCHANGED <<journal, capacity>>,
           new.pc \in HoldsLock => lock' = l,
           new.pc = "polled" => new.started = 0,
           new.pc = "launch" => Active < new.cap /\ ActiveOwned(l) < MaxCapacity[l],
           new.pc \in { "want" } \cup HoldsLock =>
              new.started + new.budget
                  <= Clamp(new.demand, MinCapacity[l], MaxCapacity[l])
    PROVE  IInv'
<1>1. loop'[l] = new /\ \A k \in Loops \ {l} : loop'[k] = loop[k]
  BY DEF IInv, TypeOK
<1>2. TypeOK'
  BY DEF IInv, TypeOK
<1>3. RowOwned' /\ PolicyCeiling'
  BY SameJournalSameCounts DEF IInv, RowOwned, Exists, PolicyCeiling
<1>4. LockHeld'
  BY <1>1, LoopsAssumption DEF IInv, LockHeld
<1>5. GrantStillFits'
  BY <1>1, <1>4, SameJournalSameCounts DEF IInv, GrantStillFits, LockHeld, HoldsLock
<1>6. GrantWithinPolicy'
  BY <1>1, SameJournalSameCounts DEF IInv, GrantWithinPolicy
<1>7. StartsWithinDemand' /\ FreshPass'
  BY <1>1 DEF IInv, StartsWithinDemand, FreshPass
<1> QED BY <1>2, <1>3, <1>4, <1>5, <1>6, <1>7 DEF IInv

LEMMA NextIInv == IInv /\ [Next]_vars => IInv'
<1> SUFFICES ASSUME IInv, [Next]_vars PROVE IInv'
  OBVIOUS
<1> USE DEF HoldsLock
<1>1. CASE UNCHANGED vars
  <2>1. UNCHANGED <<journal, capacity, lock, loop>>
    BY <1>1 DEF vars
  <2> QED
    BY <2>1, SameJournalSameCounts
       DEF IInv, TypeOK, FreshPass, RowOwned, Exists, LockHeld, GrantStillFits,
           GrantWithinPolicy, PolicyCeiling, StartsWithinDemand
<1>2. ASSUME NEW l \in Loops, Poll(l) PROVE IInv'
  <2>1. PICK demand \in 0 .. MaxDemand :
          loop' = [loop EXCEPT ![l] = [AtRest EXCEPT !.pc = "polled", !.demand = demand]]
    BY <1>2 DEF Poll
  <2>2. demand \in Nat
    BY CapacityAssumption
  <2> DEFINE new == [AtRest EXCEPT !.pc = "polled", !.demand = demand]
  <2>3. new \in LoopState /\ new.pc = "polled" /\ new.started = 0
    BY <2>2 DEF AtRest, LoopState
  <2> QED BY <1>2, <2>1, <2>3, Moving DEF Poll
<1>3. ASSUME NEW l \in Loops, Intend(l) PROVE IInv'
  <2> DEFINE budget == ToStart(l, loop[l].demand)
  <2>1. budget \in Nat
        /\ budget <= Clamp(loop[l].demand, MinCapacity[l], MaxCapacity[l])
    BY GrantIsBounded DEF IInv, TypeOK, LoopState
  <2>2. CASE budget = 0
    BY <1>3, <2>2, Resting DEF Intend
  <2>3. CASE budget # 0
    <3> DEFINE new == [loop[l] EXCEPT !.pc = "want", !.budget = budget]
    <3>1. new \in LoopState /\ new.pc = "want" /\ new.budget = budget
          /\ new.demand = loop[l].demand /\ new.started = loop[l].started
      BY <2>1 DEF IInv, TypeOK, LoopState
    <3>2. loop[l].started = 0
      BY <1>3 DEF Intend, IInv, FreshPass
    <3>3. loop' = [loop EXCEPT ![l] = new] /\ lock' = lock
          /\ UNCHANGED <<journal, capacity>>
      BY <1>3, <2>3 DEF Intend
    <3>4. new.started + new.budget <= Clamp(new.demand, MinCapacity[l], MaxCapacity[l])
      BY <2>1, <3>1, <3>2
    <3> HIDE DEF new
    <3> QED BY <3>1, <3>3, <3>4, Moving
  <2> QED BY <2>2, <2>3
<1>4. ASSUME NEW l \in Loops, Acquire(l) PROVE IInv'
  <2> DEFINE new == [loop[l] EXCEPT !.pc = "decide"]
  <2>1. new \in LoopState /\ new.pc = "decide" /\ new.budget = loop[l].budget
        /\ new.demand = loop[l].demand /\ new.started = loop[l].started
    BY DEF IInv, TypeOK, LoopState
  <2>2. loop' = [loop EXCEPT ![l] = new]
    BY <1>4 DEF Acquire
  <2>3. loop[l].started + loop[l].budget
          <= Clamp(loop[l].demand, MinCapacity[l], MaxCapacity[l])
    BY <1>4 DEF Acquire, IInv, StartsWithinDemand
  <2> QED BY <1>4, <2>1, <2>2, <2>3, Moving DEF Acquire
<1>5. ASSUME NEW l \in Loops, AcquireBusy(l) PROVE IInv'
  BY <1>5, Resting DEF AcquireBusy
<1>6. ASSUME NEW l \in Loops, Decide(l) PROVE IInv'
  <2> DEFINE toStart == ToStart(l, loop[l].demand)
             budget  == IF loop[l].decided THEN loop[l].budget
                        ELSE AtMost(loop[l].budget, toStart)
             new == [loop[l] EXCEPT !.pc = "launch", !.budget = budget,
                                    !.decided = TRUE, !.cap = capacity]
  <2>1. lock = l /\ loop[l].started + loop[l].budget
          <= Clamp(loop[l].demand, MinCapacity[l], MaxCapacity[l])
    BY <1>6 DEF Decide, IInv, LockHeld, StartsWithinDemand
  <2>2. loop[l] \in LoopState /\ capacity \in Nat
    BY DEF IInv, TypeOK
  <2>3. toStart \in Nat
        /\ (toStart > 0 => Active < capacity /\ ActiveOwned(l) < MaxCapacity[l])
    BY <2>2, GrantIsBounded DEF LoopState
  <2>4. budget \in Nat /\ budget <= loop[l].budget
    BY <2>2, <2>3 DEF LoopState, AtMost
  <2>5. CASE toStart = 0 \/ budget = 0
    BY <1>6, <2>1, <2>5, Resting DEF Decide
  <2>6. CASE ~(toStart = 0 \/ budget = 0)
    <3>1. loop' = [loop EXCEPT ![l] = new] /\ lock' = lock
          /\ UNCHANGED <<journal, capacity>>
      BY <1>6, <2>6 DEF Decide
    <3>2. new \in LoopState /\ new.pc = "launch" /\ new.budget = budget
          /\ new.demand = loop[l].demand /\ new.started = loop[l].started
          /\ new.cap = capacity
      BY <2>2, <2>4 DEF LoopState
    <3>3. MinCapacity[l] \in Nat /\ MaxCapacity[l] \in Nat
      BY CapacityAssumption
    <3>4. new.started + new.budget <= Clamp(new.demand, MinCapacity[l], MaxCapacity[l])
      BY <2>1, <2>2, <2>4, <3>2, <3>3 DEF LoopState, Clamp
    <3>5. Active < new.cap /\ ActiveOwned(l) < MaxCapacity[l]
      BY <2>3, <2>6, <3>2
    <3> HIDE DEF new
    <3> QED BY <2>1, <3>1, <3>2, <3>4, <3>5, Moving
  <2> QED BY <2>5, <2>6
<1>7. ASSUME NEW l \in Loops, Allocate(l) PROVE IInv'
  <2>1. PICK a \in Attempts :
          /\ journal' = [journal EXCEPT ![a] = [ state |-> "allocated", owner |-> l ]]
          /\ loop' = [loop EXCEPT ![l].pc = "launching", ![l].attempt = a]
    BY <1>7 DEF Allocate
  <2>2. UNCHANGED <<capacity, lock>> /\ loop[l].pc = "launch" /\ lock = l
    BY <1>7 DEF Allocate, IInv, LockHeld
  <2>3. /\ \A k \in Loops \ {l} : loop'[k] = loop[k]
        /\ loop'[l].pc = "launching" /\ loop'[l].budget = loop[l].budget
        /\ loop'[l].demand = loop[l].demand /\ loop'[l].started = loop[l].started
    BY <2>1 DEF IInv, TypeOK, LoopState
  <2>4. TypeOK'
    <3>1. [ state |-> "allocated", owner |-> l ]
            \in [ state : AttemptState \cup { "none" }, owner : Loops \cup { NoOne } ]
      BY DEF AttemptState
    <3>2. journal' \in [Attempts -> [ state : AttemptState \cup { "none" },
                                      owner : Loops \cup { NoOne } ]]
      BY <2>1, <3>1 DEF IInv, TypeOK
    <3> DEFINE new == [loop[l] EXCEPT !.pc = "launching", !.attempt = a]
    <3>3. new \in LoopState
      <4>1. loop[l] \in LoopState
        BY DEF IInv, TypeOK
      <4> QED BY <4>1 DEF LoopState
    <3>4. loop' = [loop EXCEPT ![l] = new]
      BY <2>1
    <3>5. loop' \in [Loops -> LoopState]
      <4> HIDE DEF new
      <4> QED BY <3>3, <3>4 DEF IInv, TypeOK
    <3> QED BY <2>2, <3>2, <3>5 DEF IInv, TypeOK
  <2>5. RowOwned'
    BY <2>1 DEF IInv, TypeOK, RowOwned, Exists
  <2>6. LockHeld'
    BY <2>2, <2>3 DEF IInv, LockHeld
  <2>7. GrantStillFits' /\ GrantWithinPolicy'
    BY <2>2, <2>3, <2>6 DEF GrantStillFits, GrantWithinPolicy, LockHeld
  <2>8. PolicyCeiling'
    <3>1. ActiveOwned(l) < MaxCapacity[l] /\ ActiveOwned(l) \in Nat
          /\ MaxCapacity[l] \in Nat
      BY <2>2, CountsAreNaturals, CapacityAssumption DEF IInv, GrantWithinPolicy
    <3> QED BY <1>7, <3>1, AllocateTakesOne DEF IInv, PolicyCeiling
  <2>9. StartsWithinDemand' /\ FreshPass'
    BY <2>2, <2>3 DEF IInv, StartsWithinDemand, FreshPass
  <2> QED BY <2>4, <2>5, <2>6, <2>7, <2>8, <2>9 DEF IInv
<1>8. ASSUME NEW l \in Loops, RefuseLaunch(l) \/ LaunchErr(l) PROVE IInv'
  <2>1. lock = l
    BY <1>8 DEF RefuseLaunch, LaunchErr, IInv, LockHeld
  <2> QED BY <1>8, <2>1, Resting DEF RefuseLaunch, LaunchErr
<1>13. ASSUME NEW l \in Loops, ReadFails(l) PROVE IInv'
  <2>1. loop[l].pc = "decide" => lock = l
    BY DEF IInv, LockHeld
  <2> QED BY <1>13, <2>1, Resting DEF ReadFails
<1>9. ASSUME NEW l \in Loops, LaunchOk(l) PROVE IInv'
  <2>1. lock = l /\ loop[l].started + loop[l].budget
          <= Clamp(loop[l].demand, MinCapacity[l], MaxCapacity[l])
    BY <1>9 DEF LaunchOk, IInv, LockHeld, StartsWithinDemand
  <2>2. CASE loop[l].budget <= 1
    <3>1. loop' = [loop EXCEPT ![l] = AtRest] /\ lock' = NoOne
          /\ UNCHANGED <<journal, capacity>>
      BY <1>9, <2>2 DEF LaunchOk
    <3> QED BY <2>1, <3>1, Resting
  <2>3. CASE ~(loop[l].budget <= 1)
    <3> DEFINE new == [loop[l] EXCEPT !.pc = "want", !.budget = loop[l].budget - 1,
                                      !.attempt = NoOne, !.started = loop[l].started + 1]
    <3>1. loop[l] \in LoopState /\ loop[l].budget - 1 \in Nat
      BY <2>3 DEF IInv, TypeOK, LoopState
    <3>2. new \in LoopState /\ new.pc = "want" /\ new.demand = loop[l].demand
          /\ new.started = loop[l].started + 1 /\ new.budget = loop[l].budget - 1
      <4>1. loop[l].started + 1 \in Nat
        BY <3>1 DEF LoopState
      <4>2. DOMAIN loop[l] = { "pc", "demand", "budget", "decided", "cap",
                               "attempt", "started" }
        BY <3>1 DEF LoopState
      <4> QED BY <3>1, <4>1, <4>2 DEF LoopState
    <3>3. loop' = [loop EXCEPT ![l] = new] /\ lock' = NoOne
          /\ UNCHANGED <<journal, capacity>>
      BY <1>9, <2>3 DEF LaunchOk
    <3>4. new.started + new.budget <= Clamp(new.demand, MinCapacity[l], MaxCapacity[l])
      <4>1. new.started + new.budget = loop[l].started + loop[l].budget
        BY <3>1, <3>2 DEF LoopState
      <4> QED BY <2>1, <3>2, <4>1
    <3> HIDE DEF new
    <3> QED BY <2>1, <3>2, <3>3, <3>4, Moving
  <2> QED BY <2>2, <2>3
<1>10. ASSUME NEW a \in Attempts, Advance(a) PROVE IInv'
  <2>1. PICK s \in AttemptState : journal' = [journal EXCEPT ![a].state = s]
    BY <1>10 DEF Advance
  <2>2. UNCHANGED <<capacity, lock, loop>>
    BY <1>10 DEF Advance
  <2>3. TypeOK'
    BY <2>1, <2>2 DEF IInv, TypeOK
  <2>4. RowOwned'
    BY <1>10, <2>1 DEF IInv, TypeOK, RowOwned, Exists, Advance
  <2>5. LockHeld' /\ StartsWithinDemand' /\ FreshPass'
    BY <2>2 DEF IInv, LockHeld, StartsWithinDemand, FreshPass
  <2>6. /\ Active \in Nat /\ Active' \in Nat /\ Active' <= Active
        /\ \A l : ActiveOwned(l) \in Nat /\ ActiveOwned(l)' \in Nat
                  /\ ActiveOwned(l)' <= ActiveOwned(l)
    BY <1>10, AdvanceShrinks, CountsAreNaturals DEF IInv
  <2>7. GrantStillFits'
    BY <2>2, <2>6 DEF IInv, TypeOK, LoopState, GrantStillFits
  <2>8. GrantWithinPolicy' /\ PolicyCeiling'
    BY <2>2, <2>6, CapacityAssumption DEF IInv, GrantWithinPolicy, PolicyCeiling
  <2> QED BY <2>3, <2>4, <2>5, <2>7, <2>8 DEF IInv
<1>11. CASE SetHostCapacity
  <2>1. TypeOK'
    BY <1>11, CapacityAssumption DEF SetHostCapacity, IInv, TypeOK
  <2> QED
    BY <1>11, <2>1, SameJournalSameCounts
       DEF SetHostCapacity, IInv, FreshPass, RowOwned, Exists, LockHeld,
           GrantStillFits, GrantWithinPolicy, PolicyCeiling, StartsWithinDemand
<1>12. CASE Crash
  <2>1. TypeOK'
    BY <1>12 DEF Crash, IInv, TypeOK, LoopState, AtRest
  <2>2. \A l \in Loops : loop'[l].pc = "rest"
    BY <1>12 DEF Crash, AtRest
  <2>3. RowOwned' /\ PolicyCeiling'
    BY <1>12, SameJournalSameCounts DEF Crash, IInv, RowOwned, Exists, PolicyCeiling
  <2> QED
    BY <2>1, <2>2, <2>3
       DEF IInv, FreshPass, LockHeld, GrantStillFits, GrantWithinPolicy,
           StartsWithinDemand
<1> QED
  BY <1>1, <1>2, <1>3, <1>4, <1>5, <1>6, <1>7, <1>8, <1>9, <1>10, <1>11, <1>12,
     <1>13 DEF Next

-----------------------------------------------------------------------------
(* The theorems. *)

LEMMA Inductive == Spec => []IInv
BY InitIInv, NextIInv, PTL DEF Spec

\* Every loop's locals and every journal row stay in their types.
THEOREM TypeCorrect == Spec => []TypeOK
<1>1. IInv => TypeOK
  BY DEF IInv
<1> QED BY <1>1, Inductive, PTL

\* However many loops contend, and however the host record is rewritten
\* meanwhile, the slot a loop was granted under the lock is still free when it
\* journals the attempt (start_runners, HostAllocator::allocate).
THEOREM NoDoubleGrant == Spec => []GrantStillFits
<1>1. IInv => GrantStillFits
  BY DEF IInv
<1> QED BY <1>1, Inductive, PTL

\* No policy ever exceeds its max_capacity.
THEOREM CeilingHolds == Spec => []PolicyCeiling
<1>1. IInv => PolicyCeiling
  BY DEF IInv
<1> QED BY <1>1, Inductive, PTL

\* A pass answers a demand reading once: what it has started and what it may
\* still start stay within the clamped demand.
THEOREM DemandAnsweredOnce == Spec => []StartsWithinDemand
<1>1. IInv => StartsWithinDemand
  BY DEF IInv
<1> QED BY <1>1, Inductive, PTL

\* The attempt a loop journals fits the host capacity that loop read.
LEMMA StartsFit == IInv /\ [Next]_vars => StartsFitTheHost
<1>1. ASSUME IInv, [Next]_vars, NEW l \in Loops,
             loop[l].pc = "launch", loop'[l].pc = "launching"
      PROVE  Cardinality(ActiveSet') <= loop[l].cap
  <2>1. \A k \in Loops \ {l} :
          ~ (Poll(k) \/ Intend(k) \/ Acquire(k) \/ AcquireBusy(k) \/ ReadFails(k)
             \/ Decide(k) \/ Allocate(k) \/ RefuseLaunch(k) \/ LaunchOk(k) \/ LaunchErr(k))
    BY <1>1 DEF IInv, TypeOK, Poll, Intend, Acquire, AcquireBusy, ReadFails, Decide, Allocate,
                RefuseLaunch, LaunchOk, LaunchErr
  <2>2. ~ (Poll(l) \/ Intend(l) \/ Acquire(l) \/ AcquireBusy(l) \/ ReadFails(l)
           \/ Decide(l) \/ RefuseLaunch(l) \/ LaunchOk(l) \/ LaunchErr(l))
    BY <1>1 DEF IInv, TypeOK, Poll, Intend, Acquire, AcquireBusy, ReadFails,
                Decide, RefuseLaunch, LaunchOk, LaunchErr, AtRest
  <2>3. ~UNCHANGED vars /\ ~SetHostCapacity /\ ~Crash /\ \A a \in Attempts : ~Advance(a)
    BY <1>1 DEF vars, SetHostCapacity, Crash, Advance, AtRest
  <2>4. Allocate(l)
    BY <1>1, <2>1, <2>2, <2>3 DEF Next
  <2>5. Active' = Active + 1 /\ Active < loop[l].cap
    BY <1>1, <2>4, AllocateTakesOne DEF IInv, GrantStillFits
  <2>6. Active \in Nat /\ loop[l].cap \in Nat
    BY CountsAreNaturals, <1>1 DEF IInv, TypeOK, LoopState
  <2> QED BY <2>5, <2>6 DEF Active
<1> QED BY <1>1 DEF StartsFitTheHost

\* A slot is occupied only by the loop that holds the lock, for a new attempt.
LEMMA OccupiedUnderLock == IInv /\ [Next]_vars => OnlyAllocationOccupies
<1>1. ASSUME IInv, [Next]_vars, NEW a \in Attempts,
             Counted(journal'[a]), ~Counted(journal[a])
      PROVE  /\ ~Exists(a)
             /\ lock = journal'[a].owner
             /\ loop[lock].pc = "launch"
  <2>1. journal' # journal
    BY <1>1
  <2>2. CASE \E l \in Loops : Allocate(l)
    <3>1. PICK l \in Loops : Allocate(l)
      BY <2>2
    <3>2. PICK b \in Attempts :
            /\ ~Exists(b)
            /\ journal' = [journal EXCEPT ![b] = [ state |-> "allocated", owner |-> l ]]
      BY <3>1 DEF Allocate
    <3>3. b = a /\ journal'[a].owner = l
      BY <1>1, <3>2 DEF IInv, TypeOK
    <3>4. loop[l].pc = "launch" /\ lock = l
      BY <1>1, <3>1 DEF Allocate, IInv, LockHeld, HoldsLock
    <3> QED BY <3>2, <3>3, <3>4
  <2>3. CASE \E b \in Attempts : Advance(b)
    <3>1. a \in ActiveSet' /\ a \notin ActiveSet
      BY <1>1 DEF ActiveSet, Counted, Native
    <3> QED BY <1>1, <2>3, <3>1, AdvanceShrinks DEF IInv
  <2> QED
    BY <1>1, <2>1, <2>2, <2>3
       DEF Next, vars, Poll, Intend, Acquire, AcquireBusy, ReadFails, Decide, RefuseLaunch,
           LaunchOk, LaunchErr, SetHostCapacity, Crash
<1> QED BY <1>1 DEF OnlyAllocationOccupies

\* The host's count grows only by an attempt that a loop journals under the lock
\* and that fits the capacity it read there (start_runners).
THEOREM CapacityKept == Spec => CapacityRespected
<1>1. IInv /\ [Next]_vars => [ StartsFitTheHost /\ OnlyAllocationOccupies ]_vars
  BY StartsFit, OccupiedUnderLock
<1> QED BY <1>1, Inductive, PTL DEF Spec, CapacityRespected
==============================================================================
