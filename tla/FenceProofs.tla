----------------------------- MODULE FenceProofs -----------------------------
(***************************************************************************)
(* What the launch fence guarantees for any number of generations, any     *)
(* thresholds and any number of crashes and failing calls, as long as one  *)
(* watchdog watches the distribution.                                      *)
(*                                                                         *)
(* Type correctness needs no such condition and is proved first.  The      *)
(* safety argument is a chain of custody: whoever is about to write or     *)
(* remove the directory knows what is in it, because no other step can     *)
(* have changed it since it looked.                                        *)
(***************************************************************************)
EXTENDS Fence, TLAPS

-----------------------------------------------------------------------------
(* Types *)

LEMMA InitTyped == Init => TypeOK
BY FenceAssumption
   DEF Init, TypeOK, NoFence, NoRequest, NoHeartbeat, GuestOff, NoTracker, Tracker, Owner,
       Nobody, GuestPc, WatchPc, Generation

LEMMA OwnersTyped ==
    /\ Nobody \in Owner /\ Guest \in Owner
    /\ \A g \in Generation : Windows(g) \in Owner
BY DEF Owner

LEMMA FaultTyped ==
    ASSUME TypeOK, Fault \/ NoFault
    PROVE  faults' \in 0 .. MaxFaults
BY FenceAssumption DEF TypeOK, Fault, NoFault

\* A file operation leaves a fence, and counts at most one more fault.
LEMMA RemoveTyped ==
    ASSUME TypeOK, RemoveFence \/ RemoveFenceFails \/ WriteOwnerFails
    PROVE  /\ fence' \in [ dir : BOOLEAN, owner : Owner, old : BOOLEAN ]
           /\ faults' \in 0 .. MaxFaults
<1>1. faults' \in 0 .. MaxFaults
  BY FaultTyped DEF RemoveFence, RemoveFenceFails, WriteOwnerFails
<1>2. NoFence \in [ dir : BOOLEAN, owner : Owner, old : BOOLEAN ]
  BY OwnersTyped DEF NoFence
<1>3. [fence EXCEPT !.owner = Nobody, !.old = FALSE]
        \in [ dir : BOOLEAN, owner : Owner, old : BOOLEAN ]
  BY OwnersTyped DEF TypeOK
<1> QED BY <1>1, <1>2, <1>3 DEF TypeOK, RemoveFence, RemoveFenceFails, WriteOwnerFails

LEMMA WriteTyped ==
    ASSUME TypeOK, NEW owner \in Owner, WriteOwner(owner)
    PROVE  /\ fence' \in [ dir : BOOLEAN, owner : Owner, old : BOOLEAN ]
           /\ faults' \in 0 .. MaxFaults
BY FaultTyped DEF WriteOwner, Claimed

LEMMA ClaimTyped ==
    Claimed(Nobody) \in [ dir : BOOLEAN, owner : Owner, old : BOOLEAN ]
BY OwnersTyped DEF Claimed

\* The guest's steps.
LEMMA GuestTyped ==
    ASSUME TypeOK, GuestStep \/ GuestHeartbeat \/ GuestSupervise \/ GuestCrash
    PROVE  TypeOK'
<1> USE OwnersTyped
<1>1. CASE GuestStart
  BY <1>1, FaultTyped DEF TypeOK, GuestStart, GuestOnly, GuestPc
<1>2. CASE GuestClaim
  <2>1. guest' \in [ pc : GuestPc, judged : Owner, claiming : BOOLEAN ]
    <3>1. guest \in [ pc : GuestPc, judged : Owner, claiming : BOOLEAN ]
      BY DEF TypeOK
    <3>2. \/ \E pc \in { "owner", "idle" } : guest' = [guest EXCEPT !.pc = pc]
          \/ guest' = [guest EXCEPT !.pc = "judge", !.claiming = TRUE]
      BY <1>2 DEF GuestClaim, GuestGoes
    <3> QED BY <3>1, <3>2 DEF GuestPc
  <2>2. fence' \in [ dir : BOOLEAN, owner : Owner, old : BOOLEAN ]
    BY <1>2, ClaimTyped DEF TypeOK, GuestClaim
  <2> QED BY <1>2, <2>1, <2>2, FaultTyped DEF TypeOK, GuestClaim, GuestOnly
<1>3. CASE GuestWriteOwner
  BY <1>3, RemoveTyped, WriteTyped DEF TypeOK, GuestWriteOwner, GuestOnly, GuestGoes, GuestPc
<1>4. CASE GuestCheckRequest
  BY <1>4, FaultTyped DEF TypeOK, GuestCheckRequest, GuestOnly, GuestGoes, GuestPc
<1>5. CASE GuestLaunch
  BY <1>5 DEF TypeOK, GuestLaunch, GuestGoes, GuestPc, shared
<1>6. CASE GuestRelease
  BY <1>6, RemoveTyped DEF TypeOK, GuestRelease, GuestOnly, GuestGoes, GuestPc
<1>7. CASE GuestJudge
  <2>1. guest' \in [ pc : GuestPc, judged : Owner, claiming : BOOLEAN ]
    BY <1>7 DEF TypeOK, GuestJudge, GuestGoes, GuestPc
  <2>2. faults' \in 0 .. MaxFaults
    BY <1>7, FaultTyped DEF GuestJudge
  <2> QED BY <1>7, <2>1, <2>2 DEF TypeOK, GuestJudge, GuestOnly
<1>8. CASE GuestReread
  BY <1>8, FaultTyped DEF TypeOK, GuestReread, GuestOnly, GuestGoes, GuestPc
<1>9. CASE GuestRemove
  BY <1>9, RemoveTyped DEF TypeOK, GuestRemove, GuestOnly, GuestGoes, GuestPc
<1>10. CASE GuestHeartbeat
  BY <1>10, FaultTyped DEF TypeOK, GuestHeartbeat, inside
<1>11. CASE GuestSupervise
  BY <1>11 DEF TypeOK, GuestSupervise, shared
<1>12. CASE GuestCrash
  BY <1>12, FaultTyped DEF TypeOK, GuestCrash, GuestOff, GuestPc, shared
<1> QED
  BY <1>1, <1>2, <1>3, <1>4, <1>5, <1>6, <1>7, <1>8, <1>9, <1>10, <1>11, <1>12 DEF GuestStep

LEMMA NoTrackerTyped == NoTracker \in Tracker
BY FenceAssumption DEF NoTracker, Tracker, WatchPc, Generation

\* A watchdog that only moves on stays a Tracker.
LEMMA GoesTyped ==
    ASSUME TypeOK, NEW w \in Watchdogs, NEW pc \in WatchPc, Goes(w, pc)
    PROVE  watchdog' \in [Watchdogs -> Tracker]
<1>1. watchdog[w] \in Tracker
  BY DEF TypeOK
<1>2. [watchdog[w] EXCEPT !.pc = pc] \in Tracker
  BY <1>1 DEF Tracker
<1> QED BY <1>2 DEF TypeOK, Goes

LEMMA QuiescenceTyped ==
    ASSUME TypeOK, NEW w \in Watchdogs
    PROVE  Quiescence(w) \in Tracker
<1> DEFINE t == watchdog[w]
           acked == heartbeat.ack = t.gen
           z == IF acked /\ heartbeat.journal = "none" THEN AddOne(t.zero) ELSE 0
           b == IF acked /\ heartbeat.journal # "busy" THEN AddOne(t.nobusy) ELSE 0
<1>t. t \in Tracker
  BY DEF TypeOK
<1>1. z \in 0 .. Confirmations /\ b \in 0 .. Confirmations /\ 0 \in 0 .. Confirmations
  BY <1>t, FenceAssumption DEF AddOne, Tracker
<1>2. Quiescence(w) \in { [t EXCEPT !.zero = 0], t, [t EXCEPT !.zero = z, !.nobusy = b] }
  BY <1>t DEF Quiescence, Tracker
<1> HIDE DEF z, b
<1> QED BY <1>t, <1>1, <1>2 DEF Tracker

\* The steps of a recovery.
LEMMA RecoverTyped ==
    ASSUME TypeOK, NEW w \in Watchdogs, Recover(w)
    PROVE  TypeOK'
<1> DEFINE t == watchdog[w]
<1>t. t \in Tracker /\ watchdog \in [Watchdogs -> Tracker]
  BY DEF TypeOK
<1>1. CASE ObserveFailure(w)
  <2> DEFINE g == IF t.gen = 0 THEN minted + 1 ELSE t.gen
             counted == [t EXCEPT !.gen = g,
                           !.failures = IF @ < FailureThreshold THEN @ + 1 ELSE @]
  <2>1. g \in Generation
    BY <1>1, <1>t, FenceAssumption DEF ObserveFailure, TypeOK, Tracker, Generation
  <2>2. counted \in Tracker
    <3> DEFINE f == IF t.failures < FailureThreshold THEN t.failures + 1 ELSE t.failures
    <3>1. f \in 0 .. FailureThreshold
      BY <1>t, FenceAssumption DEF Tracker
    <3>2. counted = [t EXCEPT !.gen = g, !.failures = f]
      BY <1>t DEF Tracker
    <3> HIDE DEF g, f, counted
    <3> QED BY <1>t, <2>1, <3>1, <3>2 DEF Tracker
  <2>3. [counted EXCEPT !.pc = IF counted.held THEN "beat" ELSE "claim"] \in Tracker
    BY <2>2 DEF Tracker, WatchPc
  <2>4. watchdog' \in [Watchdogs -> Tracker]
    BY <1>1, <1>t, <2>2, <2>3 DEF ObserveFailure
  <2>5. minted' \in Generation
    BY <1>1, <2>1 DEF ObserveFailure, TypeOK
  <2>6. request' \in [ gen : Generation, old : BOOLEAN ]
    <3>1. request' = request \/ request' = [ gen |-> g, old |-> FALSE ]
      BY <1>1 DEF ObserveFailure
    <3>2. [ gen |-> g, old |-> FALSE ] \in [ gen : Generation, old : BOOLEAN ]
      <4> HIDE DEF g
      <4> QED BY <2>1
    <3>3. request \in [ gen : Generation, old : BOOLEAN ]
      BY DEF TypeOK
    <3> HIDE DEF g
    <3> QED BY <3>1, <3>2, <3>3
  <2>7. faults' \in 0 .. MaxFaults
    BY <1>1, FaultTyped DEF ObserveFailure
  <2> QED BY <1>1, <2>4, <2>5, <2>6, <2>7 DEF ObserveFailure, TypeOK, inside
<1>2. CASE Claim(w)
  <2>1. watchdog' \in [Watchdogs -> Tracker]
    <3>1. CASE ~fence.dir
      BY <1>2, <3>1, GoesTyped DEF Claim, WatchPc
    <3>2. CASE fence.dir
      <4>1. [t EXCEPT !.pc = "beat", !.held = (fence.owner = Windows(t.gen))] \in Tracker
        BY <1>t DEF Tracker, WatchPc
      <4> QED BY <1>2, <1>t, <3>2, <4>1 DEF Claim
    <3> QED BY <3>1, <3>2
  <2>2. fence' \in [ dir : BOOLEAN, owner : Owner, old : BOOLEAN ]
    BY <1>2, ClaimTyped DEF Claim, TypeOK
  <2> QED BY <1>2, <2>1, <2>2, FaultTyped DEF Claim, TypeOK, WindowsOnly, inside
<1>3. CASE ClaimOwner(w)
  <2>1. watchdog' \in [Watchdogs -> Tracker]
    <3>1. [t EXCEPT !.pc = "beat", !.held = TRUE] \in Tracker
      BY <1>t DEF Tracker, WatchPc
    <3>2. CASE Goes(w, "beat")
      BY <3>2, GoesTyped DEF WatchPc
    <3> QED BY <1>3, <1>t, <3>1, <3>2 DEF ClaimOwner
  <2>2. Windows(t.gen) \in Owner
    BY <1>t, OwnersTyped DEF Tracker
  <2>3. /\ fence' \in [ dir : BOOLEAN, owner : Owner, old : BOOLEAN ]
        /\ faults' \in 0 .. MaxFaults
    BY <1>3, <2>2, RemoveTyped, WriteTyped DEF ClaimOwner
  <2> QED BY <1>3, <2>1, <2>3 DEF ClaimOwner, TypeOK, WindowsOnly, inside
<1>4. CASE ReadHeartbeat(w)
  <2> DEFINE q == Quiescence(w)
             beat == CASE ~heartbeat.there  -> "none"
                       [] heartbeat.targets -> "listed"
                       [] OTHER             -> "unlisted"
  <2>1. q \in Tracker
    BY QuiescenceTyped
  <2>2. [q EXCEPT !.pc = "inventory", !.quiet = GuestQuiet(q), !.beat = beat] \in Tracker
    <3>1. GuestQuiet(q) \in BOOLEAN
      BY DEF GuestQuiet
    <3>2. beat \in { "none", "listed", "unlisted" }
      BY DEF TypeOK
    <3> HIDE DEF q, beat
    <3> QED BY <2>1, <3>1, <3>2 DEF Tracker, WatchPc
  <2>3. watchdog' \in [Watchdogs -> Tracker]
    BY <1>4, <1>t, <2>2 DEF ReadHeartbeat
  <2>4. heartbeat' \in [ there : BOOLEAN, ack : Generation,
                         journal : { "none", "active", "busy" }, targets : BOOLEAN,
                         seen : SUBSET Watchdogs ]
    BY <1>4 DEF ReadHeartbeat, TypeOK
  <2> QED BY <1>4, <2>3, <2>4 DEF ReadHeartbeat, TypeOK, inside
<1>5. CASE ReadInventory(w)
  <2>1. ASSUME NEW u \in Tracker
        PROVE  Rested(u) \in Tracker /\ [u EXCEPT !.pc = "terminate"] \in Tracker
    <3>1. [u EXCEPT !.pc = "terminate"] \in Tracker
      BY DEF Tracker, WatchPc
    <3>2. [u EXCEPT !.pc = "rest", !.beat = "none", !.quiet = FALSE] \in Tracker
      BY DEF Tracker, WatchPc
    <3> QED BY <3>1, <3>2 DEF Rested
  <2>2. \A u \in Tracker : Decided(u) \subseteq Tracker
    BY <2>1 DEF Decided
  <2>3. [t EXCEPT !.empty = IF t.beat = "none" THEN @ ELSE 0] \in Tracker
    BY <1>t, FenceAssumption DEF Tracker
  <2>4. \A online \in BOOLEAN : [t EXCEPT !.empty = IF online THEN 0 ELSE AddOne(@)] \in Tracker
    BY <1>t, FenceAssumption DEF Tracker, AddOne
  <2>5. PICK u \in Tracker : watchdog' = [watchdog EXCEPT ![w] = u]
    BY <1>5, <2>1, <2>2, <2>3, <2>4 DEF ReadInventory
  <2> QED BY <1>5, <1>t, <2>5, FaultTyped DEF ReadInventory, TypeOK, WindowsOnly, inside
<1>6. CASE Terminate(w)
  <2>1. Rested(t) \in Tracker
    BY <1>t DEF Rested, Tracker, WatchPc
  <2>2. watchdog' \in [Watchdogs -> Tracker]
    BY <1>6, <1>t, <2>1, GoesTyped DEF Terminate, WatchPc
  <2>3. GuestOff \in [ pc : GuestPc, judged : Owner, claiming : BOOLEAN ]
    BY OwnersTyped DEF GuestOff, GuestPc
  <2> QED BY <1>6, <2>2, <2>3 DEF Terminate, TypeOK, shared
<1>7. CASE Verify(w)
  <2>1. Rested(t) \in Tracker
    BY <1>t DEF Rested, Tracker, WatchPc
  <2>2. [t EXCEPT !.pc = "clear", !.clearing = t.gen, !.then = "reset"] \in Tracker
    BY <1>t DEF Tracker, WatchPc
  <2>3. watchdog' \in [Watchdogs -> Tracker]
    BY <1>7, <1>t, <2>1, <2>2 DEF Verify
  <2> QED BY <1>7, <2>3, FaultTyped DEF Verify, TypeOK, WindowsOnly, inside
<1> QED BY <1>1, <1>2, <1>3, <1>4, <1>5, <1>6, <1>7 DEF Recover

\* The steps that end one.
LEMMA SettleTyped ==
    ASSUME TypeOK, NEW w \in Watchdogs, Settle(w)
    PROVE  TypeOK'
<1> DEFINE t == watchdog[w]
<1>t. /\ t \in Tracker /\ watchdog \in [Watchdogs -> Tracker]
      /\ t.gen \in Generation /\ fence.owner \in Owner /\ request.gen \in Generation
      /\ t.then \in WatchPc
  BY DEF TypeOK, Tracker, WatchPc
<1>g. 0 \in Generation /\ fence.owner.gen \in Generation
  BY <1>t, FenceAssumption DEF Owner, Nobody, Guest, Windows, Generation
<1>1. CASE ObserveHealthy(w)
  <2>1. /\ [t EXCEPT !.pc = "retire"] \in Tracker
        /\ [t EXCEPT !.pc = "clear", !.clearing = t.gen, !.gen = 0, !.then = "retire"]
             \in Tracker
    BY <1>t, <1>g DEF Tracker, WatchPc
  <2>2. watchdog' \in [Watchdogs -> Tracker]
    BY <1>1, <1>t, <2>1 DEF ObserveHealthy
  <2> QED BY <1>1, <2>2, FaultTyped DEF ObserveHealthy, TypeOK, WindowsOnly, inside
<1>2. CASE ClearOwner(w)
  <2>1. watchdog' \in [Watchdogs -> Tracker]
    BY <1>2, GoesTyped DEF ClearOwner, WatchPc
  <2> QED BY <1>2, <2>1, FaultTyped DEF ClearOwner, TypeOK, WindowsOnly, inside
<1>3. CASE Unfence(w)
  <2>1. watchdog' \in [Watchdogs -> Tracker]
    BY <1>3, GoesTyped DEF Unfence, Erred, WatchPc
  <2>2. /\ fence' \in [ dir : BOOLEAN, owner : Owner, old : BOOLEAN ]
        /\ faults' \in 0 .. MaxFaults
    BY <1>3, RemoveTyped DEF Unfence
  <2> QED BY <1>3, <2>1, <2>2 DEF Unfence, TypeOK, WindowsOnly, inside
<1>4. CASE ClearRequest(w)
  <2>1. watchdog' \in [Watchdogs -> Tracker]
    BY <1>4, <1>t, GoesTyped DEF ClearRequest, Cleared, WatchPc
  <2> QED BY <1>4, <2>1, FaultTyped DEF ClearRequest, TypeOK, WindowsOnly, inside
<1>5. CASE Unrequest(w)
  <2>1. watchdog' \in [Watchdogs -> Tracker]
    BY <1>5, <1>t, GoesTyped DEF Unrequest, Erred, Cleared, WatchPc
  <2>2. request' \in [ gen : Generation, old : BOOLEAN ] /\ faults' \in 0 .. MaxFaults
    <3>1. NoRequest \in [ gen : Generation, old : BOOLEAN ]
      BY <1>g DEF NoRequest
    <3>2. request' = request \/ request' = NoRequest
      BY <1>5 DEF Unrequest
    <3>3. faults' \in 0 .. MaxFaults
      BY <1>5, FaultTyped DEF Unrequest
    <3> QED BY <3>1, <3>2, <3>3 DEF TypeOK
  <2> QED BY <1>5, <2>1, <2>2 DEF Unrequest, TypeOK, WindowsOnly, inside
<1>6. CASE Retire(w)
  <2>1. watchdog' \in [Watchdogs -> Tracker]
    BY <1>6, GoesTyped DEF Retire, WatchPc
  <2> QED BY <1>6, <2>1, FaultTyped DEF Retire, TypeOK, WindowsOnly, inside
<1>7. CASE RetireFence(w)
  <2>1. /\ [t EXCEPT !.pc = "retire_request"] \in Tracker
        /\ [t EXCEPT !.pc = "clear", !.clearing = fence.owner.gen, !.then = "retire_request"]
             \in Tracker
    BY <1>t, <1>g DEF Tracker, WatchPc
  <2>2. watchdog' \in [Watchdogs -> Tracker]
    BY <1>7, <1>t, <2>1 DEF RetireFence
  <2> QED BY <1>7, <2>2, FaultTyped DEF RetireFence, TypeOK, WindowsOnly, inside
<1>8. CASE RetireRequest(w)
  <2>1. /\ [t EXCEPT !.pc = "reset"] \in Tracker
        /\ [t EXCEPT !.pc = "clear", !.clearing = request.gen, !.then = "reset"] \in Tracker
    BY <1>t DEF Tracker, WatchPc
  <2>2. watchdog' \in [Watchdogs -> Tracker]
    BY <1>8, <1>t, <2>1 DEF RetireRequest
  <2> QED BY <1>8, <2>2, FaultTyped DEF RetireRequest, TypeOK, WindowsOnly, inside
<1>9. CASE Reset(w)
  <2>1. watchdog' \in [Watchdogs -> Tracker]
    BY <1>9, <1>t, NoTrackerTyped DEF Reset
  <2> QED BY <1>9, <2>1, FaultTyped DEF Reset, TypeOK, WindowsOnly, inside
<1> QED BY <1>1, <1>2, <1>3, <1>4, <1>5, <1>6, <1>7, <1>8, <1>9 DEF Settle

\* Every step keeps the state in its types, for any set of watchdogs.
LEMMA NextTyped == TypeOK /\ [Next]_vars => TypeOK'
<1> SUFFICES ASSUME TypeOK, [Next]_vars PROVE TypeOK'
  OBVIOUS
<1>1. CASE UNCHANGED vars
  BY <1>1 DEF vars, TypeOK
<1>2. ASSUME NEW w \in Watchdogs, WatchdogCrash(w) PROVE TypeOK'
  <2>1. watchdog' \in [Watchdogs -> Tracker]
    BY <1>2, NoTrackerTyped DEF WatchdogCrash, TypeOK
  <2>2. faults' \in 0 .. MaxFaults
    BY <1>2, FaultTyped DEF WatchdogCrash
  <2> QED BY <1>2, <2>1, <2>2 DEF WatchdogCrash, TypeOK, inside
<1>3. CASE WslChanges
  BY <1>3 DEF WslChanges, TypeOK, shared, inside
<1>4. CASE RunnerMoves
  <2>1. runner' \in { "none", "starting", "online", "busy" }
    BY <1>4 DEF RunnerMoves, TypeOK
  <2> QED BY <1>4, <2>1 DEF RunnerMoves, TypeOK, shared
<1>5. CASE FenceAges
  <2>1. fence \in [ dir : BOOLEAN, owner : Owner, old : BOOLEAN ]
    BY DEF TypeOK
  <2>2. [fence EXCEPT !.old = TRUE] \in [ dir : BOOLEAN, owner : Owner, old : BOOLEAN ]
    BY <2>1
  <2> QED BY <1>5, <2>2 DEF FenceAges, TypeOK, inside
<1>6. CASE RequestAges
  <2>1. request \in [ gen : Generation, old : BOOLEAN ]
    BY DEF TypeOK
  <2>2. [request EXCEPT !.old = TRUE] \in [ gen : Generation, old : BOOLEAN ]
    BY <2>1
  <2> QED BY <1>6, <2>2 DEF RequestAges, TypeOK, inside
<1> QED
  BY <1>1, <1>2, <1>3, <1>4, <1>5, <1>6, GuestTyped, RecoverTyped, SettleTyped DEF Next

\* Every generation, counter and record stays in its type, for any number of
\* watchdogs: the saturating counters of update_guest_quiescence never pass the
\* number `decide` compares them with.
THEOREM TypeCorrect == Spec => []TypeOK
BY InitTyped, NextTyped, PTL DEF Spec

-----------------------------------------------------------------------------
(* Custody of the fence, with one watchdog. *)

\* What the guest has found to be abandoned is still there, and still abandoned.
JudgedStale ==
    \/ guest.judged = Guest /\ fence.owner = Guest
    \/ guest.judged = Nobody /\ fence.dir /\ fence.owner = Nobody /\ fence.old

RecordNeedsDirectory == fence.owner # Nobody => fence.dir

GuestClaims ==
    /\ guest.pc \in { "check", "launching", "release" } => fence.owner = Guest
    /\ guest.pc = "owner" => fence = Claimed(Nobody) /\ \A w \in Watchdogs : ~At(w, "owner")
    /\ guest.pc \in { "reread", "remove" } => JudgedStale

WatchdogClaims ==
    \A w \in Watchdogs :
        /\ At(w, "owner") => fence = Claimed(Nobody)
        /\ At(w, "unfence") => fence.owner = Windows(watchdog[w].clearing)
        /\ watchdog[w].pc \in { "claim", "owner" } => ~watchdog[w].held /\ watchdog[w].gen # 0
        /\ (watchdog[w].held /\ watchdog[w].pc \in Watching) => watchdog[w].gen # 0
        /\ At(w, "terminate") => watchdog[w].held

ClaimIsHeld ==
    \A w \in Watchdogs :
        (watchdog[w].held /\ watchdog[w].pc \in Watching) => fence.owner = Windows(watchdog[w].gen)

Custody == RecordNeedsDirectory /\ GuestClaims /\ WatchdogClaims /\ ClaimIsHeld

IInv == TypeOK /\ Custody

\* The three kinds of owner are told apart by their records.
LEMMA OwnersDiffer ==
    \A g : Windows(g) # Nobody /\ Windows(g) # Guest /\ Guest # Nobody
BY DEF Windows, Nobody, Guest

LEMMA InitCustody == Init => Custody
BY DEF Init, Custody, RecordNeedsDirectory, GuestClaims, WatchdogClaims, ClaimIsHeld, NoFence,
       GuestOff, NoTracker, At

LEMMA RemoveKeepsRecord ==
    ASSUME TypeOK, RecordNeedsDirectory, RemoveFence \/ RemoveFenceFails
    PROVE  RecordNeedsDirectory'
<1>1. NoFence.owner = Nobody
  BY DEF NoFence
<1>2. [fence EXCEPT !.owner = Nobody, !.old = FALSE].owner = Nobody
  BY DEF TypeOK
<1> QED BY <1>1, <1>2 DEF RecordNeedsDirectory, RemoveFence, RemoveFenceFails

\* A directory that is neither a watchdog's nor about to become one's may change
\* without a watchdog taking notice.
LEMMA WatchdogsUnconcerned ==
    ASSUME IInv, UNCHANGED watchdog, fence.owner \in { Nobody, Guest },
           fence # Claimed(Nobody) \/ \A w \in Watchdogs : ~At(w, "owner")
    PROVE  WatchdogClaims' /\ ClaimIsHeld'
<1>1. ASSUME NEW w \in Watchdogs
      PROVE  /\ ~At(w, "owner") /\ ~At(w, "unfence")
             /\ ~(watchdog[w].held /\ watchdog[w].pc \in Watching)
  BY <1>1, OwnersDiffer DEF IInv, Custody, WatchdogClaims, ClaimIsHeld, At
<1> QED BY <1>1 DEF IInv, Custody, WatchdogClaims, ClaimIsHeld, At

\* The guest writes and removes only what it made or found abandoned.
LEMMA GuestKeepsCustody ==
    ASSUME IInv, GuestStep
    PROVE  Custody'
<1> USE OwnersDiffer DEF IInv, TypeOK, Custody, RecordNeedsDirectory, GuestClaims, WatchdogClaims,
        ClaimIsHeld, JudgedStale, At, GuestAt, GuestOnly, GuestGoes
<1>1. CASE GuestStart
  BY <1>1 DEF GuestStart
<1>2. CASE GuestClaim
  <2>1. CASE fence.dir
    <3>1. guest'.pc \in { "idle", "judge" } /\ UNCHANGED <<fence, watchdog>>
      BY <1>2, <2>1 DEF GuestClaim
    <3> QED BY <3>1
  <2>2. CASE ~fence.dir
    <3>1. fence.owner = Nobody /\ fence # Claimed(Nobody)
      BY <2>2 DEF Claimed
    <3>2. WatchdogClaims' /\ ClaimIsHeld'
      BY <1>2, <3>1, WatchdogsUnconcerned DEF GuestClaim
    <3>3. \A w \in Watchdogs : ~At(w, "owner")
      BY <3>1
    <3>4. fence' = Claimed(Nobody) /\ guest'.pc = "owner" /\ UNCHANGED watchdog
      BY <1>2, <2>2 DEF GuestClaim
    <3>5. RecordNeedsDirectory' /\ GuestClaims'
      BY <3>3, <3>4 DEF Claimed
    <3> QED BY <3>2, <3>5
  <2> QED BY <2>1, <2>2
<1>3. CASE GuestWriteOwner
  BY <1>3 DEF GuestWriteOwner, WriteOwner, WriteOwnerFails, Claimed, NoFence
<1>4. CASE GuestCheckRequest
  BY <1>4 DEF GuestCheckRequest
<1>5. CASE GuestLaunch
  BY <1>5 DEF GuestLaunch, shared
<1>6. CASE GuestRelease
  <2>1. fence.owner \in { Nobody, Guest } /\ fence # Claimed(Nobody)
    BY <1>6 DEF GuestRelease, Claimed
  <2>2. WatchdogClaims' /\ ClaimIsHeld'
    BY <1>6, <2>1, WatchdogsUnconcerned DEF GuestRelease
  <2>3. guest'.pc \in { "idle", "retry" }
    BY <1>6 DEF GuestRelease
  <2>4. GuestClaims'
    BY <2>3
  <2>5. RecordNeedsDirectory'
    BY <1>6, RemoveKeepsRecord DEF GuestRelease
  <2> QED BY <2>2, <2>4, <2>5
<1>7. CASE GuestJudge
  <2>1. UNCHANGED <<fence, watchdog>> /\ (guest'.pc = "idle" \/ (guest'.pc = "reread" /\ JudgedStale'))
    BY <1>7 DEF GuestJudge
  <2> QED BY <2>1
<1>8. CASE GuestReread
  BY <1>8 DEF GuestReread
<1>9. CASE GuestRemove
  <2>1. fence.owner \in { Nobody, Guest } /\ fence # Claimed(Nobody)
    BY <1>9 DEF GuestRemove, Claimed
  <2>2. WatchdogClaims' /\ ClaimIsHeld'
    BY <1>9, <2>1, WatchdogsUnconcerned DEF GuestRemove
  <2>3. guest'.pc \in { "idle", "retry" }
    BY <1>9 DEF GuestRemove
  <2>4. GuestClaims'
    BY <2>3
  <2>5. RecordNeedsDirectory'
    BY <1>9, RemoveKeepsRecord DEF GuestRemove
  <2> QED BY <2>2, <2>4, <2>5
<1> QED BY <1>1, <1>2, <1>3, <1>4, <1>5, <1>6, <1>7, <1>8, <1>9 DEF GuestStep

\* A watchdog that leaves the fence alone owes what its next step relies on.
LEMMA WatchdogMoves ==
    ASSUME IInv, NEW w, Watchdogs = {w}, NEW u \in Tracker,
           watchdog' = [watchdog EXCEPT ![w] = u], UNCHANGED <<fence, guest>>,
           u.pc # "owner",
           u.pc = "unfence" => fence.owner = Windows(u.clearing),
           u.pc = "claim" => ~u.held /\ u.gen # 0,
           u.held /\ u.pc \in Watching => u.gen # 0 /\ fence.owner = Windows(u.gen),
           u.pc = "terminate" => u.held
    PROVE  Custody'
<1>1. watchdog'[w] = u
  BY DEF IInv, TypeOK
<1>2. WatchdogClaims' /\ ClaimIsHeld'
  BY <1>1 DEF WatchdogClaims, ClaimIsHeld, At
<1>3. GuestClaims'
  BY <1>1 DEF IInv, Custody, GuestClaims, JudgedStale, At
<1>4. RecordNeedsDirectory'
  BY DEF IInv, Custody, RecordNeedsDirectory
<1> QED BY <1>2, <1>3, <1>4 DEF Custody

\* Leaving the recovery's steps behind, as Goes does with most of what follows
\* it, owes nothing.
LEMMA WatchdogGoes ==
    ASSUME IInv, NEW w, Watchdogs = {w}, NEW pc \in WatchPc \ (Watching \cup { "unfence" }),
           Goes(w, pc), UNCHANGED <<fence, guest>>
    PROVE  Custody'
<1> DEFINE u == [watchdog[w] EXCEPT !.pc = pc]
<1>1. watchdog[w] \in Tracker
  BY DEF IInv, TypeOK
<1>2. u \in Tracker /\ u.pc = pc
  BY <1>1 DEF Tracker
<1>3. watchdog' = [watchdog EXCEPT ![w] = u]
  BY DEF Goes
<1>4. u.pc \notin Watching /\ u.pc # "unfence" /\ u.pc # "owner" /\ u.pc # "claim"
      /\ u.pc # "terminate"
  BY <1>2 DEF Watching
<1> HIDE DEF u
<1> QED BY <1>2, <1>3, <1>4, WatchdogMoves

\* The watchdog's recovery: it writes its record only into the directory it just
\* made, and terminates only with the claim it remembers.
LEMMA RecoverKeepsCustody ==
    ASSUME IInv, NEW w, Watchdogs = {w}, Recover(w)
    PROVE  Custody'
<1> DEFINE t == watchdog[w]
<1>t. t \in Tracker /\ watchdog \in [Watchdogs -> Tracker] /\ minted \in Generation
  BY DEF IInv, TypeOK
<1>h. t.held /\ t.pc \in Watching => t.gen # 0 /\ fence.owner = Windows(t.gen)
  BY DEF IInv, Custody, WatchdogClaims, ClaimIsHeld
<1>1. CASE ObserveFailure(w)
  <2> DEFINE g == IF t.gen = 0 THEN minted + 1 ELSE t.gen
             f == IF t.failures < FailureThreshold THEN t.failures + 1 ELSE t.failures
             counted == [t EXCEPT !.gen = g, !.failures = f]
             u == [counted EXCEPT !.pc = IF counted.held THEN "beat" ELSE "claim"]
  <2>1. g # 0 /\ g \in Generation /\ f \in 0 .. FailureThreshold
    BY <1>1, <1>t, FenceAssumption DEF ObserveFailure, Tracker, Generation
  <2>2. t.pc = "rest" /\ (t.held => g = t.gen /\ fence.owner = Windows(g))
    BY <1>1, <1>h DEF ObserveFailure, At, Watching
  <2>3. watchdog' = [watchdog EXCEPT ![w] = counted] \/ watchdog' = [watchdog EXCEPT ![w] = u]
    BY <1>1, <1>t DEF ObserveFailure, Tracker
  <2> HIDE DEF g, f
  <2>4. /\ counted \in Tracker /\ counted.pc = "rest" /\ counted.held = t.held /\ counted.gen = g
        /\ u \in Tracker /\ u.pc = (IF t.held THEN "beat" ELSE "claim")
        /\ u.held = t.held /\ u.gen = g
    BY <1>t, <2>1, <2>2 DEF Tracker, WatchPc
  <2>5. UNCHANGED <<fence, guest>>
    BY <1>1 DEF ObserveFailure, inside
  <2> HIDE DEF counted, u
  <2> QED BY <2>1, <2>2, <2>3, <2>4, <2>5, WatchdogMoves
<1>2. CASE Claim(w)
  <2>1. t.pc = "claim" /\ ~t.held /\ t.gen # 0 /\ UNCHANGED guest
    BY <1>2 DEF Claim, At, IInv, Custody, WatchdogClaims, WindowsOnly, inside
  <2>2. CASE fence.dir
    <3> DEFINE u == [t EXCEPT !.pc = "beat", !.held = (fence.owner = Windows(t.gen))]
    <3>1. watchdog' = [watchdog EXCEPT ![w] = u] /\ UNCHANGED fence
      BY <1>2, <1>t, <2>2 DEF Claim
    <3>2. u \in Tracker /\ u.pc = "beat" /\ u.gen = t.gen
          /\ u.held = (fence.owner = Windows(t.gen))
      BY <1>t DEF Tracker, WatchPc
    <3> HIDE DEF u
    <3> QED BY <2>1, <3>1, <3>2, WatchdogMoves
  <2>3. CASE ~fence.dir
    <3>1. fence' = Claimed(Nobody) /\ watchdog' = [watchdog EXCEPT ![w].pc = "owner"]
      BY <1>2, <2>3 DEF Claim, Goes
    <3>2. watchdog'[w].pc = "owner" /\ watchdog'[w].gen = t.gen /\ watchdog'[w].held = t.held
      BY <1>t, <3>1 DEF Tracker
    <3>3. WatchdogClaims' /\ ClaimIsHeld'
      BY <2>1, <3>1, <3>2 DEF WatchdogClaims, ClaimIsHeld, At
    <3>4. fence.owner = Nobody
      BY <2>3 DEF IInv, Custody, RecordNeedsDirectory
    <3>5. guest.pc \notin { "check", "launching", "release", "owner", "reread", "remove" }
      BY <2>3, <3>4, OwnersDiffer
         DEF IInv, Custody, GuestClaims, JudgedStale, Claimed
    <3>6. GuestClaims' /\ RecordNeedsDirectory'
      BY <2>1, <3>1, <3>5 DEF GuestClaims, RecordNeedsDirectory, Claimed
    <3> QED BY <3>3, <3>6 DEF Custody
  <2> QED BY <2>2, <2>3
<1>3. CASE ClaimOwner(w)
  <2>1. t.pc = "owner" /\ ~t.held /\ t.gen # 0 /\ UNCHANGED guest /\ fence = Claimed(Nobody)
    BY <1>3 DEF ClaimOwner, At, IInv, Custody, WatchdogClaims, WindowsOnly, inside
  <2>2. guest.pc \notin { "check", "launching", "release", "owner", "reread", "remove" }
    BY <2>1, OwnersDiffer DEF IInv, Custody, GuestClaims, JudgedStale, Claimed, At
  <2>3. GuestClaims'
    BY <2>1, <2>2 DEF GuestClaims
  <2>4. CASE WriteOwner(Windows(t.gen)) /\ watchdog' = [watchdog EXCEPT ![w].pc = "beat", ![w].held = TRUE]
    <3>1. watchdog'[w].pc = "beat" /\ watchdog'[w].gen = t.gen
      BY <1>t, <2>4 DEF Tracker
    <3>2. fence' = Claimed(Windows(t.gen))
      BY <2>4 DEF WriteOwner
    <3> QED BY <2>1, <2>3, <3>1, <3>2
            DEF Custody, RecordNeedsDirectory, WatchdogClaims, ClaimIsHeld, At, Claimed
  <2>5. CASE WriteOwnerFails /\ Goes(w, "beat")
    <3>1. watchdog'[w].pc = "beat" /\ watchdog'[w].held = FALSE
      BY <1>t, <2>1, <2>5 DEF Tracker, Goes
    <3>2. fence' = NoFence
      BY <2>5 DEF WriteOwnerFails
    <3> QED BY <2>3, <3>1, <3>2
            DEF Custody, RecordNeedsDirectory, WatchdogClaims, ClaimIsHeld, At, NoFence
  <2> QED BY <1>3, <2>4, <2>5 DEF ClaimOwner
<1>4. CASE ReadHeartbeat(w)
  <2> DEFINE q == Quiescence(w)
             beat == CASE ~heartbeat.there  -> "none"
                       [] heartbeat.targets -> "listed"
                       [] OTHER             -> "unlisted"
             u == [q EXCEPT !.pc = "inventory", !.quiet = GuestQuiet(q), !.beat = beat]
  <2>1. u = watchdog'[w] /\ watchdog' = [watchdog EXCEPT ![w] = u] /\ UNCHANGED <<fence, guest>>
        /\ t.pc = "beat"
    BY <1>4, <1>t DEF ReadHeartbeat, At, inside
  <2>2. u \in Tracker
    BY <2>1, RecoverTyped DEF IInv, TypeOK
  <2>3. u.pc = "inventory" /\ u.held = t.held /\ u.gen = t.gen
    <3>1. q.held = t.held /\ q.gen = t.gen /\ q \in Tracker
      BY <1>t, FenceAssumption, QuiescenceTyped DEF Quiescence, Tracker, IInv
    <3> HIDE DEF q, beat
    <3> QED BY <3>1 DEF Tracker
  <2> HIDE DEF u
  <2> QED BY <1>h, <2>1, <2>2, <2>3, WatchdogMoves DEF Watching
<1>5. CASE ReadInventory(w)
  <2>1. t.pc = "inventory" /\ UNCHANGED <<fence, guest>>
    BY <1>5 DEF ReadInventory, At, WindowsOnly, inside
  <2>2. ASSUME NEW e \in 0 .. Confirmations, NEW x \in Tracker, x = [t EXCEPT !.empty = e],
               NEW u \in Decided(x)
        PROVE  /\ u.gen = t.gen /\ u.held = t.held /\ u.pc \in { "rest", "terminate" }
               /\ u.pc = "terminate" => u.held
    <3>1. x.gen = t.gen /\ x.held = t.held
      BY <1>t, <2>2 DEF Tracker
    <3>2. Rested(x).gen = x.gen /\ Rested(x).held = x.held /\ Rested(x).pc = "rest"
      BY DEF Rested, Tracker
    <3> DEFINE y == [x EXCEPT !.pc = "terminate"]
    <3>3. y.gen = x.gen /\ y.held = x.held /\ y.pc = "terminate"
      BY DEF Tracker
    <3>4. u = Rested(x) \/ (u = y /\ x.held)
      BY <2>2 DEF Decided, TerminateNamed
    <3> HIDE DEF y
    <3> QED BY <3>1, <3>2, <3>3, <3>4
  <2>3. PICK u : /\ watchdog' = [watchdog EXCEPT ![w] = u]
                 /\ u.gen = t.gen /\ u.held = t.held /\ u.pc \in { "rest", "terminate" }
                 /\ u.pc = "terminate" => u.held
    <3> DEFINE online == t.beat = "listed" /\ runner \in { "online", "busy" }
               answered == [t EXCEPT !.empty = IF online THEN 0 ELSE AddOne(@)]
               refused == [t EXCEPT !.empty = IF t.beat = "none" THEN @ ELSE 0]
    <3>1. answered \in Tracker /\ \E e \in 0 .. Confirmations : answered = [t EXCEPT !.empty = e]
      BY <1>t, FenceAssumption DEF Tracker, AddOne
    <3>2. refused \in Tracker /\ \E e \in 0 .. Confirmations : refused = [t EXCEPT !.empty = e]
      BY <1>t, FenceAssumption DEF Tracker
    <3>3. Rested(refused) \in Decided(refused)
      BY DEF Decided
    <3>4. \E u \in Decided(answered) \cup { Rested(refused) } : watchdog' = [watchdog EXCEPT ![w] = u]
      BY <1>5 DEF ReadInventory
    <3> HIDE DEF answered, refused
    <3> QED BY <2>2, <3>1, <3>2, <3>3, <3>4
  <2>4. u \in Tracker
    <3>1. u = watchdog'[w]
      BY <1>t, <2>3
    <3> QED BY <3>1, RecoverTyped DEF IInv, TypeOK
  <2> QED BY <1>h, <2>1, <2>3, <2>4, WatchdogMoves DEF Watching
<1>6. CASE Terminate(w)
  <2>1. t.pc = "terminate" /\ UNCHANGED fence /\ t.held
    BY <1>6 DEF Terminate, At, shared, IInv, Custody, WatchdogClaims
  <2>2. guest'.pc = "off" \/ UNCHANGED guest
    BY <1>6 DEF Terminate, GuestOff
  <2>3. /\ watchdog'[w].pc \in { "rest", "verify" }
        /\ watchdog'[w].held = t.held /\ watchdog'[w].gen = t.gen
    <3>1. Rested(t).pc = "rest" /\ Rested(t).held = t.held /\ Rested(t).gen = t.gen
      BY <1>t DEF Rested, Tracker
    <3>2. CASE Goes(w, "verify")
      BY <1>t, <3>2 DEF Goes, Tracker
    <3>3. CASE watchdog' = [watchdog EXCEPT ![w] = Rested(t)]
      BY <1>t, <3>1, <3>3
    <3> QED BY <1>6, <3>2, <3>3 DEF Terminate
  <2>4. WatchdogClaims' /\ ClaimIsHeld'
    BY <1>h, <2>1, <2>3 DEF WatchdogClaims, ClaimIsHeld, At, Watching
  <2>5. GuestClaims' /\ RecordNeedsDirectory'
    BY <2>1, <2>2, <2>3
       DEF IInv, Custody, GuestClaims, RecordNeedsDirectory, JudgedStale, At
  <2> QED BY <2>4, <2>5 DEF Custody
<1>7. CASE Verify(w)
  <2>1. t.pc = "verify" /\ UNCHANGED <<fence, guest>>
    BY <1>7 DEF Verify, At, WindowsOnly, inside
  <2>2. PICK u \in Tracker :
          /\ watchdog' = [watchdog EXCEPT ![w] = u]
          /\ u.pc = "clear" \/ (u.pc = "rest" /\ u.held = t.held /\ u.gen = t.gen)
    <3>1. Rested(t) \in Tracker /\ Rested(t).pc = "rest" /\ Rested(t).held = t.held
          /\ Rested(t).gen = t.gen
      BY <1>t DEF Rested, Tracker, WatchPc
    <3> DEFINE cleared == [t EXCEPT !.pc = "clear", !.clearing = t.gen, !.then = "reset"]
    <3>2. cleared \in Tracker /\ cleared.pc = "clear"
      BY <1>t DEF Tracker, WatchPc
    <3>3. watchdog' = [watchdog EXCEPT ![w] = Rested(t)] \/ watchdog' = [watchdog EXCEPT ![w] = cleared]
      BY <1>7, <1>t DEF Verify
    <3> HIDE DEF cleared
    <3> QED BY <3>1, <3>2, <3>3
  <2> QED BY <1>h, <2>1, <2>2, WatchdogMoves DEF Watching
<1> QED BY <1>1, <1>2, <1>3, <1>4, <1>5, <1>6, <1>7 DEF Recover

\* Clearing and retiring: the directory is removed only while it still carries
\* the record that was read.
LEMMA SettleKeepsCustody ==
    ASSUME IInv, NEW w, Watchdogs = {w}, Settle(w)
    PROVE  Custody'
<1> DEFINE t == watchdog[w]
<1>t. t \in Tracker /\ watchdog \in [Watchdogs -> Tracker] /\ TypeOK' /\ TypeOK
  BY SettleTyped DEF IInv, TypeOK
<1>1. CASE ObserveHealthy(w)
  <2>1. watchdog' = [watchdog EXCEPT ![w] = watchdog'[w]] /\ watchdog'[w].pc \in { "retire", "clear" }
        /\ UNCHANGED <<fence, guest>>
    BY <1>1, <1>t DEF ObserveHealthy, Tracker, WindowsOnly, inside
  <2>2. watchdog'[w] \in Tracker
    BY <1>t DEF TypeOK
  <2> QED BY <2>1, <2>2, WatchdogMoves DEF Watching
<1>2. CASE ClearOwner(w)
  <2>1. UNCHANGED <<fence, guest>>
    BY <1>2 DEF ClearOwner, WindowsOnly, inside
  <2>2. CASE fence.owner = Windows(t.clearing)
    <3> DEFINE u == [t EXCEPT !.pc = "unfence"]
    <3>1. watchdog' = [watchdog EXCEPT ![w] = u]
      BY <1>2, <2>2 DEF ClearOwner, Goes
    <3>2. u \in Tracker /\ u.pc = "unfence" /\ u.clearing = t.clearing
      BY <1>t DEF Tracker, WatchPc
    <3> HIDE DEF u
    <3> QED BY <2>1, <2>2, <3>1, <3>2, WatchdogMoves DEF Watching
  <2>3. CASE fence.owner # Windows(t.clearing)
    <3>1. Goes(w, "clear_request")
      BY <1>2, <2>3 DEF ClearOwner
    <3> QED BY <2>1, <3>1, WatchdogGoes DEF WatchPc, Watching
  <2> QED BY <2>2, <2>3
<1>3. CASE Unfence(w)
  <2>1. fence.owner = Windows(t.clearing) /\ UNCHANGED guest
    BY <1>3 DEF Unfence, At, IInv, Custody, WatchdogClaims, WindowsOnly, inside
  <2>2. guest.pc \notin { "check", "launching", "release", "owner", "reread", "remove" }
    BY <2>1, OwnersDiffer DEF IInv, Custody, GuestClaims, JudgedStale, Claimed
  <2>3. GuestClaims'
    BY <2>1, <2>2 DEF GuestClaims
  <2>4. watchdog'[w].pc \in { "clear_request", "retire", "reset" }
    BY <1>3, <1>t DEF Unfence, Goes, Erred, Tracker
  <2>5. WatchdogClaims' /\ ClaimIsHeld'
    BY <2>4 DEF WatchdogClaims, ClaimIsHeld, At, Watching
  <2>6. RecordNeedsDirectory'
    BY <1>3, RemoveKeepsRecord DEF Unfence, IInv, Custody
  <2> QED BY <2>3, <2>5, <2>6 DEF Custody
<1>4. CASE ClearRequest(w)
  BY <1>4, <1>t, WatchdogGoes
     DEF ClearRequest, Cleared, Tracker, WatchPc, Watching, WindowsOnly, inside
<1>5. CASE Unrequest(w)
  BY <1>5, <1>t, WatchdogGoes
     DEF Unrequest, Cleared, Erred, Tracker, WatchPc, Watching, WindowsOnly, inside
<1>6. CASE Retire(w)
  BY <1>6, WatchdogGoes DEF Retire, WatchPc, Watching, WindowsOnly, inside
<1>7. CASE RetireFence(w)
  <2>1. watchdog' = [watchdog EXCEPT ![w] = watchdog'[w]]
        /\ watchdog'[w].pc \in { "retire_request", "clear" } /\ UNCHANGED <<fence, guest>>
    BY <1>7, <1>t DEF RetireFence, Tracker, WindowsOnly, inside
  <2>2. watchdog'[w] \in Tracker
    BY <1>t DEF TypeOK
  <2> QED BY <2>1, <2>2, WatchdogMoves DEF Watching
<1>8. CASE RetireRequest(w)
  <2>1. watchdog' = [watchdog EXCEPT ![w] = watchdog'[w]]
        /\ watchdog'[w].pc \in { "reset", "clear" } /\ UNCHANGED <<fence, guest>>
    BY <1>8, <1>t DEF RetireRequest, Tracker, WindowsOnly, inside
  <2>2. watchdog'[w] \in Tracker
    BY <1>t DEF TypeOK
  <2> QED BY <2>1, <2>2, WatchdogMoves DEF Watching
<1>9. CASE Reset(w)
  <2>1. NoTracker.pc = "rest" /\ NoTracker.held = FALSE
    BY DEF NoTracker
  <2> QED BY <1>9, <2>1, NoTrackerTyped, WatchdogMoves DEF Reset, WindowsOnly, inside
<1> QED BY <1>1, <1>2, <1>3, <1>4, <1>5, <1>6, <1>7, <1>8, <1>9 DEF Settle

LEMMA NextCustody ==
    ASSUME NEW w, Watchdogs = {w}
    PROVE  IInv /\ [Next]_vars => IInv'
<1> SUFFICES ASSUME IInv, [Next]_vars PROVE Custody'
  BY NextTyped DEF IInv
<1>1. CASE UNCHANGED <<fence, guest, watchdog>>
  BY <1>1 DEF IInv, Custody, RecordNeedsDirectory, GuestClaims, WatchdogClaims, ClaimIsHeld,
              JudgedStale, At
<1>2. CASE UNCHANGED vars \/ GuestHeartbeat \/ GuestSupervise \/ WslChanges \/ RunnerMoves
           \/ RequestAges
  BY <1>1, <1>2 DEF vars, GuestHeartbeat, GuestSupervise, WslChanges, RunnerMoves, RequestAges,
                    shared, inside
<1>3. CASE WatchdogCrash(w)
  <2>1. NoTracker.pc = "rest" /\ NoTracker.held = FALSE
    BY DEF NoTracker
  <2> QED BY <1>3, <2>1, NoTrackerTyped, WatchdogMoves DEF WatchdogCrash, inside
<1>4. CASE FenceAges
  <2>1. /\ fence'.owner = fence.owner /\ fence'.dir = fence.dir /\ fence'.old
        /\ UNCHANGED <<guest, watchdog>>
    BY <1>4 DEF FenceAges, IInv, TypeOK, inside
  <2>2. ~GuestAt("owner") /\ ~At(w, "owner")
    BY <1>4 DEF FenceAges
  <2> QED BY <2>1, <2>2 DEF IInv, Custody, RecordNeedsDirectory, GuestClaims, WatchdogClaims,
                            ClaimIsHeld, JudgedStale, At, GuestAt
<1>5. CASE GuestCrash
  <2>1. guest'.pc = "off" /\ UNCHANGED <<fence, watchdog>>
    BY <1>5 DEF GuestCrash, GuestOff, shared
  <2> QED BY <2>1 DEF IInv, Custody, RecordNeedsDirectory, GuestClaims, WatchdogClaims,
                      ClaimIsHeld, At
<1> QED
  BY <1>2, <1>3, <1>4, <1>5, GuestKeepsCustody, RecoverKeepsCustody, SettleKeepsCustody DEF Next

LEMMA Inductive ==
    ASSUME NEW w, Watchdogs = {w}
    PROVE  Spec => []IInv
<1>1. Init => IInv
  BY InitTyped, InitCustody DEF IInv
<1> QED BY <1>1, NextCustody, PTL DEF Spec

\* A lone watchdog that believes it holds the fence does, whatever the guest does,
\* however often either side crashes and whichever file operation fails:
\* fence_held may be remembered and never read again (wsl_watchdog.rs, observe).
THEOREM RememberedClaimIsHeld ==
    ASSUME NEW w, Watchdogs = {w}
    PROVE  Spec => []HeldIsHeld
<1>1. IInv => HeldIsHeld
  BY DEF IInv, Custody, ClaimIsHeld, HeldIsHeld
<1> QED BY <1>1, Inductive, PTL

\* The fence excludes a launch in progress from termination
\* (WslRecoveryAllocationLock against recover_named).
THEOREM FenceExcludes ==
    ASSUME NEW w, Watchdogs = {w}
    PROVE  Spec => []LaunchNotInterrupted
<1>1. IInv => LaunchNotInterrupted
  BY OwnersDiffer
     DEF IInv, Custody, ClaimIsHeld, WatchdogClaims, GuestClaims, LaunchNotInterrupted, At,
         GuestAt, Watching
<1> QED BY <1>1, Inductive, PTL

\* Neither side removes the other's claim, although no lock spans the read of the
\* owner record and the removal of the directory (reclaim_unheld, clear_recovery).
THEOREM ClaimsRespected ==
    ASSUME NEW w, Watchdogs = {w}
    PROVE  Spec => ClaimsAreRespected
<1> DEFINE guestKept == (fence.owner = Guest /\ fence'.owner # Guest) => guest' # guest
           windowsKept == (fence.owner.kind = "windows" /\ fence'.owner # fence.owner)
                              => watchdog' # watchdog
<1>1. ASSUME IInv, [Next]_vars
      PROVE  guestKept /\ windowsKept
  <2>k. Guest.kind = "guest" /\ Nobody.kind = "none"
    BY DEF Guest, Nobody
  <2>1. CASE UNCHANGED vars
    BY <2>1 DEF vars
  <2>2. CASE fence'.owner = fence.owner
    BY <2>2
  <2>3. CASE GuestHeartbeat \/ GuestSupervise \/ WslChanges \/ RunnerMoves \/ RequestAges
             \/ GuestCrash \/ FenceAges \/ WatchdogCrash(w)
    <3>1. fence'.owner = fence.owner
      BY <1>1, <2>3
         DEF GuestHeartbeat, GuestSupervise, WslChanges, RunnerMoves, RequestAges, GuestCrash,
             FenceAges, WatchdogCrash, shared, inside, IInv, TypeOK
    <3> QED BY <2>2, <3>1
  <2>4. CASE GuestStep
    <3>1. CASE GuestStart \/ GuestCheckRequest \/ GuestLaunch \/ GuestJudge \/ GuestReread
      BY <2>2, <3>1 DEF GuestStart, GuestCheckRequest, GuestLaunch, GuestJudge, GuestReread, shared
    <3>2. CASE GuestClaim \/ GuestWriteOwner
      <4>1. fence.owner = Nobody \/ fence' = fence
        BY <1>1, <3>2 DEF GuestClaim, GuestWriteOwner, GuestAt, IInv, Custody, GuestClaims,
                          RecordNeedsDirectory, Claimed
      <4> QED BY <2>k, <4>1, OwnersDiffer
    <3>3. CASE GuestRelease \/ GuestRemove
      <4>1. fence.owner \in { Nobody, Guest }
        BY <1>1, <3>3 DEF GuestRelease, GuestRemove, GuestAt, IInv, Custody, GuestClaims, JudgedStale
      <4>2. guest'.pc # guest.pc
        BY <1>1, <3>3 DEF GuestRelease, GuestRemove, GuestAt, GuestGoes, IInv, TypeOK
      <4> QED BY <2>k, <4>1, <4>2
    <3> QED BY <2>4, <3>1, <3>2, <3>3 DEF GuestStep
  <2>5. CASE Recover(w) \/ Settle(w)
    <3>1. CASE fence' = fence
      BY <3>1
    <3>2. CASE Claim(w) \/ ClaimOwner(w)
      <4>1. fence.owner = Nobody \/ fence' = fence
        BY <1>1, <3>2 DEF Claim, ClaimOwner, At, IInv, Custody, WatchdogClaims,
                          RecordNeedsDirectory, Claimed
      <4> QED BY <2>k, <4>1, OwnersDiffer
    <3>3. CASE Unfence(w)
      <4>1. fence.owner # Guest
        BY <1>1, <3>3, OwnersDiffer DEF Unfence, At, IInv, Custody, WatchdogClaims
      <4>2. watchdog'[w].pc # watchdog[w].pc
        BY <1>1, <3>3 DEF Unfence, At, Goes, Erred, IInv, TypeOK, Tracker
      <4> QED BY <4>1, <4>2
    <3> QED
      BY <2>5, <3>1, <3>2, <3>3
         DEF Recover, Settle, ObserveFailure, ReadHeartbeat, ReadInventory, Terminate, Verify,
             ObserveHealthy, ClearOwner, ClearRequest, Unrequest, Retire, RetireFence,
             RetireRequest, Reset, shared
  <2> QED BY <1>1, <2>1, <2>3, <2>4, <2>5 DEF Next
<1>2. IInv /\ [Next]_vars => [guestKept /\ windowsKept]_vars
  BY <1>1
<1> QED BY <1>2, Inductive, PTL DEF Spec, ClaimsAreRespected
==============================================================================
