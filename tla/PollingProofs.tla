---------------------------- MODULE PollingProofs ----------------------------
(***************************************************************************)
(* What holds of the target loops and their gateway whatever the number of *)
(* loops, repositories and jobs, the intervals and the waits GitHub asks   *)
(* for.                                                                    *)
(***************************************************************************)
EXTENDS Polling, FiniteSetTheorems, TLAPS

-----------------------------------------------------------------------------
(* The inductive invariant. *)

Reads == { "gate", "fetch", "answer" }

\* A loop that reads has a repository to read.
InScope(l, self) == self.pc \in Reads => self.next \in 1 .. Len(Scope[l])

\* A loop drains with its token cancelled, so that it reads nothing more and
\* holds no demand a runner could be started for.
DrainIsCancelled(self) ==
    self.draining # None =>
        self.cancelled /\ self.handed = {} /\ self.pc \notin { "start", "fetch", "answer", "failed" }

HandedWhilePolling(self) == self.pc \in { "start", "sleep" } => self.handed = {}

\* A sleep that ends early was cut by a wake that the loop honoured, and to no
\* less than WAKE_MIN_GAP after the poll before it.
SleepIsPaced(self) ==
    self.pc = "sleep" /\ self.left # self.scheduled =>
        self.draining = None /\ ~self.throttled /\ self.left + self.sincePoll >= WAKE_MIN_GAP

Paced(l, self) ==
    InScope(l, self) /\ DrainIsCancelled(self) /\ HandedWhilePolling(self) /\ SleepIsPaced(self)

LoopsPaced == \A l \in Loops : Paced(l, loop[l])

\* A loop is only done when it drained; one that let its jobs end has none left.
DoneIsDrained ==
    \A l \in Loops : loop[l].pc = "done" =>
        loop[l].draining = "shutdown" \/ (loop[l].draining = "upgrade" /\ runners[l] = 0)

\* The deadline of a shutdown is a shutdown's.
ShutdownIsHeard ==
    daemon.phase \in { "running", "upgrading" } => \A l \in Loops : loop[l].draining # "shutdown"

Fetches == { "fetch", "answer" }

\* A loop that fetches holds the gate of what it fetches.
GateHeld == \A l \in Loops : loop[l].pc \in Fetches => gate[Wants(l)] = l

\* What is missing from a reading, or from an answer on its way, came to the
\* queue after the gate was taken.
NewJobsWait == \A j \in Jobs : job[j].state = "new" => job[j].waited = 0

ReadingCovers ==
    \A r \in Repositories : Fresh(reading[r]) =>
        \A j \in Queued(r) : job[j].waited > reading[r].age => j \in reading[r].jobs

Covers(l, self) ==
    self.pc = "answer" =>
        \A j \in Queued(Scope[l][self.next]) : job[j].waited > self.age => j \in self.handed

AnswerCovers == \A l \in Loops : Covers(l, loop[l])

IInv ==
    /\ TypeOK /\ LoopsPaced /\ DoneIsDrained /\ ShutdownIsHeard
    /\ GateHeld /\ NewJobsWait /\ ReadingCovers /\ AnswerCovers

-----------------------------------------------------------------------------
(* Delays and quiet periods. *)

\* The subsets of a set of k elements.
LEMMA PowerTyped ==
    ASSUME NEW k \in Nat
    PROVE  2 ^ k \in Nat
<1>1. IsFiniteSet(1 .. k) /\ Cardinality(1 .. k) = k
  BY FS_Interval
<1>2. IsFiniteSet(SUBSET (1 .. k)) /\ Cardinality(SUBSET (1 .. k)) = 2 ^ k
  BY <1>1, FS_SUBSET
<1> QED BY <1>2, FS_CardinalityType

LEMMA DoubledTyped ==
    ASSUME NEW delay \in Nat, NEW n \in Nat, NEW cap \in Nat
    PROVE  Doubled(delay, n, cap) \in Nat
<1>1. Least(n, cap) \in Nat
  BY DEF Least
<1>2. 2 ^ Least(n, cap) \in Nat
  BY <1>1, PowerTyped
<1> QED BY <1>2 DEF Doubled

LEMMA DelayTyped ==
    ASSUME NEW asked \in Nat
    PROVE  DelayFrom(asked) \in 0 .. MAX_RATE_LIMIT_BACKOFF
BY PacingAssumption DEF DelayFrom, Least

LEMMA ConsecutiveTyped ==
    ASSUME NEW h \in Hold, NEW kind \in { "primary", "secondary" }
    PROVE  Consecutive(h, kind) \in 0 .. MaxEpisodes
<1>1. h.left \in Int /\ h.consecutive \in 0 .. MaxEpisodes
  BY PacingAssumption DEF Hold
<1>2. CASE kind = "primary"
  BY <1>2, PacingAssumption DEF Consecutive
<1>3. CASE kind = "secondary" /\ Live(h)
  BY <1>1, <1>3, PacingAssumption DEF Consecutive, Greatest
<1>4. CASE kind = "secondary" /\ ~Live(h) /\ h.ended < HOLD_MEMORY
  BY <1>1, <1>4, PacingAssumption DEF Consecutive, Least
<1>5. CASE kind = "secondary" /\ ~Live(h) /\ ~(h.ended < HOLD_MEMORY)
  BY <1>1, <1>5, PacingAssumption DEF Consecutive
<1> QED BY <1>2, <1>3, <1>4, <1>5

LEMMA HoldWaitTyped ==
    ASSUME NEW h \in Hold, NEW kind \in { "primary", "secondary" }, NEW asked \in Nat
    PROVE  HoldWait(h, kind, asked) \in 0 .. MAX_RATE_LIMIT_BACKOFF
<1> DEFINE n == Consecutive(h, kind)
<1>1. n \in 0 .. MaxEpisodes
  BY ConsecutiveTyped
<1>2. CASE n > 1
  <2>1. n - 1 \in Nat
    BY <1>1, <1>2, PacingAssumption
  <2> DEFINE d == Doubled(DEFAULT_RATE_LIMIT_BACKOFF, n - 1, 10)
  <2>2. d \in Nat
    BY <2>1, DoubledTyped, PacingAssumption
  <2>3. DelayFrom(asked) \in Nat
    BY DelayTyped, PacingAssumption
  <2> HIDE DEF d
  <2>4. Least(Greatest(DelayFrom(asked), d), MAX_RATE_LIMIT_BACKOFF) \in 0 .. MAX_RATE_LIMIT_BACKOFF
    BY <2>2, <2>3, PacingAssumption DEF Least, Greatest
  <2> QED BY <1>2, <2>4 DEF HoldWait, d
<1>3. CASE ~(n > 1)
  BY <1>3, DelayTyped DEF HoldWait
<1> QED BY <1>2, <1>3

\* The quiet period after an answer that names a limit is no shorter than before.
LEMMA HoldForTyped ==
    ASSUME NEW h \in Hold, NEW kind \in { "primary", "secondary" }, NEW asked \in Nat
    PROVE  HoldFor(h, kind, asked) \in Hold /\ HoldFor(h, kind, asked).left >= h.left
<1> DEFINE wait == HoldWait(h, kind, asked)
           count == Consecutive(h, kind)
<1>1. wait \in 0 .. MAX_RATE_LIMIT_BACKOFF /\ count \in 0 .. MaxEpisodes
  BY HoldWaitTyped, ConsecutiveTyped
<1>2. h.left \in 0 .. MAX_RATE_LIMIT_BACKOFF /\ h.consecutive \in 0 .. MaxEpisodes
  BY DEF Hold
<1> HIDE DEF wait, count
<1>3. UntilFor(h, wait) \in 0 .. MAX_RATE_LIMIT_BACKOFF /\ UntilFor(h, wait) >= h.left
  BY <1>1, <1>2, PacingAssumption DEF UntilFor, Greatest
<1>4. Greatest(count, IF Live(h) THEN h.consecutive ELSE 0) \in 0 .. MaxEpisodes
  BY <1>1, <1>2, PacingAssumption DEF Greatest
<1>5. 0 \in 0 .. HOLD_MEMORY
  BY PacingAssumption
<1> QED BY <1>3, <1>4, <1>5 DEF HoldFor, Hold, wait, count

LEMMA NoHoldTyped == NoHold \in Hold
BY PacingAssumption DEF NoHold, Hold

\* A request that went through forgets a quiet period that has ended.
LEMMA ClearHoldTyped ==
    ASSUME NEW h \in Hold
    PROVE  ClearHold(h) \in Hold /\ ClearHold(h).left >= h.left
<1>1. h.left \in Nat
  BY PacingAssumption DEF Hold
<1> QED BY <1>1, NoHoldTyped DEF ClearHold, Live, NoHold

LEMMA HoldAgesTyped ==
    ASSUME NEW h \in Hold
    PROVE  HoldAges(h) \in Hold
<1>1. h.left \in 0 .. MAX_RATE_LIMIT_BACKOFF /\ h.ended \in 0 .. HOLD_MEMORY
  BY DEF Hold
<1>2. CASE Live(h)
  <2>1. h.left - 1 \in 0 .. MAX_RATE_LIMIT_BACKOFF
    BY <1>1, <1>2, PacingAssumption DEF Live
  <2> QED BY <2>1, <1>2 DEF HoldAges, Hold
<1>3. CASE ~Live(h)
  <2>1. Least(h.ended + 1, HOLD_MEMORY) \in 0 .. HOLD_MEMORY
    BY <1>1, PacingAssumption DEF Least
  <2> QED BY <2>1, <1>3 DEF HoldAges, Hold
<1> QED BY <1>2, <1>3

\* Every pace a pass may set has a delay.
LEMMA DelaysTyped ==
    ASSUME NEW outcome \in Outcomes, NEW quiet \in BOOLEAN, NEW floor \in Nat,
           NEW consecutive \in 0 .. MaxOffline, outcome = "offline" => consecutive > 0,
           NEW next \in NextPolls(outcome, quiet, floor, consecutive)
    PROVE  next.delay \in Nat
<1> USE PacingAssumption
<1>1. CASE outcome = "ready"
  BY <1>1 DEF NextPolls
<1>2. CASE outcome = "low_quota"
  <2>1. PICK stretch \in { 2, 4 } : next = [ pace |-> "stretched",
                delay |-> Least(NOMINAL * stretch, Greatest(floor, NOMINAL)) ]
    BY <1>2 DEF NextPolls
  <2>2. NOMINAL * stretch \in Nat /\ Greatest(floor, NOMINAL) \in Nat
    BY DEF Greatest
  <2> QED BY <2>1, <2>2 DEF Least
<1>3. CASE outcome = "rate_limited"
  <2>1. PICK j \in Jitter : next = [ pace |-> "rate_limited", delay |-> Greatest(floor, NOMINAL) + j ]
    BY <1>3 DEF NextPolls
  <2>2. j \in Nat /\ Greatest(floor, NOMINAL) \in Nat
    BY DEF Greatest
  <2> QED BY <2>1, <2>2
<1>4. CASE outcome = "offline"
  <2>1. PICK j \in Jitter : next = [ pace |-> "offline", delay |-> OfflineDelay(consecutive) + j ]
    BY <1>4 DEF NextPolls
  <2>2. Doubled(NOMINAL, consecutive - 1, 5) \in Nat
    <3>1. consecutive - 1 \in Nat
      BY <1>4
    <3> QED BY <3>1, DoubledTyped
  <2>3. j \in Nat /\ OfflineDelay(consecutive) \in Nat
    BY <2>2 DEF OfflineDelay, Least
  <2> QED BY <2>1, <2>3
<1>5. CASE outcome \in { "blocked", "cancelled", "skipped" }
  BY <1>5 DEF NextPolls
<1> QED BY <1>1, <1>2, <1>3, <1>4, <1>5 DEF Outcomes

-----------------------------------------------------------------------------
(* One loop's step. *)

LEMMA LoopTyped ==
    ASSUME IInv, NEW l \in Loops
    PROVE  loop[l] \in Loop /\ Paced(l, loop[l])
BY DEF IInv, TypeOK, LoopsPaced

LEMMA WantsTyped ==
    ASSUME IInv, NEW l \in Loops, loop[l].pc \in Reads
    PROVE  Wants(l) \in Repositories /\ loop[l].next \in 1 .. Len(Scope[l])
<1>1. loop[l].next \in 1 .. Len(Scope[l])
  BY LoopTyped DEF Paced, InScope
<1>2. Scope[l] \in Seq(Repositories)
  BY PollingAssumption
<1> QED BY <1>1, <1>2 DEF Wants

LEMMA LoopBecomes ==
    ASSUME IInv, NEW l \in Loops, NEW r \in Loop, Becomes(l, r)
    PROVE  /\ loop' \in [ Loops -> Loop ] /\ loop'[l] = r
           /\ \A m \in Loops : m # l => loop'[m] = loop[m]
<1>1. loop \in [ Loops -> Loop ] /\ loop' = [ loop EXCEPT ![l] = r ]
  BY DEF IInv, TypeOK, Becomes
<1> QED BY <1>1

\* A step of one loop: what it owes the other parts of the invariant.
LEMMA LoopMoves ==
    ASSUME IInv, NEW l \in Loops, NEW r \in Loop, Becomes(l, r), UNCHANGED <<job, daemon>>,
           Paced(l, r), Covers(l, r),
           r.pc = "done" => r.draining = "shutdown" \/ (r.draining = "upgrade" /\ runners'[l] = 0),
           r.draining = "shutdown" => loop[l].draining = "shutdown" \/ daemon.phase = "stopping",
           runners' \in [ Loops -> 0 .. 1 ], \A m \in Loops : m # l => runners'[m] = runners[m],
           hold' \in Hold, noticed' \subseteq Jobs,
           reading' \in [ Repositories -> Reading ], ReadingCovers',
           gate' \in [ Repositories -> Loops \cup { None } ], GateHeld'
    PROVE  IInv'
<1>1. /\ loop' \in [ Loops -> Loop ] /\ loop'[l] = r
      /\ \A m \in Loops : m # l => loop'[m] = loop[m]
  BY LoopBecomes
<1>2. TypeOK'
  <2>1. job' \in [ Jobs -> Job ] /\ daemon' \in [ phase: Phases, stop: BOOLEAN ]
    BY DEF IInv, TypeOK
  <2> QED BY <1>1, <2>1 DEF TypeOK
<1>3. LoopsPaced'
  BY <1>1, LoopTyped DEF LoopsPaced
<1>4. DoneIsDrained'
  BY <1>1 DEF IInv, DoneIsDrained
<1>5. ShutdownIsHeard'
  BY <1>1 DEF IInv, ShutdownIsHeard
<1>6. NewJobsWait'
  BY DEF IInv, NewJobsWait
<1>7. AnswerCovers'
  <2>1. SUFFICES ASSUME NEW m \in Loops PROVE Covers(m, loop[m])'
    BY DEF AnswerCovers
  <2>2. Covers(m, loop[m])
    BY DEF IInv, AnswerCovers
  <2>3. Covers(m, loop'[m])
    BY <1>1, <2>2
  <2> QED BY <2>3 DEF Covers, Queued
<1> QED BY <1>2, <1>3, <1>4, <1>5, <1>6, <1>7 DEF IInv

\* ... when nothing else moves.
LEMMA LoopMovesAlone ==
    ASSUME IInv, NEW l \in Loops, NEW r \in Loop, Becomes(l, r),
           UNCHANGED <<reading, gate, hold, job, runners, daemon, noticed>>,
           Paced(l, r), Covers(l, r), r.pc \in Fetches => gate[Scope[l][r.next]] = l,
           r.pc = "done" => r.draining = "shutdown",
           r.draining = "shutdown" => loop[l].draining = "shutdown" \/ daemon.phase = "stopping"
    PROVE  IInv'
<1>1. /\ loop' \in [ Loops -> Loop ] /\ loop'[l] = r
      /\ \A m \in Loops : m # l => loop'[m] = loop[m]
  BY LoopBecomes
<1>2. /\ runners' \in [ Loops -> 0 .. 1 ] /\ hold' \in Hold /\ noticed' \subseteq Jobs
      /\ reading' \in [ Repositories -> Reading ]
      /\ gate' \in [ Repositories -> Loops \cup { None } ]
  BY DEF IInv, TypeOK
<1>3. ReadingCovers'
  BY DEF IInv, ReadingCovers, Queued
<1>4. GateHeld'
  BY <1>1 DEF IInv, GateHeld, Wants
<1> QED BY <1>2, <1>3, <1>4, LoopMoves

\* The top of a pass.
LEMMA DrainingTyped ==
    ASSUME NEW self \in Loop, NEW kind \in DrainKind, NEW d \in 0 .. DRAIN_DEADLINE
    PROVE  [ self EXCEPT !.pc = "poll", !.draining = kind, !.disabled = TRUE, !.cancelled = TRUE,
                         !.drainLeft = d ] \in Loop
<1>1. "poll" \in Places
  BY DEF Places
<1> QED BY <1>1 DEF Loop

LEMMA BeginDrainTyped ==
    ASSUME NEW self \in Loop, NEW kind \in { "shutdown", "upgrade" }
    PROVE  /\ BeginDrain(self, kind) \in Loop /\ BeginDrain(self, kind).pc = "poll"
           /\ BeginDrain(self, kind).draining = kind /\ BeginDrain(self, kind).cancelled
           /\ BeginDrain(self, kind).handed = self.handed
<1>1. (IF kind = "shutdown" THEN DRAIN_DEADLINE ELSE 0) \in 0 .. DRAIN_DEADLINE
  BY PollingAssumption
<1>2. kind \in DrainKind
  BY DEF DrainKind
<1>3. BeginDrain(self, kind) \in Loop
  BY <1>1, <1>2, DrainingTyped DEF BeginDrain
<1> QED BY <1>3 DEF Loop, BeginDrain

LEMMA StartStep ==
    ASSUME IInv, NEW l \in Loops, Start(l)
    PROVE  IInv'
<1>1. /\ UNCHANGED <<reading, gate, hold, job, runners, daemon, noticed>>
      /\ loop[l].pc = "start" /\ daemon.phase \in { "running", "stopping", "upgrading" }
  BY DEF Start, gateway, Alive
<1>2. loop[l] \in Loop /\ Paced(l, loop[l])
  BY LoopTyped
<1>3. loop[l].handed = {} /\ loop[l].draining = None
  BY <1>1, <1>2 DEF Paced, HandedWhilePolling, DrainIsCancelled
<1>4. ASSUME NEW kind \in { "shutdown", "upgrade" }, Becomes(l, BeginDrain(loop[l], kind)),
             kind = "shutdown" => daemon.phase = "stopping"
      PROVE  IInv'
  <2> DEFINE r == BeginDrain(loop[l], kind)
  <2>1. r \in Loop /\ r.pc = "poll" /\ r.draining = kind /\ r.cancelled /\ r.handed = {}
    BY <1>2, <1>3, BeginDrainTyped
  <2> HIDE DEF r
  <2>2. Paced(l, r) /\ Covers(l, r)
    BY <2>1 DEF Paced, InScope, DrainIsCancelled, HandedWhilePolling, SleepIsPaced, Covers, Reads
  <2> QED BY <1>1, <1>4, <2>1, <2>2, LoopMovesAlone DEF r, Fetches
<1>5. CASE daemon.phase = "running"
  <2> DEFINE r == [ loop[l] EXCEPT !.pc = "poll" ]
  <2>1. r \in Loop /\ r.pc = "poll" /\ r.draining = None
    BY <1>2, <1>3 DEF Loop, Places
  <2>2. Becomes(l, r)
    BY <1>5 DEF Start
  <2> HIDE DEF r
  <2>3. Paced(l, r) /\ Covers(l, r)
    BY <2>1 DEF Paced, InScope, DrainIsCancelled, HandedWhilePolling, SleepIsPaced, Covers, Reads
  <2> QED BY <1>1, <2>1, <2>2, <2>3, LoopMovesAlone DEF None, Fetches
<1>6. CASE daemon.phase = "stopping"
  BY <1>4, <1>6 DEF Start
<1>7. CASE daemon.phase = "upgrading"
  BY <1>4, <1>7 DEF Start
<1> QED BY <1>1, <1>5, <1>6, <1>7

LEMMA StopAtDeadlineStep ==
    ASSUME IInv, NEW l \in Loops, StopAtDeadline(l)
    PROVE  IInv'
<1> DEFINE r == [ loop[l] EXCEPT !.pc = "done" ]
<1>1. /\ UNCHANGED <<reading, gate, hold, job, runners, daemon, noticed>>
      /\ loop[l].pc = "poll" /\ loop[l].draining = "shutdown" /\ Becomes(l, r)
  BY DEF StopAtDeadline, gateway, DeadlinePassed
<1>2. loop[l] \in Loop /\ Paced(l, loop[l])
  BY LoopTyped
<1>3. /\ r \in Loop /\ r.pc = "done" /\ r.draining = "shutdown"
      /\ r.handed = loop[l].handed /\ r.cancelled = loop[l].cancelled
  BY <1>1, <1>2 DEF Loop, Places
<1> HIDE DEF r
<1>4. Paced(l, r) /\ Covers(l, r)
  BY <1>1, <1>2, <1>3 DEF Paced, InScope, DrainIsCancelled, HandedWhilePolling, SleepIsPaced, Covers, Reads
<1> QED BY <1>1, <1>3, <1>4, LoopMovesAlone DEF Fetches

LEMMA PollStep ==
    ASSUME IInv, NEW l \in Loops, Poll(l)
    PROVE  IInv'
<1>1. /\ UNCHANGED <<reading, gate, hold, job, runners, daemon, noticed>>
      /\ loop[l].pc = "poll"
  BY DEF Poll, gateway
<1>2. loop[l] \in Loop /\ Paced(l, loop[l])
  BY LoopTyped
<1>3. PICK readable \in BOOLEAN :
        Becomes(l, [ loop[l] EXCEPT
            !.pc = IF Refreshed(loop[l].disabled, readable) THEN "settle" ELSE "gate",
            !.outcome = IF Refreshed(loop[l].disabled, readable) THEN "skipped" ELSE "ready",
            !.disabled = Refreshed(loop[l].disabled, readable), !.permit = FALSE, !.sincePoll = 0,
            !.next = 1, !.handed = {}, !.floor = 0 ])
  BY DEF Poll
<1> DEFINE d == Refreshed(loop[l].disabled, readable)
           r == [ loop[l] EXCEPT !.pc = IF d THEN "settle" ELSE "gate",
                                 !.outcome = IF d THEN "skipped" ELSE "ready",
                                 !.disabled = d, !.permit = FALSE, !.sincePoll = 0,
                                 !.next = 1, !.handed = {}, !.floor = 0 ]
<1>4. Becomes(l, r)
  BY <1>3
<1>5. d \in BOOLEAN
  BY <1>2 DEF Refreshed, Loop
<1> HIDE DEF d
<1>6. /\ r \in Loop /\ r.pc \in { "settle", "gate" } /\ r.next = 1 /\ r.handed = {}
      /\ r.draining = loop[l].draining /\ r.cancelled = loop[l].cancelled
  <2>1. /\ (IF d THEN "settle" ELSE "gate") \in Places
        /\ (IF d THEN "skipped" ELSE "ready") \in Outcomes
    BY DEF Places, Outcomes
  <2>2. 0 \in 0 .. WAKE_MIN_GAP
    BY PacingAssumption
  <2> QED BY <1>2, <1>5, <2>1, <2>2 DEF Loop
<1> HIDE DEF r
<1>7. 1 \in 1 .. Len(Scope[l])
  BY PollingAssumption
<1>8. Paced(l, r) /\ Covers(l, r)
  BY <1>1, <1>2, <1>6, <1>7 DEF Paced, InScope, DrainIsCancelled, HandedWhilePolling, SleepIsPaced, Covers, Reads
<1> QED BY <1>1, <1>4, <1>6, <1>8, LoopMovesAlone DEF Fetches

LEMMA WithdrawStep ==
    ASSUME IInv, NEW l \in Loops, Withdraw(l)
    PROVE  IInv'
<1> DEFINE r == [ loop[l] EXCEPT !.pc = "settle", !.outcome = "cancelled" ]
<1>1. /\ UNCHANGED <<reading, gate, hold, job, runners, daemon, noticed>>
      /\ loop[l].pc = "gate" /\ Becomes(l, r)
  BY DEF Withdraw, gateway
<1>2. loop[l] \in Loop /\ Paced(l, loop[l])
  BY LoopTyped
<1>3. /\ r \in Loop /\ r.pc = "settle" /\ r.draining = loop[l].draining
      /\ r.handed = loop[l].handed /\ r.cancelled = loop[l].cancelled
  BY <1>2 DEF Loop, Places, Outcomes
<1> HIDE DEF r
<1>4. Paced(l, r) /\ Covers(l, r)
  BY <1>1, <1>2, <1>3 DEF Paced, InScope, DrainIsCancelled, HandedWhilePolling, SleepIsPaced, Covers, Reads
<1> QED BY <1>1, <1>3, <1>4, LoopMovesAlone DEF Fetches

-----------------------------------------------------------------------------
(* One repository's reading. *)

LEMMA FailedTyped ==
    ASSUME NEW l \in Loops, NEW self \in Loop, Paced(l, self), NEW outcome \in Outcomes, NEW floor \in Nat
    PROVE  /\ Failed(self, outcome, floor) \in Loop /\ Failed(self, outcome, floor).pc = "settle"
           /\ Failed(self, outcome, floor).draining = self.draining
           /\ Failed(self, outcome, floor).next = self.next
           /\ Paced(l, Failed(self, outcome, floor)) /\ Covers(l, Failed(self, outcome, floor))
<1> DEFINE r == Failed(self, outcome, floor)
<1>1. 0 \in 0 .. IDLE
  BY PacingAssumption
<1>2. /\ r \in Loop /\ r.pc = "settle" /\ r.draining = self.draining /\ r.handed = {}
      /\ r.cancelled = self.cancelled /\ r.next = self.next
  BY <1>1 DEF Loop, Places, Failed
<1> HIDE DEF r
<1>3. Paced(l, r) /\ Covers(l, r)
  BY <1>2 DEF Paced, InScope, DrainIsCancelled, HandedWhilePolling, SleepIsPaced, Covers, Reads
<1> QED BY <1>2, <1>3 DEF r

LEMMA HandedTyped ==
    ASSUME NEW l \in Loops, NEW self \in Loop, Paced(l, self), self.pc \in Reads, self.draining = None,
           NEW jobs \in SUBSET Jobs
    PROVE  /\ Handed(self, l, jobs) \in Loop /\ Handed(self, l, jobs).pc \in { "settle", "gate" }
           /\ Handed(self, l, jobs).draining = None
           /\ Handed(self, l, jobs).handed = self.handed \cup jobs
           /\ Paced(l, Handed(self, l, jobs)) /\ Covers(l, Handed(self, l, jobs))
<1> DEFINE r == Handed(self, l, jobs)
<1>1. 0 \in 0 .. IDLE
  BY PacingAssumption
<1>2. self.next \in 1 .. Len(Scope[l]) /\ Len(Scope[l]) \in Nat
  BY PollingAssumption DEF Paced, InScope
<1>3. self.next + 1 \in Nat
  BY <1>2
<1>4. (IF self.next = Len(Scope[l]) THEN "settle" ELSE "gate") \in Places
  BY DEF Places
<1>5. /\ r \in Loop /\ r.draining = None /\ r.handed = self.handed \cup jobs /\ r.next = self.next + 1
      /\ r.pc = IF self.next = Len(Scope[l]) THEN "settle" ELSE "gate"
  BY <1>1, <1>3, <1>4 DEF Loop, Handed
<1> HIDE DEF r
<1>6. InScope(l, r)
  BY <1>2, <1>5 DEF InScope, Reads
<1>7. Paced(l, r) /\ Covers(l, r)
  BY <1>5, <1>6 DEF Paced, DrainIsCancelled, HandedWhilePolling, SleepIsPaced, Covers
<1> QED BY <1>5, <1>7 DEF r

LEMMA TakeSharedStep ==
    ASSUME IInv, NEW l \in Loops, TakeShared(l)
    PROVE  IInv'
<1> DEFINE jobs == reading[Wants(l)].jobs
           r == Handed(loop[l], l, jobs)
<1>1. /\ UNCHANGED <<reading, gate, hold, job, runners, daemon>>
      /\ loop[l].pc = "gate" /\ ~loop[l].cancelled /\ Becomes(l, r) /\ noticed' = noticed \cup jobs
  BY DEF TakeShared, gateway
<1>2. loop[l] \in Loop /\ Paced(l, loop[l]) /\ loop[l].pc \in Reads
  BY <1>1, LoopTyped DEF Reads
<1>3. jobs \in SUBSET Jobs
  <2>1. Wants(l) \in Repositories
    BY <1>2, WantsTyped
  <2> QED BY <2>1 DEF IInv, TypeOK, Reading
<1>4. loop[l].draining = None
  BY <1>1, <1>2 DEF Paced, DrainIsCancelled
<1>5. /\ r \in Loop /\ r.pc \in { "settle", "gate" } /\ r.draining = None
      /\ Paced(l, r) /\ Covers(l, r)
  BY <1>2, <1>3, <1>4, HandedTyped
<1> HIDE DEF r, jobs
<1>6. /\ loop' \in [ Loops -> Loop ] /\ loop'[l] = r
      /\ \A m \in Loops : m # l => loop'[m] = loop[m]
  BY <1>1, <1>5, LoopBecomes
<1>7. /\ runners' \in [ Loops -> 0 .. 1 ] /\ hold' \in Hold /\ noticed' \subseteq Jobs
      /\ reading' \in [ Repositories -> Reading ]
      /\ gate' \in [ Repositories -> Loops \cup { None } ]
  BY <1>1, <1>3 DEF IInv, TypeOK
<1>8. ReadingCovers'
  BY <1>1 DEF IInv, ReadingCovers, Queued
<1>9. GateHeld'
  BY <1>1, <1>5, <1>6 DEF IInv, GateHeld, Wants, Fetches
<1> QED BY <1>1, <1>5, <1>7, <1>8, <1>9, LoopMoves DEF None

LEMMA SuppressedStep ==
    ASSUME IInv, NEW l \in Loops, Suppressed(l)
    PROVE  IInv'
<1> DEFINE r == Failed(loop[l], "rate_limited", hold.left)
<1>1. /\ UNCHANGED <<reading, gate, hold, job, runners, daemon, noticed>> /\ Becomes(l, r)
  BY DEF Suppressed, gateway
<1>2. loop[l] \in Loop /\ Paced(l, loop[l])
  BY LoopTyped
<1>3. hold.left \in Nat
  BY PacingAssumption DEF IInv, TypeOK, Hold
<1>4. r \in Loop /\ r.pc = "settle" /\ r.draining = loop[l].draining /\ Paced(l, r) /\ Covers(l, r)
  <2>1. "rate_limited" \in Outcomes
    BY DEF Outcomes
  <2> QED BY <1>2, <1>3, <2>1, FailedTyped
<1> HIDE DEF r
<1> QED BY <1>1, <1>4, LoopMovesAlone DEF Fetches

LEMMA RequestStep ==
    ASSUME IInv, NEW l \in Loops, Request(l)
    PROVE  IInv'
<1> DEFINE r == [ loop[l] EXCEPT !.pc = "fetch", !.age = 0 ]
<1>1. /\ UNCHANGED <<reading, hold, job, runners, daemon, noticed>>
      /\ loop[l].pc = "gate" /\ ~loop[l].cancelled /\ gate[Wants(l)] = None
      /\ Becomes(l, r) /\ gate' = [ gate EXCEPT ![Wants(l)] = l ]
  BY DEF Request
<1>2. loop[l] \in Loop /\ Paced(l, loop[l]) /\ loop[l].pc \in Reads
  BY <1>1, LoopTyped DEF Reads
<1>3. loop[l].draining = None
  BY <1>1, <1>2 DEF Paced, DrainIsCancelled
<1>4. 0 \in 0 .. IDLE
  BY PacingAssumption
<1>5. r \in Loop /\ r.pc = "fetch" /\ r.draining = None /\ r.next = loop[l].next
  BY <1>2, <1>3, <1>4 DEF Loop, Places
<1> HIDE DEF r
<1>6. Paced(l, r) /\ Covers(l, r)
  BY <1>1, <1>2, <1>5 DEF Paced, InScope, DrainIsCancelled, HandedWhilePolling, SleepIsPaced, Covers, Reads
<1>7. /\ loop' \in [ Loops -> Loop ] /\ loop'[l] = r
      /\ \A m \in Loops : m # l => loop'[m] = loop[m]
  BY <1>1, <1>5, LoopBecomes
<1>8. /\ runners' \in [ Loops -> 0 .. 1 ] /\ hold' \in Hold /\ noticed' \subseteq Jobs
      /\ reading' \in [ Repositories -> Reading ]
      /\ gate' \in [ Repositories -> Loops \cup { None } ]
  BY <1>1 DEF IInv, TypeOK
<1>9. ReadingCovers'
  BY <1>1 DEF IInv, ReadingCovers, Queued
<1>10. GateHeld'
  <2>1. SUFFICES ASSUME NEW m \in Loops, loop'[m].pc \in Fetches
                 PROVE  gate'[Scope[m][loop'[m].next]] = m
    BY DEF GateHeld, Wants
  <2>2. Wants(l) \in Repositories /\ gate \in [ Repositories -> Loops \cup { None } ]
    BY <1>2, WantsTyped DEF IInv, TypeOK
  <2>3. CASE m = l
    BY <2>2, <2>3, <1>1, <1>5, <1>7 DEF Wants
  <2>4. CASE m # l
    <3>1. loop'[m] = loop[m] /\ gate[Wants(m)] = m
      BY <2>1, <2>4, <1>7 DEF IInv, GateHeld
    <3>2. Wants(m) # Wants(l)
      BY <3>1, <1>1, PollingAssumption DEF None
    <3> QED BY <3>1, <3>2, <2>2, <1>1 DEF Wants
  <2> QED BY <2>3, <2>4
<1> QED BY <1>1, <1>5, <1>6, <1>8, <1>9, <1>10, LoopMoves DEF None

LEMMA ServeStep ==
    ASSUME IInv, NEW l \in Loops, Serve(l)
    PROVE  IInv'
<1> DEFINE r == [ loop[l] EXCEPT !.pc = "answer", !.floor = 0,
                                 !.handed = loop[l].handed \cup Queued(Wants(l)) ]
<1>1. /\ UNCHANGED <<reading, gate, hold, job, runners, daemon, noticed>>
      /\ loop[l].pc = "fetch" /\ Becomes(l, r)
  BY DEF Serve, gateway
<1>2. loop[l] \in Loop /\ Paced(l, loop[l])
  BY LoopTyped
<1>3. loop[l].draining = None
  BY <1>1, <1>2 DEF Paced, DrainIsCancelled
<1>4. Queued(Wants(l)) \subseteq Jobs
  BY DEF Queued
<1>5. /\ r \in Loop /\ r.pc = "answer" /\ r.draining = None /\ r.next = loop[l].next
      /\ r.handed = loop[l].handed \cup Queued(Wants(l))
  BY <1>2, <1>3, <1>4 DEF Loop, Places
<1> HIDE DEF r
<1>6. Paced(l, r)
  BY <1>1, <1>2, <1>5 DEF Paced, InScope, DrainIsCancelled, HandedWhilePolling, SleepIsPaced, Reads
<1>7. Covers(l, r)
  BY <1>5 DEF Covers, Wants
<1>8. gate[Scope[l][r.next]] = l
  BY <1>1, <1>5 DEF IInv, GateHeld, Wants, Fetches
<1> QED BY <1>1, <1>5, <1>6, <1>7, <1>8, LoopMovesAlone DEF None

\* A fetch ends: its gate is given back, and no other loop fetched behind it.
LEMMA FetchEnds ==
    ASSUME IInv, NEW l \in Loops, NEW r \in Loop, Becomes(l, r), loop[l].pc \in Fetches, Released(l),
           UNCHANGED <<job, runners, daemon>>, r.pc \in { "settle", "gate" }, Paced(l, r), Covers(l, r),
           r.draining = loop[l].draining, hold' \in Hold, noticed' \subseteq Jobs,
           reading' \in [ Repositories -> Reading ], ReadingCovers'
    PROVE  IInv'
<1>1. /\ loop' \in [ Loops -> Loop ] /\ loop'[l] = r
      /\ \A m \in Loops : m # l => loop'[m] = loop[m]
  BY LoopBecomes
<1>2. runners' \in [ Loops -> 0 .. 1 ] /\ gate \in [ Repositories -> Loops \cup { None } ]
  BY DEF IInv, TypeOK
<1>3. gate' = [ gate EXCEPT ![Wants(l)] = None ] /\ gate' \in [ Repositories -> Loops \cup { None } ]
  BY <1>2 DEF Released
<1>4. GateHeld'
  <2>1. SUFFICES ASSUME NEW m \in Loops, loop'[m].pc \in Fetches
                 PROVE  gate'[Scope[m][loop'[m].next]] = m
    BY DEF GateHeld, Wants
  <2>2. m # l
    BY <2>1, <1>1 DEF Fetches
  <2>3. loop'[m] = loop[m] /\ gate[Wants(m)] = m /\ gate[Wants(l)] = l
    BY <2>1, <2>2, <1>1 DEF IInv, GateHeld
  <2>4. Wants(m) # Wants(l)
    BY <2>2, <2>3
  <2>5. Wants(m) \in Repositories
    BY <2>1, <2>3, WantsTyped DEF Fetches, Reads
  <2> QED BY <1>2, <1>3, <2>3, <2>4, <2>5 DEF Wants
<1> QED BY <1>2, <1>3, <1>4, LoopMoves

LEMMA FetchingIsLive ==
    ASSUME IInv, NEW l \in Loops, loop[l].pc \in Fetches
    PROVE  loop[l] \in Loop /\ Paced(l, loop[l]) /\ loop[l].draining = None /\ loop[l].pc \in Reads
<1>1. loop[l] \in Loop /\ Paced(l, loop[l])
  BY LoopTyped
<1> QED BY <1>1 DEF Fetches, Reads, Paced, DrainIsCancelled

LEMMA ReadingUnchanged ==
    ASSUME IInv, UNCHANGED <<reading, job>>
    PROVE  reading' \in [ Repositories -> Reading ] /\ ReadingCovers'
BY DEF IInv, TypeOK, ReadingCovers, Queued

\* The answer is kept with the age of the gate.
LEMMA AnswerStep ==
    ASSUME IInv, NEW l \in Loops, Answer(l)
    PROVE  IInv'
<1> DEFINE r == Handed(loop[l], l, {})
           kept == [ jobs |-> { j \in loop[l].handed : RepositoryOf[j] = Wants(l) }, age |-> loop[l].age ]
<1>1. /\ UNCHANGED <<job, runners, daemon>> /\ loop[l].pc = "answer" /\ Becomes(l, r) /\ Released(l)
      /\ hold' = ClearHold(hold) /\ noticed' = noticed \cup loop[l].handed
      /\ reading' = [ reading EXCEPT ![Wants(l)] = kept ]
  BY DEF Answer, KeepReading
<1>2. loop[l] \in Loop /\ Paced(l, loop[l]) /\ loop[l].draining = None /\ loop[l].pc \in Reads
  BY <1>1, FetchingIsLive DEF Fetches
<1>3. {} \in SUBSET Jobs /\ loop[l].handed \subseteq Jobs /\ loop[l].age \in 0 .. IDLE
  BY <1>2 DEF Loop
<1>4. /\ r \in Loop /\ r.pc \in { "settle", "gate" } /\ r.draining = None
      /\ Paced(l, r) /\ Covers(l, r)
  BY <1>2, <1>3, HandedTyped
<1>5. kept \in Reading
  BY <1>3 DEF Reading
<1>6. Wants(l) \in Repositories
  BY <1>2, WantsTyped
<1>7. reading' \in [ Repositories -> Reading ] /\ hold' \in Hold /\ noticed' \subseteq Jobs
  BY <1>1, <1>3, <1>5, ClearHoldTyped DEF IInv, TypeOK
<1>8. ReadingCovers'
  <2>1. SUFFICES ASSUME NEW x \in Repositories, Fresh(reading'[x]), NEW j \in Queued(x),
                        job[j].waited > reading'[x].age
                 PROVE  j \in reading'[x].jobs
    BY <1>1 DEF ReadingCovers, Queued, Fresh
  <2>2. reading \in [ Repositories -> Reading ]
    BY DEF IInv, TypeOK
  <2>3. CASE x = Wants(l)
    <3>1. reading'[x] = kept /\ job[j].waited > loop[l].age
      BY <2>1, <2>2, <2>3, <1>1
    <3>2. j \in loop[l].handed
      BY <3>1, <2>3, <1>1 DEF IInv, AnswerCovers, Covers, Wants
    <3>3. RepositoryOf[j] = Wants(l)
      BY <2>3 DEF Queued
    <3> QED BY <3>1, <3>2, <3>3
  <2>4. CASE x # Wants(l)
    <3>1. reading'[x] = reading[x]
      BY <2>2, <2>4, <1>1
    <3> QED BY <2>1, <3>1 DEF IInv, ReadingCovers
  <2> QED BY <2>3, <2>4
<1> HIDE DEF r, kept
<1> QED BY <1>1, <1>2, <1>4, <1>7, <1>8, FetchEnds DEF Fetches

LEMMA AnswerLimitedStep ==
    ASSUME IInv, NEW l \in Loops, AnswerLimited(l)
    PROVE  IInv' /\ hold'.left >= hold.left
<1>1. /\ UNCHANGED <<reading, job, runners, daemon, noticed>> /\ loop[l].pc = "fetch" /\ Released(l)
  BY DEF AnswerLimited
<1>2. PICK kind \in { "primary", "secondary" }, asked \in Asked :
        hold' = HoldFor(hold, kind, asked) /\ Becomes(l, Failed(loop[l], "rate_limited", hold'.left))
  BY DEF AnswerLimited
<1>3. hold \in Hold /\ asked \in Nat /\ noticed \subseteq Jobs
  BY PollingAssumption DEF IInv, TypeOK
<1>4. hold' \in Hold /\ hold'.left >= hold.left
  BY <1>2, <1>3, HoldForTyped
<1> DEFINE r == Failed(loop[l], "rate_limited", hold'.left)
<1>5. loop[l] \in Loop /\ Paced(l, loop[l])
  BY LoopTyped
<1>6. hold'.left \in Nat
  BY <1>4, PacingAssumption DEF Hold
<1>7. r \in Loop /\ r.pc = "settle" /\ r.draining = loop[l].draining /\ Paced(l, r) /\ Covers(l, r)
  <2>1. "rate_limited" \in Outcomes
    BY DEF Outcomes
  <2> QED BY <1>5, <1>6, <2>1, FailedTyped
<1>8. Becomes(l, r)
  BY <1>2
<1> HIDE DEF r
<1> QED BY <1>1, <1>3, <1>4, <1>7, <1>8, ReadingUnchanged, FetchEnds DEF Fetches

LEMMA FetchFailsStep ==
    ASSUME IInv, NEW l \in Loops, LaterSuppressed(l) \/ AnswerFails(l)
    PROVE  IInv'
<1>1. /\ UNCHANGED <<reading, hold, job, runners, daemon, noticed>> /\ loop[l].pc = "fetch" /\ Released(l)
  BY DEF LaterSuppressed, AnswerFails
<1>2. hold \in Hold /\ hold.left \in Nat /\ noticed \subseteq Jobs
  BY PacingAssumption DEF IInv, TypeOK, Hold
<1>3. PICK outcome \in Outcomes, floor \in Nat : Becomes(l, Failed(loop[l], outcome, floor))
  <2>1. CASE LaterSuppressed(l)
    BY <2>1, <1>2 DEF LaterSuppressed, Outcomes
  <2>2. CASE AnswerFails(l)
    BY <2>2 DEF AnswerFails, Outcomes
  <2> QED BY <2>1, <2>2
<1> DEFINE r == Failed(loop[l], outcome, floor)
<1>4. loop[l] \in Loop /\ Paced(l, loop[l])
  BY LoopTyped
<1>5. r \in Loop /\ r.pc = "settle" /\ r.draining = loop[l].draining /\ Paced(l, r) /\ Covers(l, r)
  BY <1>4, FailedTyped
<1>6. Becomes(l, r)
  BY <1>3
<1> HIDE DEF r
<1> QED BY <1>1, <1>2, <1>5, <1>6, ReadingUnchanged, FetchEnds DEF Fetches

LEMMA StepOverStep ==
    ASSUME IInv, NEW l \in Loops, StepOver(l)
    PROVE  IInv'
<1> DEFINE r == Handed(loop[l], l, {})
<1>1. /\ UNCHANGED <<reading, hold, job, runners, daemon, noticed>> /\ loop[l].pc = "fetch"
      /\ Released(l) /\ Becomes(l, r)
  BY DEF StepOver
<1>2. hold \in Hold /\ noticed \subseteq Jobs
  BY DEF IInv, TypeOK
<1>3. loop[l] \in Loop /\ Paced(l, loop[l]) /\ loop[l].draining = None /\ loop[l].pc \in Reads
  BY <1>1, FetchingIsLive DEF Fetches
<1>4. {} \in SUBSET Jobs
  OBVIOUS
<1>5. /\ r \in Loop /\ r.pc \in { "settle", "gate" } /\ r.draining = None
      /\ Paced(l, r) /\ Covers(l, r)
  BY <1>3, <1>4, HandedTyped
<1> HIDE DEF r
<1> QED BY <1>1, <1>2, <1>3, <1>5, ReadingUnchanged, FetchEnds DEF Fetches

-----------------------------------------------------------------------------
(* The rest of a pass. *)

LEMMA SettleStep ==
    ASSUME IInv, NEW l \in Loops, Settle(l)
    PROVE  IInv' /\ (runners'[l] > runners[l] => loop[l].draining = None)
                /\ \A m \in Loops : m # l => runners'[m] = runners[m]
<1>1. UNCHANGED <<reading, gate, hold, job, daemon, noticed>> /\ loop[l].pc = "settle"
  BY DEF Settle, gateway
<1>2. loop[l] \in Loop /\ Paced(l, loop[l])
  BY LoopTyped
<1>3. PICK outcome \in IF loop[l].outcome = "ready" THEN { "ready", "low_quota" } ELSE { loop[l].outcome },
           reset \in Asked,
           started \in IF loop[l].handed # {} /\ runners[l] = 0 THEN { 0, 1 } ELSE { 0 } :
        LET live == runners[l] + started
            offline == IF outcome = "offline" THEN Least(loop[l].offline + 1, MaxOffline) ELSE 0
            quiet == outcome = "ready" /\ live = 0 /\ loop[l].handed = {}
        IN  \E next \in NextPolls(IF outcome = "skipped" THEN "ready" ELSE outcome, quiet,
                                  IF outcome = "low_quota" THEN reset ELSE loop[l].floor, offline) :
            /\ runners' = [ runners EXCEPT ![l] = live ]
            /\ Becomes(l, [ loop[l] EXCEPT !.pc = IF Drained(loop[l], outcome, live) THEN "done" ELSE "sleep",
                                           !.outcome = outcome, !.floor = 0, !.handed = {}, !.next = 1,
                                           !.left = SleepFor(loop[l], next.delay),
                                           !.scheduled = SleepFor(loop[l], next.delay),
                                           !.throttled = IsThrottled(next.pace), !.offline = offline ])
  BY DEF Settle
<1> DEFINE live == runners[l] + started
           offline == IF outcome = "offline" THEN Least(loop[l].offline + 1, MaxOffline) ELSE 0
           quiet == outcome = "ready" /\ live = 0 /\ loop[l].handed = {}
           counted == IF outcome = "skipped" THEN "ready" ELSE outcome
           floor == IF outcome = "low_quota" THEN reset ELSE loop[l].floor
<1>4. PICK next \in NextPolls(counted, quiet, floor, offline) :
        /\ runners' = [ runners EXCEPT ![l] = live ]
        /\ Becomes(l, [ loop[l] EXCEPT !.pc = IF Drained(loop[l], outcome, live) THEN "done" ELSE "sleep",
                                       !.outcome = outcome, !.floor = 0, !.handed = {}, !.next = 1,
                                       !.left = SleepFor(loop[l], next.delay),
                                       !.scheduled = SleepFor(loop[l], next.delay),
                                       !.throttled = IsThrottled(next.pace), !.offline = offline ])
  BY <1>3
<1>5. /\ outcome \in Outcomes /\ counted \in Outcomes /\ quiet \in BOOLEAN /\ floor \in Nat
      /\ counted = "offline" => outcome = "offline"
  <2>1. loop[l].outcome \in Outcomes /\ loop[l].floor \in Nat /\ reset \in Nat
    BY <1>2, PollingAssumption DEF Loop
  <2> QED BY <2>1 DEF Outcomes
<1>6. offline \in 0 .. MaxOffline /\ (outcome = "offline" => offline > 0)
  <2>1. loop[l].offline \in 0 .. MaxOffline
    BY <1>2 DEF Loop
  <2> QED BY <2>1, PacingAssumption DEF Least
<1>7. runners \in [ Loops -> 0 .. 1 ] /\ live \in 0 .. 1 /\ (live > runners[l] => loop[l].handed # {})
  BY <1>3 DEF IInv, TypeOK
<1> HIDE DEF live, offline, quiet, counted, floor
<1>8. next.delay \in Nat
  BY <1>5, <1>6, DelaysTyped
<1> DEFINE sleep == SleepFor(loop[l], next.delay)
           place == IF Drained(loop[l], outcome, live) THEN "done" ELSE "sleep"
           slow == IsThrottled(next.pace)
<1>9. sleep \in Nat
  <2>1. loop[l].drainLeft \in Nat
    BY <1>2, PollingAssumption DEF Loop
  <2> QED BY <1>8, <2>1 DEF SleepFor, Least
<1>10. place \in Places /\ slow \in BOOLEAN
  BY DEF Places, IsThrottled
<1> DEFINE r == [ loop[l] EXCEPT !.pc = place, !.outcome = outcome, !.floor = 0, !.handed = {}, !.next = 1,
                                 !.left = sleep, !.scheduled = sleep, !.throttled = slow,
                                 !.offline = offline ]
<1>11. Becomes(l, r)
  BY <1>4
<1>12. place = "done" => loop[l].draining = "shutdown" \/ (loop[l].draining = "upgrade" /\ live = 0)
  BY DEF Drained
<1>13. place \in { "done", "sleep" }
  OBVIOUS
<1> HIDE DEF sleep, place, slow
<1>14. /\ r \in Loop /\ r.pc = place /\ r.handed = {} /\ r.left = sleep /\ r.scheduled = sleep
       /\ r.draining = loop[l].draining /\ r.cancelled = loop[l].cancelled
  BY <1>2, <1>5, <1>6, <1>9, <1>10 DEF Loop
<1> HIDE DEF r
<1>15. Paced(l, r) /\ Covers(l, r)
  BY <1>1, <1>2, <1>13, <1>14
     DEF Paced, InScope, DrainIsCancelled, HandedWhilePolling, SleepIsPaced, Covers, Reads
<1>16. /\ runners' \in [ Loops -> 0 .. 1 ] /\ runners'[l] = live
       /\ \A m \in Loops : m # l => runners'[m] = runners[m]
  BY <1>4, <1>7
<1>17. loop[l].handed # {} => loop[l].draining = None
  BY <1>2 DEF Paced, DrainIsCancelled
<1>18. IInv'
  <2>1. /\ loop' \in [ Loops -> Loop ] /\ loop'[l] = r
        /\ \A m \in Loops : m # l => loop'[m] = loop[m]
    BY <1>11, <1>14, LoopBecomes
  <2>2. /\ hold' \in Hold /\ noticed' \subseteq Jobs /\ gate' \in [ Repositories -> Loops \cup { None } ]
    BY <1>1 DEF IInv, TypeOK
  <2>3. reading' \in [ Repositories -> Reading ] /\ ReadingCovers'
    BY <1>1, ReadingUnchanged
  <2>4. GateHeld'
    BY <1>1, <1>13, <1>14, <2>1 DEF IInv, GateHeld, Wants, Fetches
  <2> QED BY <1>1, <1>11, <1>12, <1>14, <1>15, <1>16, <2>2, <2>3, <2>4, LoopMoves
<1> QED BY <1>7, <1>16, <1>17, <1>18

LEMMA RecordFailsStep ==
    ASSUME IInv, NEW l \in Loops, RecordFails(l)
    PROVE  IInv'
<1> DEFINE r == [ loop[l] EXCEPT !.pc = "failed" ]
<1>1. /\ UNCHANGED <<reading, gate, hold, job, runners, daemon, noticed>>
      /\ loop[l].draining = None /\ Becomes(l, r)
  BY DEF RecordFails, gateway
<1>2. loop[l] \in Loop
  BY LoopTyped
<1>3. r \in Loop /\ r.pc = "failed" /\ r.draining = None
  BY <1>1, <1>2 DEF Loop, Places
<1> HIDE DEF r
<1>4. Paced(l, r) /\ Covers(l, r)
  BY <1>3 DEF Paced, InScope, DrainIsCancelled, HandedWhilePolling, SleepIsPaced, Covers, Reads
<1> QED BY <1>1, <1>3, <1>4, LoopMovesAlone DEF Fetches, None

-----------------------------------------------------------------------------
(* Asleep. *)

LEMMA ExpireStep ==
    ASSUME IInv, NEW l \in Loops, Expire(l)
    PROVE  IInv'
<1> DEFINE r == [ loop[l] EXCEPT !.pc = "poll", !.scheduled = 0 ]
<1>1. /\ UNCHANGED <<reading, gate, hold, job, runners, daemon, noticed>>
      /\ loop[l].pc = "sleep" /\ Becomes(l, r)
  BY DEF Expire, gateway
<1>2. loop[l] \in Loop /\ Paced(l, loop[l])
  BY LoopTyped
<1>3. /\ r \in Loop /\ r.pc = "poll" /\ r.draining = loop[l].draining
      /\ r.handed = loop[l].handed /\ r.cancelled = loop[l].cancelled
  BY <1>2 DEF Loop, Places
<1> HIDE DEF r
<1>4. Paced(l, r) /\ Covers(l, r)
  BY <1>1, <1>2, <1>3 DEF Paced, InScope, DrainIsCancelled, HandedWhilePolling, SleepIsPaced, Covers, Reads
<1> QED BY <1>1, <1>3, <1>4, LoopMovesAlone DEF Fetches

\* A wake is no reason to poll within WAKE_MIN_GAP of the last poll.
LEMMA TakeWakeStep ==
    ASSUME IInv, NEW l \in Loops, TakeWake(l)
    PROVE  IInv'
<1> DEFINE woken == WokenDeadline(loop[l].left, loop[l].sincePoll)
           r == [ loop[l] EXCEPT !.permit = FALSE, !.left = woken ]
<1>1. /\ UNCHANGED <<reading, gate, hold, job, runners, daemon, noticed>>
      /\ loop[l].pc = "sleep" /\ loop[l].draining = None /\ ~loop[l].throttled /\ Becomes(l, r)
  BY DEF TakeWake, gateway, HonourWakes
<1>2. loop[l] \in Loop /\ Paced(l, loop[l])
  BY LoopTyped
<1>3. loop[l].left \in Nat /\ loop[l].sincePoll \in 0 .. WAKE_MIN_GAP
  BY <1>2 DEF Loop
<1>4. woken \in Nat /\ (woken = loop[l].left \/ woken + loop[l].sincePoll >= WAKE_MIN_GAP)
  BY <1>3, PacingAssumption DEF WokenDeadline, Least, Greatest
<1> HIDE DEF woken
<1>5. /\ r \in Loop /\ r.pc = "sleep" /\ r.draining = None /\ ~r.throttled /\ r.left = woken
      /\ r.handed = loop[l].handed /\ r.scheduled = loop[l].scheduled /\ r.sincePoll = loop[l].sincePoll
  BY <1>1, <1>2, <1>4 DEF Loop
<1> HIDE DEF r
<1>6. SleepIsPaced(r)
  BY <1>1, <1>2, <1>4, <1>5 DEF Paced, SleepIsPaced
<1>7. Paced(l, r) /\ Covers(l, r)
  BY <1>1, <1>2, <1>5, <1>6 DEF Paced, InScope, DrainIsCancelled, HandedWhilePolling, Covers, Reads
<1> QED BY <1>1, <1>5, <1>7, LoopMovesAlone DEF Fetches, None

LEMMA HearDrainStep ==
    ASSUME IInv, NEW l \in Loops, HearDrain(l)
    PROVE  IInv' /\ loop'[l].draining # loop[l].draining
<1>1. UNCHANGED <<reading, gate, hold, job, runners, daemon, noticed>> /\ loop[l].pc = "sleep"
  BY DEF HearDrain, gateway
<1>2. loop[l] \in Loop /\ Paced(l, loop[l])
  BY LoopTyped
<1>3. PICK kind \in { "shutdown", "upgrade" } :
        /\ kind = "shutdown" => daemon.phase = "stopping"
        /\ kind # loop[l].draining
        /\ Becomes(l, [ BeginDrain(loop[l], kind) EXCEPT !.left = 0, !.scheduled = 0 ])
  BY DEF HearDrain, None
<1> DEFINE b == BeginDrain(loop[l], kind)
           r == [ b EXCEPT !.left = 0, !.scheduled = 0 ]
<1>4. b \in Loop /\ b.pc = "poll" /\ b.draining = kind /\ b.cancelled /\ b.handed = loop[l].handed
  BY <1>2, BeginDrainTyped
<1>5. Becomes(l, r)
  BY <1>3
<1> HIDE DEF b
<1>6. r \in Loop /\ r.pc = "poll" /\ r.draining = kind /\ r.cancelled /\ r.handed = loop[l].handed
  BY <1>4 DEF Loop
<1> HIDE DEF r
<1>7. Paced(l, r) /\ Covers(l, r)
  BY <1>1, <1>2, <1>6 DEF Paced, InScope, DrainIsCancelled, HandedWhilePolling, SleepIsPaced, Covers, Reads
<1>8. loop'[l] = r
  BY <1>5, <1>6, LoopBecomes
<1> QED BY <1>1, <1>3, <1>5, <1>6, <1>7, <1>8, LoopMovesAlone DEF Fetches

-----------------------------------------------------------------------------
(* A wake, the daemon and the world. *)

LEMMA WakeStep ==
    ASSUME IInv, NEW x \in Jobs, NEW l \in Loops, Wake(x, l)
    PROVE  IInv'
<1> DEFINE r == [ loop[l] EXCEPT !.permit = TRUE ]
<1>1. /\ UNCHANGED <<gate, hold, job, runners, daemon, noticed>> /\ Becomes(l, r)
      /\ reading' = [ reading EXCEPT ![RepositoryOf[x]] = NoReading ]
  BY DEF Wake
<1>2. loop[l] \in Loop /\ Paced(l, loop[l])
  BY LoopTyped
<1>3. /\ r \in Loop /\ r.pc = loop[l].pc /\ r.draining = loop[l].draining /\ r.next = loop[l].next
      /\ r.handed = loop[l].handed /\ r.cancelled = loop[l].cancelled /\ r.throttled = loop[l].throttled
      /\ r.left = loop[l].left /\ r.scheduled = loop[l].scheduled /\ r.sincePoll = loop[l].sincePoll
      /\ r.age = loop[l].age
  BY <1>2 DEF Loop
<1> HIDE DEF r
<1>4. Paced(l, r)
  BY <1>2, <1>3 DEF Paced, InScope, DrainIsCancelled, HandedWhilePolling, SleepIsPaced
<1>5. Covers(l, r)
  BY <1>3 DEF IInv, AnswerCovers, Covers
<1>6. /\ loop' \in [ Loops -> Loop ] /\ loop'[l] = r
      /\ \A m \in Loops : m # l => loop'[m] = loop[m]
  BY <1>1, <1>3, LoopBecomes
<1>7. NoReading \in Reading /\ ~Fresh(NoReading)
  BY PacingAssumption DEF NoReading, Reading, Fresh
<1>8. reading \in [ Repositories -> Reading ] /\ reading' \in [ Repositories -> Reading ]
  BY <1>1, <1>7 DEF IInv, TypeOK
<1>9. ReadingCovers'
  <2>1. SUFFICES ASSUME NEW y \in Repositories, Fresh(reading'[y])
                 PROVE  \A j \in Queued(y) : job[j].waited > reading'[y].age => j \in reading'[y].jobs
    BY <1>1 DEF ReadingCovers, Queued, Fresh
  <2>2. reading'[y] = reading[y]
    BY <2>1, <1>1, <1>7, <1>8
  <2> QED BY <2>1, <2>2 DEF IInv, ReadingCovers
<1>10. GateHeld'
  BY <1>1, <1>3, <1>6 DEF IInv, GateHeld, Wants
<1>11. /\ runners' \in [ Loops -> 0 .. 1 ] /\ hold' \in Hold /\ noticed' \subseteq Jobs
       /\ gate' \in [ Repositories -> Loops \cup { None } ]
  BY <1>1 DEF IInv, TypeOK
<1>12. r.pc = "done" => r.draining = "shutdown" \/ (r.draining = "upgrade" /\ runners'[l] = 0)
  BY <1>1, <1>3 DEF IInv, DoneIsDrained
<1> QED BY <1>1, <1>3, <1>4, <1>5, <1>8, <1>9, <1>10, <1>11, <1>12, LoopMoves

\* The daemon leaves "running" for one phase and never comes back to it.
LEMMA DaemonStep ==
    ASSUME IInv, AskStop \/ HearStop \/ HearUpgrade \/ LoopLost \/ JoinLoops
    PROVE  IInv'
<1>1. UNCHANGED <<loop, reading, gate, hold, job, runners, noticed>>
  BY DEF AskStop, HearStop, HearUpgrade, LoopLost, JoinLoops, gateway
<1>2. daemon \in [ phase: Phases, stop: BOOLEAN ]
  BY DEF IInv, TypeOK
<1>3. /\ daemon' \in [ phase: Phases, stop: BOOLEAN ]
      /\ daemon'.phase \in { "running", "upgrading" } => daemon.phase \in { "running", "upgrading" }
  <2>1. CASE AskStop
    BY <2>1, <1>2 DEF AskStop
  <2>2. CASE HearStop
    BY <2>2, <1>2 DEF HearStop, Phases
  <2>3. CASE HearUpgrade
    BY <2>3, <1>2 DEF HearUpgrade, Phases
  <2>4. CASE LoopLost
    BY <2>4, <1>2 DEF LoopLost, Phases
  <2>5. CASE JoinLoops
    BY <2>5, <1>2 DEF JoinLoops, Phases
  <2> QED BY <2>1, <2>2, <2>3, <2>4, <2>5
<1>4. TypeOK'
  BY <1>1, <1>3 DEF IInv, TypeOK
<1>5. LoopsPaced' /\ DoneIsDrained' /\ GateHeld' /\ NewJobsWait'
  BY <1>1 DEF IInv, LoopsPaced, DoneIsDrained, GateHeld, NewJobsWait, Wants
<1>6. ShutdownIsHeard'
  BY <1>1, <1>3 DEF IInv, ShutdownIsHeard
<1>7. ReadingCovers' /\ AnswerCovers'
  BY <1>1 DEF IInv, ReadingCovers, AnswerCovers, Covers, Queued
<1> QED BY <1>4, <1>5, <1>6, <1>7 DEF IInv

LEMMA RunnerEndsStep ==
    ASSUME IInv, NEW l \in Loops, RunnerEnds(l)
    PROVE  IInv' /\ \A m \in Loops : runners'[m] <= runners[m]
<1>1. UNCHANGED <<loop, reading, gate, hold, job, daemon, noticed>>
  BY DEF RunnerEnds, gateway
<1>2. runners[l] > 0 /\ runners' = [ runners EXCEPT ![l] = @ - 1 ] /\ runners \in [ Loops -> 0 .. 1 ]
  BY DEF RunnerEnds, IInv, TypeOK
<1>3. /\ runners' \in [ Loops -> 0 .. 1 ] /\ runners'[l] = 0
      /\ \A m \in Loops : m # l => runners'[m] = runners[m]
  BY <1>2
<1>4. TypeOK'
  BY <1>1, <1>3 DEF IInv, TypeOK
<1>5. DoneIsDrained'
  BY <1>1, <1>3 DEF IInv, DoneIsDrained
<1>6. LoopsPaced' /\ ShutdownIsHeard' /\ GateHeld' /\ NewJobsWait'
  BY <1>1 DEF IInv, LoopsPaced, ShutdownIsHeard, GateHeld, NewJobsWait, Wants
<1>7. ReadingCovers' /\ AnswerCovers'
  BY <1>1 DEF IInv, ReadingCovers, AnswerCovers, Covers, Queued
<1>8. ASSUME NEW m \in Loops PROVE runners'[m] <= runners[m]
  BY <1>2, <1>3
<1> QED BY <1>4, <1>5, <1>6, <1>7, <1>8 DEF IInv

\* A job that joins the queue has waited for nothing yet, one that leaves is in no queue.
LEMMA JobMoves ==
    ASSUME IInv, NEW x \in Jobs, QueueJob(x) \/ JobLeaves(x)
    PROVE  IInv'
<1>1. UNCHANGED <<loop, reading, gate, hold, runners, daemon, noticed>>
  BY DEF QueueJob, JobLeaves, gateway
<1>2. job \in [ Jobs -> Job ] /\ \A j \in Jobs : job[j].waited \in 0 .. IDLE
  BY DEF IInv, TypeOK, Job
<1>3. /\ job' \in [ Jobs -> Job ] /\ job'[x].state # "new"
      /\ job'[x].state = "queued" => job'[x].waited = 0
      /\ \A j \in Jobs : j # x => job'[j] = job[j]
  <2>1. CASE QueueJob(x)
    <3> DEFINE r == [ job[x] EXCEPT !.state = "queued" ]
    <3>1. job' = [ job EXCEPT ![x] = r ] /\ job[x].waited = 0
      BY <2>1, <1>2 DEF QueueJob, IInv, NewJobsWait
    <3>2. r \in Job /\ r.state = "queued" /\ r.waited = 0
      BY <1>2, <3>1 DEF Job
    <3> HIDE DEF r
    <3> QED BY <1>2, <3>1, <3>2
  <2>2. CASE JobLeaves(x)
    <3> DEFINE r == [ state |-> "gone", waited |-> 0 ]
    <3>1. job' = [ job EXCEPT ![x] = r ]
      BY <2>2 DEF JobLeaves
    <3>2. r \in Job /\ r.state = "gone"
      BY PacingAssumption DEF Job
    <3> HIDE DEF r
    <3> QED BY <1>2, <3>1, <3>2
  <2> QED BY <2>1, <2>2
<1>4. ASSUME NEW y \in Repositories, NEW j \in Jobs, job'[j].state = "queued", RepositoryOf[j] = y
      PROVE  (j \in Queued(y) /\ job'[j] = job[j]) \/ job'[j].waited = 0
  BY <1>3, <1>4 DEF Queued
<1>5. TypeOK'
  BY <1>1, <1>3 DEF IInv, TypeOK
<1>6. LoopsPaced' /\ DoneIsDrained' /\ ShutdownIsHeard' /\ GateHeld'
  BY <1>1 DEF IInv, LoopsPaced, DoneIsDrained, ShutdownIsHeard, GateHeld, Wants
<1>7. NewJobsWait'
  BY <1>3 DEF IInv, NewJobsWait
<1>8. ReadingCovers'
  <2>1. SUFFICES ASSUME NEW y \in Repositories, Fresh(reading[y]), NEW j \in Jobs,
                        job'[j].state = "queued", RepositoryOf[j] = y, job'[j].waited > reading[y].age
                 PROVE  j \in reading[y].jobs
    BY <1>1 DEF ReadingCovers, Fresh, Queued
  <2>2. reading[y].age \in Nat
    BY PacingAssumption DEF IInv, TypeOK, Reading
  <2>3. j \in Queued(y) /\ job'[j] = job[j]
    BY <1>4, <2>1, <2>2
  <2> QED BY <2>1, <2>3 DEF IInv, ReadingCovers
<1>9. AnswerCovers'
  <2>1. SUFFICES ASSUME NEW m \in Loops, loop[m].pc = "answer", NEW j \in Jobs,
                        job'[j].state = "queued", RepositoryOf[j] = Wants(m), job'[j].waited > loop[m].age
                 PROVE  j \in loop[m].handed
    BY <1>1 DEF AnswerCovers, Covers, Wants, Queued
  <2>2. loop[m].age \in Nat /\ Wants(m) \in Repositories
    BY <2>1, LoopTyped, WantsTyped, PacingAssumption DEF Loop, Reads
  <2>3. j \in Queued(Wants(m)) /\ job'[j] = job[j]
    BY <1>4, <2>1, <2>2
  <2> QED BY <2>1, <2>3 DEF IInv, AnswerCovers, Covers, Wants
<1> QED BY <1>5, <1>6, <1>7, <1>8, <1>9 DEF IInv

LEMMA LoopAgesTyped ==
    ASSUME NEW l \in Loops, NEW self \in Loop, Paced(l, self), self.pc = "sleep" => self.left # 0
    PROVE  /\ LoopAges(self) \in Loop /\ LoopAges(self).pc = self.pc /\ LoopAges(self).next = self.next
           /\ LoopAges(self).draining = self.draining /\ LoopAges(self).handed = self.handed
           /\ self.pc \in Fetches => LoopAges(self).age = Least(self.age + 1, IDLE)
           /\ Paced(l, LoopAges(self))
<1> DEFINE left == Greatest(self.left - 1, 0)
           scheduled == Greatest(self.scheduled - 1, 0)
           drainLeft == Greatest(self.drainLeft - 1, 0)
           sincePoll == Least(self.sincePoll + 1, WAKE_MIN_GAP)
           age == IF self.pc \in Fetches THEN Least(self.age + 1, IDLE) ELSE self.age
           r == LoopAges(self)
<1>1. /\ self.left \in Nat /\ self.scheduled \in Nat /\ self.drainLeft \in 0 .. DRAIN_DEADLINE
      /\ self.sincePoll \in 0 .. WAKE_MIN_GAP /\ self.age \in 0 .. IDLE
  BY DEF Loop
<1>2. left \in Nat /\ scheduled \in Nat
  BY <1>1 DEF Greatest
<1>3. drainLeft \in 0 .. DRAIN_DEADLINE
  BY <1>1, PollingAssumption DEF Greatest
<1>4. sincePoll \in 0 .. WAKE_MIN_GAP
  BY <1>1, PacingAssumption DEF Least
<1>5. age \in 0 .. IDLE
  BY <1>1, PacingAssumption DEF Least
<1>6. self.left = self.scheduled => left = scheduled
  OBVIOUS
<1>7. self.left # 0 /\ self.left + self.sincePoll >= WAKE_MIN_GAP => left + sincePoll >= WAKE_MIN_GAP
  BY <1>1, PacingAssumption DEF Greatest, Least
<1>8. r = [ self EXCEPT !.left = left, !.scheduled = scheduled, !.drainLeft = drainLeft,
                        !.sincePoll = sincePoll, !.age = age ]
  BY DEF LoopAges, Fetches
<1>9. self.pc \in Fetches => age = Least(self.age + 1, IDLE)
  OBVIOUS
<1> HIDE DEF left, scheduled, drainLeft, sincePoll, age, r
<1>10. /\ r \in Loop /\ r.pc = self.pc /\ r.next = self.next /\ r.draining = self.draining
       /\ r.handed = self.handed /\ r.cancelled = self.cancelled /\ r.throttled = self.throttled
       /\ r.left = left /\ r.scheduled = scheduled /\ r.sincePoll = sincePoll /\ r.age = age
  BY <1>2, <1>3, <1>4, <1>5, <1>8 DEF Loop
<1>11. SleepIsPaced(r)
  BY <1>6, <1>7, <1>10 DEF Paced, SleepIsPaced
<1>12. Paced(l, r)
  BY <1>10, <1>11 DEF Paced, InScope, DrainIsCancelled, HandedWhilePolling
<1> QED BY <1>9, <1>10, <1>12 DEF r

\* A reading, an answer on its way and a job in the queue grow old together.
LEMMA TickStep ==
    ASSUME IInv, Tick
    PROVE  IInv' /\ hold' = HoldAges(hold)
                /\ \A l \in Loops : loop'[l].pc = loop[l].pc /\ loop'[l].next = loop[l].next
<1>1. /\ UNCHANGED <<gate, runners, daemon, noticed>> /\ hold' = HoldAges(hold)
      /\ loop' = [ l \in Loops |-> LoopAges(loop[l]) ]
      /\ reading' = [ r \in Repositories |-> IF reading[r].age + 1 < IDLE
                                             THEN [ reading[r] EXCEPT !.age = @ + 1 ] ELSE NoReading ]
      /\ job' = [ j \in Jobs |-> IF job[j].state = "queued"
                                 THEN [ job[j] EXCEPT !.waited = Least(@ + 1, IDLE) ] ELSE job[j] ]
  BY DEF Tick
<1>2. ASSUME NEW l \in Loops
      PROVE  /\ loop'[l] \in Loop /\ loop'[l].pc = loop[l].pc /\ loop'[l].next = loop[l].next
             /\ loop'[l].draining = loop[l].draining /\ loop'[l].handed = loop[l].handed
             /\ loop[l].pc \in Fetches => loop'[l].age = Least(loop[l].age + 1, IDLE)
             /\ Paced(l, loop'[l])
  <2>1. loop[l] \in Loop /\ Paced(l, loop[l])
    BY LoopTyped
  <2>2. loop[l].pc = "sleep" => loop[l].left # 0
    BY DEF Tick, Busy
  <2>3. loop'[l] = LoopAges(loop[l])
    BY <1>1
  <2> QED BY <2>1, <2>2, <2>3, LoopAgesTyped
<1>3. ASSUME NEW y \in Repositories
      PROVE  /\ reading'[y] \in Reading
             /\ Fresh(reading'[y]) => /\ reading'[y].age = reading[y].age + 1 /\ Fresh(reading[y])
                                      /\ reading'[y].jobs = reading[y].jobs
  <2>1. reading[y] \in Reading /\ reading[y].age \in 0 .. IDLE
    BY DEF IInv, TypeOK, Reading
  <2>2. NoReading \in Reading /\ ~Fresh(NoReading)
    BY PacingAssumption DEF NoReading, Reading, Fresh
  <2>3. CASE reading[y].age + 1 < IDLE
    <3>1. reading'[y] = [ reading[y] EXCEPT !.age = @ + 1 ]
      BY <1>1, <2>3
    <3>2. reading[y].age + 1 \in 0 .. IDLE /\ reading[y].age < IDLE
      BY <2>1, <2>3, PacingAssumption
    <3> QED BY <2>1, <3>1, <3>2 DEF Reading, Fresh
  <2>4. CASE ~(reading[y].age + 1 < IDLE)
    BY <1>1, <2>2, <2>4
  <2> QED BY <2>3, <2>4
<1>4. ASSUME NEW j \in Jobs
      PROVE  /\ job'[j] \in Job /\ job'[j].state = job[j].state
             /\ job[j].waited \in 0 .. IDLE /\ job'[j].waited \in 0 .. IDLE
             /\ job'[j].waited <= job[j].waited + 1
             /\ job[j].state = "new" => job'[j] = job[j]
  <2>1. job[j] \in Job /\ job[j].waited \in 0 .. IDLE
    BY DEF IInv, TypeOK, Job
  <2>2. CASE job[j].state = "queued"
    <3> DEFINE w == Least(job[j].waited + 1, IDLE)
    <3>1. w \in 0 .. IDLE /\ w <= job[j].waited + 1
      BY <2>1, PacingAssumption DEF Least
    <3>2. job'[j] = [ job[j] EXCEPT !.waited = w ]
      BY <1>1, <2>2
    <3> HIDE DEF w
    <3>3. job'[j] \in Job /\ job'[j].state = job[j].state /\ job'[j].waited = w
      BY <2>1, <3>1, <3>2 DEF Job
    <3> QED BY <2>1, <2>2, <3>1, <3>3
  <2>3. CASE job[j].state # "queued"
    <3>1. job'[j] = job[j] /\ job[j].waited <= job[j].waited + 1
      BY <1>1, <2>1, <2>3, PacingAssumption
    <3> QED BY <2>1, <3>1
  <2> QED BY <2>2, <2>3
<1>5. TypeOK'
  <2>1. loop' \in [ Loops -> Loop ]
    BY <1>1, <1>2
  <2>2. reading' \in [ Repositories -> Reading ]
    BY <1>1, <1>3
  <2>3. job' \in [ Jobs -> Job ]
    BY <1>1, <1>4
  <2>4. hold' \in Hold
    BY <1>1, HoldAgesTyped DEF IInv, TypeOK
  <2> QED BY <1>1, <2>1, <2>2, <2>3, <2>4 DEF IInv, TypeOK
<1>6. LoopsPaced'
  BY <1>2 DEF LoopsPaced
<1>7. DoneIsDrained' /\ ShutdownIsHeard'
  BY <1>1, <1>2 DEF IInv, DoneIsDrained, ShutdownIsHeard
<1>8. GateHeld'
  BY <1>1, <1>2 DEF IInv, GateHeld, Wants
<1>9. NewJobsWait'
  BY <1>4 DEF IInv, NewJobsWait
<1>10. ReadingCovers'
  <2>1. SUFFICES ASSUME NEW y \in Repositories, Fresh(reading'[y]), NEW j \in Jobs,
                        job'[j].state = "queued", RepositoryOf[j] = y, job'[j].waited > reading'[y].age
                 PROVE  j \in reading'[y].jobs
    BY DEF ReadingCovers, Fresh, Queued
  <2>2. reading[y].age \in Nat
    BY PacingAssumption DEF IInv, TypeOK, Reading
  <2>3. /\ reading'[y].age = reading[y].age + 1 /\ Fresh(reading[y]) /\ reading'[y].jobs = reading[y].jobs
    BY <1>3, <2>1
  <2>4. /\ job[j].state = "queued" /\ job'[j].waited <= job[j].waited + 1
        /\ job[j].waited \in 0 .. IDLE /\ job'[j].waited \in 0 .. IDLE
    BY <1>4, <2>1
  <2>5. job[j].waited > reading[y].age
    BY <2>1, <2>2, <2>3, <2>4, PacingAssumption
  <2> QED BY <2>1, <2>3, <2>4, <2>5 DEF IInv, ReadingCovers, Queued
<1>11. AnswerCovers'
  <2>1. SUFFICES ASSUME NEW m \in Loops, loop'[m].pc = "answer", NEW j \in Jobs, job'[j].state = "queued",
                        RepositoryOf[j] = Scope[m][loop'[m].next], job'[j].waited > loop'[m].age
                 PROVE  j \in loop'[m].handed
    BY DEF AnswerCovers, Covers, Queued
  <2>2. /\ loop[m].pc = "answer" /\ loop'[m].next = loop[m].next /\ loop'[m].handed = loop[m].handed
        /\ loop'[m].age = Least(loop[m].age + 1, IDLE)
    BY <1>2, <2>1 DEF Fetches
  <2>3. loop[m].age \in 0 .. IDLE
    BY LoopTyped DEF Loop
  <2>4. /\ job[j].state = "queued" /\ job'[j].waited <= job[j].waited + 1
        /\ job[j].waited \in 0 .. IDLE /\ job'[j].waited \in 0 .. IDLE
    BY <1>4, <2>1
  <2>5. job[j].waited > loop[m].age
    BY <2>1, <2>2, <2>3, <2>4, PacingAssumption DEF Least
  <2> QED BY <2>1, <2>2, <2>4, <2>5 DEF IInv, AnswerCovers, Covers, Queued
<1> QED BY <1>1, <1>2, <1>5, <1>6, <1>7, <1>8, <1>9, <1>10, <1>11 DEF IInv

-----------------------------------------------------------------------------
(* The invariant. *)

LEMMA InitIInv == Init => IInv
<1> SUFFICES ASSUME Init PROVE IInv
  OBVIOUS
<1>1. /\ NewLoop \in Loop /\ NewLoop.pc = "start" /\ NewLoop.draining = None /\ NewLoop.handed = {}
  BY PacingAssumption, PollingAssumption DEF NewLoop, Loop, Places, Outcomes, DrainKind
<1>2. NoReading \in Reading /\ ~Fresh(NoReading)
  BY PacingAssumption DEF NoReading, Reading, Fresh
<1>3. \A j \in Jobs : job[j] = [ state |-> "new", waited |-> 0 ]
  BY DEF Init
<1>4. TypeOK
  <2>1. loop \in [ Loops -> Loop ] /\ reading \in [ Repositories -> Reading ]
    BY <1>1, <1>2 DEF Init
  <2>2. job \in [ Jobs -> Job ]
    BY PacingAssumption DEF Init, Job
  <2>3. daemon \in [ phase: Phases, stop: BOOLEAN ] /\ runners \in [ Loops -> 0 .. 1 ]
    BY DEF Init, Phases
  <2> QED BY <2>1, <2>2, <2>3, NoHoldTyped DEF Init, TypeOK
<1>5. LoopsPaced
  <2>1. ASSUME NEW l \in Loops PROVE Paced(l, NewLoop)
    BY <1>1 DEF Paced, InScope, DrainIsCancelled, HandedWhilePolling, SleepIsPaced, Reads
  <2> QED BY <2>1 DEF Init, LoopsPaced
<1>6. DoneIsDrained /\ ShutdownIsHeard /\ GateHeld /\ AnswerCovers
  BY <1>1 DEF Init, DoneIsDrained, ShutdownIsHeard, GateHeld, AnswerCovers, Covers, None, Fetches
<1>7. NewJobsWait
  BY <1>3 DEF NewJobsWait
<1>8. ReadingCovers
  BY <1>2 DEF Init, ReadingCovers
<1> QED BY <1>4, <1>5, <1>6, <1>7, <1>8 DEF IInv

LEMMA LoopStepIInv ==
    ASSUME IInv, NEW l \in Loops, LoopStep(l)
    PROVE  IInv'
BY StartStep, StopAtDeadlineStep, PollStep, WithdrawStep, TakeSharedStep, SuppressedStep, RequestStep,
   AnswerStep, AnswerLimitedStep, FetchFailsStep, StepOverStep, SettleStep, RecordFailsStep,
   ExpireStep, TakeWakeStep, HearDrainStep DEF LoopStep

LEMMA NextIInv == IInv /\ [Next]_vars => IInv'
<1> SUFFICES ASSUME IInv, [Next]_vars PROVE IInv'
  OBVIOUS
<1>1. CASE Next
  BY <1>1, LoopStepIInv, ServeStep, RunnerEndsStep, JobMoves, WakeStep, DaemonStep, TickStep DEF Next
<1>2. CASE UNCHANGED vars
  <2>1. UNCHANGED <<loop, reading, gate, hold, job, runners, daemon, noticed>>
    BY <1>2 DEF vars
  <2>2. TypeOK' /\ LoopsPaced' /\ DoneIsDrained' /\ ShutdownIsHeard' /\ GateHeld' /\ NewJobsWait'
    BY <2>1 DEF IInv, TypeOK, LoopsPaced, DoneIsDrained, ShutdownIsHeard, GateHeld, NewJobsWait, Wants
  <2>3. ReadingCovers' /\ AnswerCovers'
    BY <2>1 DEF IInv, ReadingCovers, AnswerCovers, Covers, Queued
  <2> QED BY <2>2, <2>3 DEF IInv
<1> QED BY <1>1, <1>2

LEMMA Invariant == Spec => []IInv
BY InitIInv, NextIInv, PTL DEF Spec

\* The loops, the gateway they share and the daemon stay in their types; the
\* quiet period and every delay stay within their caps (hold_for, next_poll_with).
THEOREM TypeCorrect == Spec => []TypeOK
<1>1. IInv => TypeOK
  BY DEF IInv
<1> QED BY <1>1, Invariant, PTL

\* A repository is fetched by one loop at a time: the gate of SharedReadings is
\* taken before the request and held until its reading is stored.
OneFetchPerRepository ==
    \A l, m \in Loops :
        loop[l].pc \in Fetches /\ loop[m].pc \in Fetches /\ Wants(l) = Wants(m) => l = m

\* ... whatever the loops' scopes share and however long an answer takes
\* (repository_reading).
THEOREM FetchedOnce == Spec => []OneFetchPerRepository
<1>1. IInv => OneFetchPerRepository
  BY DEF IInv, GateHeld, OneFetchPerRepository
<1> QED BY <1>1, Invariant, PTL

-----------------------------------------------------------------------------
(* What a step may never do. *)

LEMMA HoldStep ==
    ASSUME IInv, [Next]_vars
    PROVE  hold' = hold \/ hold'.left >= hold.left \/ hold' = HoldAges(hold)
<1>1. ASSUME NEW l \in Loops, LoopStep(l)
      PROVE  hold' = hold \/ hold'.left >= hold.left
  <2>1. CASE Answer(l)
    BY <2>1, ClearHoldTyped DEF Answer, IInv, TypeOK
  <2>2. CASE AnswerLimited(l)
    BY <2>2, AnswerLimitedStep
  <2>3. CASE ~Answer(l) /\ ~AnswerLimited(l)
    BY <1>1, <2>3 DEF LoopStep, Start, StopAtDeadline, Poll, Withdraw, TakeShared, Suppressed, Request,
        LaterSuppressed, AnswerFails, StepOver, Settle, RecordFails, Expire, TakeWake, HearDrain, gateway
  <2> QED BY <2>1, <2>2, <2>3
<1>2. CASE Tick
  BY <1>2, TickStep
<1>3. CASE UNCHANGED vars
  BY <1>3 DEF vars
<1>4. ASSUME NEW l \in Loops, Serve(l) \/ RunnerEnds(l) PROVE hold' = hold
  BY <1>4 DEF Serve, RunnerEnds, gateway
<1>5. ASSUME NEW j \in Jobs, QueueJob(j) \/ JobLeaves(j) \/ \E l \in Loops : Wake(j, l) PROVE hold' = hold
  BY <1>5 DEF QueueJob, JobLeaves, Wake, gateway
<1>6. ASSUME AskStop \/ HearStop \/ HearUpgrade \/ LoopLost \/ JoinLoops PROVE hold' = hold
  BY <1>6 DEF AskStop, HearStop, HearUpgrade, LoopLost, JoinLoops, gateway
<1> QED BY <1>1, <1>2, <1>3, <1>4, <1>5, <1>6 DEF Next

\* No answer of any loop shortens the quiet period in force: only time does
\* (hold_for, clear_hold).
THEOREM QuietPeriodKept == Spec => HoldKept
<1>1. IInv /\ [Next]_vars => [ hold'.left >= hold.left \/ hold' = HoldAges(hold) ]_hold
  BY HoldStep
<1> QED BY <1>1, Invariant, PTL DEF Spec, HoldKept

\* A step of a loop, or GitHub reading its queue for it, leaves the others alone.
LEMMA OthersKeep ==
    ASSUME IInv, NEW l \in Loops, LoopStep(l) \/ Serve(l), NEW m \in Loops, m # l
    PROVE  loop'[m] = loop[m]
<1>1. loop \in [ Loops -> Loop ]
  BY DEF IInv, TypeOK
<1>2. ASSUME Start(l) \/ StopAtDeadline(l) \/ Withdraw(l) \/ TakeShared(l) \/ Suppressed(l) \/ Request(l)
      PROVE  loop'[m] = loop[m]
  BY <1>1, <1>2 DEF Start, StopAtDeadline, Withdraw, TakeShared, Suppressed, Request, Becomes
<1>3. ASSUME Poll(l) PROVE loop'[m] = loop[m]
  BY <1>1, <1>3 DEF Poll, Becomes
<1>4. ASSUME Serve(l) \/ Answer(l) \/ LaterSuppressed(l) \/ StepOver(l) PROVE loop'[m] = loop[m]
  BY <1>1, <1>4 DEF Serve, Answer, LaterSuppressed, StepOver, Becomes
<1>5. ASSUME AnswerLimited(l) \/ AnswerFails(l) PROVE loop'[m] = loop[m]
  BY <1>1, <1>5 DEF AnswerLimited, AnswerFails, Becomes
<1>6. ASSUME Settle(l) PROVE loop'[m] = loop[m]
  BY <1>1, <1>6 DEF Settle, Becomes
<1>7. ASSUME RecordFails(l) \/ Expire(l) \/ TakeWake(l) \/ HearDrain(l) PROVE loop'[m] = loop[m]
  BY <1>1, <1>7 DEF RecordFails, Expire, TakeWake, HearDrain, Becomes
<1> QED BY <1>2, <1>3, <1>4, <1>5, <1>6, <1>7 DEF LoopStep

\* Steps that are no loop's leave every loop where it is.
LEMMA WorldKeeps ==
    ASSUME IInv, NEW l \in Loops, [Next]_vars, ~\E k \in Loops : LoopStep(k) \/ Serve(k)
    PROVE  loop'[l].pc = loop[l].pc /\ loop'[l].next = loop[l].next
<1>1. loop \in [ Loops -> Loop ] /\ loop[l] \in Loop
  BY DEF IInv, TypeOK
<1>2. CASE Tick
  BY <1>2, TickStep
<1>3. ASSUME NEW j \in Jobs, NEW k \in Loops, Wake(j, k)
      PROVE  loop'[l].pc = loop[l].pc /\ loop'[l].next = loop[l].next
  <2> DEFINE r == [ loop[k] EXCEPT !.permit = TRUE ]
  <2>1. loop' = [ loop EXCEPT ![k] = r ] /\ loop[k] \in Loop
    BY <1>1, <1>3 DEF Wake, Becomes
  <2>2. r.pc = loop[k].pc /\ r.next = loop[k].next
    BY <2>1 DEF Loop
  <2> HIDE DEF r
  <2> QED BY <1>1, <2>1, <2>2
<1>4. CASE UNCHANGED loop
  BY <1>4
<1>5. \/ Tick \/ UNCHANGED loop \/ \E j \in Jobs, k \in Loops : Wake(j, k)
  BY DEF Next, vars, RunnerEnds, QueueJob, JobLeaves, AskStop, HearStop, HearUpgrade, LoopLost, JoinLoops
<1> QED BY <1>2, <1>3, <1>4, <1>5

LEMMA ScheduleStep ==
    ASSUME IInv, [Next]_vars, NEW l \in Loops, loop[l].pc = "sleep", loop'[l].pc = "poll"
    PROVE  \/ loop[l].scheduled = 0
           \/ loop'[l].draining # loop[l].draining
           \/ loop[l].draining = None /\ ~loop[l].throttled /\ loop[l].sincePoll >= WAKE_MIN_GAP
<1>1. loop[l] \in Loop /\ Paced(l, loop[l])
  BY LoopTyped
<1>2. PICK k \in Loops : LoopStep(k) \/ Serve(k)
  BY WorldKeeps
<1>3. k = l
  BY <1>2, OthersKeep
<1>4. Expire(l) \/ TakeWake(l) \/ HearDrain(l)
  BY <1>2, <1>3 DEF LoopStep, Serve, Start, StopAtDeadline, Poll, Withdraw, TakeShared, Suppressed, Request,
        Answer, AnswerLimited, LaterSuppressed, AnswerFails, StepOver, Settle, RecordFails
<1>5. CASE Expire(l)
  <2>1. loop[l].left = 0 /\ loop[l].sincePoll \in Nat /\ loop[l].scheduled \in Nat
    BY <1>1, <1>5, PacingAssumption DEF Expire, Loop
  <2> QED BY <1>1, <2>1, PacingAssumption DEF Paced, SleepIsPaced
<1>6. CASE TakeWake(l)
  <2> DEFINE r == [ loop[l] EXCEPT !.permit = FALSE,
                                   !.left = WokenDeadline(loop[l].left, loop[l].sincePoll) ]
  <2>1. loop' = [ loop EXCEPT ![l] = r ]
    BY <1>6 DEF TakeWake, Becomes
  <2>2. r.pc = "sleep"
    BY <1>1 DEF Loop
  <2> HIDE DEF r
  <2> QED BY <2>1, <2>2 DEF IInv, TypeOK
<1>7. CASE HearDrain(l)
  BY <1>7, HearDrainStep
<1> QED BY <1>4, <1>5, <1>6, <1>7

\* A loop polls ahead of its schedule only when a drain begins or for a wake it
\* may honour: at no slowdown, outside a drain and WAKE_MIN_GAP after its last
\* poll (run_target_loop, woken_deadline).
THEOREM PollsOnSchedule == Spec => ScheduleKept
<1>1. IInv /\ [Next]_vars =>
        [ \A l \in Loops :
            loop[l].pc = "sleep" /\ loop'[l].pc = "poll" =>
              \/ loop[l].scheduled = 0
              \/ loop'[l].draining # loop[l].draining
              \/ /\ loop[l].draining = None /\ ~loop[l].throttled
                 /\ loop[l].sincePoll >= WAKE_MIN_GAP ]_loop
  BY ScheduleStep
<1> QED BY <1>1, Invariant, PTL DEF Spec, ScheduleKept

LEMMA SharedStep ==
    ASSUME IInv, [Next]_vars, NEW l \in Loops, loop[l].pc = "gate", loop'[l].next # loop[l].next,
           NEW j \in Queued(Wants(l)), job[j].waited >= IDLE
    PROVE  j \in loop'[l].handed
<1>1. loop[l] \in Loop /\ Paced(l, loop[l]) /\ loop[l].pc \in Reads
  BY LoopTyped DEF Reads
<1>2. PICK k \in Loops : LoopStep(k) \/ Serve(k)
  BY WorldKeeps
<1>3. k = l
  BY <1>2, OthersKeep
<1>4. Withdraw(l) \/ TakeShared(l) \/ Suppressed(l) \/ Request(l)
  BY <1>2, <1>3 DEF LoopStep, Serve, Start, StopAtDeadline, Poll, Answer, AnswerLimited, LaterSuppressed,
        AnswerFails, StepOver, Settle, RecordFails, Expire, TakeWake, HearDrain
<1>5. ASSUME NEW r \in Loop, Becomes(l, r) PROVE loop'[l] = r
  BY <1>5, LoopBecomes
<1>6. CASE TakeShared(l)
  <2> DEFINE jobs == reading[Wants(l)].jobs
             r == Handed(loop[l], l, jobs)
  <2>1. Wants(l) \in Repositories
    BY <1>1, WantsTyped
  <2>2. reading[Wants(l)] \in Reading
    BY <2>1 DEF IInv, TypeOK
  <2>3. Fresh(reading[Wants(l)]) /\ Becomes(l, r) /\ ~loop[l].cancelled
    BY <1>6 DEF TakeShared
  <2>4. loop[l].draining = None /\ jobs \in SUBSET Jobs
    BY <1>1, <2>2, <2>3 DEF Paced, DrainIsCancelled, Reading
  <2>5. r \in Loop /\ r.handed = loop[l].handed \cup jobs
    BY <1>1, <2>4, HandedTyped
  <2>6. job[j].waited > reading[Wants(l)].age
    <3>1. reading[Wants(l)].age \in Nat
      BY <2>2, PacingAssumption DEF Reading
    <3>2. j \in Jobs /\ job \in [ Jobs -> Job ]
      BY DEF IInv, TypeOK, Queued
    <3>3. job[j].waited \in Nat
      BY <3>2, PacingAssumption DEF Job
    <3> QED BY <3>1, <3>3, <2>3, PacingAssumption DEF Fresh
  <2>7. j \in jobs
    BY <2>1, <2>3, <2>6 DEF IInv, ReadingCovers
  <2> HIDE DEF r, jobs
  <2> QED BY <1>5, <2>3, <2>5, <2>7
<1>7. CASE Withdraw(l)
  <2> DEFINE r == [ loop[l] EXCEPT !.pc = "settle", !.outcome = "cancelled" ]
  <2>1. r \in Loop /\ r.next = loop[l].next
    BY <1>1 DEF Loop, Places, Outcomes
  <2>2. Becomes(l, r)
    BY <1>7 DEF Withdraw
  <2> HIDE DEF r
  <2> QED BY <1>5, <2>1, <2>2
<1>8. CASE Suppressed(l)
  <2> DEFINE r == Failed(loop[l], "rate_limited", hold.left)
  <2>1. hold.left \in Nat
    BY PacingAssumption DEF IInv, TypeOK, Hold
  <2>2. r \in Loop /\ r.next = loop[l].next
    <3>1. "rate_limited" \in Outcomes
      BY DEF Outcomes
    <3> QED BY <1>1, <2>1, <3>1, FailedTyped
  <2>3. Becomes(l, r)
    BY <1>8 DEF Suppressed
  <2> HIDE DEF r
  <2> QED BY <1>5, <2>2, <2>3
<1>9. CASE Request(l)
  <2> DEFINE r == [ loop[l] EXCEPT !.pc = "fetch", !.age = 0 ]
  <2>1. 0 \in 0 .. IDLE
    BY PacingAssumption
  <2>2. r \in Loop /\ r.next = loop[l].next
    BY <1>1, <2>1 DEF Loop, Places
  <2>3. Becomes(l, r)
    BY <1>9 DEF Request
  <2> HIDE DEF r
  <2> QED BY <1>5, <2>2, <2>3
<1> QED BY <1>4, <1>6, <1>7, <1>8, <1>9

\* A job that has waited for the idle interval is in every reading a loop takes
\* over from another, however long the fetch behind it took (repository_reading).
THEOREM SharedReadingsRecent == Spec => SharedIsRecent
<1>1. IInv /\ [Next]_vars =>
        [ \A l \in Loops :
            loop[l].pc = "gate" /\ loop'[l].next # loop[l].next =>
              \A j \in Queued(Wants(l)) : job[j].waited >= IDLE => j \in loop'[l].handed ]_loop
  BY SharedStep
<1> QED BY <1>1, Invariant, PTL DEF Spec, SharedIsRecent

LEMMA RunnersStep ==
    ASSUME IInv, [Next]_vars, NEW l \in Loops, runners'[l] > runners[l]
    PROVE  loop[l].draining = None
<1>1. runners[l] \in 0 .. 1
  BY DEF IInv, TypeOK
<1>2. CASE \E k \in Loops : Settle(k)
  BY <1>1, <1>2, SettleStep
<1>3. CASE \E k \in Loops : RunnerEnds(k)
  <2>1. runners'[l] <= runners[l] /\ runners'[l] \in 0 .. 1
    BY <1>3, RunnerEndsStep DEF IInv, TypeOK
  <2> QED BY <1>1, <2>1
<1>4. CASE UNCHANGED runners
  BY <1>1, <1>4
<1>5. UNCHANGED runners \/ \E k \in Loops : Settle(k) \/ RunnerEnds(k)
  BY DEF Next, vars, LoopStep, Serve, Start, StopAtDeadline, Poll, Withdraw, TakeShared, Suppressed, Request,
        Answer, AnswerLimited, LaterSuppressed, AnswerFails, StepOver, RecordFails, Expire, TakeWake,
        HearDrain, Wake, QueueJob, JobLeaves, AskStop, HearStop, HearUpgrade, LoopLost, JoinLoops, Tick
<1> QED BY <1>2, <1>3, <1>4, <1>5

\* A draining loop starts no runner, although each of its passes reloads policies
\* that no drain disabled (begin_drain, refresh_policies).
THEOREM DrainStartsNothing == Spec => NoStartWhileDraining
<1>1. IInv /\ [Next]_vars =>
        [ \A l \in Loops : runners'[l] > runners[l] => loop[l].draining = None ]_runners
  BY RunnersStep
<1> QED BY <1>1, Invariant, PTL DEF Spec, NoStartWhileDraining

LEMMA UpgradeStep ==
    ASSUME IInv, [Next]_vars, daemon.phase = "upgrading", daemon'.phase = "stopped", NEW l \in Loops
    PROVE  runners[l] = 0
<1>1. JoinLoops
  <2>1. daemon \in [ phase: Phases, stop: BOOLEAN ]
    BY DEF IInv, TypeOK
  <2>2. ASSUME NEW k \in Loops, LoopStep(k) PROVE UNCHANGED daemon
    BY <2>2 DEF LoopStep, Start, StopAtDeadline, Poll, Withdraw, TakeShared, Suppressed, Request, Answer,
        AnswerLimited, LaterSuppressed, AnswerFails, StepOver, Settle, RecordFails, Expire, TakeWake, HearDrain
  <2>3. UNCHANGED daemon \/ AskStop \/ HearStop \/ HearUpgrade \/ LoopLost \/ JoinLoops
    BY <2>2 DEF Next, vars, Serve, Wake, RunnerEnds, QueueJob, JobLeaves, Tick
  <2> QED BY <2>1, <2>3 DEF AskStop, HearStop, HearUpgrade, LoopLost
<1>2. loop[l].pc = "done" /\ loop[l].draining # "shutdown"
  BY <1>1 DEF JoinLoops, IInv, ShutdownIsHeard
<1> QED BY <1>2 DEF IInv, DoneIsDrained

\* A daemon that hands over to a newer binary leaves no runner of its own at
\* work, whatever its loops were doing when the upgrade was heard (run_generation).
THEOREM UpgradeWaitsForJobs == Spec => UpgradeLetsJobsEnd
<1>1. IInv /\ [Next]_vars =>
        [ daemon.phase = "upgrading" /\ daemon'.phase = "stopped" =>
            \A l \in Loops : runners[l] = 0 ]_daemon
  BY UpgradeStep
<1> QED BY <1>1, Invariant, PTL DEF Spec, UpgradeLetsJobsEnd
==============================================================================
