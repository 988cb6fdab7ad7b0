-------------------------------- MODULE Pacing --------------------------------
(***************************************************************************)
(* When a target may be polled again: the schedule of a pass               *)
(* (PollSchedule, crates/agent/src/reconcile.rs), the host-wide quiet      *)
(* period after a rate limit (RateLimitHold, crates/github/src/demand.rs)  *)
(* and what a coordinator's wake may do to a deadline (woken_deadline,     *)
(* crates/app/src/cli/coordinator.rs).                                     *)
(*                                                                         *)
(* Instants are kept as distances from now: a deadline as the time left, a *)
(* moment of the past as its age.  A quiet period that never was or is     *)
(* forgotten is one that ended HOLD_MEMORY ago.                            *)
(***************************************************************************)
EXTENDS Integers

CONSTANTS
    WAKE_MIN_GAP,   \* between the start of a poll and a woken one, 5 s
    IDLE,           \* the idle interval, and the window readings are shared for
    NOMINAL,        \* the active interval
    MAX_OFFLINE_BACKOFF,
    DEFAULT_RATE_LIMIT_BACKOFF,
    MAX_RATE_LIMIT_BACKOFF,
    HOLD_MEMORY,    \* how long an ended quiet period counts as the same episode
    MaxEpisodes,    \* bound on the secondary limits counted in a row
    MaxOffline,     \* bound on the offline polls counted in a row
    Jitter          \* what jitter may add to a delay

ASSUME PacingAssumption ==
    /\ WAKE_MIN_GAP \in Nat /\ HOLD_MEMORY \in Nat \ {0}
    /\ IDLE \in Nat /\ WAKE_MIN_GAP <= IDLE
    /\ NOMINAL \in Nat /\ IDLE <= NOMINAL
    /\ MAX_OFFLINE_BACKOFF \in Nat
    /\ DEFAULT_RATE_LIMIT_BACKOFF \in Nat \ {0}
    /\ MAX_RATE_LIMIT_BACKOFF \in Nat
    /\ DEFAULT_RATE_LIMIT_BACKOFF <= MAX_RATE_LIMIT_BACKOFF
    /\ MaxEpisodes \in Nat \ {0} /\ MaxOffline \in Nat \ {0}
    /\ Jitter \subseteq Nat

Least(a, b) == IF a <= b THEN a ELSE b
Greatest(a, b) == IF a >= b THEN a ELSE b

\* A delay doubled n times, the shift capped as the code caps it.
Doubled(delay, n, cap) == delay * 2 ^ Least(n, cap)

-----------------------------------------------------------------------------
\* The quiet period

Hold == [ left: 0 .. MAX_RATE_LIMIT_BACKOFF, ended: 0 .. HOLD_MEMORY, consecutive: 0 .. MaxEpisodes ]

NoHold == [ left |-> 0, ended |-> HOLD_MEMORY, consecutive |-> 0 ]

Live(hold) == hold.left > 0

\* Mutant: a wait is as long as GitHub says.
UncappedDelay(asked) == IF asked > 0 THEN asked ELSE DEFAULT_RATE_LIMIT_BACKOFF

\* `retry-after` or the reset GitHub named; 0 stands for neither, or one in the past.
DelayFrom(asked) ==
    Least(IF asked > 0 THEN asked ELSE DEFAULT_RATE_LIMIT_BACKOFF, MAX_RATE_LIMIT_BACKOFF)

\* Secondary limits in a row: answers that arrive inside a quiet period are the
\* same episode, one that arrives after it is the next.
Consecutive(hold, kind) ==
    CASE kind = "primary" -> 0
      [] kind = "secondary" /\ Live(hold) -> Greatest(hold.consecutive, 1)
      [] kind = "secondary" /\ ~Live(hold) /\ hold.ended < HOLD_MEMORY ->
            Least(hold.consecutive + 1, MaxEpisodes)
      [] OTHER -> 1

HoldWait(hold, kind, asked) ==
    LET n == Consecutive(hold, kind)
    IN  IF n > 1
        THEN Least(Greatest(DelayFrom(asked), Doubled(DEFAULT_RATE_LIMIT_BACKOFF, n - 1, 10)),
                   MAX_RATE_LIMIT_BACKOFF)
        ELSE DelayFrom(asked)

\* Mutant: a later answer replaces the quiet period in force.
UntilOfLatest(hold, wait) == wait

\* A later answer never shortens a quiet period in force.
UntilFor(hold, wait) == Greatest(hold.left, wait)

HoldFor(hold, kind, asked) ==
    [ left |-> UntilFor(hold, HoldWait(hold, kind, asked)),
      ended |-> 0,
      consecutive |-> Greatest(Consecutive(hold, kind), IF Live(hold) THEN hold.consecutive ELSE 0) ]

\* A request went through: an ended quiet period is forgotten.
ClearHold(hold) == IF Live(hold) THEN hold ELSE NoHold

\* One unit of time later.
HoldAges(hold) ==
    IF Live(hold) THEN [ hold EXCEPT !.left = @ - 1 ]
                  ELSE [ hold EXCEPT !.ended = Least(@ + 1, HOLD_MEMORY) ]

-----------------------------------------------------------------------------
\* The schedule of a pass

Pace == { "nominal", "idle", "stretched", "rate_limited", "offline", "blocked" }

IsThrottled(pace) == pace \notin { "nominal", "idle" }

OfflineDelay(consecutive) ==
    Least(Doubled(NOMINAL, consecutive - 1, 5), MAX_OFFLINE_BACKOFF)

\* next_poll_with for a pass that ended in `outcome`: the paces it may name and
\* the delay of each.  `floor` is what is left of the wait GitHub asked for,
\* `stretch` the factor of a low hourly quota that resets in `floor`.
NextPolls(outcome, quiet, floor, consecutive) ==
    CASE outcome = "ready" ->
            { IF quiet /\ IDLE < NOMINAL THEN [ pace |-> "idle", delay |-> IDLE ]
                                         ELSE [ pace |-> "nominal", delay |-> NOMINAL ] }
      [] outcome = "low_quota" ->
            { [ pace |-> "stretched",
                delay |-> Least(NOMINAL * stretch, Greatest(floor, NOMINAL)) ] : stretch \in { 2, 4 } }
      [] outcome = "rate_limited" ->
            { [ pace |-> "rate_limited", delay |-> Greatest(floor, NOMINAL) + j ] : j \in Jitter }
      [] outcome = "offline" ->
            { [ pace |-> "offline", delay |-> OfflineDelay(consecutive) + j ] : j \in Jitter }
      [] OTHER -> { [ pace |-> "blocked", delay |-> NOMINAL ] }

\* How long is left after a wake: no longer than before, and no sooner than
\* WAKE_MIN_GAP after the last poll began.
WokenDeadline(left, sincePoll) == Least(left, Greatest(WAKE_MIN_GAP - sincePoll, 0))
==============================================================================
