------------------------------ MODULE MCPolling ------------------------------
(* The loop of an organisation and the loop of a repository in it. *)
EXTENDS Polling, TLC

CONSTANTS org, repo, r1, r2, j1

Sharing == org :> <<r1, r2>> @@ repo :> <<r1>>
Aggregate == org :> <<r1, r2>>
JobIn == j1 :> r1
InTheLast == j1 :> r2

\* What the behaviour depends on: not the history, nor what a loop sets anew
\* before it looks at it again.
Seen(self) ==
    CASE self.pc = "sleep" /\ self.throttled ->
            [ self EXCEPT !.outcome = "ready", !.sincePoll = 0, !.permit = FALSE ]
      [] self.pc = "sleep" /\ ~self.throttled -> [ self EXCEPT !.outcome = "ready" ]
      [] self.pc = "settle" -> [ self EXCEPT !.throttled = FALSE, !.next = 1 ]
      [] OTHER -> [ self EXCEPT !.throttled = FALSE ]

State ==
    IF ~Alive THEN <<>> ELSE
    << [ l \in Loops |-> Seen(loop[l]) ], reading, gate, hold, job, runners, daemon >>
==============================================================================
