---------------------------- MODULE JobContract ----------------------------
(***************************************************************************)
(* What the job queue promises its producers, one state machine per job    *)
(* and nothing of lists, sets, hashes or goroutines: a job runs until it   *)
(* succeeds or has failed MaxAttempts times, a completed job never runs    *)
(* again, and only a retry of a dead job clears its count of attempts.     *)
(***************************************************************************)
EXTENDS Naturals

CONSTANTS Jobs, MaxAttempts

VARIABLES state, attempts

vars == <<state, attempts>>

Init ==
    /\ state = [j \in Jobs |-> "absent"]
    /\ attempts = [j \in Jobs |-> 0]

Move(j, from, to) == state[j] = from /\ state' = [state EXCEPT ![j] = to]

CountTo(j, n) == attempts' = [attempts EXCEPT ![j] = n]

Submit(j) == Move(j, "absent", "waiting") /\ UNCHANGED attempts

Begin(j) == Move(j, "waiting", "running") /\ UNCHANGED attempts

\* The job was taken before its backoff had passed.
Postpone(j) == Move(j, "running", "waiting") /\ UNCHANGED attempts

Finish(j) == Move(j, "running", "done") /\ UNCHANGED attempts

TryAgain(j) ==
    /\ attempts[j] + 1 < MaxAttempts
    /\ Move(j, "running", "waiting")
    /\ CountTo(j, attempts[j] + 1)

GiveUp(j) ==
    /\ attempts[j] + 1 = MaxAttempts
    /\ Move(j, "running", "dead")
    /\ CountTo(j, MaxAttempts)

Revive(j) == Move(j, "dead", "waiting") /\ CountTo(j, 0)

\* A finished job is forgotten for good.
Forget(j) ==
    /\ Move(j, "done", "gone") \/ Move(j, "dead", "gone")
    /\ CountTo(j, 0)

Next ==
    \E j \in Jobs :
        \/ Submit(j) \/ Begin(j) \/ Postpone(j) \/ Finish(j)
        \/ TryAgain(j) \/ GiveUp(j) \/ Revive(j) \/ Forget(j)

Spec == Init /\ [][Next]_vars
=============================================================================
