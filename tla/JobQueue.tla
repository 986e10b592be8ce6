------------------------------- MODULE JobQueue -------------------------------
(***************************************************************************)
(* What the job table promises its users: a job is claimed by at most one  *)
(* process at a time, only the process that claimed it settles it, a job   *)
(* whose process is gone can be claimed again while attempts are left, and *)
(* it is buried only when none is left.  LifecycleJobs implements it.      *)
(***************************************************************************)
EXTENDS Naturals

CONSTANTS Jobs, Workers, Nobody, MaxAttempts

VARIABLES state, owner, tries

queueVars == <<state, owner, tries>>

Init ==
    /\ state = [j \in Jobs |-> "absent"]
    /\ owner = [j \in Jobs |-> Nobody]
    /\ tries = [j \in Jobs |-> 0]

Settle(j, s) ==
    /\ state' = [state EXCEPT ![j] = s]
    /\ owner' = [owner EXCEPT ![j] = Nobody]

Submit(j) ==
    /\ state[j] = "absent"
    /\ Settle(j, "queued")
    /\ tries' = [tries EXCEPT ![j] = 0]

\* A queued job, or one whose owner is gone, is claimed for a new attempt.
Claim(w, j) ==
    /\ \/ state[j] = "queued"
       \/ state[j] = "owned" /\ owner[j] = Nobody
    /\ tries[j] < MaxAttempts
    /\ state' = [state EXCEPT ![j] = "owned"]
    /\ owner' = [owner EXCEPT ![j] = w]
    /\ tries' = [tries EXCEPT ![j] = @ + 1]

\* A process dies with all it has claimed.
Abandon(w) ==
    /\ owner' = [j \in Jobs |-> IF owner[j] = w THEN Nobody ELSE owner[j]]
    /\ UNCHANGED <<state, tries>>

Repeat(w, j) ==
    /\ owner[j] = w
    /\ Settle(j, "queued")
    /\ tries' = [tries EXCEPT ![j] = 0]

Retry(w, j) ==
    /\ owner[j] = w
    /\ tries[j] < MaxAttempts
    /\ Settle(j, "queued")
    /\ UNCHANGED tries

Finish(w, j) ==
    /\ owner[j] = w
    /\ Settle(j, "done")
    /\ UNCHANGED tries

Bury(w, j) ==
    /\ owner[j] = w
    /\ tries[j] = MaxAttempts
    /\ Settle(j, "dead")
    /\ UNCHANGED tries

Revive(j) ==
    /\ state[j] = "dead"
    /\ Settle(j, "queued")
    /\ tries' = [tries EXCEPT ![j] = 0]

Next ==
    \/ \E j \in Jobs : Submit(j) \/ Revive(j)
    \/ \E w \in Workers : Abandon(w)
    \/ \E w \in Workers, j \in Jobs :
        Claim(w, j) \/ Repeat(w, j) \/ Retry(w, j) \/ Finish(w, j) \/ Bury(w, j)

Spec == Init /\ [][Next]_queueVars
=============================================================================
