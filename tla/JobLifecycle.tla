---------------------------- MODULE JobLifecycle ----------------------------
(***************************************************************************)
(* What the AWOS host promises about a job, without a word of how: at most *)
(* one job runs at a time, a running job is cancelled only at its user's   *)
(* wish, and an outcome stands for good (docs/specs/host_queue.md).        *)
(* HostWorker implements this module, crashes and restarts included.       *)
(***************************************************************************)
CONSTANT Jobs

VARIABLES
    phase,      \* phase[j]: what the owner sees of job j
    wish        \* wish[j]: the owner wants the running job j cancelled

vars == <<phase, wish>>

Outcomes == {"done", "failed", "cancelled"}
Phases   == {"absent", "queued", "running", "blocked"} \cup Outcomes

TypeOK ==
    /\ phase \in [Jobs -> Phases]
    /\ wish \in [Jobs -> BOOLEAN]

Init ==
    /\ phase = [j \in Jobs |-> "absent"]
    /\ wish = [j \in Jobs |-> FALSE]

Move(j, from, to) ==
    /\ phase[j] \in from
    /\ phase' = [phase EXCEPT ![j] = to]
    /\ UNCHANGED wish

Submit(j) == Move(j, {"absent"}, "queued")

Begin(j) ==
    /\ \A k \in Jobs : phase[k] # "running"
    /\ Move(j, {"queued"}, "running")

\* another attempt will follow: a retry, a continuation, a stop, a crash
Return(j) == Move(j, {"running"}, "queued")

Park(j) == Move(j, {"running"}, "blocked")

Release(j) == Move(j, {"blocked"}, "queued")

Withdraw(j) == Move(j, {"queued", "blocked"}, "cancelled")

Wish(j) ==
    /\ phase[j] = "running"
    /\ wish' = [wish EXCEPT ![j] = TRUE]
    /\ UNCHANGED phase

Conclude(j, outcome) ==
    /\ outcome = "cancelled" => wish[j]
    /\ Move(j, {"running"}, outcome)

Next ==
    \E j \in Jobs :
        \/ Submit(j) \/ Begin(j) \/ Return(j) \/ Park(j) \/ Release(j)
        \/ Withdraw(j) \/ Wish(j)
        \/ \E outcome \in Outcomes : Conclude(j, outcome)

Spec == Init /\ [][Next]_vars

=============================================================================
