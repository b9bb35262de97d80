----------------------------- MODULE HostWorker -----------------------------
(***************************************************************************)
(* The single long-lived host worker (scaffold/agent/host/worker.py with   *)
(* host/autopilot.py) on the job table, and everything that can happen     *)
(* around it: crashes and restarts at any step, a second worker that wants *)
(* to start, stop signals, users who cancel and unblock, API keys that     *)
(* break and heal, and the child process that does the work and outlives   *)
(* its worker until its own watcher notices (job_host.py).                 *)
(*                                                                         *)
(* One action is one step between two points where another process can     *)
(* run or the worker can die: one transaction, one file written, one       *)
(* process started or killed.                                              *)
(***************************************************************************)
EXTENDS JobTable, FiniteSets

CONSTANTS
    MaxContinuations,   \* AWOS_HOST_AUTOCONTINUE, at least 0
    MaxCrashes,         \* bound: worker crashes in a behaviour
    MaxSignals,         \* bound: stop signals in a behaviour
    MaxKeyBreaks,       \* bound: times the API keys stop working
    MaxFaults,          \* bound: failed writes while a child runs
    ChildResults,       \* the results children report in this instance
    ChildEffects,       \* what children do on the side in this instance
    Mishaps             \* which rare mishaps this instance lets happen

\* how an attempt can end, as the error text or the result says it
Stops == {"success", "auth", "limit", "hard"}

Effects == {"auth log", "spend", "rollback"}
MishapKinds == {"unverifiable pid", "refused prepare", "broken check", "free tier"}

ASSUME BoundsOK ==
    /\ MaxContinuations \in Nat
    /\ MaxCrashes \in Nat
    /\ MaxSignals \in Nat
    /\ MaxKeyBreaks \in Nat
    /\ MaxFaults \in Nat
    /\ ChildResults \subseteq Stops
    /\ ChildEffects \subseteq Effects
    /\ Mishaps \subseteq MishapKinds

VARIABLES
    lock,       \* who holds the flock on worker.lock
    pc,         \* pc[w]: where process w is in serve() and run_job()
    cur,        \* cur[w]: the job w works on
    att,        \* att[w]: job.attempts as claim_next returned it
    mine,       \* mine[w]: the Popen handle of the running attempt's child
    plan,       \* plan[w]: why the attempt stopped, then the outcome decided
    todo,       \* todo[w]: jobs left of the list w loops over
    seen,       \* seen[w]: those of todo listed with cancel_requested set
    stop,       \* stop[w]: the _stop flag
    kid,        \* kid[c]: the live child c, its job and its parent worker;
                \* history: whether the workers lost sight of it
    disk,       \* disk[j]: the files in the job directory
    handed,     \* handed[j]: the outcomes the job was handed off with
    told,       \* told[j]: the final states the owner was notified of
    keysOk,     \* the providers accept the API keys
    count       \* how often each bounded thing has happened

workerVars == <<lock, pc, cur, att, mine, plan, todo, seen, stop>>
fileVars   == <<disk, handed, told>>
vars == <<table, asked, lock, pc, cur, att, mine, plan, todo, seen, stop,
          kid, disk, handed, told, keysOk, count>>

-----------------------------------------------------------------------------
(* Types                                                                   *)

\* serve(): down, boot, recover, recover row, loop, unblock, claim
\* run_job(): everything from precheck on
Serving == {"boot", "recover", "recover row", "loop", "unblock", "claim"}
RunSteps == {"precheck", "gate", "prepare", "spawn", "register", "poll",
             "kill", "exited", "stopped", "give back", "retry", "raised", "continue",
             "park", "rollback", "hand off", "finish"}
PCs == {"down"} \cup Serving \cup RunSteps \cup {"tell"}

Result == [by : Children, says : Stops]

Disk == [result   : Result \cup {None},  \* child_result.json
         used     : Nat,                 \* continue.json: continuations used
         authLog  : BOOLEAN,             \* worker.log: the last child section
                                         \* looks like an auth error
         broke    : BOOLEAN,             \* spend.json: the budget is used up
         deferred : BOOLEAN,             \* deferred_rollback.jsonl exists
         reverted : BOOLEAN]             \* a rollback was applied to the
                                         \* workspace

Counters == {"crashes", "signals", "key breaks", "faults"}

Kid == [job : Jobs \cup {None}, parent : Workers \cup {None}, lost : BOOLEAN]

TypeOK ==
    /\ TableTypeOK
    /\ lock \in Workers \cup {None}
    /\ pc \in [Workers -> PCs]
    /\ cur \in [Workers -> Jobs \cup {None}]
    /\ att \in [Workers -> Nat]
    /\ mine \in [Workers -> Children \cup {None}]
    /\ plan \in [Workers -> Stops \cup Final \cup Reasons \cup {None}]
    /\ todo \in [Workers -> SUBSET Jobs]
    /\ seen \in [Workers -> SUBSET Jobs]
    /\ stop \in [Workers -> BOOLEAN]
    /\ kid \in [Children -> Kid]
    /\ disk \in [Jobs -> Disk]
    /\ handed \in [Jobs -> SUBSET Final]
    /\ told \in [Jobs -> SUBSET Final]
    /\ keysOk \in BOOLEAN
    /\ count \in [Counters -> Nat]

Init ==
    /\ TableInit
    /\ lock = None
    /\ pc = [w \in Workers |-> "down"]
    /\ cur = [w \in Workers |-> None]
    /\ att = [w \in Workers |-> 0]
    /\ mine = [w \in Workers |-> None]
    /\ plan = [w \in Workers |-> None]
    /\ todo = [w \in Workers |-> {}]
    /\ seen = [w \in Workers |-> {}]
    /\ stop = [w \in Workers |-> FALSE]
    /\ kid = [c \in Children |-> [job |-> None, parent |-> None, lost |-> FALSE]]
    /\ disk = [j \in Jobs |-> [result |-> None, used |-> 0,
                               authLog |-> FALSE, broke |-> FALSE,
                               deferred |-> FALSE, reverted |-> FALSE]]
    /\ handed = [j \in Jobs |-> {}]
    /\ told = [j \in Jobs |-> {}]
    /\ keysOk = TRUE
    /\ count = [k \in Counters |-> 0]

-----------------------------------------------------------------------------
(* Helpers                                                                 *)

At(w, step) == pc[w] = step
Go(w, step) == pc' = [pc EXCEPT ![w] = step]

Count(k, bound) ==
    /\ count[k] < bound
    /\ count' = [count EXCEPT ![k] = @ + 1]

Alive(c) == kid[c].job # None

Orphan(c) == Alive(c) /\ kid[c].parent = None

\* an identity (pid, start time) nothing that will be read refers to any more
Fresh(c) ==
    /\ ~Alive(c)
    /\ \A w \in Workers : mine[w] # c
    /\ \A j \in Jobs : table[j].child # c
    /\ \A j \in Jobs :
          ~In(j, Final) /\ disk[j].result # None => disk[j].result.by # c

Kill(c) == kid' = [kid EXCEPT ![c].job = None, ![c].parent = None]

\* a living child that a worker has in hand, or the next recovery will find
Watched(c) == Alive(c) /\ ~kid[c].lost

\* child c runs on, and no worker knows of it, or trusts what it knows
LosesSight(c) == kid' = [kid EXCEPT ![c].lost = @ \/ Alive(c)]

\* the process is gone: the OS drops the lock, its children are orphans, and
\* nobody will know of one that was not recorded yet
Vanish(w) ==
    /\ lock' = IF lock = w THEN None ELSE lock
    /\ Go(w, "down")
    /\ cur' = [cur EXCEPT ![w] = None]
    /\ att' = [att EXCEPT ![w] = 0]
    /\ mine' = [mine EXCEPT ![w] = None]
    /\ plan' = [plan EXCEPT ![w] = None]
    /\ todo' = [todo EXCEPT ![w] = {}]
    /\ seen' = [seen EXCEPT ![w] = {}]
    /\ stop' = [stop EXCEPT ![w] = FALSE]
    /\ kid' = [c \in Children |->
                  IF kid[c].parent = w
                  THEN [kid[c] EXCEPT !.parent = None, !.lost = @ \/ At(w, "register")]
                  ELSE kid[c]]

\* run_job returns to serve()
BackToLoop(w) ==
    /\ Go(w, "loop")
    /\ cur' = [cur EXCEPT ![w] = None]
    /\ att' = [att EXCEPT ![w] = 0]
    /\ mine' = [mine EXCEPT ![w] = None]
    /\ plan' = [plan EXCEPT ![w] = None]
    /\ UNCHANGED <<lock, todo, seen, stop>>

Decide(w, what, step) ==
    /\ plan' = [plan EXCEPT ![w] = what]
    /\ Go(w, step)
    /\ UNCHANGED <<lock, cur, att, mine, todo, seen, stop>>

Advance(w, step) == Decide(w, plan[w], step)

Rewrite(j, files) == disk' = [disk EXCEPT ![j] = files]

-----------------------------------------------------------------------------
(* serve(): lock, recover, then the loop                                   *)

Start(w) ==
    /\ At(w, "down")
    /\ lock = None
    /\ lock' = w
    /\ Go(w, "boot")
    /\ UNCHANGED <<table, asked, cur, att, mine, plan, todo, seen, stop, kid,
                   fileVars, keysOk, count>>

\* recover(): for job in self.list((RUNNING,))
ListRunning(w) ==
    /\ At(w, "boot")
    /\ todo' = [todo EXCEPT ![w] = {j \in Jobs : Running(j)}]
    /\ seen' = [seen EXCEPT ![w] = {j \in Jobs : Running(j) /\ table[j].cancel}]
    /\ Go(w, "recover")
    /\ UNCHANGED <<table, asked, lock, cur, att, mine, plan, stop, kid,
                   fileVars, keysOk, count>>

\* mutant: the recorded child is found but not killed
SpareRecorded(c) == c # None /\ UNCHANGED kid

KillRecorded(c) == c # None /\ Kill(c)

\* _kill_orphan: only a recorded child whose pid and start time still match.
\* child_pid and attempts of a running row are written by workers only, so
\* reading them here is reading the list() row.
KillOrphan(w, j) ==
    /\ At(w, "recover")
    /\ j \in todo[w]
    /\ LET c == table[j].child IN
       \/ KillRecorded(c)
       \/ c = None /\ UNCHANGED kid
       \/ c # None /\ "unverifiable pid" \in Mishaps /\ LosesSight(c)
    /\ cur' = [cur EXCEPT ![w] = j]
    /\ Go(w, "recover row")
    /\ UNCHANGED <<table, asked, lock, att, mine, plan, todo, seen, stop,
                   fileVars, keysOk, count>>

RecoverJob(w) ==
    /\ At(w, "recover row")
    /\ RecoverRow(cur[w], cur[w] \in seen[w])
    /\ todo' = [todo EXCEPT ![w] = @ \ {cur[w]}]
    /\ cur' = [cur EXCEPT ![w] = None]
    /\ Go(w, "recover")
    /\ UNCHANGED <<asked, lock, att, mine, plan, seen, stop, kid,
                   fileVars, keysOk, count>>

\* mutant: the recovery stops before its list is through
RecoveredEarly(w) ==
    /\ At(w, "recover")
    /\ Go(w, "loop")
    /\ UNCHANGED <<table, asked, lock, cur, att, mine, plan, todo, seen, stop,
                   kid, fileVars, keysOk, count>>

Recovered(w) ==
    /\ At(w, "recover")
    /\ todo[w] = {}
    /\ Go(w, "loop")
    /\ UNCHANGED <<table, asked, lock, cur, att, mine, plan, todo, seen, stop,
                   kid, fileVars, keysOk, count>>

\* the loop condition fails: serve() returns, the lock is closed
Leave(w) ==
    /\ At(w, "loop")
    /\ stop[w]
    /\ Vanish(w)
    /\ UNCHANGED <<table, asked, fileVars, keysOk, count>>

\* _credentials_problem() is None: the keys work, or the check itself failed
NoProblem == keysOk \/ "broken check" \in Mishaps

\* mutant: the wrong jobs are resumed
ResumesFreeTier(j) == In(j, {BLOCKED}) /\ table[j].blocked = "free_tier"

Resumes(j) == In(j, {BLOCKED}) /\ table[j].blocked = "credentials"

\* unblock_if_keys_ok: the credential-blocked jobs
ListBlocked(w) ==
    /\ At(w, "loop")
    /\ ~stop[w]
    /\ todo' = [todo EXCEPT ![w] = {j \in Jobs : Resumes(j)}]
    /\ Go(w, "unblock")
    /\ UNCHANGED <<table, asked, lock, cur, att, mine, plan, seen, stop, kid,
                   fileVars, keysOk, count>>

\* not yet: the last check was less than a minute ago
TooEarly(w) ==
    /\ At(w, "loop")
    /\ ~stop[w]
    /\ Advance(w, "claim")
    /\ UNCHANGED <<table, asked, kid, fileVars, keysOk, count>>

\* one job of that list; the owner may have moved it since
UnblockOne(w, j) ==
    /\ At(w, "unblock")
    /\ j \in todo[w]
    /\ \/ NoProblem /\ Unblock(j)
       \/ NoProblem /\ ~In(j, {BLOCKED}) /\ UNCHANGED table
       \/ ~keysOk /\ UNCHANGED table
    /\ todo' = [todo EXCEPT ![w] = @ \ {j}]
    /\ UNCHANGED <<asked, lock, pc, cur, att, mine, plan, seen, stop, kid,
                   fileVars, keysOk, count>>

Unblocked(w) ==
    /\ At(w, "unblock")
    /\ todo[w] = {}
    /\ Go(w, "claim")
    /\ UNCHANGED <<table, asked, lock, cur, att, mine, plan, todo, seen, stop,
                   kid, fileVars, keysOk, count>>

Claim(w, j) ==
    /\ At(w, "claim")
    /\ ClaimNext(w, j)
    /\ cur' = [cur EXCEPT ![w] = j]
    /\ att' = [att EXCEPT ![w] = table[j].attempts + 1]
    /\ Go(w, "precheck")
    /\ UNCHANGED <<asked, lock, mine, plan, todo, seen, stop, kid,
                   fileVars, keysOk, count>>

\* nothing queued: poll again, or leave (--once)
ClaimNothing(w) ==
    /\ At(w, "claim")
    /\ \A j \in Jobs : ~In(j, {QUEUED})
    /\ \/ /\ Advance(w, "loop")
          /\ UNCHANGED kid
       \/ Vanish(w)
    /\ UNCHANGED <<table, asked, fileVars, keysOk, count>>

-----------------------------------------------------------------------------
(* run_job(): before the child                                             *)

\* the key check before each run
Precheck(w) ==
    /\ At(w, "precheck")
    /\ \/ NoProblem /\ Advance(w, "gate")
       \/ ~keysOk   /\ Decide(w, "credentials", "park")
    /\ UNCHANGED <<table, asked, kid, fileVars, keysOk, count>>

\* the free-tier gate
Gate(w) ==
    /\ At(w, "gate")
    /\ \/ Advance(w, "prepare")
       \/ "free tier" \in Mishaps /\ Decide(w, "free_tier", "park")
    /\ UNCHANGED <<table, asked, kid, fileVars, keysOk, count>>

\* subprocess_runner raises before the child: budget used up by earlier
\* attempts, or the workspace cannot be prepared.  An old result is gone.
PrepareFails(w) ==
    /\ At(w, "prepare")
    /\ disk[cur[w]].broke \/ "refused prepare" \in Mishaps
    /\ Rewrite(cur[w], [disk[cur[w]] EXCEPT !.result = None])
    /\ Decide(w, "hard", "raised")
    /\ UNCHANGED <<table, asked, kid, handed, told, keysOk, count>>

\* mutant: the result of an earlier attempt is left behind
KeepOld(files) == [files EXCEPT !.deferred = FALSE]

\* what a new attempt clears: the old result and the record of rollbacks
\* nobody applied
CleanStart(files) == [files EXCEPT !.result = None, !.deferred = FALSE]

Prepare(w) ==
    /\ At(w, "prepare")
    /\ ~disk[cur[w]].broke
    /\ Rewrite(cur[w], CleanStart(disk[cur[w]]))
    /\ Advance(w, "spawn")
    /\ UNCHANGED <<table, asked, kid, handed, told, keysOk, count>>

\* a new section in worker.log, then Popen
Spawn(w, c) ==
    /\ At(w, "spawn")
    /\ Fresh(c)
    /\ kid' = [kid EXCEPT ![c] = [job |-> cur[w], parent |-> w, lost |-> FALSE]]
    /\ mine' = [mine EXCEPT ![w] = c]
    /\ Rewrite(cur[w], [disk[cur[w]] EXCEPT !.authLog = FALSE])
    /\ Go(w, "register")
    /\ UNCHANGED <<table, asked, lock, cur, att, plan, todo, seen, stop,
                   handed, told, keysOk, count>>

\* ctx.on_child(proc.pid), after the child already runs
Register(w) ==
    /\ At(w, "register")
    /\ SetChild(cur[w], mine[w])
    /\ Advance(w, "poll")
    /\ UNCHANGED <<asked, kid, fileVars, keysOk, count>>

-----------------------------------------------------------------------------
(* run_job(): the poll loop and the end of the attempt                     *)

\* proc.poll(): the child is gone
ChildGone(w) ==
    /\ At(w, "poll")
    /\ ~Alive(mine[w])
    /\ Advance(w, "exited")
    /\ UNCHANGED <<table, asked, kid, fileVars, keysOk, count>>

\* mutant: the poll loop looks at the signal only
SignalOnly(w) == stop[w]

\* ctx.should_stop(): the stop flag, or the row's cancel flag read afresh
ShouldStop(w) == stop[w] \/ table[cur[w]].cancel

\* the loop gives up on a child it has just seen alive: stop or time out
\* ("timed out after ..." reads as a limit stop)
StopChild(w) ==
    /\ At(w, "poll")
    /\ Alive(mine[w])
    /\ ShouldStop(w)
    /\ Advance(w, "kill")
    /\ UNCHANGED <<table, asked, kid, fileVars, keysOk, count>>

Timeout(w) ==
    /\ At(w, "poll")
    /\ Alive(mine[w])
    /\ ~ShouldStop(w)
    /\ Decide(w, "limit", "kill")
    /\ UNCHANGED <<table, asked, kid, fileVars, keysOk, count>>

\* killpg and wait; the child may have finished just before
KillChild(w) ==
    /\ At(w, "kill")
    /\ Kill(mine[w])
    /\ Advance(w, IF plan[w] = None THEN "stopped" ELSE "raised")
    /\ UNCHANGED <<table, asked, fileVars, keysOk, count>>

\* a write of the runner fails (set_child, set_pid, a spend snapshot, the spend
\* booked at the end): the exception leaves subprocess_runner, a child that is
\* still running is not killed, the worker carries on
RunnerFault(w) ==
    /\ pc[w] \in {"register", "poll", "exited", "stopped"}
    /\ Count("faults", MaxFaults)
    /\ LosesSight(mine[w])
    /\ Decide(w, "hard", "raised")
    /\ UNCHANGED <<table, asked, fileVars, keysOk>>

\* the child exited: its result, or how it exited when there is none
ReadResult(w) ==
    /\ At(w, "exited")
    /\ LET r == disk[cur[w]].result IN
       \/ /\ r # None
          /\ r.says = "success"
          /\ Advance(w, "rollback")
       \/ /\ r # None
          /\ r.says # "success"
          /\ Decide(w, r.says, "raised")
       \/ /\ r = None                   \* killed by a signal
          /\ Advance(w, "retry")
       \/ /\ r = None                   \* non-zero exit
          /\ Decide(w, "hard", "raised")
    /\ UNCHANGED <<table, asked, kid, fileVars, keysOk, count>>

\* mutant: every stop is taken for a cancel
StopIsCancel(w) ==
    /\ At(w, "stopped")
    /\ Decide(w, CANCELLED, "hand off")
    /\ UNCHANGED <<table, asked, kid, fileVars, keysOk, count>>

\* except StopRequested: cancelled, or a clean stop
AfterStop(w) ==
    /\ At(w, "stopped")
    /\ \/ table[cur[w]].cancel  /\ Decide(w, CANCELLED, "hand off")
       \/ ~table[cur[w]].cancel /\ Advance(w, "give back")
    /\ UNCHANGED <<table, asked, kid, fileVars, keysOk, count>>

GiveBack(w) ==
    /\ At(w, "give back")
    /\ Requeue(cur[w], TRUE)
    /\ BackToLoop(w)
    /\ UNCHANGED <<asked, kid, fileVars, keysOk, count>>

\* mutant: one retry too many
MayRetryOnceMore(w) == att[w] <= MaxAttempts

\* except RetryableError: job.attempts is the copy claim_next returned
MayRetry(w) == att[w] < MaxAttempts

Retry(w) ==
    /\ At(w, "retry")
    /\ MayRetry(w)
    /\ Requeue(cur[w], FALSE)
    /\ BackToLoop(w)
    /\ UNCHANGED <<asked, kid, fileVars, keysOk, count>>

RetriesUsed(w) ==
    /\ At(w, "retry")
    /\ ~MayRetry(w)
    /\ Decide(w, FAILED, "hand off")
    /\ UNCHANGED <<table, asked, kid, fileVars, keysOk, count>>

-----------------------------------------------------------------------------
(* _after_failure()                                                        *)

\* classify_stop: credentials > limit > hard; the log counts as evidence
LooksLikeAuth(w) == plan[w] = "auth" \/ disk[cur[w]].authLog
LooksLikeLimit(w) == ~LooksLikeAuth(w) /\ plan[w] = "limit"

\* mutant: settle_rollback(keep=False)
ApplyAnyway(files) == [files EXCEPT !.deferred = FALSE,
                                    !.reverted = @ \/ files.deferred]

\* settle_rollback(keep=True)
Keep(files) == [files EXCEPT !.deferred = FALSE]

FailToBlocked(w) ==
    /\ At(w, "raised")
    /\ LooksLikeAuth(w)
    /\ Rewrite(cur[w], Keep(disk[cur[w]]))
    /\ Decide(w, "credentials", "park")
    /\ UNCHANGED <<table, asked, kid, handed, told, keysOk, count>>

\* mutant: the cap on continuations is not looked at
MayAlwaysContinue(w) == LooksLikeLimit(w) /\ ~disk[cur[w]].broke

\* continuation_decision; progress in the workspace is the child's doing
MayContinue(w) ==
    /\ LooksLikeLimit(w)
    /\ disk[cur[w]].used < MaxContinuations
    /\ ~disk[cur[w]].broke

\* queue_continuation saves continue.json before the job is re-queued
QueueContinuation(w) ==
    /\ At(w, "raised")
    /\ MayContinue(w)
    /\ Rewrite(cur[w], [Keep(disk[cur[w]]) EXCEPT !.used = @ + 1])
    /\ Advance(w, "continue")
    /\ UNCHANGED <<table, asked, kid, handed, told, keysOk, count>>

Continue(w) ==
    /\ At(w, "continue")
    /\ Requeue(cur[w], FALSE)
    /\ BackToLoop(w)
    /\ UNCHANGED <<asked, kid, fileVars, keysOk, count>>

\* no continuation: out of the allowed ones, out of budget, or no progress
FailToFinal(w) ==
    /\ At(w, "raised")
    /\ ~LooksLikeAuth(w)
    /\ Rewrite(cur[w], Keep(disk[cur[w]]))
    /\ Decide(w, FAILED, "hand off")
    /\ UNCHANGED <<table, asked, kid, handed, told, keysOk, count>>

Park(w) ==
    /\ At(w, "park")
    /\ Block(cur[w], plan[w])
    /\ BackToLoop(w)
    /\ UNCHANGED <<asked, kid, fileVars, keysOk, count>>

-----------------------------------------------------------------------------
(* success, hand-off and the final write                                   *)

\* _apply_rollback: the child's deferred rollbacks are applied now.  An error is
\* swallowed: none, some or all files are written then, and the record of them
\* may stay; the job is DONE all the same.
ApplyRollback(w) ==
    /\ At(w, "rollback")
    /\ \E written, settled \in BOOLEAN :
          Rewrite(cur[w], [disk[cur[w]] EXCEPT
                             !.deferred = @ /\ ~settled,
                             !.reverted = @ \/ (disk[cur[w]].deferred /\ written)])
    /\ Decide(w, DONE, "hand off")
    /\ UNCHANGED <<table, asked, kid, handed, told, keysOk, count>>

\* mutant: the outcome is taken from the cancel flag once more
HandOffByFlag(w) ==
    /\ At(w, "hand off")
    /\ handed' = [handed EXCEPT ![cur[w]] =
                     @ \cup {IF table[cur[w]].cancel THEN CANCELLED ELSE plan[w]}]
    /\ Advance(w, "finish")
    /\ UNCHANGED <<table, asked, kid, disk, told, keysOk, count>>

\* _hand_off and retire_workspace: the review branch and the report.  Whatever
\* goes wrong in them is swallowed, "the job's outcome stands either way".
HandOff(w) ==
    /\ At(w, "hand off")
    /\ \/ handed' = [handed EXCEPT ![cur[w]] = @ \cup {plan[w]}]
       \/ UNCHANGED handed
    /\ Advance(w, "finish")
    /\ UNCHANGED <<table, asked, kid, disk, told, keysOk, count>>

FinishJob(w) ==
    /\ At(w, "finish")
    /\ Finish(cur[w], plan[w])
    /\ Advance(w, "tell")
    /\ UNCHANGED <<asked, kid, fileVars, keysOk, count>>

\* _notify: an error is swallowed, too
Tell(w) ==
    /\ At(w, "tell")
    /\ \/ told' = [told EXCEPT ![cur[w]] = @ \cup {plan[w]}]
       \/ UNCHANGED told
    /\ BackToLoop(w)
    /\ UNCHANGED <<table, asked, kid, disk, handed, keysOk, count>>

-----------------------------------------------------------------------------
(* What happens to the worker                                              *)

\* kill -9, a second signal, power loss, an error outside run_job's handlers
Crash(w) ==
    /\ ~At(w, "down")
    /\ Count("crashes", MaxCrashes)
    /\ Vanish(w)
    /\ UNCHANGED <<table, asked, fileVars, keysOk>>

\* SIGTERM or SIGINT: _on_signal only sets the flag
Signal(w) ==
    /\ ~At(w, "down")
    /\ ~stop[w]
    /\ Count("signals", MaxSignals)
    /\ stop' = [stop EXCEPT ![w] = TRUE]
    /\ UNCHANGED <<table, asked, lock, pc, cur, att, mine, plan, todo, seen,
                   kid, fileVars, keysOk>>

-----------------------------------------------------------------------------
(* The child (job_host.py _child and the agent it runs)                    *)

ChildActs(c, effect) ==
    /\ Alive(c)
    /\ LET j == kid[c].job IN
       \/ effect = "auth log" /\ Rewrite(j, [disk[j] EXCEPT !.authLog = TRUE])
       \/ effect = "spend"    /\ Rewrite(j, [disk[j] EXCEPT !.broke = TRUE])
       \/ effect = "rollback" /\ Rewrite(j, [disk[j] EXCEPT !.deferred = TRUE])
    /\ UNCHANGED <<table, asked, workerVars, kid, handed, told, keysOk, count>>

\* the child writes child_result.json and exits
ChildFinishes(c, says) ==
    /\ Alive(c)
    /\ LET j == kid[c].job IN
       Rewrite(j, [disk[j] EXCEPT !.result = [by |-> c, says |-> says]])
    /\ Kill(c)
    /\ UNCHANGED <<table, asked, workerVars, handed, told, keysOk, count>>

\* the child dies without a result: OOM kill, non-zero exit, or its
\* _die_with_parent watcher finds that the worker is gone
ChildDies(c) ==
    /\ Alive(c)
    /\ Kill(c)
    /\ UNCHANGED <<table, asked, workerVars, fileVars, keysOk, count>>

-----------------------------------------------------------------------------
(* Users and the outside world                                             *)

Submit(j) ==
    /\ Add(j)
    /\ UNCHANGED <<asked, workerVars, kid, fileVars, keysOk, count>>

Cancel(j) ==
    /\ CancelFirst(j) \/ CancelSecond(j)
    /\ UNCHANGED <<workerVars, kid, fileVars, keysOk, count>>

\* awos unblock <id>
OwnerUnblocks(j) ==
    /\ Unblock(j)
    /\ UNCHANGED <<asked, workerVars, kid, fileVars, keysOk, count>>

KeysBreak ==
    /\ keysOk
    /\ Count("key breaks", MaxKeyBreaks)
    /\ keysOk' = FALSE
    /\ UNCHANGED <<table, asked, workerVars, kid, fileVars>>

KeysHeal ==
    /\ ~keysOk
    /\ keysOk' = TRUE
    /\ UNCHANGED <<table, asked, workerVars, kid, fileVars, count>>

-----------------------------------------------------------------------------

Serve(w) ==
    \/ Start(w) \/ ListRunning(w)
    \/ (\E j \in Jobs : KillOrphan(w, j)) \/ RecoverJob(w) \/ Recovered(w)
    \/ Leave(w) \/ ListBlocked(w) \/ TooEarly(w) \/ (\E j \in Jobs : UnblockOne(w, j))
    \/ Unblocked(w) \/ (\E j \in Jobs : Claim(w, j)) \/ ClaimNothing(w)

RunJob(w) ==
    \/ Precheck(w) \/ Gate(w) \/ PrepareFails(w) \/ Prepare(w)
    \/ (\E c \in Children : Spawn(w, c)) \/ Register(w)
    \/ ChildGone(w) \/ StopChild(w) \/ KillChild(w) \/ ReadResult(w)
    \/ AfterStop(w) \/ GiveBack(w) \/ Retry(w) \/ RetriesUsed(w)
    \/ FailToBlocked(w) \/ QueueContinuation(w) \/ Continue(w)
    \/ FailToFinal(w) \/ Park(w)
    \/ ApplyRollback(w) \/ HandOff(w) \/ FinishJob(w) \/ Tell(w)

Worker(w) == Serve(w) \/ RunJob(w) \/ Timeout(w)

Child(c) ==
    \/ \E effect \in ChildEffects : ChildActs(c, effect)
    \/ \E says \in ChildResults : ChildFinishes(c, says)
    \/ ChildDies(c)

Environment ==
    \/ \E w \in Workers : Crash(w) \/ Signal(w) \/ RunnerFault(w)
    \/ \E j \in Jobs : Submit(j) \/ Cancel(j) \/ OwnerUnblocks(j)
    \/ KeysBreak \/ KeysHeal

Next ==
    \/ \E w \in Workers : Worker(w)
    \/ \E c \in Children : Child(c)
    \/ Environment

Spec == Init /\ [][Next]_vars

\* The supervisor (launchd, the owner) starts a worker that is down, a running
\* process takes its next step, a child's time limit passes, and so does the
\* minute between two key checks.  Nothing is assumed of children, users or
\* API keys, except that an orphan notices within a second that its worker is
\* gone.
Fairness ==
    /\ \A w \in Workers : /\ WF_vars(Serve(w)) /\ WF_vars(RunJob(w))
                          /\ WF_vars(Timeout(w)) /\ SF_vars(ListBlocked(w))
    /\ \A c \in Children : WF_vars(Orphan(c) /\ ChildDies(c))

FairSpec == Spec /\ Fairness

\* The same without any time limit: a child may run for ever.
PatientSpec ==
    Spec /\ \A w \in Workers : WF_vars(Serve(w)) /\ WF_vars(RunJob(w))

-----------------------------------------------------------------------------
(* Safety                                                                  *)

\* While a worker works on a job the row stays its own: RUNNING, claimed by it,
\* with the attempt number of its copy.  Nothing a user, a second worker or a
\* recovery does comes between, so the guarded writes at the end of run_job()
\* (whose return value _finish and _block ignore) never miss.
ClaimHeld ==
    \A w \in Workers : pc[w] \in RunSteps =>
        /\ lock = w
        /\ table[cur[w]].state = RUNNING
        /\ table[cur[w]].worker = w
        /\ table[cur[w]].attempts = att[w]

\* No two jobs are ever RUNNING at once, not even after any series of crashes
\* and restarts: a new worker claims nothing before it settled what the dead
\* one left.
OneRunning ==
    \A i, j \in Jobs : In(i, {RUNNING}) /\ In(j, {RUNNING}) => i = j

\* Retries, continuations, crashes, clean stops and unblocks together never run
\* a job more often than AWOS_HOST_MAX_ATTEMPTS plus its continuations.
AttemptsBounded ==
    \A j \in Jobs : /\ disk[j].used <= MaxContinuations
                    /\ table[j].attempts <= MaxAttempts + disk[j].used

\* A worker loses sight of a living child in three ways: it dies between Popen
\* and on_child, so that nobody has the pid; a recovery cannot tell whether the
\* recorded pid is still that child (ps failed) and spares it; a write of the
\* runner fails and the attempt ends without the child.  Such a child runs on
\* beside whatever comes next (an orphan for up to a second, until its watcher
\* notices).  The next two properties say that there is no fourth way.

\* The result a worker acts on was written by the child of this very attempt,
\* never by that of an earlier one, nor by any orphan of a dead worker except
\* one the workers had lost sight of.
ReadsOwnResult ==
    \A w \in Workers :
        LET r == disk[cur[w]].result IN
        At(w, "exited") /\ r # None => r.by = mine[w] \/ kid[r.by].lost

\* A child works in the workspace of a running job only, and alone: no crash,
\* stop, time-out, retry or recovery leaves one behind that is still alive when
\* the job has moved on or its next attempt has begun, except the lost ones.
OnlyRunningHasChild ==
    \A c, d \in Children :
        /\ Watched(c) => In(kid[c].job, {RUNNING})
        /\ Watched(c) /\ Watched(d) /\ kid[c].job = kid[d].job => c = d

\* The owner is told of one outcome, the one the row then keeps for good: the
\* worker announces what it wrote, and no crash, retry, late cancel or unblock
\* makes it a lie afterwards.
ToldTheTruth == \A j \in Jobs : told[j] \subseteq {table[j].state}

\* the outcome of j: in its row, or about to be written there
Outcomes(j) ==
    {table[j].state} \cup {plan[w] : w \in {v \in Workers : At(v, "finish") /\ cur[v] = j}}

\* A review branch or report that says something else than the job's row is the
\* price of a crash between the hand-off and the final write, one for each:
\* retries, cancels, stops and unblocks never hand a job off with two outcomes.
SecondOutcomeCostsCrash ==
    \A j \in Jobs : Cardinality(handed[j] \ Outcomes(j)) <= count["crashes"]

\* Nobody's job is cancelled unasked: not by a stop signal that meets a cancel
\* of another job, not by a recovery that reads the flag before it acts.
OnlyAskedIsCancelled ==
    \A j \in Jobs : table[j].state = CANCELLED => asked[j] \in {"cancelled", "requested"}

\* A workspace is rolled back only on the way to DONE (worker.py:1202-1204 and
\* the comment at 709-714): while no crash intervenes, a job that ends FAILED
\* or is blocked, re-queued or cancelled still has everything its child did.
RevertedOnlyWhenDone ==
    \A j \in Jobs : disk[j].reverted /\ count["crashes"] = 0 =>
        \/ In(j, {DONE})
        \/ \E w \in Workers : cur[w] = j /\ plan[w] = DONE

\* What the owner sees: the state of a job in the table, and the wish to cancel
\* it in its flag.
Lifecycle == INSTANCE JobLifecycle
                WITH phase <- [j \in Jobs |-> table[j].state],
                     wish  <- [j \in Jobs |-> table[j].cancel]

\* Every step of the worker, its children and its users is a step the owner was
\* promised (docs/specs/host_queue.md), or none at all.
ImplementsLifecycle == Lifecycle!Spec

-----------------------------------------------------------------------------
(* Liveness                                                                *)

Settled(j) == In(j, Final \cup {BLOCKED})

\* Every submitted job comes to a final state or is parked with a reason: no
\* crash, stop, retry or continuation leaves it running or queued for good.
EverySettles == \A j \in Jobs : ~In(j, {ABSENT}) ~> Settled(j)

\* A running job the user asked to cancel stops running, even if its child would
\* never end and no time limit passed, and across crashes and restarts: the flag
\* is polled while the child runs and heeded by a recovery.  (It may be queued
\* again first: an attempt that failed by itself is continued with the flag up.)
CancelStops ==
    \A j \in Jobs :
        In(j, {RUNNING}) /\ table[j].cancel ~> ~In(j, {RUNNING})

\* A job parked for its credentials resumes by itself once the keys work.
BlockedResumes ==
    \A j \in Jobs :
        In(j, {BLOCKED}) /\ table[j].blocked = "credentials" /\ keysOk
            ~> ~In(j, {BLOCKED}) \/ ~keysOk

=============================================================================
