# AWOS: a verification development

AWOS is a Python coding agent that can be left alone. The part of it that must be
right when nobody watches is the *host*: a durable queue of jobs, one long-lived
worker, and the child processes that do the work. These TLA+ modules model that
core, TLC checks them on small instances, and TLAPS proves the main claims for
every value of the constants. Paths below are relative to `src/scaffold/agent/`
unless they start with `src/`.

The repository also holds the TypeScript source of a terminal client, under
`src/src/` (`src/docs/MASTER_PLAN.md:58`: vendored, not AWOS core). It is by far the
larger part, and most of it is presentation. Two of its subsystems are concurrent
protocols in their own right and are modelled as well: the *task list* that the agents
of a team share through files, and the *uplink* of Remote Control, which sends a
conversation to a server.

## 1. The system and what is hard about it

| part | state it keeps | operations | talks to | correct when |
|---|---|---|---|---|
| Job queue (`host/queue.py`, `host/models.py`) | the `jobs` table of `queue.sqlite` | submit, claim_next, set_child, finish, block, unblock, requeue, cancel, recover | worker, CLI, GUI, several processes with no common lock | a claim is exclusive, order is kept, attempts are accounted for, outcomes are final |
| Worker (`host/worker.py`, `host/autopilot.py`) | `worker.lock`, its program counter, the job directory (`child_result.json`, `deferred_rollback.jsonl`, `continue.json`, `spend.json`, `worker.log`) | serve, recover, run_job, poll loop, retries, continuations, parking, hand-off | queue, child, key check, notifier | every job settles once, one at a time, through crashes and signals |
| Child (`job_host.py _child`) | its process, its result file | run the agent, write the result, die with the parent | worker (signals, exit code, files) | nobody acts on a result of another attempt |
| Step journal (`host/journal.py`) | append-only `journal.jsonl` | append, replay_plan, run | worker, LLM client | a finished step is not repeated, a torn tail loses only itself |
| Workspaces (`host/workspace.py`) | git worktrees and owner records | claim, release, snapshot, prune, retire | worker, user's repository | a live worktree is never removed, nothing is lost without a snapshot |
| Watchdog (`host/watchdog.py`) | heartbeat, `PAUSED`, backoff, notify state | pause, resume, backoff, checks | worker, owner | a pause reason is not lost, a backoff is cleared by the right success |
| Hand-off, notifications (`host/handoff.py`, `notify.py`) | branch `awos/<id>`, report, dedupe table | finish, notify, forget | worker, owner | what is handed off is what the job did, one notice per problem |
| Legacy host (`job_host.py`) | jobs as JSON files, its own lock | loop, scheduler | child | as for the queue |
| Operation ledger (`desktop/effects/operation.py`) | `operations.jsonl` | run_once | desktop agent | no effect is written twice |
| Desktop scheduler (`desktop/scheduler/*.py`) | `state.json`, run directories, approvals, action ledger | run_due, run_job, approve, deny, undo, correct | mailbox, model server | each slot runs once and keeps running, a mail write is never repeated |
| Local model runtime (`local_runtime.py`) | leases, server state | lease, plan, watchdog | scheduler, agent | a server in use is not unloaded |
| Agent engine (`orchestrator.py`, `loop_executor.py`, ...) | the conversation, checkpoints, budget ledger | plan, execute, escalate | model providers, workspace | outside the host's view: the child's result and side effects |
| Task list of a team (`src/src/utils/tasks.ts`, with its callers in `TaskCreateTool`, `TaskUpdateTool`, `useTasksV2`, `useTaskListWatcher`, `inProcessRunner`) | one JSON file per task, `.highwatermark`, lock files | createTask, claimTask, updateTask, blockTask, deleteTask with its cascade, unassignTeammateTasks, resetTaskList, listTasks | any number of client processes and in-process teammates, through the file system alone | a task has one winner, no write undoes a claim, an id is used once, work does not get stuck |
| Remote Control uplink (`src/src/bridge/replBridge.ts`, `flushGate.ts`, `src/src/cli/transports/HybridTransport.ts`, `SerialBatchEventUploader.ts`) | the transport in use, the flush gate, the marks of what was flushed, the session; per transport a buffer and one POST in flight | work received, connect, flush, write, close with grace, permanent close, lost lease, lost environment, reconnect | the conversation (callbacks), a poll loop, a server over HTTP and WebSocket | history first, messages in order, marks that tell the truth, nothing stuck |
| CCR v2 client, cron scheduler, rest of the TypeScript client | their own | - | - | not modelled (section 7) |
| Front ends, editor extension, site, RL and test beds | none of the host's | presentation, experiments | - | not modelled |

The host is hard for six reasons, and the properties aim at them:

1. **Processes race on the table.** Each write is one guarded transaction, but
   `cancel()` is two, and `recover()` writes what an earlier read decided.
2. **The worker may die between any two steps**: between the claim and the child,
   the child and its registration, a rollback and the outcome, the outcome and the
   notification.
3. **The child is a process of its own.** It can finish just before it is killed,
   never finish, or outlive its worker for up to a second.
4. **Attempts are counted up and down** by claims, retries, continuations, clean
   stops, unblocks and crashes; every path must add up to a bounded number of runs.
5. **Files outlive attempts**: an old result, an old log section, an old rollback
   record must not be taken for the new attempt's.
6. **Something must happen in the end**: a job must settle, a parked job resume, a
   cancelled run stop.

The task list is hard because there is no process in charge. Every agent lists,
decides and writes by itself; a claim is a lock on one file around a read, a listing and
a write; a write is the whole file; `writeFile` empties it first; a create locks the list
and a delete locks nothing; and any agent may die with a lock in its hands.

The uplink is hard because one slow operation, the flush of the history, spans
everything else: the WebSocket that is still shaking hands, new messages, retries, POSTs
that arrive after their sender gave up, a work item that replaces the transport, a close
with a grace period, a reconnect to the same session or to a new one. Each callback has to
find out whether the transport it was made for is still the one in use.

`PROJECT.json` lists the hazards at their lines; section 6 tells those that were met
while modelling and that no property states.

## 2. The modules

| module | models | lines of code behind it |
|---|---|---|
| `JobTable` | the rows and the transitions of `queue.py`, each with its `WHERE` guard | `queue.py` 22-266, `models.py` 17-63 |
| `HostQueue` | the queue alone: any number of processes race on the table with no lock | `queue.py` 67-266 |
| `HostWorker` | `serve()`, `run_job()`, `_run_child()`, `_after_failure()`, child, users, keys, crashes | `worker.py` 158-208, 422-577, 664-773, 1005-1359, `autopilot.py` 46-67 and 153-242 |
| `JobLifecycle` | the abstract promise to the owner: what may happen to a job | stated by `docs/specs/host_queue.md`, not by code |
| `HostWorkerClaims` | two statements of documents and comments that the code breaks | section 6 |
| `JobTableProofs`, `HostQueueProofs`, `HostWorkerProofs`, `HostWorkerFileProofs` | theorems | section 5 |
| `TaskList` | the files, locks and calls of the task list, one file operation per step | `tasks.ts` 69-131, 147-188, 246-612, 818-834 and its callers |
| `EventUploader` | `SerialBatchEventUploader` as a record and what it does between two awaits | all of `SerialBatchEventUploader.ts` but limits and timers |
| `Uplink` | bridge, gate, transports, poll loop, reconnect, network and server; composes `EventUploader` once per transport | `replBridge.ts` 565-966, 1038-1380, 1694-1756, 2169-2240, `flushGate.ts`, `HybridTransport.ts` |
| `OrderedDelivery` | the abstract promise: what a transport is handed arrives in the order it was handed over, or is given up | - |
| `TaskListProofs`, `EventUploaderProofs`, `UplinkProofs`, `UplinkOrderProofs` | theorems | section 5 |
| `MCHostQueue`, `MCHostWorker`, `MCTaskList`, `MCUplink` | instances for the runs: symmetry, who makes which calls | - |

**State and code.** A row of `table` is a row of the SQL table: state, attempts,
submission number `seq`, `cancel_requested`, the recorded worker and child, and the
kind of block. `ABSENT` stands for no row. Process identity (pid plus start time) is
one value: `process_matches` compares both. `kid[c]` is the live child `c`, its job
and its parent; a parent `None` is an orphan. Its field `lost` only records: the workers
have lost sight of this child while it was alive. `disk[j]` has one field per file of the
job directory that a later attempt can read. `asked[j]` remembers where a user's
`cancel(j)` stands between its two transactions and what it answered.

**Grain.** One action is one step between two points where another process can run or
the worker can die: one transaction, one file written, one process started or killed.
So `recover()` is `ListRunning`, then per job `KillOrphan` and `RecoverJob`; the poll
loop is `ChildGone`, `StopChild`, `Timeout`, then `KillChild`; the end of a job is
`ApplyRollback`, `HandOff`, `FinishJob`, `Tell`.

**Abstractions, and why they are safe.**
- Contents of goals, notes, reports, digests and test evidence are left out. What an
  attempt says is one of `success`, `auth`, `limit`, `hard` (`classify_stop`).
- `HandOff` and `Tell` may leave nothing behind and `ApplyRollback` may write none, some or
  all of its files and leave its record: the code swallows every error of the three
  (`worker.py:1098-1100`, `1142-1146`) and writes `DONE` all the same. `handed[j]` is thus
  the outcomes that some branch or report of `j` states, not a proof that there is one.
- Money: `disk[j].broke` says that the recorded spend reached the budget. A child may
  raise it at any time, which covers every amount.
- `continuation_decision` also asks for progress in the workspace; whether there was
  any is nondeterministic: `FailToFinal` stays possible when `MayContinue` holds.
- The minute between two key checks is nondeterminism (`TooEarly`).
- The log section searched for an auth error is never longer than the 20000
  characters read (`authLog` stays up until the next section begins).
- `FinishJob`, `Park`, `GiveBack`, `Retry` and `Continue` wait for a `RUNNING` row,
  where the code would write nothing and carry on. `ClaimHeld` shows that this cannot
  be told apart: the guard always holds there.
- A run through `job_host`'s legacy lock, `sleep_runner`, the heartbeat thread and
  `key_checker=None` are left out.
- `MAX_ATTEMPTS` and the number of continuations do not change during a behaviour,
  although the code reads the environment each time.
- A process identity is reused only when nothing that will still be read refers to it
  (`Fresh`): pid and start time do not repeat in practice.

**Task list: state and code.** `dir` is what `readdir` finds, `task[t]` what a read of
the file of `t` gives (`NoTask` when it is missing or just emptied), `opened[a]` the file
that agent `a` has emptied and not yet written, `lock` the lock files. The rest is the
agents' own: the call, the place in it, its arguments and what it has read. One step is
one file operation, so a whole-file write is `OpenTask` and `FillTask`, a listing reads
file by file (`ReadOne`), and `createTask` is `LockList`, `ScanDir` and `ScanMark` in
either order (the code reads both in `Promise.all`), `OpenNew`, `FillNew`, `UnlockList`.

What is coarser, and why it is safe:
- The listing that only picks a task to claim is one step: it is a hint, and `claimTask`
  reads again everything it decides from.
- The look before a lock and the lock are one step; the read under the lock finds again
  what happens between them. A lock is released with the last read or write under it.
- `mark` is a number written in one piece after the file was emptied; nobody can read
  half a number.
- A living process never loses its lock (proper-lockfile refreshes it); the lock of a
  dead one can be taken at any time. Retries that are used up are `LockFails`.
- Subjects, descriptions, metadata, hooks and mailboxes are left out; swarms are enabled.
- `claimTaskWithBusyCheck` has no caller in the repository and is left out; so is the
  reset when a team is made, which comes before anybody works on the list. A watcher that
  could not submit what it claimed gives it back (`GiveBack`): it takes the owner away
  without a look at who that is by then. Each give-back counts as a call (`MaxEdits`):
  without that bound one task could be claimed and given back for ever.

**Uplink: state and code.** `transport`, `gate`, `flushed`, `session` are the variables
of `initBridgeCore` with those meanings (`previouslyFlushedUUIDs` is `flushed`);
`rebuild` is where `doReconnect` stands and `polling` says that the poll loop does not
wait for it. `line[t]` is what the closures of `wireTransport` know of transport `t`,
`up[t]` its uploader. `seen[s]` is the server's log of session `s`, `wire` the POSTs whose
sender has given up and that may still arrive. `prior`, `via` and `gone` only record:
what was logged before a message, the transport it was given to, what a transport gave up
and how.

JavaScript runs a callback without interruption, so a step is what happens between two
awaits. `AfterFlush` is a step of its own after the flush has returned, which allows more
interleavings than the order of microtasks does, never fewer. Left out: the limit of the
buffer (a memory bound of 100000), the byte limit the transport does not set, lengths of
back-offs; stream events, control messages and the incoming half; `writeSdkMessages`;
teardown, close code 1000, the limit of three reconnects and a reconnect that fails (each
ends the bridge); the v2 transport; perpetual mode. `TimedOut` is also a lost answer: in
both the server may have the batch. The server is external: a POST that reaches it is
logged, an event it has already is not logged twice (the comments of
`replBridge.ts:825-826` say so of uuids), and order is the order of arrival. `HistoryCap`
is `initialHistoryCap` (0: none): one flush sends the latest part of the history only, and
a later transport flushes the older rest. `Earlier` says how much of the history may be marked
at the start: the set of marks outlives a bridge that is switched off and on again
(`src/src/hooks/useReplBridge.tsx:59-62`).

## 3. The runs

| run | question | bounds |
|---|---|---|
| `queue` | do the transactions alone give exclusive claims, strict order, accounted attempts, kept answers, final outcomes? | 2 jobs, 2 processes, 1 child, 2 attempts, 3 claims per job |
| `queue_answer` | is `"final"` from `cancel()` true? (no) | same |
| `worker` | do claims hold, and do results and children stay apart (but for a child whose worker died before it noted the pid), through every ending of an attempt? | 1 job, 2 workers, 2 children, 2 attempts, 1 continuation, 1 crash, 1 signal, 1 key outage |
| `two_jobs` | does one job run at a time, is the owner told the truth, does everything refine `JobLifecycle`? | 2 jobs, 1 worker, 2 children, 1 attempt, 1 crash, 1 signal |
| `mishaps` | do the claims survive the rare mishaps, by which ways does a child escape, what does a second outcome cost, and does a cancelled run stop without any time limit? | 1 job, all four mishaps, 1 crash, 1 fault, 1 key outage |
| `worker_live` | does every job settle and every parked job resume? | 1 job, 1 worker, 1 crash, 1 signal, 1 key outage |
| `refused`, `half_reverted` | section 6 | 1 job |
| `tasklist` | are claims exclusive, which calls can undo one, is open work taken in the end? | 2 agents (one makes every call, one claims and deletes), 2 ids, 1 task at first, 2 calls besides claims (a claim given back is one), 1 death |
| `task_ids` | is an id used once? (no) | 2 agents that create and delete, 2 ids, 2 calls |
| `uplink` | is the order kept, are marks honest, is nothing stuck, is it an ordered delivery? | 3 messages of history, none or 2 of them marked by an earlier bridge, 2 sent by one flush, 2 new ones, 2 transports, 2 sessions, batches of 2, 2 failures in a row, 1 mishap |
| `fresh_session` | is the history sent to a fresh session? (not always) | 1 message of history, 1 new one, 2 transports, 2 sessions, batches of 1, 1 mishap |

Why the bounds are enough: a race needs two processes and one row, or two rows for
order; a second worker can only wait for the lock. Two attempts give one retry and one
last attempt, one continuation gives the sum of both counters, and three claims allow a
refund to be followed by two counted attempts. Two children are the one of this attempt
and the orphan of the last. One crash puts a restart at every step; what a second crash
adds is the attempt counter, which `AttemptsBounded` bounds by a sum that each crash
enters the same way, and the invariants proved in section 5 hold for any number.
`MaxClaims` only bounds the run of `HostQueue`; `MaxCrashes`, `MaxSignals`,
`MaxKeyBreaks`, `MaxFaults` bound the environment of `HostWorker`. `ChildResults`,
`ChildEffects` and `Mishaps` choose what an instance lets happen; the theorems hold for
all of it. A hard failure needs no result of its own in `worker` and
`worker_live`: a child that exits non-zero without a readable result ends in the same
outcome.

For the task list, a claim meets another claim, and one or two other calls beside them are
every pair of writers of one file; two ids give a blocker and a blocked task, or a task and
the one made after it; the theorems hold for any number. `MaxEdits`, `MaxCrashes` and
`MaxId` bound the run. For the uplink, two transports are one replacement, two sessions one
fresh start, three messages of history under a cap of two a flush of the latest and, on the
next transport, one of the rest, two new messages an order, a batch of two a batch with an
order and two batches for four events; two failures are one retry and one give-up. Failing
POSTs are not bounded; time-outs, refusals and losses of a transport are `Mishap`s, bounded
by `MaxMishaps`. One mishap at every point is what the liveness properties can afford; the
safety properties are proved for any number.

`CHECK_DEADLOCK FALSE` appears where the system rests: the queue alone once every claim is
used up, the task list with nothing left to do, the uplink when its bounds are used up. A
worker never rests: it polls.

### Properties

- `ExclusiveHold`, `ClaimHeld`: a claimed row stays the claimer's, in state `RUNNING`
  and with its attempt number, until the claimer lets go. `ExclusiveHold` is about the
  transactions alone and assumes that a process is recovered only when it is dead;
  `ClaimHeld` shows that the lock gives that.
- `SubmissionOrder`, `NoOvertaking`: no two jobs share a place; no job starts while an
  older one is queued, even if that one was parked and came back.
- `AttemptsAccounted`, `AttemptsBounded`: the counter is exact (the floor `MAX(0, ..)`
  of the refunds hides nothing), and attempts never exceed the maximum plus the
  continuations.
- `CancelKeepsWord`, `OnlyAskedIsCancelled`, `CancelStops`: what the user was told
  happens, nobody's job is cancelled unasked, a cancelled run stops.
- `FinalForGood`, `ToldTheTruth`: outcomes stand; the owner is told of one outcome only, and
  the row keeps it.
- `SecondOutcomeCostsCrash`: a branch or report that contradicts the outcome in the row comes
  from a crash between the hand-off and the final write, one for each. (That a `DONE` row has
  a hand-off at all is not true of this code, and not claimed.)
- `ReadsOwnResult`, `OnlyRunningHasChild`: no attempt meets another's result or child, except
  those of a lost one. There are three ways to lose a child, all of them in the model: a crash
  between `Popen` and `on_child` (possible in every run), a recorded pid that `ps` cannot verify,
  a failing write of the runner. The child then runs beside the next attempt, an orphan until
  its watcher notices, within a second. The properties say that there is no fourth way.
- `RevertedOnlyWhenDone`: without a crash only successful work is rolled back.
- `OneRunning`, `ImplementsLifecycle`: section 5.
- `EverySettles`, `BlockedResumes`: section 4.

Task list:

- `OneWinner`: no task is won by two agents without being given away in between.
- `ClaimsOutlastUpdates`: a winner loses its task on disk only to a call that is about the
  owner (an assignment, a give-back, the return of a dead teammate's tasks, a new task with
  the same number), or to the owner that `TaskUpdateTool` adds by itself when it saw none
  before the lock (`TaskUpdateTool.ts:188-198`). The last and the blind give-back do take won
  tasks away. Completions, other status changes, links and cascades write the whole file as well,
  and never do; nor do other claims.
- `NobodyWinsDoneWork`: a completed task is never won, although between the check and the
  write of a claim lies a listing of the whole directory.
- `SomebodyTakesIt`: open, unowned, unblocked work that can be read is taken or changed in the
  end, also when the agent that was about to take it dies with the lock. A file that its
  writer's death left empty is outside this promise, and nothing repairs it (section 6).

Uplink:

- `HistoryFirst`, `InOrder`: what the server logs of a transport is the history it set out
  to flush, then the messages, in their order, except for what the transport gave up.
- `DeliversInOrder`: the same as a refinement of `OrderedDelivery`. What is checked is the order
  of arrivals and losses; that an event arrives once, and in the session of its transport
  only, holds by the mapping (`seen` is a set, `arrived` what the transport's session has).
- `HonestMarks`: events are marked as flushed only when the flush of a transport returns, and
  then that very transport has each of them in its session, had it refused by the server, or
  was closed around it; what it dropped is never marked, whatever another transport or
  session has of it. Refused and left over are how the code is (an event marked so is not sent
  again); what the comparison of dropped batches must exclude is a dropped batch.
- `QueueSurvives`: a replacement of the transport loses nothing that waits in the gate.
- `MessagesSettle`, `GateOpens`: section 4.

Every property has a mutant: an operator beside the definition it replaces (marked
`mutant:` in the modules) that changes it the way a plausible mistake would, and under
which TLC finds the property violated.

## 4. Fairness

`FairSpec` assumes weak fairness of a worker's own steps (`Serve`, `RunJob`): a process
that is up is scheduled, and one that is down is started again: after a crash by launchd
(`src/scripts/host/install_launchd.py:66`, keep-alive unless it exited successfully), after
a clean stop by the next login or the owner. Weak fairness of `Timeout`
is the job's time limit (`AWOS_JOB_TIMEOUT_MIN`, `worker.py:748`). Strong fairness of
`ListBlocked` is the minute between key checks: the loop comes by again and again, and
the check is due in one of the rounds. An orphan dies because its own watcher looks at
its parent each second (`_die_with_parent`). Nothing is assumed of children, of users or
of the keys: they may act or not.

For `TaskList`: an agent that lives goes on with the call it is in and looks for work when
idle (a teammate's loop and the watcher do), and a stale lock is found by whoever wants it
next. Nobody has to make any other call. For `Uplink`: a POST ends in one of its four ways
within `POST_TIMEOUT_MS`, a back-off ends with its timer, the continuation of a flush that
has returned runs, and a WebSocket that is not connected yet connects or is given up for good
(`Opens`). Nothing has to take a connected transport away: it may last for ever, with or
without mishaps left, so the mishap-free behaviours and those of one lasting transport are
among those checked, and in them the gate opens because the flush of its history returns. No
grace period has to end, no work item has to come. The server need never answer well:
`GateOpens` and `MessagesSettle` hold when every POST fails, because a batch is dropped after
`maxConsecutiveFailures`.

`PatientSpec` has the worker's fairness only. `CancelStops` is checked under it, so that
neither a time limit nor the end of the child does the work of the poll of the cancel
flag. Crashes are finitely many in every behaviour because of `MaxCrashes`; with
infinitely many crashes no worker could promise anything.

## 5. What is proved

Assumptions: `ConstantsOK` (at least one attempt; `None` is no job, worker or child),
`MaxClaimsOK`, `BoundsOK` (the bounds are naturals). The sets of jobs, workers and
children are arbitrary, finite or not.

`HostQueueProofs`: `TypeCorrect`, `ExclusiveClaims`, `StrictOrder`,
`AttemptsAreAccounted`, `OutcomesAreFinal`, `ClaimsInOrder`. The inductive invariant adds
to the properties that an absent row is empty, that numbers in use are bounded by the
next one (so `MAX + 1` is new) and that a refund follows a claim.
`CancelIsHonest` (`CancelKeepsWord`) has an invariant of its own, `Answered` of
`JobTableProofs`: the flag is up only if a user raised it, and stays up once somebody was
told so. The answer is given by one transaction, and the row may go through any number of
others afterwards; that none of them lowers the flag or revives a cancelled row is a fact
about the `WHERE` guards alone (`RowStepEffect`), so the worker's proof uses it too.

`HostWorkerProofs`: `TypeCorrect`, `OnlyOneRuns` (`OneRunning`), `ClaimsHold`
(`ClaimHeld`) and `Implements` (`ImplementsLifecycle`). `OneRunning` alone is not
inductive: a claim preserves it only if nothing runs when a worker reaches the claim.
`IInv` therefore follows the restart:

1. `LockHeld`: only the holder of the lock is up, so there is one process to consider.
2. `RecoversRunning`: what `recover()` still has on its list is `RUNNING`, and a job
   seen with its cancel flag still has it. The flag of a running row is never cleared,
   so the decision from the old read is still right.
3. `RunningIsOwned`: a running job is on that list, or is the one its worker works on, or
   its worker has not listed yet, or there is no worker. Past the recovery the second case
   alone remains, hence nothing runs at the claim.
4. `ClaimHeld`, and `PlanFits`: what a worker has decided is what its row allows, so that
   `CANCELLED` is decided only with the flag up.
5. `NothingPaused`: no code writes `paused`, which the transitions would accept.

The refinement maps the state of a row to `phase` and its flag to `wish`. Each step that
leaves both alone stutters (`Unseen`); the others are mapped one transition at a time by
lemmas such as `OutcomeMaps` and `BlockMaps` to `Begin`, `Return`, `Park`, `Release`,
`Withdraw`, `Wish` and `Conclude`. `recover()` is the delicate one: it concludes
`cancelled` from a flag read earlier, which point 2 allows.

`HostWorkerFileProofs` proves the rest of what the worker promises, from `IInv` and one
strengthening per property:

- `CancelledWereAsked` (`OnlyAskedIsCancelled`): by `Answered` again; a worker decides
  `CANCELLED` only with the flag up (`PlanFits`), and a raised flag is a user's.
- `AttemptsAreBounded` (`AttemptsBounded`): the bound breaks at the next claim unless
  whoever puts a job back left it an attempt. `AttemptsInv` says so of every queued row.
  The delicate place is a continuation, where `continue.json` is written before the row is
  queued: in between, and after a crash there, the row must still be below the new bound.
- `NoticesAreTrue` (`ToldTheTruth`): when the owner is told, the row holds what was decided,
  in a final state; no transition leaves such a state, and nobody tells of a row that is not
  in one.
- `SecondOutcomesCostCrashes` (`SecondOutcomeCostsCrash`): counting, for each job, the
  outcomes handed off that differ from the row's, or from the one about to be written. A
  hand-off adds the decided outcome, which the final write makes the row's; so the number
  grows only when a worker dies in between, and the crash counter grows with it.
- `RollbackMeansDone` (`RevertedOnlyWhenDone`): from the rollback on, nothing but a crash
  keeps the worker from the final write, and nothing undoes that write.
- `OneChildOfRunning` (`OnlyRunningHasChild`) and `OwnResult` (`ReadsOwnResult`): every child
  in sight (`Watched`: alive and not lost) is tended by the worker that started it (`Tends`),
  or its worker is gone, its row is `RUNNING` with its pid, and the next recovery has still to
  reach it (`LeftBehind`). No child in sight is left at a claim. The result file then holds
  what the child of this attempt wrote, or what a lost one did: `kid[c].lost` is set in the
  three steps of section 3 only and stays set while anything refers to `c`. The theorems need no
  assumption about crashes or mishaps.

All these theorems hold with every mishap.

`JobTableProofs` holds the facts about transitions both developments use.

`TaskListProofs` assumes only `ConstantsOK` (agents are no numbers and `None` is neither).
The invariant behind `TypesHold` joins to the types `Shapes`
(what a call has in hand at each place; above all that a call under a lock still holds it) and
`Pens` (a file being written belongs to the call at that place, or to a dead agent). `IInv`,
behind `ClaimsAreExclusive`, `WinnersOutlastUpdates` and `OnlyOpenTasksAreWon`, adds `Claims`:
when a claim has passed its check, nobody else has won the task and the status it read was
open; when any other call has read the file it will write back, the owner it read is the only
winner. The lock alone does not give this: a create or a delete takes a file away, or puts
a new one in its place, under the feet of whoever holds its lock. `KeepsOrClears` is the
lemma for that: whoever does not hold the lock of a task leaves it and its winners alone, or
ends both.

`IdsAreNeverReused` complements the finding about `UniqueIds` (section 6): where nobody calls
`deleteTask()` (`NobodyDeletes`) no id is given twice, although `resetTaskList()` also takes
files away, empties the mark before it fills it, and may die in between. So every way to a
reused id goes through `deleteTask()`, the one call that writes the mark and takes a file
away without the list lock. The invariant `IdInv` says that every id given is at most the mark or
the number of some file, also while the mark is empty (then the highest file is still there,
since files go only after the mark is full), and, place by place under the list lock, what
its holder knows: between its two reads `createTask()` has one of the two bounds in hand
and the other still on disk, in whichever order it reads them.

`UplinkProofs` has one inductive invariant for `TypesHold`, `HistoryGoesFirst`,
`MarksAreHonest` and `QueuesSurvive`. `HistoryFirst` is not inductive, since nothing in it
says where the history is while it is not yet logged. The invariant adds `Unmade` (a
transport not made yet is as it was), `Uses` (the transport in use is not closing, and with an
open gate the flush of its history is over), `Flushing` (while a flush is awaited, its history
is logged, given up, in flight or in the buffer; once it has returned, logged or given up),
`Places` (a message is only where the transport it was given to has put it: its buffer, its
session's log, its late POSTs; and it was given to a transport only when that one's flush was
over) and `Room` (there is a number for a fresh session).
`EventUploaderProofs` holds what each operation of the uploader does to the order of
buffer and batch.

`UplinkOrderProofs` proves `OrderIsKept` and the refinement `UplinkDelivers`. Order needs the
queue of the gate (`Gated`: sorted, and later than all that was sent), the buffers (`Kept`:
batch and buffer together are sorted, and hold all that was handed over and is neither
logged nor given up) and the POSTs that were given up and may still arrive (`Posts`:
whatever was handed over before a message in one of them is logged, given up, or in the
same POST). A late POST is harmless for that reason: its batch was either put back in front
of the buffer or dropped as a whole.
The refinement maps `arrived` to what the session's log has of the events a transport was
handed, and `lost` to what it gave up; connecting, writing and opening the gate are
hand-overs (of which a session may know the history already), an answered or late POST an
arrival, everything else a stutter or a loss. What the refinement shows is order and that
nothing arrived or lost is taken back, not single arrival (section 3).

**Model-checked only**: all liveness (`EverySettles`, `BlockedResumes`, `CancelStops`,
`SomebodyTakesIt`, `MessagesSettle`, `GateOpens`). Every safety invariant, action property
and refinement that a passing run checks is also a theorem. Liveness under fairness is beyond
the prover (it reasons neither about `ENABLED` nor about fairness), and so are induction over
data and `RECURSIVE` operators; no module here needs the last two.

## 6. Where the repository disagrees with itself

Each of the five numbered ones has a run that ends in a counterexample.

1. `queue_answer`: `cancel()` tries "queued or blocked", then "running", and answers
   `"final"` when neither matched. A worker that claims the job before the first and
   gives it back before the second makes both miss. The user is told "already finished;
   nothing to cancel", and the job is queued and will run. The docstring
   (`queue.py:225-228`) says `"final"` is "already finished".
2. `refused`: when earlier attempts used the budget, the next one is refused before a
   child starts, so `worker.log` gets no new section. `classify_stop` then searches the
   section of the previous child. If that looks like an auth error the job is parked for
   credentials with its attempt refunded, instead of failing as
   `docs/specs/host_queue.md:78-79` says; once the keys check out it is queued and
   refused again.
3. `half_reverted`: a successful attempt applies the deferred rollbacks to the workspace
   before its outcome is durable. A crash in between queues the job again on the reverted
   workspace; if that attempt fails, the failed branch is a reverted one, which
   `worker.py:1202-1204` says never happens.

4. `task_ids`: `createTask` reads the mark and the directory in parallel under the list
   lock; `deleteTask` writes the mark and unlinks the file under no lock. Read the mark
   before it is written and the directory after the unlink, and both say that the id was
   never used. `src/src/utils/tasks.ts:280` says "Creates a new task with a unique ID.", and
   line 400 says that the mark is updated first "to prevent ID reuse". Links and claims
   that still name the old task then name the new one.
5. `fresh_session`: a fresh session is meant to get the history again, for which the marks are
   cleared (`src/src/bridge/replBridge.ts:825-827`: "so initial messages are re-sent to the new
   session"). There are two ways past that. The `clear()` comes after an await, and the session
   is the new one before it: a transport that connects in between finds the old marks and
   flushes nothing (the shortest trace, which TLC prints). And the continuation of a flush
   marks the history without asking whether its transport is still in use, unlike the
   `.finally()` after it: a flush that belongs to a replaced transport can return after the
   `clear()`, and the next transport finds nothing to flush. Either way the new session shows
   the new messages without the history.

Seen while modelling, and told here only. In the host:

- A job that `recover()` fails at its last attempt, and one cancelled before it ran,
  reach their final state with no hand-off and no notification
  (`docs/specs/host_handoff.md:3-5`, `docs/specs/supervision_autopilot.md:56-57` promise
  both).
- `docs/specs/supervision_autopilot.md:117-119` says the rollback record is applied on a
  hard failure; `_after_failure` drops it, and its comment explains why. The document is
  older than the code.
- A child is recorded only after `Popen`. A worker killed between the two leaves a child
  that `recover()` does not know of; it dies with its own watcher within a second, while
  the job may already run again. That crash is possible in every run of `HostWorker`.
- A hand-off that raises is logged, and the job becomes `DONE` without a branch or report
  (`worker.py:1098-1100`; `docs/specs/host_queue.md:102-103` says the outcome stands either
  way); the same goes for a rollback that fails (`worker.py:1142-1146`): the files stay as the
  child left them.
- A crash between the hand-off and the final write has the job run again, and its second
  ending can be handed off beside the first; `SecondOutcomeCostsCrash` says that nothing else
  brings this about.
- A failed write while the child runs (`set_child`, a spend snapshot) ends the attempt
  and leaves the child alive beside whatever comes next; the model has it as
  `RunnerFault`.
- A crash between `finish()` and `_notify()` (`worker.py:1296`) tells nobody; the note for a
  continuation is consumed before `Popen` (`worker.py:677`) and lost with it; a refunded
  attempt number is used again, so that journal steps of two attempts share names
  (`worker.py:170`); `prior()` adds an interrupted attempt's last snapshot
  (`worker.py:440`), spend after it is lost.
- Read, and not modelled: a worktree claimed or pinned between the inventory and its removal
  (`workspace.py:414`); a manual run beside a scheduled one (`desktop/scheduler/runner.py:416`)
  and a mailbox move without its closing line (`:747`); two answers to one suggestion and
  rules learned twice (`actions.py:318`, `:267`); a pause reason recorded while `resume` removes
  the flag (`watchdog.py:316`), and a backoff cleared by the wrong success (`:391`).

In the task list, all of it behaviour of the model:

- Two `blockTask` calls on one task, or one beside a delete's cascade, write link lists read
  before the lock; one link is lost (`tasks.ts:472`).
- An update that has read a task writes it back after a delete has unlinked it: the file is
  there again.
- A task that is being written is missing from a listing, so that a claim does not see it as
  a blocker, an unassignment passes over it, and a panel that looks at such a moment can find
  the rest completed and reset the list (`useTasksV2.ts:161-167`). That reset decides before
  it has the lock and also takes a task created meanwhile.
- `tryClaimNextTask` sets `in_progress` after its claim without another look
  (`inProcessRunner.ts:646`), over a `completed` that came between.
- `TaskUpdateTool` makes the caller the owner because the task had none when it looked
  (`TaskUpdateTool.ts:191`), also when it has been claimed since: the winner loses its task.
  `ClaimsOutlastUpdates` excepts this write by name. A claim given back by a watcher
  (`GiveBack`) clears whoever owns the task by then.
- A writer that dies leaves a file that cannot be read, and no call repairs it: every call
  lets such a task be, only a reset or a delete by somebody who already knows its number
  removes it.

In the uplink:

- A bridge that is switched on again starts with the marks of the one before, and nothing clears
  them when it creates its session (`replBridge.ts:456-475` has no `clear()`, although
  `src/src/bridge/initReplBridge.ts:435-440` says that v1 clears on fresh session creation): that
  session gets what the earlier one was not sent. `Earlier` lets this happen.
- The grace period ends, the server answers 4xx, or there is no token: the flush returns, no
  batch was counted as dropped, and the history is marked though it never arrived.
- Two uploaders post at the same time while an old transport is in its grace period
  (`HybridTransport.ts:184`); order is promised per transport only, as `OrderedDelivery` says.
- A `flush()` after `close()` whose last POST fails never returns
  (`SerialBatchEventUploader.ts:197`: the buffer is not empty again); a batch larger than
  `maxQueueSize` waits for ever (`:107`, as its comment says).

## 7. Not modelled, and the plan

Done: `JobTable`, `HostQueue`, `HostWorker` with the refinement of `JobLifecycle`;
`TaskList`; `EventUploader` and `Uplink` with the refinement of `OrderedDelivery`; their
proofs.

What is left, in order:

1. `SchedulerRunner` (`desktop/scheduler/runner.py`): slots, pending runs, resume, admission,
   the model lock. Abstract specification: each slot ends in one final record. To look at
   first: a crash after `result.json` and before the state update (`runner.py:490-492`)
   leaves the pending entry, and the next `run_due` gets `DUPLICATE` and skips the job.
2. `OperationLedger` (`run_once`): no blind retry of a write, with crashes in `execute`; and
   `SchedulerLedger` (`actions.py`): approve, deny, undo, reconcile by read-back.
3. `StepJournal` (`journal.py`), `WorktreePool` (`workspace.py`), `SpendTracker`
   (`worker.py` 405-483), `HostWatchdog` (`watchdog.py`), `LegacyHost` (`job_host.py`), the
   leases of `local_runtime.py`.
4. On the TypeScript side: `ccrClient.ts` with `WorkerStateUploader.ts` (the v2 protocol,
   state that is coalesced instead of queued), and the lock and one-shot tasks of the cron
   scheduler (`src/src/utils/cronTasksLock.ts`, `cronScheduler.ts`).

All of these parts have state worth modelling and simply have no module; their status in
`PROJECT.json` is `not_modelled` for that reason alone. The development so far goes deep into
four protocols rather than shallowly into ten.

Not planned: the agent engine (a conversation with a model: the child's result and side
effects are all the host sees of it), the front ends, and the rest of the TypeScript client.
The last is half a million lines of which nearly all is terminal presentation, message
formatting, parsers, prompts and calls of other people's services; a model of it would
transliterate single-threaded code whose hazards are not of the kind a model checker finds.
The share of its lines that stands behind these modules is therefore small, and will stay so.

## 8. Running it

    tlc -workers 2 -config MCHostWorker.cfg MCHostWorker.tla
    tlc -workers 2 -config MCUplink.cfg MCUplink.tla
    tlapm HostWorkerProofs.tla

Each run takes between a second and about two and a half minutes on two cores, and so does
each proof module.
