------------------------------ MODULE TaskList ------------------------------
(***************************************************************************)
(* The task list that the agents of a team share                           *)
(* (src/src/utils/tasks.ts): one directory, one JSON file per task, a file *)
(* with the highest id ever used, lock files of proper-lockfile.  Agents   *)
(* are processes; each runs one call at a time and may die inside it.      *)
(*                                                                         *)
(* A step is one file operation.  A file is written by opening it, which   *)
(* empties it, and filling it: whoever reads in between, without the lock, *)
(* gets no task.  A listing reads the directory and then file by file.     *)
(*                                                                         *)
(* Subjects, descriptions, metadata and the hooks are left out.  So is     *)
(* claimTaskWithBusyCheck(): nothing in the repository asks for it.        *)
(***************************************************************************)
EXTENDS Naturals

CONSTANTS
    Agents,      \* the processes; an agent's name is the owner it writes
    None,        \* no agent
    MaxId,       \* no task gets a higher id (bound of the instance)
    InitTasks,   \* tasks 1 .. InitTasks exist at first, all of them fresh
    May,         \* the calls each agent makes
    MaxEdits,    \* calls other than claims, and claims given back (bound of the instance)
    MaxCrashes   \* agents that die (bound of the instance)

Ids      == 1 .. MaxId
ListLock == 0    \* the lock of the whole list, beside those of the tasks
Statuses == {"pending", "in_progress", "completed"}
Fields   == {"status", "owner", "blocks", "blockedBy"}
Calls    == {"create", "claim", "complete", "begin", "assign", "block",
             "delete", "reset", "unassign"}

ASSUME ConstantsOK ==
    /\ None \notin Agents /\ Agents \cap Nat = {} /\ None \notin Nat
    /\ MaxId \in Nat /\ InitTasks \in 0 .. MaxId
    /\ May \in [Agents -> SUBSET Calls]
    /\ MaxEdits \in Nat /\ MaxCrashes \in Nat

VARIABLES
    dir,      \* the ids that have a file
    task,     \* what the file of a task says; NoTask when there is nothing to read
    opened,   \* the file an agent has emptied and not filled yet, 0 for none
    mark,     \* .highwatermark: 0 when absent or just emptied
    lock,     \* who holds the lock of a task, and the list lock
    call,     \* the call an agent is in: what it writes depends on it
    at,       \* where in it
    id, arg,  \* its arguments: a task, and a second task or an agent
    cur,      \* the task it is updating
    seen,     \* the tasks as its listing, or its first look, found them
    left,     \* the tasks still to list, to update or to unlink
    got,      \* what it read under the lock of cur
    high,     \* the id it takes for the highest one ever used
    alive, edits, crashes,
    won,      \* history: who won a task by claiming it, until it is given away
    given     \* history: how often createTask() has returned an id

files == <<dir, task, opened, mark>>
mind  == <<call, at, id, arg, cur, seen, left, got, high>>
env   == <<alive, edits, crashes>>
past  == <<won, given>>
vars  == <<files, lock, mind, env, past>>

Task   == [status : Statuses, owner : Agents \cup {None},
           blocks : SUBSET Ids, blockedBy : SUBSET Ids]
NoTask == [status |-> "none", owner |-> None, blocks |-> {}, blockedBy |-> {}]
Fresh  == [NoTask EXCEPT !.status = "pending"]
Nothing == [t \in Ids |-> NoTask]   \* a listing that has not begun

Unresolved(list) == {t \in Ids : list[t].status \in Statuses \ {"completed"}}

(* findAvailableTask() *)
Available(list) ==
    {t \in Ids : /\ list[t].status = "pending" /\ list[t].owner = None
                 /\ list[t].blockedBy \cap Unresolved(list) = {}}

(***************************************************************************)
(* What a call writes over the task it read: only the fields of Sets.      *)
(* The values come from what the call saw before it had the lock.          *)
(***************************************************************************)
Sets(a) ==
    CASE call[a] = "claim"    -> {"owner"}
      [] call[a] = "assign"   -> {"owner"}
      [] call[a] = "release"  -> {"owner"}
      [] call[a] = "unassign" -> {"owner", "status"}
      [] call[a] = "begin"    -> {f \in {"status", "owner"} :
                                    IF f = "status" THEN seen[a][id[a]].status # "in_progress"
                                                    ELSE seen[a][id[a]].owner = None}
      [] call[a] = "block"    -> IF cur[a] = id[a] THEN {"blocks"} ELSE {"blockedBy"}
      [] call[a] = "delete"   -> {"blocks", "blockedBy"}
      [] OTHER                -> {"status"}

Status(a) == CASE call[a] = "unassign" -> "pending"
               [] call[a] = "complete" -> "completed"
               [] OTHER                -> "in_progress"

\* mutant: claimTask() called with its two names exchanged
OwnerExchanged(a) == id[a]

Owner(a) == CASE call[a] = "assign"   -> arg[a]
              [] call[a] \in {"unassign", "release"} -> None
              [] OTHER                -> a

Links(a, links, end) ==
    IF call[a] = "delete" THEN links \ {id[a]} ELSE links \cup {end}

\* mutant: the whole of what was seen before the lock is written back
MergedStale(a) ==
    LET was == seen[a][cur[a]] IN
    [status    |-> IF "status" \in Sets(a) THEN Status(a) ELSE got[a].status,
     owner     |-> IF "owner" \in Sets(a) THEN Owner(a) ELSE was.owner,
     blocks    |-> was.blocks, blockedBy |-> was.blockedBy]

(* { ...existing, ...updates } of updateTaskUnsafe() *)
Merged(a) ==
    LET was == seen[a][cur[a]] IN
    [status    |-> IF "status" \in Sets(a) THEN Status(a) ELSE got[a].status,
     owner     |-> IF "owner" \in Sets(a) THEN Owner(a) ELSE got[a].owner,
     blocks    |-> IF "blocks" \in Sets(a) THEN Links(a, was.blocks, arg[a])
                                           ELSE got[a].blocks,
     blockedBy |-> IF "blockedBy" \in Sets(a) THEN Links(a, was.blockedBy, id[a])
                                              ELSE got[a].blockedBy]
-----------------------------------------------------------------------------
Init ==
    /\ dir = 1 .. InitTasks
    /\ task = [t \in Ids |-> IF t <= InitTasks THEN Fresh ELSE NoTask]
    /\ opened = [a \in Agents |-> 0]
    /\ mark = 0
    /\ lock = [l \in Ids \cup {ListLock} |-> None]
    /\ call = [a \in Agents |-> "none"] /\ at = [a \in Agents |-> "idle"]
    /\ id = [a \in Agents |-> 0] /\ arg = [a \in Agents |-> None]
    /\ cur = [a \in Agents |-> 0]
    /\ seen = [a \in Agents |-> Nothing] /\ left = [a \in Agents |-> {}]
    /\ got = [a \in Agents |-> NoTask] /\ high = [a \in Agents |-> 0]
    /\ alive = [a \in Agents |-> TRUE] /\ edits = 0 /\ crashes = 0
    /\ won = [t \in Ids |-> {}]
    /\ given = [t \in Ids |-> IF t <= InitTasks THEN 1 ELSE 0]

At(a, pc) == alive[a] /\ at[a] = pc
Goto(a, pc) == at' = [at EXCEPT ![a] = pc]

(* A call that is over forgets what it read. *)
Over(a) ==
    /\ call' = [call EXCEPT ![a] = "none"] /\ at' = [at EXCEPT ![a] = "idle"]
    /\ id' = [id EXCEPT ![a] = 0] /\ arg' = [arg EXCEPT ![a] = None]
    /\ cur' = [cur EXCEPT ![a] = 0] /\ seen' = [seen EXCEPT ![a] = Nothing]
    /\ left' = [left EXCEPT ![a] = {}] /\ got' = [got EXCEPT ![a] = NoTask]
    /\ high' = [high EXCEPT ![a] = 0]

\* mutant: locks keep nobody out
TakesAnyway(a, l) == lock' = [lock EXCEPT ![l] = a]

Takes(a, l) == lock[l] = None /\ lock' = [lock EXCEPT ![l] = a]
Frees(a, l) == lock' = [lock EXCEPT ![l] = IF @ = a THEN None ELSE @]

(* open() of writeFile(): the file is there, and empty. *)
Empties(a, t) ==
    /\ dir' = dir \cup {t} /\ task' = [task EXCEPT ![t] = NoTask]
    /\ opened' = [opened EXCEPT ![a] = t] /\ UNCHANGED mark

(* The write goes to the file that was opened, which may have lost its name. *)
Fills(a, t, text) ==
    /\ task' = IF opened[a] = t THEN [task EXCEPT ![t] = text] ELSE task
    /\ opened' = [opened EXCEPT ![a] = 0] /\ UNCHANGED <<dir, mark>>

Unlinks(t) ==
    /\ dir' = dir \ {t} /\ task' = [task EXCEPT ![t] = NoTask]
    /\ opened' = [b \in Agents |-> IF opened[b] = t THEN 0 ELSE opened[b]]
    /\ won' = [won EXCEPT ![t] = {}] /\ UNCHANGED <<mark, given>>

(* readdir(): what is to be read, one file at a time. *)
Lists(a, among) ==
    left' = [left EXCEPT ![a] = among] /\ seen' = [seen EXCEPT ![a] = Nothing]
-----------------------------------------------------------------------------
(* Starting a call *)

(***************************************************************************)
(* tryClaimNextTask() and the watcher's check pick a task from a listing.  *)
(* This listing is one step: it is a hint, and claimTask() reads again all *)
(* it needs.                                                               *)
(***************************************************************************)
StartClaim(a) ==
    /\ At(a, "idle") /\ "claim" \in May[a]
    /\ \E t \in Available(task) :
         /\ id' = [id EXCEPT ![a] = t] /\ left' = [left EXCEPT ![a] = {t}]
    /\ call' = [call EXCEPT ![a] = "claim"] /\ Goto(a, "next")
    /\ UNCHANGED <<files, lock, arg, cur, seen, got, high, env, past>>

Starts(a, c) ==
    /\ At(a, "idle") /\ c \in May[a] /\ edits < MaxEdits
    /\ call' = [call EXCEPT ![a] = c] /\ edits' = edits + 1
    /\ UNCHANGED <<files, lock, cur, got, alive, crashes, past>>

(* TaskCreateTool, and the hide timer of the task panel *)
StartList(a, c) ==
    /\ c \in {"create", "reset"} /\ Starts(a, c)
    /\ IF c = "create" THEN Goto(a, "listlock") /\ UNCHANGED <<left, seen>>
                       ELSE Goto(a, "list") /\ Lists(a, dir)
    /\ UNCHANGED <<id, arg, high>>

(* TaskUpdateTool looks at the task without the lock, and decides from that. *)
StartUpdate(a, c, t, b) ==
    /\ c \in {"complete", "begin", "assign"} /\ Starts(a, c)
    /\ task[t].status \in Statuses
    /\ CASE c = "complete" -> task[t].status # "completed"
         [] c = "begin"    -> task[t].status # "in_progress" \/ task[t].owner = None
         [] OTHER          -> task[t].owner # b
    /\ b \in IF c = "assign" THEN Agents ELSE {None}
    /\ id' = [id EXCEPT ![a] = t] /\ arg' = [arg EXCEPT ![a] = b]
    /\ seen' = [seen EXCEPT ![a][t] = task[t]]
    /\ left' = [left EXCEPT ![a] = {t}] /\ Goto(a, "next")
    /\ UNCHANGED high

StartDelete(a, t) ==
    /\ Starts(a, "delete") /\ task[t].status \in Statuses
    /\ id' = [id EXCEPT ![a] = t] /\ high' = [high EXCEPT ![a] = t]
    /\ Goto(a, "mark") /\ UNCHANGED <<arg, seen, left>>

(* blockTask() reads both ends first. *)
StartBlock(a, t, u) ==
    /\ Starts(a, "block") /\ t # u
    /\ id' = [id EXCEPT ![a] = t] /\ arg' = [arg EXCEPT ![a] = u]
    /\ Goto(a, "list") /\ Lists(a, {t, u}) /\ UNCHANGED high

(* unassignTeammateTasks(), for a teammate that is gone *)
StartUnassign(a, b) ==
    /\ Starts(a, "unassign") /\ ~alive[b]
    /\ arg' = [arg EXCEPT ![a] = b]
    /\ Goto(a, "list") /\ Lists(a, dir) /\ UNCHANGED <<id, high>>
-----------------------------------------------------------------------------
(* Listing: listTasks() and the two reads of blockTask() *)

ReadOne(a) ==
    /\ At(a, "list") \/ At(a, "blockers")
    /\ \E t \in left[a] :
         /\ seen' = [seen EXCEPT ![a][t] = task[t]]
         /\ left' = [left EXCEPT ![a] = @ \ {t}]
    /\ UNCHANGED <<files, lock, call, at, id, arg, cur, got, high, env, past>>

Listed(a, c) == At(a, "list") /\ left[a] = {} /\ call[a] = c

(* The call goes on to update these tasks, one after the other. *)
Updates(a, ts) ==
    /\ left' = [left EXCEPT ![a] = ts] /\ Goto(a, "next")
    /\ UNCHANGED <<files, lock, call, arg, cur, seen, got, high, env, past>>

LinkBoth(a) ==
    /\ Listed(a, "block")
    /\ LET from == id[a]  to == arg[a]
           ends == {t \in {from, to} : seen[a][t].status \in Statuses}
       IN Updates(a, IF ends # {from, to} THEN {}
                     ELSE {t \in ends : IF t = from THEN to \notin seen[a][t].blocks
                                                    ELSE from \notin seen[a][t].blockedBy})
    /\ UNCHANGED id

Cascade(a) ==
    /\ Listed(a, "delete")
    /\ Updates(a, {t \in Ids : id[a] \in seen[a][t].blocks \cup seen[a][t].blockedBy})
    /\ UNCHANGED id

TakeBack(a) ==
    /\ Listed(a, "unassign")
    /\ Updates(a, {t \in Unresolved(seen[a]) : seen[a][t].owner = arg[a]})
    /\ UNCHANGED id

(* #onHideTimerFired(): the list goes when there is one and all of it is done. *)
AllDone(a) ==
    /\ Listed(a, "reset")
    /\ IF Unresolved(seen[a]) = {} /\ \E t \in Ids : seen[a][t].status = "completed"
       THEN Goto(a, "listlock")
            /\ UNCHANGED <<call, id, arg, cur, seen, left, got, high>>
       ELSE Over(a)
    /\ UNCHANGED <<files, lock, env, past>>
-----------------------------------------------------------------------------
(***************************************************************************)
(* updateTask() and claimTask()                                            *)
(*                                                                         *)
(* The first look and the lock are one step: what happens between the two  *)
(* the read under the lock finds again.  The release goes with the last    *)
(* read or write under the lock: between the two there is nothing to see.  *)
(***************************************************************************)
InTurn(a, t) == t \in left[a] /\ (call[a] = "block" /\ id[a] \in left[a] => t = id[a])

LockTask(a) ==
    /\ At(a, "next")
    /\ \E t \in left[a] :
         /\ InTurn(a, t) /\ task[t] # NoTask /\ Takes(a, t)
         /\ cur' = [cur EXCEPT ![a] = t] /\ left' = [left EXCEPT ![a] = @ \ {t}]
    /\ Goto(a, IF call[a] = "claim" THEN "check" ELSE "read")
    /\ UNCHANGED <<files, call, id, arg, seen, got, high, env, past>>

(* A task that cannot be read is let be. *)
SkipTask(a) ==
    /\ At(a, "next")
    /\ \E t \in left[a] :
         /\ InTurn(a, t) /\ task[t] = NoTask
         /\ left' = [left EXCEPT ![a] = @ \ {t}]
    /\ UNCHANGED <<files, lock, call, at, id, arg, cur, seen, got, high, env, past>>

Finish(a) ==
    /\ At(a, "next") /\ (left[a] = {} \/ call[a] = "start")
    /\ Over(a) /\ UNCHANGED <<files, lock, env, past>>

GiveBack(a) ==
    /\ At(a, "next") /\ call[a] = "start" /\ left[a] # {} /\ edits < MaxEdits
    /\ call' = [call EXCEPT ![a] = "release"] /\ edits' = edits + 1
    /\ UNCHANGED <<files, lock, at, id, arg, cur, seen, left, got, high, alive, crashes, past>>

(* lock() throws, and the call is over: the file has gone since the first    *)
(* look, or the retries are used up.                                         *)
LockFails(a) ==
    /\ \/ At(a, "next") /\ \E t \in left[a] : InTurn(a, t) /\ (t \notin dir \/ lock[t] # None)
       \/ At(a, "listlock") /\ lock[ListLock] # None
    /\ Over(a) /\ UNCHANGED <<files, lock, env, past>>

(* The task is done with; the call goes on to the next one. *)
Release(a) ==
    /\ Frees(a, cur[a]) /\ cur' = [cur EXCEPT ![a] = 0] /\ got' = [got EXCEPT ![a] = NoTask]
    /\ Goto(a, "next")

\* mutant: the status was only checked when the task was picked
CheckOwnerOnly(a) ==
    /\ At(a, "check")
    /\ IF task[cur[a]] # NoTask /\ task[cur[a]].owner \in {None, a}
       THEN /\ got' = [got EXCEPT ![a] = task[cur[a]]]
            /\ Goto(a, "blockers") /\ Lists(a, dir) /\ UNCHANGED <<lock, cur>>
       ELSE Release(a) /\ UNCHANGED <<left, seen>>
    /\ UNCHANGED <<files, call, id, arg, high, env, past>>

(* claimTask() under the lock: owner and status now, the blockers after a listing. *)
CheckOwner(a) ==
    /\ At(a, "check")
    /\ IF /\ task[cur[a]].status \in {"pending", "in_progress"}
          /\ task[cur[a]].owner \in {None, a}
       THEN /\ got' = [got EXCEPT ![a] = task[cur[a]]]
            /\ Goto(a, "blockers") /\ Lists(a, dir) /\ UNCHANGED <<lock, cur>>
       ELSE Release(a) /\ UNCHANGED <<left, seen>>
    /\ UNCHANGED <<files, call, id, arg, high, env, past>>

Blocked(a) ==
    /\ At(a, "blockers") /\ left[a] = {}
    /\ got[a].blockedBy \cap Unresolved(seen[a]) # {}
    /\ Release(a) /\ UNCHANGED <<files, call, id, arg, seen, left, high, env, past>>

(* A claim that gets this far has won; the runner then sets the status, blindly. *)
(* The watcher does not: it is done when it has submitted the task (Finish), and *)
(* gives it back, as blindly, when it could not (GiveBack).                      *)
AfterClaim(a) ==
    IF call[a] = "claim"
    THEN call' = [call EXCEPT ![a] = "start"] /\ left' = [left EXCEPT ![a] = {id[a]}]
    ELSE UNCHANGED <<call, left>>

(* updateTaskUnsafe() reads, *)
ReadTask(a) ==
    /\ \/ At(a, "read")
       \/ /\ At(a, "blockers") /\ left[a] = {}
          /\ got[a].blockedBy \cap Unresolved(seen[a]) = {}
    /\ IF task[cur[a]] = NoTask THEN Release(a) /\ AfterClaim(a)
       ELSE /\ got' = [got EXCEPT ![a] = task[cur[a]]]
            /\ Goto(a, "open") /\ UNCHANGED <<lock, cur, call, left>>
    /\ seen' = IF call[a] = "claim" THEN [seen EXCEPT ![a] = Nothing] ELSE seen
    /\ UNCHANGED <<files, id, arg, high, env, past>>

(* opens, *)
OpenTask(a) ==
    /\ At(a, "open") /\ Empties(a, cur[a]) /\ Goto(a, "fill")
    /\ UNCHANGED <<lock, call, id, arg, cur, seen, left, got, high, env, past>>

(* and writes. *)
FillTask(a) ==
    /\ At(a, "fill") /\ Fills(a, cur[a], Merged(a)) /\ Release(a) /\ AfterClaim(a)
    /\ won' = IF opened[a] = cur[a] /\ "owner" \in Sets(a)
              THEN [won EXCEPT ![cur[a]] = IF call[a] = "claim" THEN @ \cup {a} ELSE {}]
              ELSE won
    /\ UNCHANGED <<id, arg, seen, high, env, given>>
-----------------------------------------------------------------------------
(* createTask(), deleteTask() and resetTaskList() *)

LockList(a) ==
    /\ At(a, "listlock") /\ Takes(a, ListLock)
    /\ Goto(a, IF call[a] = "create" THEN "scan" ELSE "highest")
    /\ UNCHANGED <<files, call, id, arg, cur, seen, left, got, high, env, past>>

(* findHighestTaskId(): the directory and the mark, in either order. *)
ScanDir(a) ==
    /\ At(a, "scan") \/ At(a, "scan dir") \/ At(a, "highest")
    /\ \E h \in {high[a]} \cup dir :
         /\ \A d \in {high[a]} \cup dir : d <= h
         /\ high' = [high EXCEPT ![a] = h]
    /\ Goto(a, CASE at[a] = "scan"     -> "scan mark"
                 [] at[a] = "scan dir" -> "new"
                 [] OTHER              -> IF dir = {} THEN "clear" ELSE "mark")
    /\ UNCHANGED <<files, lock, call, id, arg, cur, seen, left, got, env, past>>

ScanMark(a) ==
    /\ At(a, "scan") \/ At(a, "scan mark")
    /\ high' = [high EXCEPT ![a] = IF @ < mark THEN mark ELSE @]
    /\ Goto(a, IF at[a] = "scan" THEN "scan dir" ELSE "new")
    /\ UNCHANGED <<files, lock, call, id, arg, cur, seen, left, got, env, past>>

OpenNew(a) ==
    /\ At(a, "new") /\ high[a] < MaxId
    /\ id' = [id EXCEPT ![a] = high[a] + 1]
    /\ Empties(a, high[a] + 1) /\ Goto(a, "new fill")
    /\ won' = [won EXCEPT ![high[a] + 1] = {}]
    /\ UNCHANGED <<lock, call, arg, cur, seen, left, got, high, env, given>>

FillNew(a) ==
    /\ At(a, "new fill") /\ Fills(a, id[a], Fresh) /\ Goto(a, "unlock list")
    /\ won' = [won EXCEPT ![id[a]] = {}]
    /\ given' = [given EXCEPT ![id[a]] = @ + 1]
    /\ UNCHANGED <<lock, call, id, arg, cur, seen, left, got, high, env>>

(* The instance has no more ids: as if the write had failed. *)
NoMoreIds(a) ==
    /\ At(a, "new") /\ high[a] = MaxId /\ Goto(a, "unlock list")
    /\ UNCHANGED <<files, lock, call, id, arg, cur, seen, left, got, high, env, past>>

AfterMark(a) == IF call[a] = "delete" THEN "unlink" ELSE "clear"

ReadMark(a) ==
    /\ At(a, "mark")
    /\ Goto(a, IF high[a] > mark THEN "open mark" ELSE AfterMark(a))
    /\ UNCHANGED <<files, lock, call, id, arg, cur, seen, left, got, high, env, past>>

OpenMark(a) ==
    /\ At(a, "open mark") /\ mark' = 0 /\ Goto(a, "fill mark")
    /\ UNCHANGED <<dir, task, opened, lock, call, id, arg, cur, seen, left, got, high, env, past>>

FillMark(a) ==
    /\ At(a, "fill mark") /\ mark' = high[a] /\ Goto(a, AfterMark(a))
    /\ UNCHANGED <<dir, task, opened, lock, call, id, arg, cur, seen, left, got, high, env, past>>

UnlinkTask(a) ==
    /\ At(a, "unlink") /\ id[a] \in dir /\ Unlinks(id[a])
    /\ Goto(a, "list") /\ Lists(a, dir \ {id[a]})
    /\ UNCHANGED <<lock, call, id, arg, cur, got, high, env>>

AlreadyGone(a) ==
    /\ At(a, "unlink") /\ id[a] \notin dir
    /\ Over(a) /\ UNCHANGED <<files, lock, env, past>>

ClearList(a) ==
    /\ At(a, "clear") /\ Goto(a, "sweep") /\ left' = [left EXCEPT ![a] = dir]
    /\ UNCHANGED <<files, lock, call, id, arg, cur, seen, got, high, env, past>>

SweepOne(a) ==
    /\ At(a, "sweep")
    /\ \E t \in left[a] : Unlinks(t) /\ left' = [left EXCEPT ![a] = @ \ {t}]
    /\ UNCHANGED <<lock, call, at, id, arg, cur, seen, got, high, env>>

UnlockList(a) ==
    /\ At(a, "unlock list") \/ (At(a, "sweep") /\ left[a] = {})
    /\ Frees(a, ListLock) /\ Over(a) /\ UNCHANGED <<files, env, past>>
-----------------------------------------------------------------------------
(* A process dies where it is; its lock stays. *)
Crash(a) ==
    /\ alive[a] /\ crashes < MaxCrashes
    /\ alive' = [alive EXCEPT ![a] = FALSE] /\ crashes' = crashes + 1
    /\ Over(a) /\ UNCHANGED <<files, lock, edits, past>>

(* Whoever wants the lock of a dead process finds it stale. *)
\* mutant: only the lock of the list goes stale
StaleListLock(l) ==
    /\ l = ListLock /\ lock[l] \in Agents /\ ~alive[lock[l]]
    /\ lock' = [lock EXCEPT ![l] = None]
    /\ UNCHANGED <<files, mind, env, past>>

StaleLock(l) ==
    /\ lock[l] \in Agents /\ ~alive[lock[l]]
    /\ lock' = [lock EXCEPT ![l] = None]
    /\ UNCHANGED <<files, mind, env, past>>

Start(a) ==
    \/ \E c \in Calls : StartList(a, c)
    \/ \E c \in Calls, t \in Ids, b \in Agents \cup {None} : StartUpdate(a, c, t, b)
    \/ \E t \in Ids : StartDelete(a, t)
    \/ \E t, u \in Ids : StartBlock(a, t, u)
    \/ \E b \in Agents : StartUnassign(a, b)

Step(a) ==
    \/ ReadOne(a) \/ LinkBoth(a) \/ Cascade(a) \/ TakeBack(a) \/ AllDone(a)
    \/ LockTask(a) \/ SkipTask(a) \/ Finish(a) \/ GiveBack(a) \/ LockFails(a)
    \/ CheckOwner(a) \/ Blocked(a) \/ ReadTask(a) \/ OpenTask(a) \/ FillTask(a)
    \/ LockList(a) \/ ScanDir(a) \/ ScanMark(a) \/ OpenNew(a) \/ FillNew(a)
    \/ NoMoreIds(a) \/ ReadMark(a) \/ OpenMark(a) \/ FillMark(a)
    \/ UnlinkTask(a) \/ AlreadyGone(a) \/ ClearList(a) \/ SweepOne(a) \/ UnlockList(a)

Next ==
    \/ \E a \in Agents : StartClaim(a) \/ Start(a) \/ Step(a) \/ Crash(a)
    \/ \E l \in Ids \cup {ListLock} : StaleLock(l)

(* A process that lives goes on with its call and looks for work again when  *)
(* idle; a stale lock is taken over at the latest by the next who wants it.  *)
Fairness ==
    /\ \A a \in Agents : WF_vars(Step(a) \/ StartClaim(a))
    /\ WF_vars(\E l \in Ids \cup {ListLock} : StaleLock(l))

Spec == Init /\ [][Next]_vars
FairSpec == Spec /\ Fairness
-----------------------------------------------------------------------------
(* What should hold *)

PCs == {"idle", "list", "next", "check", "blockers", "read", "open", "fill",
        "listlock", "scan", "scan dir", "scan mark", "highest", "new",
        "new fill", "unlock list", "mark", "open mark", "fill mark", "unlink",
        "clear", "sweep"}

(* Every variable keeps the type of the thing it stands for.                 *)
TypeOK ==
    /\ dir \subseteq Ids /\ task \in [Ids -> Task \cup {NoTask}]
    /\ opened \in [Agents -> Ids \cup {0}] /\ mark \in Ids \cup {0}
    /\ lock \in [Ids \cup {ListLock} -> Agents \cup {None}]
    /\ call \in [Agents -> Calls \cup {"none", "start", "release"}] /\ at \in [Agents -> PCs]
    /\ id \in [Agents -> Ids \cup {0}]
    /\ arg \in [Agents -> Ids \cup Agents \cup {None}]
    /\ cur \in [Agents -> Ids \cup {0}]
    /\ seen \in [Agents -> [Ids -> Task \cup {NoTask}]]
    /\ left \in [Agents -> SUBSET Ids]
    /\ got \in [Agents -> Task \cup {NoTask}] /\ high \in [Agents -> Ids \cup {0}]
    /\ alive \in [Agents -> BOOLEAN] /\ edits \in Nat /\ crashes \in Nat
    /\ won \in [Ids -> SUBSET Agents] /\ given \in [Ids -> Nat]

(* claimTask() lets one agent win a task: two of them are never both told    *)
(* that it is theirs unless somebody gave it away, or deleted it, in between, *)
(* however the calls, the crashes and the unlocked writers fall.             *)
OneWinner == \A t \in Ids : \A a, b \in won[t] : a = b

(* A winner loses its task on disk only to a write that is about the owner:  *)
(* an assignment, a claim given back, the return of a dead teammate's tasks, *)
(* a new task under the same number, or the owner that TaskUpdateTool adds   *)
(* by itself to "in_progress" when it saw none before the lock.  Completions, *)
(* status changes, links and cascades write the whole file, too, and other   *)
(* claims race: none of them ever takes a won task away.                     *)
MayUnseat(b, t) ==
    /\ opened[b] = t
    /\ \/ call[b] \in {"assign", "release", "unassign"} \/ at[b] = "new fill"
       \/ call[b] = "begin" /\ seen[b][id[b]].owner = None

UnseatedByOwnerWrite ==
    \A t \in Ids : \A a \in won[t] :
        task'[t] # NoTask /\ task'[t].owner # a => \E b \in Agents : MayUnseat(b, t)

ClaimsOutlastUpdates == [][UnseatedByOwnerWrite]_vars

(* A task that is won is one that still has to be done: between the check    *)
(* and the write the claim lists the whole directory, and others complete,   *)
(* delete and create tasks meanwhile.                                        *)
NobodyWinsDoneWork ==
    [][\A t \in Ids : won'[t] \ won[t] # {} => task'[t].status \in Statuses \ {"completed"}]_vars

(* createTask() never gives the same id to two tasks.                        *)
UniqueIds == \A t \in Ids : given[t] <= 1

(* A task that is there to be taken is taken, or stops being there, as long  *)
(* as an agent that looks for work lives.                                    *)
SomebodyTakesIt ==
    \A t \in Ids :
        t \in Available(task) ~>
            \/ t \notin Available(task)
            \/ \A a \in Agents : "claim" \in May[a] => ~alive[a]
=============================================================================
