--------------------------- MODULE TaskListProofs ---------------------------
(***************************************************************************)
(* The task list, for any number of agents, tasks, calls and crashes: its  *)
(* types, that a claim is exclusive and outlasts the updates beside it,    *)
(* that only open tasks are won, and what it takes for ids never to be     *)
(* reused.                                                                 *)
(***************************************************************************)
EXTENDS TaskList, TLAPS

USE ConstantsOK DEF ListLock

-----------------------------------------------------------------------------
(* Types *)

(* A call that is over leaves its memory in order. *)
LEMMA OverTypes ==
    ASSUME TypeOK, NEW a \in Agents, Over(a)
    PROVE  /\ call' \in [Agents -> Calls \cup {"none", "start", "release"}] /\ at' \in [Agents -> PCs]
           /\ id' \in [Agents -> Ids \cup {0}]
           /\ arg' \in [Agents -> Ids \cup Agents \cup {None}]
           /\ cur' \in [Agents -> Ids \cup {0}]
           /\ seen' \in [Agents -> [Ids -> Task \cup {NoTask}]]
           /\ left' \in [Agents -> SUBSET Ids]
           /\ got' \in [Agents -> Task \cup {NoTask}] /\ high' \in [Agents -> Ids \cup {0}]
  <1>1. Nothing \in [Ids -> Task \cup {NoTask}]
    BY DEF Nothing
  <1>2. "idle" \in PCs
    BY DEF PCs
  <1> QED
    BY <1>1, <1>2 DEF TypeOK, Over

(* What an update writes over a task it could read is a task again. *)
LEMMA MergedTypes ==
    ASSUME TypeOK, NEW a \in Agents, got[a] \in Task, cur[a] \in Ids,
           call[a] = "block" => arg[a] \in Ids /\ id[a] \in Ids,
           call[a] = "assign" => arg[a] \in Agents
    PROVE  Merged(a) \in Task
  <1> DEFINE was == seen[a][cur[a]]
  <1>0. was \in Task \cup {NoTask}
    BY DEF TypeOK
  <1>1. was.blocks \subseteq Ids /\ was.blockedBy \subseteq Ids
    BY <1>0 DEF Task, NoTask
  <1> HIDE DEF was
  <1>2. Status(a) \in Statuses
    BY DEF Status, Statuses
  <1>3. Owner(a) \in Agents \cup {None}
    BY DEF Owner
  <1>4. CASE call[a] = "delete"
    BY <1>1, <1>2, <1>3, <1>4 DEF Merged, Links, Task, was
  <1>5. CASE call[a] = "block"
    BY <1>1, <1>2, <1>3, <1>5 DEF Merged, Links, Task, was
  <1>6. CASE call[a] \notin {"delete", "block"}
    <2>1. "blocks" \notin Sets(a) /\ "blockedBy" \notin Sets(a)
      BY <1>6 DEF Sets
    <2> QED
      BY <1>2, <1>3, <2>1 DEF Merged, Task
  <1> QED
    BY <1>4, <1>5, <1>6

(* Where a call stands says what it knows and holds: in the section under    *)
(* the lock it holds the lock, and it writes only what it could read.        *)
UnderLock == {"check", "blockers", "read", "open", "fill"}

Shape(a) ==
    /\ at[a] # "idle" => alive[a]
    /\ at[a] \in UnderLock => cur[a] \in Ids /\ lock[cur[a]] = a
    /\ at[a] \in {"check", "blockers"} => call[a] = "claim"
    /\ at[a] = "read" => call[a] # "claim"
    /\ at[a] \in {"open", "fill"} => got[a] \in Task
    /\ at[a] = "new fill" => id[a] \in Ids
    /\ at[a] = "unlink" => call[a] = "delete"
    /\ call[a] \in {"claim", "start", "release", "delete", "block"} => id[a] \in Ids
    /\ call[a] = "block" => arg[a] \in Ids
    /\ call[a] = "assign" => arg[a] \in Agents

Shapes == \A a \in Agents : Shape(a)

(* Reading one more task into a listing. *)
LEMMA SeenTypes ==
    ASSUME TypeOK, NEW a \in Agents, NEW t \in Ids,
           seen' = [seen EXCEPT ![a][t] = task[t]]
    PROVE  seen' \in [Agents -> [Ids -> Task \cup {NoTask}]]
  <1>1. task[t] \in Task \cup {NoTask} /\ seen[a] \in [Ids -> Task \cup {NoTask}]
    BY DEF TypeOK
  <1>2. [seen[a] EXCEPT ![t] = task[t]] \in [Ids -> Task \cup {NoTask}]
    BY <1>1
  <1> QED
    BY <1>2 DEF TypeOK

(* A listing begins, and the list of what is left is a set of tasks. *)
LEMMA ListsTypes ==
    ASSUME TypeOK, NEW a \in Agents, NEW among \in SUBSET Ids, Lists(a, among)
    PROVE  /\ seen' \in [Agents -> [Ids -> Task \cup {NoTask}]]
           /\ left' \in [Agents -> SUBSET Ids]
  <1>1. Nothing \in [Ids -> Task \cup {NoTask}]
    BY DEF Nothing
  <1> QED
    BY <1>1 DEF TypeOK, Lists

LEMMA EmptiesTypes ==
    ASSUME TypeOK, NEW a \in Agents, NEW t \in Ids, Empties(a, t)
    PROVE  /\ dir' \subseteq Ids /\ task' \in [Ids -> Task \cup {NoTask}]
           /\ opened' \in [Agents -> Ids \cup {0}] /\ mark' \in Ids \cup {0}
  BY DEF TypeOK, Empties

LEMMA FillsTypes ==
    ASSUME TypeOK, NEW a \in Agents, NEW t \in Ids, NEW text \in Task, Fills(a, t, text)
    PROVE  /\ dir' \subseteq Ids /\ task' \in [Ids -> Task \cup {NoTask}]
           /\ opened' \in [Agents -> Ids \cup {0}] /\ mark' \in Ids \cup {0}
  BY DEF TypeOK, Fills

LEMMA UnlinksTypes ==
    ASSUME TypeOK, NEW t \in Ids, Unlinks(t)
    PROVE  /\ dir' \subseteq Ids /\ task' \in [Ids -> Task \cup {NoTask}]
           /\ opened' \in [Agents -> Ids \cup {0}] /\ mark' \in Ids \cup {0}
           /\ won' \in [Ids -> SUBSET Agents] /\ given' \in [Ids -> Nat]
  <1>1. \A b \in Agents : opened[b] \in Ids \cup {0}
    BY DEF TypeOK
  <1>2. opened' \in [Agents -> Ids \cup {0}]
    BY <1>1 DEF Unlinks
  <1> QED
    BY <1>2 DEF TypeOK, Unlinks

LEMMA GotoTypes ==
    ASSUME TypeOK, NEW a \in Agents, NEW pc \in PCs, Goto(a, pc)
    PROVE  at' \in [Agents -> PCs]
  BY DEF TypeOK, Goto

LEMMA ReleaseTypes ==
    ASSUME TypeOK, NEW a \in Agents, cur[a] \in Ids, Release(a)
    PROVE  /\ lock' \in [Ids \cup {ListLock} -> Agents \cup {None}]
           /\ cur' \in [Agents -> Ids \cup {0}] /\ at' \in [Agents -> PCs]
           /\ got' \in [Agents -> Task \cup {NoTask}]
  <1>1. lock[cur[a]] \in Agents \cup {None}
    BY DEF TypeOK
  <1>2. lock' \in [Ids \cup {ListLock} -> Agents \cup {None}]
    BY <1>1 DEF TypeOK, Release, Frees
  <1>3. "next" \in PCs
    BY DEF PCs
  <1> QED
    BY <1>2, <1>3 DEF TypeOK, Release, Goto

LEMMA AfterClaimTypes ==
    ASSUME TypeOK, Shapes, NEW a \in Agents, AfterClaim(a)
    PROVE  /\ call' \in [Agents -> Calls \cup {"none", "start", "release"}]
           /\ left' \in [Agents -> SUBSET Ids]
  <1>1. CASE call[a] = "claim"
    <2>1. {id[a]} \subseteq Ids
      BY <1>1 DEF Shapes, Shape
    <2>2. left' = [left EXCEPT ![a] = {id[a]}] /\ call' = [call EXCEPT ![a] = "start"]
      BY <1>1 DEF AfterClaim
    <2>3. left' \in [Agents -> SUBSET Ids]
      BY <2>1, <2>2 DEF TypeOK
    <2> QED
      BY <2>2, <2>3 DEF TypeOK
  <1>2. CASE call[a] # "claim"
    BY <1>2 DEF TypeOK, AfterClaim
  <1> QED
    BY <1>1, <1>2

(* No step of an agent, and no stale lock, breaks a type.                    *)
LEMMA TypeStep ==
    ASSUME TypeOK, Shapes, Next
    PROVE  TypeOK'
  <1>1. ASSUME NEW a \in Agents, StartClaim(a) \/ Start(a) \/ Step(a) \/ Crash(a)
        PROVE  TypeOK'
  <2>1. CASE ReadOne(a)
    <3>1. PICK t \in left[a] : /\ seen' = [seen EXCEPT ![a][t] = task[t]]
                           /\ left' = [left EXCEPT ![a] = @ \ {t}]
      BY <2>1 DEF ReadOne
    <3>2. t \in Ids
      BY <3>1 DEF TypeOK
    <3>3. seen' \in [Agents -> [Ids -> Task \cup {NoTask}]]
      BY <3>1, <3>2, SeenTypes
    <3> QED
      BY <2>1, <3>1, <3>3 DEF TypeOK, ReadOne, files, env, past
  <2>2. CASE LinkBoth(a)
    <3>1. id[a] \in Ids /\ arg[a] \in Ids
      BY <2>2 DEF LinkBoth, Listed, Shapes, Shape
    <3>2. PICK ts \in SUBSET Ids : Updates(a, ts) /\ UNCHANGED id
      BY <2>2, <3>1 DEF LinkBoth
    <3> QED
      BY <2>2, <3>2 DEF TypeOK, PCs, Updates, Goto, files, env, past
  <2>3. CASE Cascade(a)
    BY <2>3 DEF TypeOK, PCs, Cascade, Updates, Goto, files, env, past
  <2>4. CASE TakeBack(a)
    BY <2>4 DEF TypeOK, PCs, TakeBack, Updates, Goto, Unresolved, files, env, past
  <2>5. CASE AllDone(a)
    BY <2>5, OverTypes DEF TypeOK, PCs, AllDone, Goto, files, env, past
  <2>6. CASE LockTask(a)
    <3>1. PICK t \in left[a] : Takes(a, t) /\ cur' = [cur EXCEPT ![a] = t] /\ left' = [left EXCEPT ![a] = @ \ {t}]
      BY <2>6 DEF LockTask
    <3>2. t \in Ids
      BY <3>1 DEF TypeOK
    <3>3. at' \in [Agents -> PCs]
      BY <2>6 DEF LockTask, TypeOK, Goto, PCs
    <3> QED
      BY <2>6, <3>1, <3>2, <3>3 DEF TypeOK, LockTask, Takes, files, env, past
  <2>7. CASE SkipTask(a)
    BY <2>7 DEF TypeOK, SkipTask, files, env, past
  <2>8. CASE Finish(a)
    BY <2>8, OverTypes DEF TypeOK, Finish, files, env, past
  <2>9. CASE LockFails(a)
    BY <2>9, OverTypes DEF TypeOK, LockFails, files, env, past
  <2>10. CASE CheckOwner(a)
    <3>1. cur[a] \in Ids
      BY <2>10 DEF CheckOwner, At, Shapes, Shape, UnderLock
    <3>2. task[cur[a]] \in Task \cup {NoTask}
      BY <3>1 DEF TypeOK
    <3>3. CASE Release(a) /\ UNCHANGED <<left, seen>>
      BY <2>10, <3>1, <3>3, ReleaseTypes DEF TypeOK, CheckOwner, files, env, past
    <3>4. CASE /\ got' = [got EXCEPT ![a] = task[cur[a]]]
             /\ Goto(a, "blockers") /\ Lists(a, dir) /\ UNCHANGED <<lock, cur>>
      BY <2>10, <3>2, <3>4, ListsTypes DEF TypeOK, PCs, CheckOwner, Goto, files, env, past
    <3> QED
      BY <2>10, <3>3, <3>4 DEF CheckOwner
  <2>11. CASE Blocked(a)
    <3>1. cur[a] \in Ids
      BY <2>11 DEF Blocked, At, Shapes, Shape, UnderLock
    <3> QED
      BY <2>11, <3>1, ReleaseTypes DEF TypeOK, Blocked, files, env, past
  <2>12. CASE ReadTask(a)
    <3>1. cur[a] \in Ids
      BY <2>12 DEF ReadTask, At, Shapes, Shape, UnderLock
    <3>2. task[cur[a]] \in Task \cup {NoTask}
      BY <3>1 DEF TypeOK
    <3>3. seen' \in [Agents -> [Ids -> Task \cup {NoTask}]]
      BY <2>12 DEF ReadTask, TypeOK, Nothing
    <3>4. CASE Release(a) /\ AfterClaim(a)
      BY <2>12, <3>1, <3>3, <3>4, ReleaseTypes, AfterClaimTypes DEF TypeOK, ReadTask, files, env, past
    <3>5. CASE /\ got' = [got EXCEPT ![a] = task[cur[a]]]
             /\ Goto(a, "open") /\ UNCHANGED <<lock, cur, call, left>>
      BY <2>12, <3>2, <3>3, <3>5 DEF TypeOK, PCs, ReadTask, Goto, files, env, past
    <3> QED
      BY <2>12, <3>4, <3>5 DEF ReadTask
  <2>13. CASE OpenTask(a)
    <3>1. cur[a] \in Ids
      BY <2>13 DEF OpenTask, At, Shapes, Shape, UnderLock
    <3> QED
      BY <2>13, <3>1, EmptiesTypes, GotoTypes DEF TypeOK, PCs, OpenTask, Goto, env, past
  <2>14. CASE FillTask(a)
    <3>1. cur[a] \in Ids /\ got[a] \in Task
      BY <2>14 DEF FillTask, At, Shapes, Shape, UnderLock
    <3>2. Merged(a) \in Task
      BY <3>1, MergedTypes DEF Shapes, Shape
    <3>3. won' \in [Ids -> SUBSET Agents]
      BY <2>14, <3>1 DEF FillTask, TypeOK
    <3> QED
      BY <2>14, <3>1, <3>2, <3>3, FillsTypes, ReleaseTypes, AfterClaimTypes DEF TypeOK, FillTask, env
  <2>15. CASE LockList(a)
    BY <2>15 DEF TypeOK, PCs, LockList, Takes, Goto, files, env, past
  <2>16. CASE ScanDir(a)
    <3>1. PICK h \in {high[a]} \cup dir : high' = [high EXCEPT ![a] = h]
      BY <2>16 DEF ScanDir
    <3>2. at' \in [Agents -> PCs]
      BY <2>16 DEF ScanDir, TypeOK, Goto, PCs
    <3> QED
      BY <2>16, <3>1, <3>2 DEF TypeOK, ScanDir, files, env, past
  <2>17. CASE ScanMark(a)
    <3>1. at' \in [Agents -> PCs]
      BY <2>17 DEF ScanMark, TypeOK, Goto, PCs
    <3> QED
      BY <2>17, <3>1 DEF TypeOK, ScanMark, files, env, past
  <2>18. CASE OpenNew(a)
    <3>1. high[a] \in Ids \cup {0} /\ high[a] < MaxId
      BY <2>18 DEF OpenNew, TypeOK
    <3>2. high[a] + 1 \in Ids
      BY <3>1, ConstantsOK DEF Ids
    <3>3. at' \in [Agents -> PCs]
      BY <2>18 DEF OpenNew, TypeOK, Goto, PCs
    <3> QED
      BY <2>18, <3>2, <3>3, EmptiesTypes DEF TypeOK, OpenNew, env
  <2>19. CASE FillNew(a)
    <3>1. id[a] \in Ids
      BY <2>19 DEF FillNew, At, Shapes, Shape
    <3>2. Fresh \in Task
      BY DEF Fresh, NoTask, Task, Statuses
    <3>3. at' \in [Agents -> PCs]
      BY <2>19 DEF FillNew, TypeOK, Goto, PCs
    <3>4. won' \in [Ids -> SUBSET Agents]
      BY <2>19, <3>1 DEF FillNew, TypeOK
    <3>5. given[id[a]] + 1 \in Nat
      BY <3>1 DEF TypeOK
    <3>6. given' \in [Ids -> Nat]
      BY <2>19, <3>5 DEF FillNew, TypeOK
    <3> QED
      BY <2>19, <3>1, <3>2, <3>3, <3>4, <3>6, FillsTypes DEF TypeOK, FillNew, env
  <2>20. CASE NoMoreIds(a)
    BY <2>20 DEF TypeOK, PCs, NoMoreIds, Goto, files, env, past
  <2>21. CASE ReadMark(a)
    BY <2>21 DEF TypeOK, PCs, ReadMark, AfterMark, Goto, files, env, past
  <2>22. CASE OpenMark(a)
    BY <2>22 DEF TypeOK, PCs, OpenMark, Goto, env, past
  <2>23. CASE FillMark(a)
    BY <2>23 DEF TypeOK, PCs, FillMark, AfterMark, Goto, env, past
  <2>24. CASE UnlinkTask(a)
    <3>1. id[a] \in Ids
      BY <2>24 DEF UnlinkTask, TypeOK
    <3>2. at' \in [Agents -> PCs]
      BY <2>24 DEF UnlinkTask, TypeOK, Goto, PCs
    <3>3. dir \ {id[a]} \in SUBSET Ids
      BY DEF TypeOK
    <3> QED
      BY <2>24, <3>1, <3>2, <3>3, UnlinksTypes, ListsTypes DEF TypeOK, UnlinkTask, env
  <2>25. CASE AlreadyGone(a)
    BY <2>25, OverTypes DEF TypeOK, AlreadyGone, files, env, past
  <2>26. CASE ClearList(a)
    BY <2>26 DEF TypeOK, PCs, ClearList, Goto, files, env, past
  <2>27. CASE SweepOne(a)
    <3>1. PICK t \in left[a] : Unlinks(t) /\ left' = [left EXCEPT ![a] = @ \ {t}]
      BY <2>27 DEF SweepOne
    <3>2. t \in Ids
      BY <3>1 DEF TypeOK
    <3> QED
      BY <2>27, <3>1, <3>2, UnlinksTypes DEF TypeOK, SweepOne, env
  <2>28. CASE UnlockList(a)
    BY <2>28, OverTypes DEF TypeOK, UnlockList, Frees, files, env, past
  <2>29. CASE StartClaim(a)
    <3>1. call' \in [Agents -> Calls \cup {"none", "start", "release"}]
      BY <2>29 DEF StartClaim, TypeOK, Calls
    <3>2. at' \in [Agents -> PCs]
      BY <2>29 DEF StartClaim, TypeOK, Goto, PCs
    <3>3. id' \in [Agents -> Ids \cup {0}] /\ left' \in [Agents -> SUBSET Ids]
      BY <2>29 DEF StartClaim, Available, TypeOK
    <3> QED
      BY <2>29, <3>1, <3>2, <3>3 DEF TypeOK, StartClaim, files, env, past
  <2>30. ASSUME NEW c \in Calls, StartList(a, c) PROVE TypeOK'
    <3>1. at' \in [Agents -> PCs]
      BY <2>30 DEF StartList, TypeOK, Goto, PCs
    <3>2. call' \in [Agents -> Calls \cup {"none", "start", "release"}]
      BY <2>30 DEF StartList, Starts, TypeOK
    <3>3. left' \in [Agents -> SUBSET Ids] /\ seen' \in [Agents -> [Ids -> Task \cup {NoTask}]]
      BY <2>30, ListsTypes DEF StartList, TypeOK
    <3> QED
      BY <2>30, <3>1, <3>2, <3>3 DEF TypeOK, StartList, Starts, files, past
  <2>31. ASSUME NEW c \in Calls, NEW t \in Ids, NEW b \in Agents \cup {None}, StartUpdate(a, c, t, b)
         PROVE  TypeOK'
    <3>1. at' \in [Agents -> PCs]
      BY <2>31 DEF StartUpdate, TypeOK, Goto, PCs
    <3>2. call' \in [Agents -> Calls \cup {"none", "start", "release"}]
      BY <2>31 DEF StartUpdate, Starts, TypeOK
    <3>3. seen' \in [Agents -> [Ids -> Task \cup {NoTask}]]
      BY <2>31, SeenTypes DEF StartUpdate
    <3> QED
      BY <2>31, <3>1, <3>2, <3>3 DEF TypeOK, StartUpdate, Starts, files, past
  <2>32. ASSUME NEW t \in Ids, StartDelete(a, t) PROVE TypeOK'
    <3>1. call' \in [Agents -> Calls \cup {"none", "start", "release"}]
      BY <2>32 DEF StartDelete, Starts, TypeOK, Calls
    <3>2. at' \in [Agents -> PCs]
      BY <2>32 DEF StartDelete, TypeOK, Goto, PCs
    <3> QED
      BY <2>32, <3>1, <3>2 DEF TypeOK, StartDelete, Starts, files, past
  <2>33. ASSUME NEW t \in Ids, NEW u \in Ids, StartBlock(a, t, u) PROVE TypeOK'
    <3>1. {t, u} \in SUBSET Ids
      OBVIOUS
    <3>2. left' \in [Agents -> SUBSET Ids] /\ seen' \in [Agents -> [Ids -> Task \cup {NoTask}]]
      BY <2>33, <3>1, ListsTypes DEF StartBlock
    <3>3. call' \in [Agents -> Calls \cup {"none", "start", "release"}]
      BY <2>33 DEF StartBlock, Starts, TypeOK, Calls
    <3>4. at' \in [Agents -> PCs]
      BY <2>33 DEF StartBlock, TypeOK, Goto, PCs
    <3> QED
      BY <2>33, <3>2, <3>3, <3>4 DEF TypeOK, StartBlock, Starts, files, past
  <2>34. ASSUME NEW b \in Agents, StartUnassign(a, b) PROVE TypeOK'
    <3>1. dir \in SUBSET Ids
      BY DEF TypeOK
    <3>2. left' \in [Agents -> SUBSET Ids] /\ seen' \in [Agents -> [Ids -> Task \cup {NoTask}]]
      BY <2>34, <3>1, ListsTypes DEF StartUnassign
    <3>3. call' \in [Agents -> Calls \cup {"none", "start", "release"}]
      BY <2>34 DEF StartUnassign, Starts, TypeOK, Calls
    <3>4. at' \in [Agents -> PCs]
      BY <2>34 DEF StartUnassign, TypeOK, Goto, PCs
    <3> QED
      BY <2>34, <3>2, <3>3, <3>4 DEF TypeOK, StartUnassign, Starts, files, past
  <2>35. CASE Crash(a)
    BY <2>35, OverTypes DEF TypeOK, Crash, files, past
  <2>36. CASE GiveBack(a)
    BY <2>36 DEF TypeOK, GiveBack, files, past
  <2> QED
    BY <1>1, <2>1, <2>2, <2>3, <2>4, <2>5, <2>6, <2>7, <2>8, <2>9, <2>10, <2>11, <2>12, <2>13, <2>14, <2>15, <2>16, <2>17, <2>18, <2>19, <2>20, <2>21, <2>22, <2>23, <2>24, <2>25, <2>26, <2>27, <2>28, <2>29, <2>30, <2>31, <2>32, <2>33, <2>34, <2>35, <2>36 DEF Start, Step
  <1>2. ASSUME NEW l \in Ids \cup {ListLock}, StaleLock(l)
        PROVE  TypeOK'
    BY <1>2 DEF TypeOK, StaleLock, files, mind, env, past
  <1> QED
    BY <1>1, <1>2 DEF Next

(* A step of one agent leaves the others where they are, with their locks.   *)
Untouched(b) ==
    /\ at'[b] = at[b] /\ call'[b] = call[b] /\ id'[b] = id[b] /\ arg'[b] = arg[b]
    /\ cur'[b] = cur[b] /\ got'[b] = got[b] /\ high'[b] = high[b] /\ alive'[b] = alive[b]
    /\ \A l \in Ids \cup {ListLock} : lock[l] = b => lock'[l] = b

LEMMA OthersUntouched ==
    ASSUME TypeOK, NEW a \in Agents, NEW other \in Agents, other # a,
           StartClaim(a) \/ Start(a) \/ Step(a) \/ Crash(a)
    PROVE  Untouched(other)
  <1>1. CASE ReadOne(a)
    BY <1>1 DEF TypeOK, Untouched, ReadOne, At, files, env, past
  <1>2. CASE LinkBoth(a)
    BY <1>2 DEF TypeOK, Untouched, LinkBoth, Listed, Updates, At, Goto, files, env, past
  <1>3. CASE Cascade(a)
    BY <1>3 DEF TypeOK, Untouched, Cascade, Listed, Updates, At, Goto, files, env, past
  <1>4. CASE TakeBack(a)
    BY <1>4 DEF TypeOK, Untouched, TakeBack, Listed, Updates, At, Goto, files, env, past
  <1>5. CASE AllDone(a)
    BY <1>5 DEF TypeOK, Untouched, AllDone, Listed, At, Goto, files, env, past, Over
  <1>6. CASE LockTask(a)
    BY <1>6 DEF TypeOK, Untouched, LockTask, At, Goto, Takes, files, env, past
  <1>7. CASE SkipTask(a)
    BY <1>7 DEF TypeOK, Untouched, SkipTask, At, files, env, past
  <1>8. CASE Finish(a)
    BY <1>8 DEF TypeOK, Untouched, Finish, At, files, env, past, Over
  <1>9. CASE LockFails(a)
    BY <1>9 DEF TypeOK, Untouched, LockFails, At, files, env, past, Over
  <1>10. CASE CheckOwner(a)
    BY <1>10 DEF TypeOK, Untouched, CheckOwner, At, Goto, Lists, Release, Frees, files, env, past
  <1>11. CASE Blocked(a)
    BY <1>11 DEF TypeOK, Untouched, Blocked, At, Goto, Release, Frees, files, env, past
  <1>12. CASE ReadTask(a)
    BY <1>12 DEF TypeOK, Untouched, ReadTask, At, Goto, Release, Frees, AfterClaim, files, env, past
  <1>13. CASE OpenTask(a)
    BY <1>13 DEF TypeOK, Untouched, OpenTask, At, Goto, files, env, past
  <1>14. CASE FillTask(a)
    BY <1>14 DEF TypeOK, Untouched, FillTask, At, Goto, Release, Frees, AfterClaim, env
  <1>15. CASE LockList(a)
    BY <1>15 DEF TypeOK, Untouched, LockList, At, Goto, Takes, files, env, past
  <1>16. CASE ScanDir(a)
    BY <1>16 DEF TypeOK, Untouched, ScanDir, At, Goto, files, env, past
  <1>17. CASE ScanMark(a)
    BY <1>17 DEF TypeOK, Untouched, ScanMark, At, Goto, files, env, past
  <1>18. CASE OpenNew(a)
    BY <1>18 DEF TypeOK, Untouched, OpenNew, At, Goto, env
  <1>19. CASE FillNew(a)
    BY <1>19 DEF TypeOK, Untouched, FillNew, At, Goto, env
  <1>20. CASE NoMoreIds(a)
    BY <1>20 DEF TypeOK, Untouched, NoMoreIds, At, Goto, files, env, past
  <1>21. CASE ReadMark(a)
    BY <1>21 DEF TypeOK, Untouched, ReadMark, At, Goto, AfterMark, files, env, past
  <1>22. CASE OpenMark(a)
    BY <1>22 DEF TypeOK, Untouched, OpenMark, At, Goto, env, past
  <1>23. CASE FillMark(a)
    BY <1>23 DEF TypeOK, Untouched, FillMark, At, Goto, AfterMark, env, past
  <1>24. CASE UnlinkTask(a)
    BY <1>24 DEF TypeOK, Untouched, UnlinkTask, At, Goto, Lists, env
  <1>25. CASE AlreadyGone(a)
    BY <1>25 DEF TypeOK, Untouched, AlreadyGone, At, files, env, past, Over
  <1>26. CASE ClearList(a)
    BY <1>26 DEF TypeOK, Untouched, ClearList, At, Goto, files, env, past
  <1>27. CASE SweepOne(a)
    BY <1>27 DEF TypeOK, Untouched, SweepOne, At, env
  <1>28. CASE UnlockList(a)
    BY <1>28 DEF TypeOK, Untouched, UnlockList, At, Frees, files, env, past, Over
  <1>29. CASE StartClaim(a)
    BY <1>29 DEF TypeOK, Untouched, StartClaim, At, Goto, files, env, past
  <1>30. CASE \E c \in Calls : StartList(a, c)
    BY <1>30 DEF TypeOK, Untouched, StartList, Starts, At, Goto, Lists, files, past
  <1>31. CASE \E c \in Calls, t \in Ids, b \in Agents \cup {None} : StartUpdate(a, c, t, b)
    BY <1>31 DEF TypeOK, Untouched, StartUpdate, Starts, At, Goto, files, past
  <1>32. CASE \E t \in Ids : StartDelete(a, t)
    BY <1>32 DEF TypeOK, Untouched, StartDelete, Starts, At, Goto, files, past
  <1>33. CASE \E t, u \in Ids : StartBlock(a, t, u)
    BY <1>33 DEF TypeOK, Untouched, StartBlock, Starts, At, Goto, Lists, files, past
  <1>34. CASE \E b \in Agents : StartUnassign(a, b)
    BY <1>34 DEF TypeOK, Untouched, StartUnassign, Starts, At, Goto, Lists, files, past
  <1>35. CASE Crash(a)
    BY <1>35 DEF TypeOK, Untouched, Crash, files, past, Over
  <1>36. CASE GiveBack(a)
    BY <1>36 DEF TypeOK, Untouched, GiveBack, At, files, past
  <1> QED
    BY <1>1, <1>2, <1>3, <1>4, <1>5, <1>6, <1>7, <1>8, <1>9, <1>10, <1>11, <1>12, <1>13, <1>14, <1>15, <1>16, <1>17, <1>18, <1>19, <1>20, <1>21, <1>22, <1>23, <1>24, <1>25, <1>26, <1>27, <1>28, <1>29, <1>30, <1>31, <1>32, <1>33, <1>34, <1>35, <1>36 DEF Start, Step

(* The acting agent itself keeps the shape of its call.                      *)
LEMMA OwnShape ==
    ASSUME TypeOK, Shapes, NEW a \in Agents,
           StartClaim(a) \/ Start(a) \/ Step(a) \/ Crash(a)
    PROVE  Shape(a)'
  <1>0. Shape(a)
    BY DEF Shapes
  <1>1. CASE ReadOne(a)
    BY <1>1, <1>0 DEF TypeOK, Shape, UnderLock, ReadOne, At, files, env, past
  <1>2. CASE LinkBoth(a)
    BY <1>2, <1>0 DEF TypeOK, Shape, UnderLock, LinkBoth, Listed, Updates, At, Goto, files, env, past
  <1>3. CASE Cascade(a)
    BY <1>3, <1>0 DEF TypeOK, Shape, UnderLock, Cascade, Listed, Updates, At, Goto, files, env, past
  <1>4. CASE TakeBack(a)
    BY <1>4, <1>0 DEF TypeOK, Shape, UnderLock, TakeBack, Listed, Updates, At, Goto, files, env, past
  <1>5. CASE AllDone(a)
    <2>1. at'[a] \in {"idle", "listlock"}
      BY <1>5 DEF AllDone, Over, Goto, TypeOK
    <2>2. UNCHANGED alive /\ alive[a]
      BY <1>5 DEF AllDone, Listed, At, env
    <2>3. call'[a] = "none" \/ UNCHANGED <<call, id, arg>>
      BY <1>5 DEF AllDone, Over, TypeOK
    <2> QED
      BY <1>0, <2>1, <2>2, <2>3 DEF Shape, UnderLock
  <1>6. CASE LockTask(a)
    <2>1. PICK t \in left[a] : Takes(a, t) /\ cur' = [cur EXCEPT ![a] = t]
      BY <1>6 DEF LockTask
    <2>2. t \in Ids /\ t \in DOMAIN lock /\ alive[a]
      BY <1>6, <2>1 DEF TypeOK, LockTask, At
    <2>3. cur'[a] \in Ids /\ lock'[cur'[a]] = a
      BY <2>1, <2>2 DEF TypeOK, Takes
    <2>4. at'[a] = IF call[a] = "claim" THEN "check" ELSE "read"
      BY <1>6 DEF LockTask, Goto, TypeOK
    <2>5. UNCHANGED <<call, id, arg, alive>>
      BY <1>6 DEF LockTask, env
    <2> QED
      BY <1>0, <2>2, <2>3, <2>4, <2>5 DEF Shape, UnderLock
  <1>7. CASE SkipTask(a)
    BY <1>7, <1>0 DEF TypeOK, Shape, UnderLock, SkipTask, At, files, env, past
  <1>8. CASE Finish(a)
    BY <1>8, <1>0 DEF TypeOK, Shape, UnderLock, Finish, At, files, env, past, Over
  <1>9. CASE LockFails(a)
    BY <1>9, <1>0 DEF TypeOK, Shape, UnderLock, LockFails, At, files, env, past, Over
  <1>10. CASE CheckOwner(a)
    <2>1. UNCHANGED <<call, id, arg, alive>> /\ alive[a] /\ call[a] = "claim"
      BY <1>10, <1>0 DEF CheckOwner, At, env, Shape
    <2>2. CASE Release(a)
      <3>1. at'[a] = "next"
        BY <2>2 DEF Release, Goto, TypeOK
      <3> QED
        BY <1>0, <2>1, <3>1 DEF Shape, UnderLock
    <2>3. CASE Goto(a, "blockers") /\ UNCHANGED <<lock, cur>>
      <3>1. at'[a] = "blockers"
        BY <2>3 DEF Goto, TypeOK
      <3>2. at[a] = "check"
        BY <1>10 DEF CheckOwner, At
      <3> QED
        BY <1>0, <2>1, <2>3, <3>1, <3>2 DEF Shape, UnderLock
    <2> QED
      BY <1>10, <2>2, <2>3 DEF CheckOwner
  <1>11. CASE Blocked(a)
    BY <1>11, <1>0 DEF TypeOK, Shape, UnderLock, Blocked, At, Goto, Release, Frees, files, env, past
  <1>12. CASE ReadTask(a)
    <2>1. cur[a] \in Ids /\ lock[cur[a]] = a /\ alive[a] /\ task[cur[a]] \in Task \cup {NoTask}
      BY <1>12, <1>0 DEF ReadTask, At, Shape, UnderLock, TypeOK
    <2>2. UNCHANGED <<id, arg, alive>>
      BY <1>12 DEF ReadTask, env
    <2>3. CASE Release(a) /\ AfterClaim(a)
      <3>1. at'[a] = "next"
        BY <2>3 DEF Release, Goto, TypeOK
      <3>2. call'[a] = call[a] \/ (call[a] = "claim" /\ call'[a] = "start")
        BY <2>3 DEF AfterClaim, TypeOK
      <3> QED
        BY <1>0, <2>1, <2>2, <3>1, <3>2 DEF Shape, UnderLock
    <2>4. CASE /\ task[cur[a]] # NoTask /\ got' = [got EXCEPT ![a] = task[cur[a]]]
               /\ Goto(a, "open") /\ UNCHANGED <<lock, cur, call, left>>
      <3>1. at'[a] = "open" /\ got'[a] \in Task
        BY <2>1, <2>4 DEF Goto, TypeOK
      <3> QED
        BY <1>0, <2>1, <2>2, <2>4, <3>1 DEF Shape, UnderLock
    <2> QED
      BY <1>12, <2>3, <2>4 DEF ReadTask
  <1>13. CASE OpenTask(a)
    BY <1>13, <1>0 DEF TypeOK, Shape, UnderLock, OpenTask, At, Goto, files, env, past
  <1>14. CASE FillTask(a)
    <2>1. UNCHANGED <<id, arg, alive>> /\ alive[a]
      BY <1>14 DEF FillTask, At, env
    <2>2. at'[a] = "next"
      BY <1>14 DEF FillTask, Release, Goto, TypeOK
    <2>3. call'[a] = call[a] \/ (call[a] = "claim" /\ call'[a] = "start")
      BY <1>14 DEF FillTask, AfterClaim, TypeOK
    <2> QED
      BY <1>0, <2>1, <2>2, <2>3 DEF Shape, UnderLock
  <1>15. CASE LockList(a)
    BY <1>15, <1>0 DEF TypeOK, Shape, UnderLock, LockList, At, Goto, Takes, files, env, past
  <1>16. CASE ScanDir(a)
    BY <1>16, <1>0 DEF TypeOK, Shape, UnderLock, ScanDir, At, Goto, files, env, past
  <1>17. CASE ScanMark(a)
    BY <1>17, <1>0 DEF TypeOK, Shape, UnderLock, ScanMark, At, Goto, files, env, past
  <1>18. CASE OpenNew(a)
    <2>1. id'[a] = high[a] + 1 /\ high[a] \in Ids \cup {0} /\ high[a] < MaxId
      BY <1>18 DEF OpenNew, TypeOK
    <2>2. id'[a] \in Ids
      BY <2>1, ConstantsOK DEF Ids
    <2>3. at'[a] = "new fill"
      BY <1>18 DEF OpenNew, Goto, TypeOK
    <2>4. UNCHANGED <<call, arg, alive>> /\ alive[a]
      BY <1>18 DEF OpenNew, At, env
    <2> QED
      BY <1>0, <2>2, <2>3, <2>4 DEF Shape, UnderLock
  <1>19. CASE FillNew(a)
    BY <1>19, <1>0 DEF TypeOK, Shape, UnderLock, FillNew, At, Goto, env
  <1>20. CASE NoMoreIds(a)
    BY <1>20, <1>0 DEF TypeOK, Shape, UnderLock, NoMoreIds, At, Goto, files, env, past
  <1>21. CASE ReadMark(a)
    BY <1>21, <1>0 DEF TypeOK, Shape, UnderLock, ReadMark, At, Goto, AfterMark, files, env, past
  <1>22. CASE OpenMark(a)
    BY <1>22, <1>0 DEF TypeOK, Shape, UnderLock, OpenMark, At, Goto, env, past
  <1>23. CASE FillMark(a)
    BY <1>23, <1>0 DEF TypeOK, Shape, UnderLock, FillMark, At, Goto, AfterMark, env, past
  <1>24. CASE UnlinkTask(a)
    BY <1>24, <1>0 DEF TypeOK, Shape, UnderLock, UnlinkTask, At, Goto, env
  <1>25. CASE AlreadyGone(a)
    BY <1>25, <1>0 DEF TypeOK, Shape, UnderLock, AlreadyGone, At, files, env, past, Over
  <1>26. CASE ClearList(a)
    BY <1>26, <1>0 DEF TypeOK, Shape, UnderLock, ClearList, At, Goto, files, env, past
  <1>27. CASE SweepOne(a)
    BY <1>27, <1>0 DEF TypeOK, Shape, UnderLock, SweepOne, At, env
  <1>28. CASE UnlockList(a)
    BY <1>28, <1>0 DEF TypeOK, Shape, UnderLock, UnlockList, At, Frees, files, env, past, Over
  <1>29. CASE StartClaim(a)
    <2>1. id'[a] \in Ids
      BY <1>29 DEF StartClaim, Available, TypeOK
    <2>2. at'[a] = "next" /\ call'[a] = "claim"
      BY <1>29 DEF StartClaim, Goto, TypeOK
    <2>3. UNCHANGED alive /\ alive[a]
      BY <1>29 DEF StartClaim, At, env
    <2> QED
      BY <2>1, <2>2, <2>3 DEF Shape, UnderLock
  <1>30. CASE \E c \in Calls : StartList(a, c)
    <2>1. at'[a] \in {"list", "listlock"}
      BY <1>30 DEF StartList, Goto, TypeOK
    <2>2. call'[a] \in {"create", "reset"}
      BY <1>30 DEF StartList, Starts, TypeOK
    <2>3. UNCHANGED alive /\ alive[a]
      BY <1>30 DEF StartList, Starts, At
    <2> QED
      BY <2>1, <2>2, <2>3 DEF Shape, UnderLock
  <1>31. CASE \E c \in Calls, t \in Ids, b \in Agents \cup {None} : StartUpdate(a, c, t, b)
    BY <1>31, <1>0 DEF TypeOK, Shape, UnderLock, StartUpdate, Starts, At, Goto, files, past
  <1>32. CASE \E t \in Ids : StartDelete(a, t)
    BY <1>32, <1>0 DEF TypeOK, Shape, UnderLock, StartDelete, Starts, At, Goto, files, past
  <1>33. CASE \E t, u \in Ids : StartBlock(a, t, u)
    BY <1>33, <1>0 DEF TypeOK, Shape, UnderLock, StartBlock, Starts, At, Goto, files, past
  <1>34. CASE \E b \in Agents : StartUnassign(a, b)
    BY <1>34, <1>0 DEF TypeOK, Shape, UnderLock, StartUnassign, Starts, At, Goto, files, past
  <1>35. CASE Crash(a)
    BY <1>35, <1>0 DEF TypeOK, Shape, UnderLock, Crash, files, past, Over
  <1>36. CASE GiveBack(a)
    BY <1>36, <1>0 DEF TypeOK, Shape, UnderLock, GiveBack, At, files, past
  <1> QED
    BY <1>1, <1>2, <1>3, <1>4, <1>5, <1>6, <1>7, <1>8, <1>9, <1>10, <1>11, <1>12, <1>13, <1>14, <1>15, <1>16, <1>17, <1>18, <1>19, <1>20, <1>21, <1>22, <1>23, <1>24, <1>25, <1>26, <1>27, <1>28, <1>29, <1>30, <1>31, <1>32, <1>33, <1>34, <1>35, <1>36 DEF Start, Step

LEMMA ShapeStep ==
    ASSUME TypeOK, Shapes, Next
    PROVE  Shapes'
  <1>1. ASSUME NEW a \in Agents, StartClaim(a) \/ Start(a) \/ Step(a) \/ Crash(a),
               NEW b \in Agents
        PROVE  Shape(b)'
    <2>1. CASE b = a
      BY <1>1, <2>1, OwnShape
    <2>2. CASE b # a
      <3>1. Untouched(b)
        BY <1>1, <2>2, OthersUntouched
      <3> QED
        BY <3>1 DEF Untouched, Shapes, Shape, UnderLock
    <2> QED
      BY <2>1, <2>2
  <1>2. ASSUME NEW l \in Ids \cup {ListLock}, StaleLock(l), NEW b \in Agents
        PROVE  Shape(b)'
    BY <1>2 DEF StaleLock, mind, env, TypeOK, Shapes, Shape, UnderLock
  <1> QED
    BY <1>1, <1>2 DEF Next, Shapes

-----------------------------------------------------------------------------
(* Claims *)

(* Between the check of a claim and its write the task is nobody else's and  *)
(* unfinished; an update that takes the owner over from what it read does    *)
(* not take a task from its winner.                                          *)
Writing    == {"blockers", "open", "fill"}
Unfinished == Statuses \ {"completed"}

Held(a) ==
    /\ call[a] = "claim" /\ at[a] \in Writing => won[cur[a]] \subseteq {a}
    /\ call[a] = "claim" /\ at[a] = "blockers" =>
           task[cur[a]] = NoTask \/ task[cur[a]].status \in Unfinished
    /\ call[a] = "claim" /\ at[a] \in {"open", "fill"} => got[a].status \in Unfinished
    /\ call[a] # "claim" /\ at[a] \in {"open", "fill"} => won[cur[a]] \subseteq {got[a].owner}

(* Until somebody writes another owner, or none, the winner is on disk.      *)
WinnerIsOwner ==
    \A t \in Ids : task[t] # NoTask => won[t] \subseteq {task[t].owner}

Claims == OneWinner /\ WinnerIsOwner /\ \A a \in Agents : Held(a)

IInv == TypeOK /\ Shapes /\ Claims

(* Whoever does not hold the lock of a task lets it be, or takes its file    *)
(* away, or puts a new one there that nobody has won.                        *)
KeepsOrClears(t) ==
    \/ won'[t] = won[t] /\ task'[t] = task[t]
    \/ won'[t] = {} /\ task'[t] \in {task[t], NoTask, Fresh}

LEMMA OthersKeepOrClear ==
    ASSUME TypeOK, Shapes, NEW a \in Agents, NEW x \in Ids,
           StartClaim(a) \/ Start(a) \/ Step(a) \/ Crash(a),
           OpenTask(a) \/ FillTask(a) => x # cur[a]
    PROVE  KeepsOrClears(x)
  <1>1. CASE ReadOne(a)
    BY <1>1 DEF TypeOK, KeepsOrClears, ReadOne, files, past
  <1>2. CASE LinkBoth(a)
    BY <1>2 DEF TypeOK, KeepsOrClears, LinkBoth, Listed, files, past, Updates
  <1>3. CASE Cascade(a)
    BY <1>3 DEF TypeOK, KeepsOrClears, Cascade, Listed, files, past, Updates
  <1>4. CASE TakeBack(a)
    BY <1>4 DEF TypeOK, KeepsOrClears, TakeBack, Listed, files, past, Updates
  <1>5. CASE AllDone(a)
    BY <1>5 DEF TypeOK, KeepsOrClears, AllDone, Listed, files, past
  <1>6. CASE LockTask(a)
    BY <1>6 DEF TypeOK, KeepsOrClears, LockTask, files, past
  <1>7. CASE SkipTask(a)
    BY <1>7 DEF TypeOK, KeepsOrClears, SkipTask, files, past
  <1>8. CASE Finish(a)
    BY <1>8 DEF TypeOK, KeepsOrClears, Finish, files, past
  <1>9. CASE LockFails(a)
    BY <1>9 DEF TypeOK, KeepsOrClears, LockFails, files, past
  <1>10. CASE CheckOwner(a)
    BY <1>10 DEF TypeOK, KeepsOrClears, CheckOwner, files, past
  <1>11. CASE Blocked(a)
    BY <1>11 DEF TypeOK, KeepsOrClears, Blocked, files, past
  <1>12. CASE ReadTask(a)
    BY <1>12 DEF TypeOK, KeepsOrClears, ReadTask, files, past
  <1>13. CASE LockList(a)
    BY <1>13 DEF TypeOK, KeepsOrClears, LockList, files, past
  <1>14. CASE ScanDir(a)
    BY <1>14 DEF TypeOK, KeepsOrClears, ScanDir, files, past
  <1>15. CASE ScanMark(a)
    BY <1>15 DEF TypeOK, KeepsOrClears, ScanMark, files, past
  <1>16. CASE OpenNew(a)
    BY <1>16 DEF TypeOK, KeepsOrClears, OpenNew, Empties
  <1>17. CASE FillNew(a)
    BY <1>17 DEF TypeOK, KeepsOrClears, FillNew, Fills, Fresh
  <1>18. CASE NoMoreIds(a)
    BY <1>18 DEF TypeOK, KeepsOrClears, NoMoreIds, files, past
  <1>19. CASE ReadMark(a)
    BY <1>19 DEF TypeOK, KeepsOrClears, ReadMark, files, past
  <1>20. CASE OpenMark(a)
    BY <1>20 DEF TypeOK, KeepsOrClears, OpenMark, past
  <1>21. CASE FillMark(a)
    BY <1>21 DEF TypeOK, KeepsOrClears, FillMark, past
  <1>22. CASE UnlinkTask(a)
    BY <1>22 DEF TypeOK, KeepsOrClears, UnlinkTask, Unlinks
  <1>23. CASE AlreadyGone(a)
    BY <1>23 DEF TypeOK, KeepsOrClears, AlreadyGone, files, past
  <1>24. CASE ClearList(a)
    BY <1>24 DEF TypeOK, KeepsOrClears, ClearList, files, past
  <1>25. CASE SweepOne(a)
    BY <1>25 DEF TypeOK, KeepsOrClears, SweepOne, Unlinks
  <1>26. CASE UnlockList(a)
    BY <1>26 DEF TypeOK, KeepsOrClears, UnlockList, files, past
  <1>27. CASE StartClaim(a)
    BY <1>27 DEF TypeOK, KeepsOrClears, StartClaim, files, past
  <1>28. CASE \E c \in Calls : StartList(a, c)
    BY <1>28 DEF TypeOK, KeepsOrClears, StartList, files, past, Starts
  <1>29. CASE \E c \in Calls, t \in Ids, b \in Agents \cup {None} : StartUpdate(a, c, t, b)
    BY <1>29 DEF TypeOK, KeepsOrClears, StartUpdate, files, past, Starts
  <1>30. CASE \E t \in Ids : StartDelete(a, t)
    BY <1>30 DEF TypeOK, KeepsOrClears, StartDelete, files, past, Starts
  <1>31. CASE \E t, u \in Ids : StartBlock(a, t, u)
    BY <1>31 DEF TypeOK, KeepsOrClears, StartBlock, files, past, Starts
  <1>32. CASE \E b \in Agents : StartUnassign(a, b)
    BY <1>32 DEF TypeOK, KeepsOrClears, StartUnassign, files, past, Starts
  <1>33. CASE Crash(a)
    BY <1>33 DEF TypeOK, KeepsOrClears, Crash, files, past
  <1>34. CASE OpenTask(a)
    <2>1. cur[a] \in Ids /\ x # cur[a]
      BY <1>34 DEF OpenTask, At, Shapes, Shape, UnderLock
    <2> QED
      BY <1>34, <2>1 DEF TypeOK, KeepsOrClears, OpenTask, Empties, past
  <1>35. CASE FillTask(a)
    <2>1. cur[a] \in Ids /\ x # cur[a]
      BY <1>35 DEF FillTask, At, Shapes, Shape, UnderLock
    <2> QED
      BY <1>35, <2>1 DEF TypeOK, KeepsOrClears, FillTask, Fills
  <1>36. CASE GiveBack(a)
    BY <1>36 DEF TypeOK, KeepsOrClears, GiveBack, files, past
  <1> QED
    BY <1>1, <1>2, <1>3, <1>4, <1>5, <1>6, <1>7, <1>8, <1>9, <1>10, <1>11, <1>12, <1>13, <1>14, <1>15, <1>16, <1>17, <1>18, <1>19, <1>20, <1>21, <1>22, <1>23, <1>24, <1>25, <1>26, <1>27, <1>28, <1>29, <1>30, <1>31, <1>32, <1>33, <1>34, <1>35, <1>36 DEF Start, Step

(* The acting agent's own claim.                                             *)
LEMMA OwnHeld ==
    ASSUME TypeOK, Shapes, Claims, NEW a \in Agents,
           StartClaim(a) \/ Start(a) \/ Step(a) \/ Crash(a)
    PROVE  Held(a)'
  <1>0. Held(a) /\ WinnerIsOwner
    BY DEF Claims
  <1>1. ASSUME LinkBoth(a)
        PROVE  at'[a] \notin Writing
    BY <1>1 DEF TypeOK, Writing, LinkBoth, Listed, Updates, Goto
  <1>2. ASSUME Cascade(a)
        PROVE  at'[a] \notin Writing
    BY <1>2 DEF TypeOK, Writing, Cascade, Listed, Updates, Goto
  <1>3. ASSUME TakeBack(a)
        PROVE  at'[a] \notin Writing
    BY <1>3 DEF TypeOK, Writing, TakeBack, Listed, Updates, Goto
  <1>4. ASSUME AllDone(a)
        PROVE  at'[a] \notin Writing
    BY <1>4 DEF TypeOK, Writing, AllDone, Listed, Goto, Over
  <1>5. ASSUME LockTask(a)
        PROVE  at'[a] \notin Writing
    BY <1>5 DEF TypeOK, Writing, LockTask, Goto
  <1>6. ASSUME SkipTask(a)
        PROVE  at'[a] \notin Writing
    BY <1>6 DEF TypeOK, Writing, SkipTask, At
  <1>7. ASSUME Finish(a)
        PROVE  at'[a] \notin Writing
    BY <1>7 DEF TypeOK, Writing, Finish, Over
  <1>8. ASSUME LockFails(a)
        PROVE  at'[a] \notin Writing
    BY <1>8 DEF TypeOK, Writing, LockFails, Over
  <1>9. ASSUME Blocked(a)
        PROVE  at'[a] \notin Writing
    BY <1>9 DEF TypeOK, Writing, Blocked, Goto, Release
  <1>10. ASSUME FillTask(a)
        PROVE  at'[a] \notin Writing
    BY <1>10 DEF TypeOK, Writing, FillTask, Goto, Release
  <1>11. ASSUME LockList(a)
        PROVE  at'[a] \notin Writing
    BY <1>11 DEF TypeOK, Writing, LockList, Goto
  <1>12. ASSUME ScanDir(a)
        PROVE  at'[a] \notin Writing
    BY <1>12 DEF TypeOK, Writing, ScanDir, Goto
  <1>13. ASSUME ScanMark(a)
        PROVE  at'[a] \notin Writing
    BY <1>13 DEF TypeOK, Writing, ScanMark, Goto
  <1>14. ASSUME OpenNew(a)
        PROVE  at'[a] \notin Writing
    BY <1>14 DEF TypeOK, Writing, OpenNew, Goto
  <1>15. ASSUME FillNew(a)
        PROVE  at'[a] \notin Writing
    BY <1>15 DEF TypeOK, Writing, FillNew, Goto, Fresh
  <1>16. ASSUME NoMoreIds(a)
        PROVE  at'[a] \notin Writing
    BY <1>16 DEF TypeOK, Writing, NoMoreIds, Goto
  <1>17. ASSUME ReadMark(a)
        PROVE  at'[a] \notin Writing
    BY <1>17 DEF TypeOK, Writing, ReadMark, Goto, AfterMark
  <1>18. ASSUME OpenMark(a)
        PROVE  at'[a] \notin Writing
    BY <1>18 DEF TypeOK, Writing, OpenMark, Goto
  <1>19. ASSUME FillMark(a)
        PROVE  at'[a] \notin Writing
    BY <1>19 DEF TypeOK, Writing, FillMark, Goto, AfterMark
  <1>20. ASSUME UnlinkTask(a)
        PROVE  at'[a] \notin Writing
    BY <1>20 DEF TypeOK, Writing, UnlinkTask, Goto
  <1>21. ASSUME AlreadyGone(a)
        PROVE  at'[a] \notin Writing
    BY <1>21 DEF TypeOK, Writing, AlreadyGone, Over
  <1>22. ASSUME ClearList(a)
        PROVE  at'[a] \notin Writing
    BY <1>22 DEF TypeOK, Writing, ClearList, Goto
  <1>23. ASSUME SweepOne(a)
        PROVE  at'[a] \notin Writing
    BY <1>23 DEF TypeOK, Writing, SweepOne, At
  <1>24. ASSUME UnlockList(a)
        PROVE  at'[a] \notin Writing
    BY <1>24 DEF TypeOK, Writing, UnlockList, Over
  <1>25. ASSUME StartClaim(a)
        PROVE  at'[a] \notin Writing
    BY <1>25 DEF TypeOK, Writing, StartClaim, Goto
  <1>26. ASSUME \E c \in Calls : StartList(a, c)
        PROVE  at'[a] \notin Writing
    BY <1>26 DEF TypeOK, Writing, StartList, Starts, Goto
  <1>27. ASSUME \E c \in Calls, t \in Ids, b \in Agents \cup {None} : StartUpdate(a, c, t, b)
        PROVE  at'[a] \notin Writing
    BY <1>27 DEF TypeOK, Writing, StartUpdate, Starts, Goto
  <1>28. ASSUME \E t \in Ids : StartDelete(a, t)
        PROVE  at'[a] \notin Writing
    BY <1>28 DEF TypeOK, Writing, StartDelete, Starts, Goto
  <1>29. ASSUME \E t, u \in Ids : StartBlock(a, t, u)
        PROVE  at'[a] \notin Writing
    BY <1>29 DEF TypeOK, Writing, StartBlock, Starts, Goto
  <1>30. ASSUME \E b \in Agents : StartUnassign(a, b)
        PROVE  at'[a] \notin Writing
    BY <1>30 DEF TypeOK, Writing, StartUnassign, Starts, Goto
  <1>31. ASSUME Crash(a)
        PROVE  at'[a] \notin Writing
    BY <1>31 DEF TypeOK, Writing, Crash, Over
  <1>32. CASE ReadOne(a)
    <2>1. UNCHANGED <<task, won, at, call, cur, got>>
      BY <1>32 DEF ReadOne, files, past
    <2> QED
      BY <1>0, <2>1 DEF Held, Writing
  <1>33. CASE CheckOwner(a)
    <2>0. cur[a] \in Ids /\ call[a] = "claim" /\ UNCHANGED <<task, won, call>>
      BY <1>33 DEF CheckOwner, At, Shapes, Shape, UnderLock, files, past
    <2>1. CASE Release(a)
      <3>1. at'[a] = "next"
        BY <2>1 DEF Release, Goto, TypeOK
      <3> QED
        BY <3>1 DEF Held, Writing
    <2>2. CASE /\ task[cur[a]].status \in {"pending", "in_progress"}
               /\ task[cur[a]].owner \in {None, a}
               /\ Goto(a, "blockers") /\ UNCHANGED <<lock, cur>>
      <3>1. at'[a] = "blockers"
        BY <2>2 DEF Goto, TypeOK
      <3>2. task[cur[a]] # NoTask
        BY <2>2 DEF NoTask
      <3>3. won[cur[a]] \subseteq {a}
        BY <1>0, <2>0, <2>2, <3>2 DEF WinnerIsOwner, TypeOK
      <3>4. task[cur[a]].status \in Unfinished
        BY <2>2 DEF Unfinished, Statuses
      <3>5. /\ cur'[a] = cur[a] /\ call'[a] = "claim"
            /\ won'[cur'[a]] = won[cur[a]] /\ task'[cur'[a]] = task[cur[a]]
        BY <2>0, <2>2
      <3> QED
        BY <3>1, <3>3, <3>4, <3>5 DEF Held, Writing
    <2> QED
      BY <1>33, <2>1, <2>2 DEF CheckOwner
  <1>34. CASE ReadTask(a)
    <2>0. cur[a] \in Ids /\ UNCHANGED <<task, won>>
      BY <1>34 DEF ReadTask, At, Shapes, Shape, UnderLock, files, past
    <2>1. CASE Release(a)
      <3>1. at'[a] = "next"
        BY <2>1 DEF Release, Goto, TypeOK
      <3> QED
        BY <3>1 DEF Held, Writing
    <2>2. CASE /\ task[cur[a]] # NoTask /\ got' = [got EXCEPT ![a] = task[cur[a]]]
               /\ Goto(a, "open") /\ UNCHANGED <<lock, cur, call, left>>
      <3>1. at'[a] = "open" /\ got'[a] = task[cur[a]]
        BY <2>2 DEF Goto, TypeOK
      <3>2. CASE call[a] = "claim"
        <4>1. at[a] = "blockers"
          BY <1>34, <3>2 DEF ReadTask, At, Shapes, Shape
        <4>2. won[cur[a]] \subseteq {a} /\ task[cur[a]].status \in Unfinished
          BY <1>0, <2>2, <3>2, <4>1 DEF Held, Writing
        <4>3. /\ cur'[a] = cur[a] /\ call'[a] = "claim" /\ won'[cur'[a]] = won[cur[a]]
              /\ got'[a].status \in Unfinished
          BY <2>0, <2>2, <3>1, <3>2, <4>2
        <4> QED
          BY <3>1, <4>2, <4>3 DEF Held, Writing
      <3>3. CASE call[a] # "claim"
        <4>1. won[cur[a]] \subseteq {task[cur[a]].owner}
          BY <1>0, <2>0, <2>2 DEF WinnerIsOwner
        <4> QED
          BY <2>0, <2>2, <3>1, <3>3, <4>1 DEF Held, Writing
      <3> QED
        BY <3>2, <3>3
    <2> QED
      BY <1>34, <2>1, <2>2 DEF ReadTask
  <1>35. CASE OpenTask(a)
    <2>1. at[a] = "open" /\ at'[a] = "fill" /\ UNCHANGED <<won, call, cur, got>>
      BY <1>35 DEF OpenTask, At, Goto, TypeOK, past
    <2> QED
      BY <1>0, <2>1 DEF Held, Writing
  <1>36. at'[a] \notin Writing => Held(a)'
    BY DEF Held, Writing
  <1>37. ASSUME GiveBack(a)
        PROVE  at'[a] \notin Writing
    BY <1>37 DEF TypeOK, Writing, GiveBack, At
  <1> QED
    BY <1>37, <1>1, <1>2, <1>3, <1>4, <1>5, <1>6, <1>7, <1>8, <1>9, <1>10, <1>11, <1>12, <1>13, <1>14, <1>15, <1>16, <1>17, <1>18, <1>19, <1>20, <1>21, <1>22, <1>23, <1>24, <1>25, <1>26, <1>27, <1>28, <1>29, <1>30, <1>31, <1>32, <1>33, <1>34, <1>35, <1>36 DEF Start, Step

(* The write of an update, the one step that gives a task away.              *)
LEMMA WriteKeepsClaims ==
    ASSUME TypeOK, Shapes, Claims, NEW a \in Agents, FillTask(a)
    PROVE  /\ cur[a] \in Ids
           /\ \A x, y \in won'[cur[a]] : x = y
           /\ task'[cur[a]] # NoTask => won'[cur[a]] \subseteq {task'[cur[a]].owner}
           /\ won'[cur[a]] \ won[cur[a]] # {} => task'[cur[a]].status \in Unfinished
  <1> DEFINE c == cur[a]
  <1>1. c \in Ids /\ at[a] = "fill" /\ got[a] \in Task
    BY DEF FillTask, At, Shapes, Shape, UnderLock
  <1>2. Held(a) /\ OneWinner /\ WinnerIsOwner
    BY DEF Claims
  <1>3. CASE opened[a] = c
    <2>1. task'[c] = Merged(a)
      BY <1>1, <1>3 DEF FillTask, Fills, TypeOK
    <2>2. CASE call[a] = "claim"
      <3>1. Sets(a) = {"owner"}
        BY <2>2 DEF Sets
      <3>2. won'[c] = won[c] \cup {a}
        BY <1>1, <1>3, <2>2, <3>1 DEF FillTask, TypeOK
      <3>3. won[c] \subseteq {a} /\ got[a].status \in Unfinished
        BY <1>1, <1>2, <2>2 DEF Held, Writing
      <3>4. Merged(a).owner = a /\ Merged(a).status = got[a].status
        BY <2>2, <3>1 DEF Merged, Owner
      <3> QED
        BY <1>1, <2>1, <3>2, <3>3, <3>4
    <2>3. CASE call[a] # "claim" /\ "owner" \in Sets(a)
      <3>1. won'[c] = {}
        BY <1>1, <1>3, <2>3 DEF FillTask, TypeOK
      <3> QED
        BY <1>1, <3>1
    <2>4. CASE call[a] # "claim" /\ "owner" \notin Sets(a)
      <3>1. won'[c] = won[c]
        BY <2>4 DEF FillTask
      <3>2. won[c] \subseteq {got[a].owner}
        BY <1>1, <1>2, <2>4 DEF Held
      <3>3. Merged(a).owner = got[a].owner
        BY <2>4 DEF Merged
      <3> QED
        BY <1>1, <2>1, <3>1, <3>2, <3>3
    <2> QED
      BY <2>2, <2>3, <2>4
  <1>4. CASE opened[a] # c
    <2>1. task'[c] = task[c] /\ won'[c] = won[c]
      BY <1>4 DEF FillTask, Fills
    <2> QED
      BY <1>1, <1>2, <2>1 DEF OneWinner, WinnerIsOwner
  <1> QED
    BY <1>3, <1>4

(* An update that writes another owner over a winner is about the owner.     *)
LEMMA WriteUnseats ==
    ASSUME TypeOK, Shapes, Claims, NEW a \in Agents, FillTask(a), NEW w \in won[cur[a]],
           task'[cur[a]] # NoTask, task'[cur[a]].owner # w
    PROVE  MayUnseat(a, cur[a])
  <1> DEFINE c == cur[a]
  <1>1. c \in Ids /\ at[a] = "fill" /\ got[a] \in Task
    BY DEF FillTask, At, Shapes, Shape, UnderLock
  <1>2. Held(a) /\ WinnerIsOwner
    BY DEF Claims
  <1>3. opened[a] = c
    BY <1>1, <1>2 DEF FillTask, Fills, WinnerIsOwner
  <1>4. task'[c] = Merged(a)
    BY <1>1, <1>3 DEF FillTask, Fills, TypeOK
  <1>5. call[a] # "claim"
    BY <1>1, <1>2, <1>4 DEF Held, Writing, Merged, Sets, Owner
  <1>6. "owner" \in Sets(a)
    BY <1>1, <1>2, <1>4, <1>5 DEF Held, Merged
  <1>7. CASE call[a] = "begin"
    BY <1>3, <1>6, <1>7 DEF MayUnseat, Sets
  <1>8. CASE call[a] \in {"assign", "release", "unassign"}
    BY <1>3, <1>8 DEF MayUnseat
  <1>9. CASE call[a] \notin {"begin", "assign", "release", "unassign"}
    BY <1>5, <1>6, <1>9 DEF Sets
  <1> QED
    BY <1>7, <1>8, <1>9

(* The other steps leave a file as it is, empty it or take it away.          *)
LEMMA OthersWriteNothing ==
    ASSUME TypeOK, Shapes, NEW a \in Agents, NEW x \in Ids,
           StartClaim(a) \/ Start(a) \/ Step(a) \/ Crash(a),
           OpenTask(a) \/ FillTask(a) => x # cur[a], ~FillNew(a)
    PROVE  task'[x] \in {task[x], NoTask}
  <1>1. CASE ReadOne(a)
    BY <1>1 DEF TypeOK, ReadOne, files, past
  <1>2. CASE LinkBoth(a)
    BY <1>2 DEF TypeOK, LinkBoth, Listed, files, past, Updates
  <1>3. CASE Cascade(a)
    BY <1>3 DEF TypeOK, Cascade, Listed, files, past, Updates
  <1>4. CASE TakeBack(a)
    BY <1>4 DEF TypeOK, TakeBack, Listed, files, past, Updates
  <1>5. CASE AllDone(a)
    BY <1>5 DEF TypeOK, AllDone, Listed, files, past
  <1>6. CASE LockTask(a)
    BY <1>6 DEF TypeOK, LockTask, files, past
  <1>7. CASE SkipTask(a)
    BY <1>7 DEF TypeOK, SkipTask, files, past
  <1>8. CASE Finish(a)
    BY <1>8 DEF TypeOK, Finish, files, past
  <1>9. CASE LockFails(a)
    BY <1>9 DEF TypeOK, LockFails, files, past
  <1>10. CASE CheckOwner(a)
    BY <1>10 DEF TypeOK, CheckOwner, files, past
  <1>11. CASE Blocked(a)
    BY <1>11 DEF TypeOK, Blocked, files, past
  <1>12. CASE ReadTask(a)
    BY <1>12 DEF TypeOK, ReadTask, files, past
  <1>13. CASE LockList(a)
    BY <1>13 DEF TypeOK, LockList, files, past
  <1>14. CASE ScanDir(a)
    BY <1>14 DEF TypeOK, ScanDir, files, past
  <1>15. CASE ScanMark(a)
    BY <1>15 DEF TypeOK, ScanMark, files, past
  <1>16. CASE OpenNew(a)
    BY <1>16 DEF TypeOK, OpenNew, Empties
  <1>18. CASE NoMoreIds(a)
    BY <1>18 DEF TypeOK, NoMoreIds, files, past
  <1>19. CASE ReadMark(a)
    BY <1>19 DEF TypeOK, ReadMark, files, past
  <1>20. CASE OpenMark(a)
    BY <1>20 DEF TypeOK, OpenMark, past
  <1>21. CASE FillMark(a)
    BY <1>21 DEF TypeOK, FillMark, past
  <1>22. CASE UnlinkTask(a)
    BY <1>22 DEF TypeOK, UnlinkTask, Unlinks
  <1>23. CASE AlreadyGone(a)
    BY <1>23 DEF TypeOK, AlreadyGone, files, past
  <1>24. CASE ClearList(a)
    BY <1>24 DEF TypeOK, ClearList, files, past
  <1>25. CASE SweepOne(a)
    BY <1>25 DEF TypeOK, SweepOne, Unlinks
  <1>26. CASE UnlockList(a)
    BY <1>26 DEF TypeOK, UnlockList, files, past
  <1>27. CASE StartClaim(a)
    BY <1>27 DEF TypeOK, StartClaim, files, past
  <1>28. CASE \E c \in Calls : StartList(a, c)
    BY <1>28 DEF TypeOK, StartList, files, past, Starts
  <1>29. CASE \E c \in Calls, t \in Ids, b \in Agents \cup {None} : StartUpdate(a, c, t, b)
    BY <1>29 DEF TypeOK, StartUpdate, files, past, Starts
  <1>30. CASE \E t \in Ids : StartDelete(a, t)
    BY <1>30 DEF TypeOK, StartDelete, files, past, Starts
  <1>31. CASE \E t, u \in Ids : StartBlock(a, t, u)
    BY <1>31 DEF TypeOK, StartBlock, files, past, Starts
  <1>32. CASE \E b \in Agents : StartUnassign(a, b)
    BY <1>32 DEF TypeOK, StartUnassign, files, past, Starts
  <1>33. CASE Crash(a)
    BY <1>33 DEF TypeOK, Crash, files, past
  <1>34. CASE OpenTask(a)
    <2>1. cur[a] \in Ids /\ x # cur[a]
      BY <1>34 DEF OpenTask, At, Shapes, Shape, UnderLock
    <2> QED
      BY <1>34, <2>1 DEF TypeOK, OpenTask, Empties, past
  <1>35. CASE FillTask(a)
    <2>1. cur[a] \in Ids /\ x # cur[a]
      BY <1>35 DEF FillTask, At, Shapes, Shape, UnderLock
    <2> QED
      BY <1>35, <2>1 DEF TypeOK, FillTask, Fills
  <1>36. CASE GiveBack(a)
    BY <1>36 DEF TypeOK, GiveBack, files, past
  <1> QED
    BY <1>1, <1>2, <1>3, <1>4, <1>5, <1>6, <1>7, <1>8, <1>9, <1>10, <1>11, <1>12, <1>13, <1>14, <1>15, <1>16, <1>18, <1>19, <1>20, <1>21, <1>22, <1>23, <1>24, <1>25, <1>26, <1>27, <1>28, <1>29, <1>30, <1>31, <1>32, <1>33, <1>34, <1>35, <1>36 DEF Start, Step

(* A task that is kept or cleared keeps its claim, too.                      *)
LEMMA KeptClaims ==
    ASSUME TypeOK, Claims, NEW t \in Ids, KeepsOrClears(t)
    PROVE  /\ \A x, y \in won'[t] : x = y
           /\ task'[t] # NoTask => won'[t] \subseteq {task'[t].owner}
           /\ won'[t] \ won[t] = {}
  BY DEF Claims, OneWinner, WinnerIsOwner, KeepsOrClears

LEMMA ClaimsStep ==
    ASSUME TypeOK, Shapes, Claims, Next
    PROVE  Claims'
  <1>1. ASSUME NEW a \in Agents, StartClaim(a) \/ Start(a) \/ Step(a) \/ Crash(a)
        PROVE  Claims'
    <2>1. ASSUME NEW t \in Ids
          PROVE  /\ \A x, y \in won'[t] : x = y
                 /\ task'[t] # NoTask => won'[t] \subseteq {task'[t].owner}
      <3>1. CASE FillTask(a) /\ t = cur[a]
        BY <3>1, WriteKeepsClaims
      <3>2. CASE OpenTask(a) /\ t = cur[a]
        <4>1. task'[t] = NoTask /\ won'[t] = won[t]
          BY <3>2 DEF OpenTask, Empties, TypeOK, past
        <4> QED
          BY <4>1 DEF Claims, OneWinner
      <3>3. CASE OpenTask(a) \/ FillTask(a) => t # cur[a]
        BY <1>1, <3>3, OthersKeepOrClear, KeptClaims
      <3> QED
        BY <3>1, <3>2, <3>3
    <2>2. ASSUME NEW b \in Agents
          PROVE  Held(b)'
      <3>1. CASE b = a
        BY <1>1, <3>1, OwnHeld
      <3>2. CASE b # a /\ at[b] \in Writing
        <4>1. Untouched(b) /\ Held(b)
          BY <1>1, <3>2, OthersUntouched DEF Claims
        <4>2. cur[b] \in Ids /\ lock[cur[b]] = b
          BY <3>2 DEF Shapes, Shape, UnderLock, Writing
        <4>3. OpenTask(a) \/ FillTask(a) => cur[b] # cur[a]
          BY <3>2, <4>2 DEF OpenTask, FillTask, At, Shapes, Shape, UnderLock
        <4>4. KeepsOrClears(cur[b])
          BY <1>1, <4>2, <4>3, OthersKeepOrClear
        <4>5. Fresh.status \in Unfinished
          BY DEF Fresh, NoTask, Unfinished, Statuses
        <4> QED
          BY <4>1, <4>4, <4>5 DEF Held, Writing, KeepsOrClears, Untouched
      <3>3. CASE b # a /\ at[b] \notin Writing
        <4>1. Untouched(b)
          BY <1>1, <3>3, OthersUntouched
        <4> QED
          BY <3>3, <4>1 DEF Held, Writing, Untouched
      <3> QED
        BY <3>1, <3>2, <3>3
    <2> QED
      BY <2>1, <2>2 DEF Claims, OneWinner, WinnerIsOwner
  <1>2. ASSUME NEW l \in Ids \cup {ListLock}, StaleLock(l)
        PROVE  Claims'
    BY <1>2 DEF StaleLock, files, mind, past, Claims, OneWinner, WinnerIsOwner, Held
  <1> QED
    BY <1>1, <1>2 DEF Next

-----------------------------------------------------------------------------
(* The specification *)

LEMMA InitIInv == Init => IInv
  <1> SUFFICES ASSUME Init PROVE IInv
    OBVIOUS
  <1>1. Fresh \in Task
    BY DEF Fresh, NoTask, Task, Statuses
  <1>2. Nothing \in [Ids -> Task \cup {NoTask}] /\ "idle" \in PCs
    BY DEF Nothing, PCs
  <1>3. 1 .. InitTasks \subseteq Ids
    BY ConstantsOK DEF Ids
  <1>4. TypeOK
    <2>1. task \in [Ids -> Task \cup {NoTask}]
      BY <1>1 DEF Init
    <2>2. given \in [Ids -> Nat]
      BY DEF Init
    <2> QED
      BY <1>2, <1>3, <2>1, <2>2 DEF Init, TypeOK
  <1>5. Shapes
    BY DEF Init, Shapes, Shape, UnderLock
  <1>6. Claims
    BY DEF Init, Claims, OneWinner, WinnerIsOwner, Held, Writing
  <1> QED
    BY <1>4, <1>5, <1>6 DEF IInv

LEMMA StepIInv == IInv /\ [Next]_vars => IInv'
  <1>1. ASSUME IInv, Next
        PROVE  IInv'
    BY <1>1, TypeStep, ShapeStep, ClaimsStep DEF IInv
  <1>2. ASSUME IInv, UNCHANGED vars
        PROVE  IInv'
    <2>1. TypeOK'
      BY <1>2 DEF IInv, TypeOK, vars, files, mind, env, past
    <2>2. Shapes'
      BY <1>2 DEF IInv, Shapes, Shape, vars, files, mind, env, past
    <2>3. Claims'
      BY <1>2 DEF IInv, Claims, OneWinner, WinnerIsOwner, Held, vars, files, mind, env, past
    <2> QED
      BY <2>1, <2>2, <2>3 DEF IInv
  <1> QED
    BY <1>1, <1>2

LEMMA AlwaysIInv == Spec => []IInv
  <1> QED
    BY InitIInv, StepIInv, PTL DEF Spec

(* The task list keeps its types, for any team and any number of tasks.      *)
THEOREM TypesHold == Spec => []TypeOK
  <1>1. IInv => TypeOK
    BY DEF IInv
  <1> QED
    BY <1>1, AlwaysIInv, PTL

(* claimTask(): nobody wins a task that another agent has won and that has   *)
(* not been given away since.                                                *)
THEOREM ClaimsAreExclusive == Spec => []OneWinner
  <1>1. IInv => OneWinner
    BY DEF IInv, Claims
  <1> QED
    BY <1>1, AlwaysIInv, PTL

(* updateTask(): a won task changes hands only by a write about the owner.   *)
THEOREM WinnersOutlastUpdates == Spec => ClaimsOutlastUpdates
  <1>1. ASSUME IInv, Next
        PROVE  UnseatedByOwnerWrite
    <2> SUFFICES ASSUME NEW t \in Ids, NEW w \in won[t], task'[t] # NoTask, task'[t].owner # w
                 PROVE  \E b \in Agents : MayUnseat(b, t)
      BY DEF UnseatedByOwnerWrite
    <2>0. task[t] # NoTask => task[t].owner = w
      BY <1>1 DEF IInv, Claims, WinnerIsOwner
    <2>1. ASSUME NEW a \in Agents, StartClaim(a) \/ Start(a) \/ Step(a) \/ Crash(a)
          PROVE  MayUnseat(a, t)
      <3>1. CASE FillTask(a) /\ t = cur[a]
        BY <1>1, <3>1, WriteUnseats DEF IInv
      <3>2. CASE OpenTask(a) /\ t = cur[a]
        <4>1. task'[t] = NoTask
          BY <1>1, <3>2 DEF OpenTask, Empties, IInv, TypeOK
        <4> QED
          BY <4>1
      <3>3. CASE FillNew(a)
        BY <1>1, <2>0, <3>3 DEF FillNew, Fills, At, MayUnseat, IInv, TypeOK
      <3>4. CASE (OpenTask(a) \/ FillTask(a) => t # cur[a]) /\ ~FillNew(a)
        <4>1. task'[t] \in {task[t], NoTask}
          BY <1>1, <2>1, <3>4, OthersWriteNothing DEF IInv
        <4> QED
          BY <2>0, <4>1
      <3> QED
        BY <3>1, <3>2, <3>3, <3>4
    <2>2. ASSUME NEW l \in Ids \cup {ListLock}, StaleLock(l)
          PROVE  FALSE
      BY <2>0, <2>2 DEF StaleLock, files
    <2> QED
      BY <1>1, <2>1, <2>2 DEF Next
  <1>2. IInv /\ [Next]_vars => [UnseatedByOwnerWrite]_vars
    BY <1>1
  <1> QED
    BY <1>2, AlwaysIInv, PTL DEF Spec, ClaimsOutlastUpdates

(* claimTask(): what is won is unfinished at the moment it is won, although  *)
(* the check and the write are a directory listing apart.                    *)
THEOREM OnlyOpenTasksAreWon == Spec => NobodyWinsDoneWork
  <1> DEFINE Good == \A t \in Ids : won'[t] \ won[t] # {} => task'[t].status \in Statuses \ {"completed"}
  <1>1. ASSUME IInv, Next
        PROVE  Good
    <2>1. ASSUME NEW a \in Agents, StartClaim(a) \/ Start(a) \/ Step(a) \/ Crash(a),
                 NEW t \in Ids, won'[t] \ won[t] # {}
          PROVE  task'[t].status \in Statuses \ {"completed"}
      <3>1. CASE FillTask(a) /\ t = cur[a]
        BY <1>1, <2>1, <3>1, WriteKeepsClaims DEF IInv, Unfinished
      <3>2. CASE OpenTask(a) /\ t = cur[a]
        BY <2>1, <3>2 DEF OpenTask, past
      <3>3. CASE OpenTask(a) \/ FillTask(a) => t # cur[a]
        BY <1>1, <2>1, <3>3, OthersKeepOrClear, KeptClaims DEF IInv
      <3> QED
        BY <3>1, <3>2, <3>3
    <2>2. ASSUME NEW l \in Ids \cup {ListLock}, StaleLock(l)
          PROVE  UNCHANGED won
      BY <2>2 DEF StaleLock, past
    <2> QED
      BY <1>1, <2>1, <2>2 DEF Next
  <1>2. IInv /\ [Next]_vars => [Good]_vars
    BY <1>1
  <1> QED
    BY <1>2, AlwaysIInv, PTL DEF Spec, NobodyWinsDoneWork

-----------------------------------------------------------------------------
(* Ids *)

(* What the theorem about ids needs of an instance: nobody calls             *)
(* deleteTask(), the one call that writes the mark and takes a file away     *)
(* without the list lock.                                                    *)
NobodyDeletes == \A a \in Agents : "delete" \notin May[a]

Used(t)  == given[t] # 0
InDir(t) == \E d \in dir : t <= d

(* The places of createTask() and resetTaskList() under the list lock.       *)
UnderListLock ==
    {"scan", "scan dir", "scan mark", "highest", "new", "new fill", "unlock list",
     "mark", "open mark", "fill mark", "clear", "sweep"}
Marking == {"mark", "open mark", "fill mark"}

(* What the holder of the list lock still finds out, or has found out, about *)
(* the ids in use.                                                           *)
KnowsUsed(a, t) ==
    /\ at[a] \in {"scan mark", "mark"} => t <= high[a] \/ t <= mark
    /\ at[a] = "scan dir" => t <= high[a] \/ InDir(t)
    /\ at[a] \in {"new", "open mark", "fill mark"} => t <= high[a]
    /\ at[a] \in {"clear", "sweep"} => t <= mark

IdShape(a) ==
    /\ at[a] \in UnderListLock => lock[ListLock] = a
    /\ at[a] \in UnderLock => Used(cur[a])
    /\ call[a] # "delete"
    /\ at[a] \in {"idle", "list", "listlock", "highest"} => high[a] = 0
    /\ at[a] = "new fill" => id[a] \in dir /\ ~Used(id[a])
    /\ at[a] \in Marking => high[a] \in dir
    /\ \A t \in Ids : Used(t) => KnowsUsed(a, t)

(* The inductive invariant: an id that was given is never above both the     *)
(* mark and every file, not even while the mark is empty.                    *)
IdInv ==
    /\ UniqueIds
    /\ \A a \in Agents : IdShape(a)
    /\ \A t \in Ids : /\ Used(t) => t <= mark \/ InDir(t)
                      /\ task[t] # NoTask => Used(t)

(* The steps that write a task file or take one away, *)
Writes(a) ==
    OpenTask(a) \/ FillTask(a) \/ OpenNew(a) \/ FillNew(a) \/ UnlinkTask(a) \/ SweepOne(a)

(* and those that touch the directory, the mark or the ids given.            *)
Recorder(a) ==
    \/ Writes(a) \/ OpenMark(a) \/ FillMark(a)

LEMMA RecordsStay ==
    ASSUME NEW a \in Agents, StartClaim(a) \/ Start(a) \/ Step(a) \/ Crash(a), ~Recorder(a)
    PROVE  UNCHANGED <<dir, task, mark, given>>
  <1>1. CASE ReadOne(a)
    BY <1>1 DEF ReadOne, files, past
  <1>2. CASE LinkBoth(a)
    BY <1>2 DEF Listed, Updates, LinkBoth, files, past
  <1>3. CASE Cascade(a)
    BY <1>3 DEF Listed, Updates, Cascade, files, past
  <1>4. CASE TakeBack(a)
    BY <1>4 DEF Listed, Updates, TakeBack, files, past
  <1>5. CASE AllDone(a)
    BY <1>5 DEF AllDone, files, past
  <1>6. CASE LockTask(a)
    BY <1>6 DEF LockTask, files, past
  <1>7. CASE SkipTask(a)
    BY <1>7 DEF SkipTask, files, past
  <1>8. CASE Finish(a)
    BY <1>8 DEF Finish, files, past
  <1>9. CASE GiveBack(a)
    BY <1>9 DEF GiveBack, files, past
  <1>10. CASE LockFails(a)
    BY <1>10 DEF LockFails, files, past
  <1>11. CASE CheckOwner(a)
    BY <1>11 DEF CheckOwner, files, past
  <1>12. CASE Blocked(a)
    BY <1>12 DEF Blocked, files, past
  <1>13. CASE ReadTask(a)
    BY <1>13 DEF ReadTask, files, past
  <1>14. CASE NoMoreIds(a)
    BY <1>14 DEF NoMoreIds, files, past
  <1>15. CASE AlreadyGone(a)
    BY <1>15 DEF AlreadyGone, files, past
  <1>16. CASE UnlockList(a)
    BY <1>16 DEF UnlockList, files, past
  <1>17. CASE StartClaim(a)
    BY <1>17 DEF StartClaim, files, past
  <1>18. CASE LockList(a)
    BY <1>18 DEF LockList, files, past
  <1>19. CASE ScanDir(a)
    BY <1>19 DEF ScanDir, files, past
  <1>20. CASE ScanMark(a)
    BY <1>20 DEF ScanMark, files, past
  <1>21. CASE ReadMark(a)
    BY <1>21 DEF ReadMark, files, past
  <1>22. CASE ClearList(a)
    BY <1>22 DEF ClearList, files, past
  <1>23. CASE \E c \in Calls : StartList(a, c)
    BY <1>23 DEF StartList, Starts, files, past
  <1>24. CASE \E c \in Calls, t \in Ids, b \in Agents \cup {None} : StartUpdate(a, c, t, b)
    BY <1>24 DEF StartUpdate, Starts, files, past
  <1>25. CASE \E t \in Ids : StartDelete(a, t)
    BY <1>25 DEF StartDelete, Starts, files, past
  <1>26. CASE \E t, u \in Ids : StartBlock(a, t, u)
    BY <1>26 DEF StartBlock, Starts, files, past
  <1>27. CASE \E b \in Agents : StartUnassign(a, b)
    BY <1>27 DEF StartUnassign, Starts, files, past
  <1>28. CASE Crash(a)
    BY <1>28 DEF Crash, files, past
  <1> QED
    BY <1>1, <1>2, <1>3, <1>4, <1>5, <1>6, <1>7, <1>8, <1>9, <1>10, <1>11, <1>12, <1>13, <1>14, <1>15, <1>16, <1>17, <1>18, <1>19, <1>20, <1>21, <1>22, <1>23, <1>24, <1>25, <1>26, <1>27, <1>28 DEF Start, Step, Writes, Recorder

(* The steps that leave the list lock and what is known under it alone.      *)
Listing(a) == LockList(a) \/ ScanDir(a) \/ ScanMark(a) \/ ReadMark(a) \/ ClearList(a)

Quiet(a) ==
    /\ at'[a] \in UnderListLock => at'[a] = "unlock list" /\ lock'[ListLock] = a
    /\ at'[a] \in UnderLock => Used(cur'[a])
    /\ call'[a] # "delete"
    /\ at'[a] \in {"idle", "list", "listlock"} => high'[a] = 0

LEMMA QuietIds ==
    ASSUME TypeOK, IdInv, NobodyDeletes, NEW a \in Agents,
           StartClaim(a) \/ Start(a) \/ Step(a) \/ Crash(a), ~Recorder(a), ~Listing(a)
    PROVE  IdShape(a)'
  <1> DEFINE Mine == IdShape(a) /\ "delete" \notin May[a] /\ \A t \in Ids : task[t] # NoTask => Used(t)
  <1> SUFFICES Quiet(a)
    BY RecordsStay DEF Quiet, IdShape, Used, InDir, UnderListLock, Marking, KnowsUsed, IdInv
  <1>0. Mine
    BY DEF IdInv, NobodyDeletes
  <1> HIDE DEF Mine
  <1>1. CASE ReadOne(a)
    BY <1>1, <1>0 DEF Mine, Quiet, IdShape, UnderListLock, UnderLock, TypeOK, ReadOne, At, files, mind, env, past
  <1>2. CASE LinkBoth(a)
    BY <1>2, <1>0 DEF Mine, Quiet, IdShape, UnderListLock, UnderLock, TypeOK, LinkBoth, Listed, Updates, At, Goto, files, mind, env, past
  <1>3. CASE Cascade(a)
    BY <1>3, <1>0 DEF Mine, Quiet, IdShape, UnderListLock, UnderLock, TypeOK, Cascade, Listed, Updates, At, Goto, files, mind, env, past
  <1>4. CASE TakeBack(a)
    BY <1>4, <1>0 DEF Mine, Quiet, IdShape, UnderListLock, UnderLock, TypeOK, TakeBack, Listed, Updates, At, Goto, files, mind, env, past
  <1>5. CASE AllDone(a)
    <2>1. at'[a] \in {"idle", "listlock"} /\ high[a] = 0
      BY <1>5, <1>0 DEF Mine, IdShape, AllDone, Listed, At, Over, Goto, TypeOK
    <2>2. call'[a] = "none" \/ call' = call
      BY <1>5 DEF AllDone, Over, TypeOK
    <2>3. high'[a] = 0 \/ high' = high
      BY <1>5 DEF AllDone, Over, TypeOK
    <2> QED
      BY <1>0, <2>1, <2>2, <2>3 DEF Mine, IdShape, Quiet, UnderLock, UnderListLock
  <1>6. CASE LockTask(a)
    BY <1>6, <1>0 DEF Mine, Quiet, IdShape, UnderListLock, UnderLock, TypeOK, LockTask, At, Goto, Takes, files, mind, env, past
  <1>7. CASE SkipTask(a)
    BY <1>7, <1>0 DEF Mine, Quiet, IdShape, UnderListLock, UnderLock, TypeOK, SkipTask, At, files, mind, env, past
  <1>8. CASE Finish(a)
    BY <1>8, <1>0 DEF Mine, Quiet, IdShape, UnderListLock, UnderLock, TypeOK, Finish, At, Over, files, mind, env, past
  <1>9. CASE GiveBack(a)
    BY <1>9, <1>0 DEF Mine, Quiet, IdShape, UnderListLock, UnderLock, TypeOK, GiveBack, At, files, mind, env, past
  <1>10. CASE LockFails(a)
    BY <1>10, <1>0 DEF Mine, Quiet, IdShape, UnderListLock, UnderLock, TypeOK, LockFails, At, Over, files, mind, env, past
  <1>11. CASE CheckOwner(a)
    <2>1. at[a] = "check" /\ UNCHANGED <<call, high, given>>
      BY <1>11 DEF CheckOwner, At, past
    <2>2. \/ Release(a)
          \/ Goto(a, "blockers") /\ UNCHANGED <<lock, cur>>
      BY <1>11 DEF CheckOwner
    <2>3. Release(a) => at'[a] = "next"
      BY DEF Release, Goto, TypeOK
    <2>4. Goto(a, "blockers") => at'[a] = "blockers"
      BY DEF Goto, TypeOK
    <2> QED
      BY <1>0, <2>1, <2>2, <2>3, <2>4 DEF Mine, IdShape, Quiet, UnderLock, UnderListLock
  <1>12. CASE Blocked(a)
    BY <1>12, <1>0 DEF Mine, Quiet, IdShape, UnderListLock, UnderLock, TypeOK, Blocked, At, Goto, Release, files, mind, env, past
  <1>13. CASE ReadTask(a)
    <2>1. at[a] \in {"read", "blockers"} /\ UNCHANGED <<high, given>>
      BY <1>13 DEF ReadTask, At, past
    <2>2. \/ Release(a) /\ AfterClaim(a)
          \/ Goto(a, "open") /\ UNCHANGED <<lock, cur, call, left>>
      BY <1>13 DEF ReadTask
    <2>3. Release(a) => at'[a] = "next"
      BY DEF Release, Goto, TypeOK
    <2>4. Goto(a, "open") => at'[a] = "open"
      BY DEF Goto, TypeOK
    <2>5. call'[a] = "start" \/ call' = call
      BY <2>2 DEF AfterClaim, TypeOK
    <2> QED
      BY <1>0, <2>1, <2>2, <2>3, <2>5, <2>4 DEF Mine, IdShape, Quiet, UnderLock, UnderListLock
  <1>14. CASE NoMoreIds(a)
    BY <1>14, <1>0 DEF Mine, Quiet, IdShape, UnderListLock, UnderLock, TypeOK, NoMoreIds, At, Goto, files, mind, env, past
  <1>15. CASE AlreadyGone(a)
    BY <1>15, <1>0 DEF Mine, Quiet, IdShape, UnderListLock, UnderLock, TypeOK, AlreadyGone, At, Over, files, mind, env, past
  <1>16. CASE UnlockList(a)
    BY <1>16, <1>0 DEF Mine, Quiet, IdShape, UnderListLock, UnderLock, TypeOK, UnlockList, At, Over, files, mind, env, past
  <1>17. CASE StartClaim(a)
    BY <1>17, <1>0 DEF Mine, Quiet, IdShape, UnderListLock, UnderLock, TypeOK, StartClaim, At, Goto, files, mind, env, past
  <1>18. CASE \E c \in Calls : StartList(a, c)
    <2>1. PICK c \in {"create", "reset"} : StartList(a, c) /\ Starts(a, c)
      BY <1>18 DEF StartList
    <2>2. at[a] = "idle" /\ call'[a] = c /\ UNCHANGED high
      BY <2>1 DEF StartList, Starts, At, TypeOK
    <2>3. at'[a] \in {"listlock", "list"}
      BY <2>1 DEF StartList, Goto, TypeOK
    <2> QED
      BY <1>0, <2>1, <2>2, <2>3 DEF Mine, IdShape, Quiet, UnderLock, UnderListLock
  <1>19. CASE \E c \in Calls, t \in Ids, b \in Agents \cup {None} : StartUpdate(a, c, t, b)
    BY <1>19, <1>0 DEF Mine, Quiet, IdShape, UnderListLock, UnderLock, TypeOK, StartUpdate, Starts, At, Goto, files, past
  <1>20. CASE \E t \in Ids : StartDelete(a, t)
    BY <1>20, <1>0 DEF Mine, Quiet, IdShape, UnderListLock, UnderLock, TypeOK, StartDelete, Starts, At, Goto, files, past
  <1>21. CASE \E t, u \in Ids : StartBlock(a, t, u)
    BY <1>21, <1>0 DEF Mine, Quiet, IdShape, UnderListLock, UnderLock, TypeOK, StartBlock, Starts, Lists, At, Goto, files, past
  <1>22. CASE \E b \in Agents : StartUnassign(a, b)
    BY <1>22, <1>0 DEF Mine, Quiet, IdShape, UnderListLock, UnderLock, TypeOK, StartUnassign, Starts, Lists, At, Goto, files, past
  <1>23. CASE Crash(a)
    BY <1>23, <1>0 DEF Mine, Quiet, IdShape, UnderListLock, UnderLock, TypeOK, Crash, Over, files, past
  <1> QED
    BY <1>1, <1>2, <1>3, <1>4, <1>5, <1>6, <1>7, <1>8, <1>9, <1>10, <1>11, <1>12, <1>13, <1>14, <1>15, <1>16, <1>17, <1>18, <1>19, <1>20, <1>21, <1>22, <1>23 DEF Start, Step, Writes, Recorder, Listing
(* The numbers are numbers. *)
LEMMA Numbers ==
    ASSUME TypeOK, NEW a \in Agents
    PROVE  /\ mark \in Nat /\ high[a] \in Nat
           /\ \A d \in dir : d \in Nat /\ d # 0
           /\ \A t \in Ids : t \in Nat /\ given[t] \in Nat
  <1>1. /\ mark \in Ids \cup {0} /\ high[a] \in Ids \cup {0} /\ dir \subseteq Ids
        /\ \A t \in Ids : given[t] \in Nat
    BY DEF TypeOK
  <1>2. \A t : t \in Ids => t \in Nat /\ t # 0
    BY DEF Ids
  <1>3. \A t : t \in Ids \cup {0} => t \in Nat
    BY <1>2
  <1> QED
    BY <1>1, <1>2, <1>3, Zenon

(* The steps that read or write the list as a whole.                         *)
LEMMA RecorderIds ==
    ASSUME TypeOK, Shapes, IdInv, NEW a \in Agents, Recorder(a) \/ Listing(a)
    PROVE  IdShape(a)'
  <1>0. /\ Shape(a) /\ IdShape(a)
        /\ mark \in Nat /\ high[a] \in Nat
        /\ \A d \in dir : d \in Nat /\ d # 0
        /\ \A t \in Ids : t \in Nat /\ (Used(t) => t <= mark \/ InDir(t))
    BY Numbers DEF Shapes, IdInv
  <1>1. CASE OpenTask(a)
    <2>1. /\ at[a] = "open" /\ at'[a] = "fill"
          /\ UNCHANGED <<call, cur, high, given>>
      BY <1>1 DEF OpenTask, At, Goto, past, TypeOK
    <2> QED
      BY <1>0, <2>1 DEF IdShape, UnderLock, UnderListLock, Marking, KnowsUsed, Used
  <1>2. CASE FillTask(a)
    <2>1. at'[a] = "next" /\ (call'[a] = "start" \/ call' = call)
      BY <1>2 DEF FillTask, Release, Goto, AfterClaim, TypeOK
    <2> QED
      BY <1>0, <2>1 DEF IdShape, UnderLock, UnderListLock, Marking, KnowsUsed
  <1>3. CASE OpenNew(a)
    <2>1. /\ at[a] = "new" /\ at'[a] = "new fill" /\ id'[a] = high[a] + 1
          /\ high[a] + 1 \in dir'
          /\ UNCHANGED <<lock, call, given>>
      BY <1>3 DEF OpenNew, Empties, At, Goto, TypeOK
    <2>2. high[a] + 1 \in Ids
      <3>1. high[a] < MaxId
        BY <1>3 DEF OpenNew
      <3>2. high[a] \in Nat
        BY Numbers
      <3> QED
        BY <3>1, <3>2, ConstantsOK DEF Ids
    <2>3. \A t \in Ids : Used(t) => t <= high[a]
      BY <1>0, <2>1 DEF IdShape, KnowsUsed
    <2>4. ~Used(high[a] + 1)
      BY <1>0, <2>2, <2>3
    <2> QED
      BY <1>0, <2>1, <2>4 DEF IdShape, UnderLock, UnderListLock, Marking, KnowsUsed, Used
  <1>4. CASE FillNew(a)
    <2>1. /\ at[a] = "new fill" /\ at'[a] = "unlock list" /\ UNCHANGED <<lock, call>>
      BY <1>4 DEF FillNew, At, Goto, TypeOK
    <2> QED
      BY <1>0, <2>1 DEF IdShape, UnderLock, UnderListLock, Marking, KnowsUsed
  <1>5. ~UnlinkTask(a)
    BY <1>0 DEF UnlinkTask, At, Shape, IdShape
  <1>6. CASE SweepOne(a)
    <2>1. /\ at[a] = "sweep" /\ UNCHANGED <<at, lock, call, mark, given>>
      BY <1>6 DEF SweepOne, Unlinks, At
    <2> QED
      BY <1>0, <2>1 DEF IdShape, UnderLock, UnderListLock, Marking, KnowsUsed, Used
  <1>7. CASE OpenMark(a)
    <2>1. /\ at[a] = "open mark" /\ at'[a] = "fill mark"
          /\ UNCHANGED <<dir, lock, call, high, given>>
      BY <1>7 DEF OpenMark, At, Goto, past, TypeOK
    <2> QED
      BY <1>0, <2>1 DEF IdShape, UnderLock, UnderListLock, Marking, KnowsUsed, Used
  <1>8. CASE FillMark(a)
    <2>1. /\ at[a] = "fill mark" /\ at'[a] = "clear" /\ mark' = high[a]
          /\ UNCHANGED <<lock, call, given>>
      BY <1>0, <1>8 DEF FillMark, AfterMark, At, Goto, past, IdShape, TypeOK
    <2> QED
      BY <1>0, <2>1 DEF IdShape, UnderLock, UnderListLock, Marking, KnowsUsed, Used
  <1>9. CASE LockList(a)
    <2>1. /\ at[a] = "listlock" /\ at'[a] \in {"scan", "highest"} /\ lock'[ListLock] = a
          /\ UNCHANGED <<call, high>>
      BY <1>9 DEF LockList, Takes, At, Goto, TypeOK
    <2> QED
      BY <1>0, <2>1 DEF IdShape, UnderLock, UnderListLock, Marking, KnowsUsed
  <1>10. CASE ScanDir(a)
    <2>1. PICK h \in {high[a]} \cup dir :
              /\ \A d \in {high[a]} \cup dir : d <= h
              /\ high' = [high EXCEPT ![a] = h]
      BY <1>10 DEF ScanDir
    <2>2. high'[a] = h
      BY <2>1 DEF TypeOK
    <2>3. /\ at[a] \in {"scan", "scan dir", "highest"}
          /\ UNCHANGED <<dir, mark, lock, call, given>>
          /\ high'[a] \in {high[a]} \cup dir /\ \A d \in {high[a]} \cup dir : d <= high'[a]
      BY <1>10, <2>1, <2>2 DEF ScanDir, At, files, past
    <2>4. \A t \in Ids : InDir(t) => t <= high'[a]
      <3>1. \A d \in dir : d \in Nat /\ d <= high'[a]
        BY <1>0, <2>3, Zenon
      <3>2. high'[a] \in Nat
        BY <1>0, <2>3, Zenon
      <3> QED
        BY <3>1, <3>2, Numbers DEF InDir
    <2>5. \A t \in Ids : Used(t) => t <= high'[a] \/ t <= mark
      BY <1>0, <2>4, Zenon
    <2>6. CASE at[a] = "scan"
      <3>1. at'[a] = "scan mark"
        BY <1>10, <2>6 DEF ScanDir, Goto, TypeOK
      <3> QED
        BY <1>0, <2>3, <2>6, <2>5, <3>1 DEF IdShape, UnderLock, UnderListLock, Marking, KnowsUsed, Used
    <2>7. CASE at[a] = "scan dir"
      <3>1. at'[a] = "new"
        BY <1>10, <2>7 DEF ScanDir, Goto, TypeOK
      <3>2. high[a] \in Nat /\ high'[a] \in Nat /\ high[a] <= high'[a]
        BY <1>0, <2>3, Zenon
      <3>3. \A t \in Ids : Used(t) => t <= high[a] \/ InDir(t)
        BY <1>0, <2>7, Zenon DEF IdShape, KnowsUsed
      <3>4. \A t \in Ids : Used(t) => t <= high'[a]
        BY <2>4, <3>2, <3>3, Numbers
      <3> QED
        BY <1>0, <2>3, <2>7, <3>1, <3>4 DEF IdShape, UnderLock, UnderListLock, Marking, KnowsUsed, Used
    <2>8. CASE at[a] = "highest"
      <3>1. at'[a] = IF dir = {} THEN "clear" ELSE "mark"
        BY <1>10, <2>8 DEF ScanDir, Goto, TypeOK
      <3>2. dir = {} => \A t \in Ids : Used(t) => t <= mark
        BY <1>0 DEF InDir
      <3>3. dir # {} => high'[a] \in dir
        BY <1>0, <2>3, <2>8 DEF IdShape
      <3> QED
        BY <1>0, <2>3, <2>8, <2>5, <3>1, <3>2, <3>3
           DEF IdShape, UnderLock, UnderListLock, Marking, KnowsUsed, Used
    <2> QED
      BY <2>3, <2>6, <2>7, <2>8
  <1>11. CASE ScanMark(a)
    <2>1. /\ at[a] \in {"scan", "scan mark"}
          /\ UNCHANGED <<dir, mark, lock, call, given>>
          /\ high'[a] = IF high[a] < mark THEN mark ELSE high[a]
          /\ at'[a] = IF at[a] = "scan" THEN "scan dir" ELSE "new"
      BY <1>11 DEF ScanMark, At, Goto, files, past, TypeOK
    <2>2. high'[a] = IF high[a] < mark THEN mark ELSE high[a]
      BY <2>1
    <2>3. \A t \in Ids : t <= high[a] \/ t <= mark => t <= high'[a]
      BY <2>2, Numbers
    <2>4. \A t \in Ids : Used(t) => t <= high'[a] \/ InDir(t)
      BY <1>0, <2>3, Zenon
    <2>5. at[a] = "scan mark" => \A t \in Ids : Used(t) => t <= high'[a]
      BY <1>0, <2>3, Zenon DEF IdShape, KnowsUsed
    <2> QED
      BY <1>0, <2>1, <2>4, <2>5 DEF IdShape, UnderLock, UnderListLock, Marking, KnowsUsed, Used, InDir
  <1>12. CASE ReadMark(a)
    <2>1. /\ at[a] = "mark" /\ at'[a] = IF high[a] > mark THEN "open mark" ELSE "clear"
          /\ UNCHANGED <<dir, mark, lock, call, high, given>>
      BY <1>0, <1>12 DEF ReadMark, AfterMark, At, Goto, files, past, IdShape, TypeOK
    <2>2. \A t \in Ids : Used(t) => t <= high[a] \/ t <= mark
      BY <1>0, <2>1, Zenon DEF IdShape, KnowsUsed
    <2>3. IF high[a] > mark THEN \A t \in Ids : Used(t) => t <= high[a]
                            ELSE \A t \in Ids : Used(t) => t <= mark
      BY <2>2, Numbers
    <2> QED
      BY <1>0, <2>1, <2>3 DEF IdShape, UnderLock, UnderListLock, Marking, KnowsUsed, Used
  <1>13. CASE ClearList(a)
    <2>1. /\ at[a] = "clear" /\ at'[a] = "sweep"
          /\ UNCHANGED <<mark, lock, call, given>>
      BY <1>13 DEF ClearList, At, Goto, files, past, TypeOK
    <2> QED
      BY <1>0, <2>1 DEF IdShape, UnderLock, UnderListLock, Marking, KnowsUsed, Used
  <1> QED
    BY <1>1, <1>2, <1>3, <1>4, <1>5, <1>6, <1>7, <1>8, <1>9, <1>10, <1>11, <1>12, <1>13
       DEF Recorder, Writes, Listing

(* Whoever does not hold the list lock writes no mark, gives no id and takes *)
(* no file away; and ids are given for good.                                 *)
LEMMA OthersAreMild ==
    ASSUME TypeOK, Shapes, IdInv, NEW a \in Agents,
           StartClaim(a) \/ Start(a) \/ Step(a) \/ Crash(a), at[a] \notin UnderListLock
    PROVE  dir \subseteq dir' /\ UNCHANGED <<mark, given>>
  <1>0. Shape(a) /\ IdShape(a)
    BY DEF Shapes, IdInv
  <1>1. CASE ~Recorder(a)
    BY <1>1, RecordsStay
  <1>2. CASE OpenTask(a)
    BY <1>2 DEF OpenTask, Empties, past
  <1>3. CASE FillTask(a)
    BY <1>3 DEF FillTask, Fills
  <1>4. ~(OpenNew(a) \/ FillNew(a) \/ SweepOne(a) \/ OpenMark(a) \/ FillMark(a))
    BY DEF OpenNew, FillNew, SweepOne, OpenMark, FillMark, At, UnderListLock
  <1>5. ~UnlinkTask(a)
    BY <1>0 DEF UnlinkTask, At, Shape, IdShape
  <1> QED
    BY <1>1, <1>2, <1>3, <1>4, <1>5 DEF Recorder, Writes

LEMMA GivenForGood ==
    ASSUME TypeOK, NEW a \in Agents,
           StartClaim(a) \/ Start(a) \/ Step(a) \/ Crash(a)
    PROVE  \A t \in Ids : Used(t) => Used(t)'
  <1>1. CASE FillNew(a)
    <2>1. given' = [given EXCEPT ![id[a]] = @ + 1]
      BY <1>1 DEF FillNew
    <2>2. given \in [Ids -> Nat]
      BY DEF TypeOK
    <2> QED
      BY <2>1, <2>2 DEF Used
  <1>2. CASE OpenTask(a) \/ FillTask(a) \/ OpenNew(a) \/ OpenMark(a) \/ FillMark(a)
    BY <1>2 DEF OpenTask, FillTask, OpenNew, OpenMark, FillMark, past, Used
  <1>3. CASE UnlinkTask(a) \/ SweepOne(a)
    BY <1>3 DEF UnlinkTask, SweepOne, Unlinks, Used
  <1>4. CASE ~Recorder(a)
    BY <1>4, RecordsStay DEF Used
  <1> QED
    BY <1>1, <1>2, <1>3, <1>4 DEF Recorder, Writes

LEMMA OtherIds ==
    ASSUME TypeOK, Shapes, IdInv, NEW a \in Agents, NEW b \in Agents, b # a,
           StartClaim(a) \/ Start(a) \/ Step(a) \/ Crash(a)
    PROVE  IdShape(b)'
  <1>0. Untouched(b) /\ IdShape(b) /\ IdShape(a) /\ Shape(b)
    BY OthersUntouched DEF IdInv, Shapes
  <1>1. CASE at[b] \in UnderListLock
    <2>1. lock'[ListLock] = b /\ at[a] \notin UnderListLock
      BY <1>0, <1>1 DEF IdShape, Untouched
    <2>2. dir \subseteq dir' /\ UNCHANGED <<mark, given>>
      BY <2>1, OthersAreMild
    <2>3. \A t \in Ids : Used(t)' => KnowsUsed(b, t)'
      BY <1>0, <2>2 DEF IdShape, Untouched, Used, KnowsUsed, InDir
    <2> QED
      BY <1>0, <1>1, <2>1, <2>2, <2>3
         DEF IdShape, Untouched, Used, UnderListLock, UnderLock, Marking
  <1>2. CASE at[b] \notin UnderListLock
    <2>1. at[b] \in UnderLock => given'[cur[b]] # 0
      BY <1>0, GivenForGood DEF Shape, IdShape, Used
    <2> QED
      BY <1>0, <1>2, <2>1 DEF IdShape, Untouched, Used, UnderListLock, Marking, KnowsUsed
  <1> QED
    BY <1>1, <1>2

LEMMA RecordIds ==
    ASSUME TypeOK, Shapes, IdInv, NEW a \in Agents,
           StartClaim(a) \/ Start(a) \/ Step(a) \/ Crash(a)
    PROVE  /\ UniqueIds'
           /\ \A t \in Ids : /\ Used(t)' => t <= mark' \/ InDir(t)'
                             /\ task'[t] # NoTask => Used(t)'
  <1>0. /\ Shape(a) /\ IdShape(a) /\ UniqueIds
        /\ mark \in Nat /\ high[a] \in Nat
        /\ \A t \in Ids : /\ t \in Nat /\ (Used(t) => t <= mark \/ InDir(t))
                          /\ task[t] # NoTask => Used(t)
        /\ \A d \in dir : d \in Nat
    BY Numbers DEF Shapes, IdInv
  <1>1. CASE ~Recorder(a)
    BY <1>0, <1>1, RecordsStay DEF UniqueIds, Used, InDir
  <1>2. CASE OpenTask(a) \/ OpenNew(a)
    <2>1. /\ dir \subseteq dir' /\ UNCHANGED <<mark, given>>
          /\ \A t \in Ids : task'[t] \in {task[t], NoTask}
      BY <1>2 DEF OpenTask, OpenNew, Empties, past, TypeOK
    <2> QED
      BY <1>0, <2>1 DEF UniqueIds, Used, InDir
  <1>3. CASE FillTask(a)
    <2>1. /\ UNCHANGED <<dir, mark, given>> /\ at[a] = "fill"
          /\ \A t \in Ids : task'[t] = task[t] \/ t = cur[a]
      BY <1>3 DEF FillTask, Fills, At, TypeOK
    <2>2. Used(cur[a])
      BY <1>0, <2>1 DEF IdShape, UnderLock
    <2> QED
      BY <1>0, <2>1, <2>2, Zenon DEF UniqueIds, Used, InDir
  <1>4. CASE FillNew(a)
    <2>1. /\ at[a] = "new fill" /\ UNCHANGED <<dir, mark>>
          /\ given' = [given EXCEPT ![id[a]] = @ + 1]
          /\ \A t \in Ids : task'[t] = task[t] \/ t = id[a]
      BY <1>4 DEF FillNew, Fills, At, TypeOK
    <2>2. id[a] \in Ids /\ id[a] \in dir /\ given[id[a]] = 0
      BY <1>0, <2>1 DEF Shape, IdShape, Used
    <2>3. given \in [Ids -> Nat] /\ given' = [given EXCEPT ![id[a]] = @ + 1]
      BY <2>1 DEF TypeOK
    <2>4. \A t \in Ids : given'[t] = IF t = id[a] THEN 1 ELSE given[t]
      BY <2>2, <2>3
    <2>5. id[a] \in Nat
      BY <2>2, Numbers
    <2>6. \E d \in dir' : id[a] <= d
      <3>1. id[a] <= id[a]
        BY <2>5
      <3> QED
        BY <2>1, <2>2, <3>1
    <2>7. 1 <= 1 /\ 1 # 0
      OBVIOUS
    <2>8. \A t \in Ids : t # id[a] => given'[t] = given[t] /\ task'[t] = task[t]
      BY <2>1, <2>4, Zenon
    <2>9. given'[id[a]] = 1
      BY <2>2, <2>4, Zenon
    <2>10. UniqueIds'
      BY <1>0, <2>7, <2>8, <2>9, Zenon DEF UniqueIds
    <2>11. ASSUME NEW t \in Ids
           PROVE  /\ Used(t)' => t <= mark' \/ InDir(t)'
                  /\ task'[t] # NoTask => Used(t)'
      BY <1>0, <2>1, <2>6, <2>7, <2>8, <2>9, Zenon DEF Used, InDir
    <2> QED
      BY <2>10, <2>11
  <1>5. ~UnlinkTask(a)
    BY <1>0 DEF UnlinkTask, At, Shape, IdShape
  <1>6. CASE SweepOne(a)
    <2>1. /\ at[a] = "sweep" /\ UNCHANGED <<mark, given>>
          /\ \A t \in Ids : task'[t] \in {task[t], NoTask}
      BY <1>6 DEF SweepOne, Unlinks, At, TypeOK
    <2> QED
      BY <1>0, <2>1 DEF UniqueIds, Used, IdShape, KnowsUsed
  <1>7. CASE OpenMark(a) \/ FillMark(a)
    <2>1. UNCHANGED <<dir, task, given>>
      BY <1>7 DEF OpenMark, FillMark, past
    <2>2. at[a] \in {"open mark", "fill mark"}
      BY <1>7 DEF OpenMark, FillMark, At
    <2>3. high[a] \in dir /\ \A t \in Ids : Used(t) => t <= high[a]
      BY <1>0, <2>2 DEF IdShape, Marking, KnowsUsed
    <2> QED
      BY <1>0, <2>1, <2>3 DEF UniqueIds, Used, InDir
  <1> QED
    BY <1>1, <1>2, <1>3, <1>4, <1>5, <1>6, <1>7 DEF Recorder, Writes

LEMMA IdStep ==
    ASSUME TypeOK, Shapes, IdInv, NobodyDeletes, Next
    PROVE  IdInv'
  <1>1. ASSUME NEW a \in Agents, StartClaim(a) \/ Start(a) \/ Step(a) \/ Crash(a)
        PROVE  IdInv'
    <2>1. IdShape(a)'
      BY <1>1, QuietIds, RecorderIds
    <2>2. \A b \in Agents \ {a} : IdShape(b)'
      BY <1>1, OtherIds
    <2> QED
      BY <1>1, <2>1, <2>2, RecordIds DEF IdInv
  <1>2. ASSUME NEW l \in Ids \cup {ListLock}, StaleLock(l)
        PROVE  IdInv'
    <2>1. UNCHANGED <<files, mind, given>> /\ ~alive[lock[l]]
      BY <1>2 DEF StaleLock, past
    <2>2. ASSUME NEW b \in Agents, at[b] \in UnderListLock
          PROVE  lock'[ListLock] = b
      <3>1. lock[ListLock] = b /\ alive[b]
        BY <2>2 DEF IdInv, IdShape, Shapes, Shape, UnderListLock
      <3>2. l # ListLock
        BY <2>1, <3>1
      <3> QED
        BY <1>2, <3>1, <3>2 DEF StaleLock, TypeOK
    <2> QED
      BY <2>1, <2>2 DEF IdInv, IdShape, Used, KnowsUsed, InDir, UniqueIds, files, mind
  <1> QED
    BY <1>1, <1>2 DEF Next

(* As long as no call deletes a task, no id is ever given twice, whatever    *)
(* else the agents call, with resets, crashes and stale locks: createTask()  *)
(* and resetTaskList() keep the promise between them, deleteTask() does not. *)
THEOREM IdsAreNeverReused ==
    ASSUME NobodyDeletes PROVE Spec => []UniqueIds
  <1> DEFINE Inv == TypeOK /\ Shapes /\ IdInv
  <1>1. Init => Inv
    <2>1. ASSUME Init PROVE IdInv
      <3>1. /\ dir = 1 .. InitTasks /\ mark = 0
            /\ \A t \in Ids : given[t] = IF t <= InitTasks THEN 1 ELSE 0
            /\ \A t \in Ids : task[t] = IF t <= InitTasks THEN Fresh ELSE NoTask
            /\ \A a \in Agents : at[a] = "idle" /\ call[a] = "none" /\ high[a] = 0
        BY <2>1 DEF Init
      <3>2. \A t \in Ids : t \in Nat /\ (t <= InitTasks => t \in dir)
        BY <3>1 DEF Ids
      <3>3. \A t \in Ids : t <= t
        BY <3>2
      <3>4. \A t \in Ids : Used(t) => InDir(t)
        BY <3>1, <3>2, <3>3 DEF Used, InDir
      <3>5. UniqueIds
        BY <3>1 DEF UniqueIds
      <3>6. \A t \in Ids : task[t] # NoTask => Used(t)
        BY <3>1 DEF Used
      <3>7. \A a \in Agents : IdShape(a)
        BY <3>1 DEF IdShape, KnowsUsed, UnderLock, UnderListLock, Marking
      <3> QED
        BY <3>4, <3>5, <3>6, <3>7 DEF IdInv
    <2> QED
      BY <2>1, InitIInv DEF IInv
  <1>2. Inv /\ [Next]_vars => Inv'
    <2>1. ASSUME Inv, Next PROVE Inv'
      BY <2>1, TypeStep, ShapeStep, IdStep
    <2>2. ASSUME Inv, UNCHANGED vars PROVE Inv'
      BY <2>2 DEF vars, files, mind, env, past, TypeOK, Shapes, Shape, UnderLock, IdInv,
         IdShape, UniqueIds, Used, KnowsUsed, InDir, UnderListLock, Marking
    <2> QED
      BY <2>1, <2>2
  <1>3. Inv => UniqueIds
    BY DEF IdInv
  <1> QED
    BY <1>1, <1>2, <1>3, PTL DEF Spec
=============================================================================
