------------------------ MODULE HostWorkerFileProofs ------------------------
(***************************************************************************)
(* HostWorker for any constants, continued: what its bookkeeping outside   *)
(* the table adds.  The attempts stay bounded across every kind of return  *)
(* to the queue, the owner is told the truth, a second hand-off with       *)
(* another outcome costs a crash, nobody's job is cancelled unasked, a     *)
(* workspace is rolled back only on the way to DONE, and, children that    *)
(* the workers lost sight of aside, a running job has one child and a      *)
(* worker reads the result of its own.                                     *)
(***************************************************************************)
EXTENDS HostWorkerProofs, FiniteSetTheorems

USE DEF ABSENT, QUEUED, RUNNING, PAUSED, BLOCKED, DONE, FAILED, CANCELLED

-----------------------------------------------------------------------------
(* Who makes a step, and what it may touch                                 *)

\* a step of the worker process w, or its end
Mover(w) == Worker(w) \/ Crash(w) \/ Signal(w) \/ RunnerFault(w)

\* a step of a user on job j
User(j) == Submit(j) \/ Cancel(j) \/ OwnerUnblocks(j)

\* the steps of a worker that write a row
Writer(w) ==
    \/ RecoverJob(w) \/ Register(w) \/ Leaving(w)
    \/ \E j \in Jobs : UnblockOne(w, j) \/ Claim(w, j)

LEMMA Movers ==
  ASSUME [Next]_vars
  PROVE  \/ \E w \in Workers : Mover(w)
         \/ \E c \in Children : Child(c)
         \/ \E j \in Jobs : User(j)
         \/ KeysBreak \/ KeysHeal \/ UNCHANGED vars
BY DEF Next, Environment, Mover, User

LEMMA MoverKinds ==
  ASSUME NEW w, Mover(w)
  PROVE  \/ Serve(w) \/ Inside(w) \/ Leaving(w) \/ Register(w) \/ Tell(w)
         \/ (\E c \in Children : Spawn(w, c)) \/ Crash(w) \/ Signal(w)
BY DEF Mover, Worker, RunJob, Inside, Leaving

\* While one worker moves, the others are down and stay down.
LEMMA OthersStay ==
  ASSUME IInv, OtherTypes, NEW w \in Workers, Mover(w)
  PROVE  \A v \in Workers \ {w} : pc[v] = "down" /\ pc'[v] = "down"
<1>1. pc[w] # "down" \/ Start(w)
  BY DEF Mover, Worker, Serve, RunJob, Timeout, Crash, Signal, RunnerFault, At,
     ListRunning, KillOrphan, RecoverJob, Recovered, Leave, ListBlocked,
     TooEarly, UnblockOne, Unblocked, Claim, ClaimNothing, Precheck, Gate,
     PrepareFails, Prepare, Spawn, Register, ChildGone, StopChild, KillChild,
     ReadResult, AfterStop, GiveBack, Retry, RetriesUsed, FailToBlocked,
     QueueContinuation, Continue, FailToFinal, Park, ApplyRollback, HandOff,
     FinishJob, Tell
<1>2. \A v \in Workers \ {w} : pc[v] = "down"
  <2>1. CASE pc[w] # "down"
    BY <2>1, OneUp
  <2>2. CASE Start(w)
    BY <2>2, ConstantsOK DEF Start, IInv, LockHeld
  <2>3. QED
    BY <1>1, <2>1, <2>2
<1>3. pc' = pc \/ \E step : pc' = [pc EXCEPT ![w] = step]
  <2>1. CASE Inside(w)
    BY <2>1, InsideDecides DEF Fits, Decide, Go
  <2>2. CASE Serve(w)
    BY <2>2 DEF Serve, Start, ListRunning, KillOrphan, RecoverJob, Recovered,
       Leave, ListBlocked, TooEarly, UnblockOne, Unblocked, Claim, ClaimNothing,
       Vanish, Advance, Decide, Go
  <2>3. CASE Leaving(w) \/ Register(w) \/ Tell(w) \/ \E c \in Children : Spawn(w, c)
    BY <2>3 DEF Leaving, GiveBack, Retry, Continue, Park, FinishJob, Register,
       Tell, Spawn, BackToLoop, Advance, Decide, Go
  <2>4. CASE Crash(w) \/ Signal(w)
    BY <2>4 DEF Crash, Signal, Vanish, Go
  <2>5. QED
    BY <2>1, <2>2, <2>3, <2>4 DEF Mover, Worker, RunJob, Inside, Leaving
<1>4. QED
  BY <1>2, <1>3 DEF IInv, CoreTypes

\* A worker answers no cancel and writes rows in the steps of Writer only.
LEMMA WritersWrite ==
  ASSUME IInv, OtherTypes, NEW w \in Workers, Mover(w)
  PROVE  UNCHANGED asked /\ (UNCHANGED table \/ Writer(w))
<1>1. CASE Inside(w)
  <2>1. UNCHANGED asked
    BY <1>1 DEF Inside, Precheck, Gate, PrepareFails, Prepare, ChildGone,
       StopChild, Timeout, KillChild, RunnerFault, ReadResult, AfterStop,
       RetriesUsed, FailToBlocked, QueueContinuation, FailToFinal,
       ApplyRollback, HandOff
  <2>2. QED
    BY <1>1, <2>1, InsideDecides
<1>2. CASE Serve(w)
  BY <1>2 DEF Serve, Start, ListRunning, KillOrphan, RecoverJob, Recovered,
     Leave, ListBlocked, TooEarly, UnblockOne, Unblocked, Claim, ClaimNothing,
     Writer
<1>3. CASE Leaving(w) \/ Register(w) \/ Tell(w) \/ \E c \in Children : Spawn(w, c)
  BY <1>3 DEF Leaving, GiveBack, Retry, Continue, Park, FinishJob, Register,
     Tell, Spawn, Writer
<1>4. CASE Crash(w) \/ Signal(w)
  BY <1>4 DEF Crash, Signal
<1>5. QED
  BY <1>1, <1>2, <1>3, <1>4 DEF Mover, Worker, RunJob, Inside, Leaving

\* Such a step is a transition of the table, most often on the row of cur[w].
LEMMA WriterSteps ==
  ASSUME IInv, OtherTypes, NEW w \in Workers, Writer(w)
  PROVE  /\ UNCHANGED table \/ \E j \in Jobs : RowStep(j)
         /\ RecoverJob(w) \/ Register(w) \/ Leaving(w)
               => cur[w] \in Jobs /\ RowStep(cur[w])
<1>1. CASE RecoverJob(w)
  <2>1. cur[w] \in Jobs
    BY <1>1 DEF RecoverJob, At, IInv, CoreTypes, RecoversRunning
  <2>2. (cur[w] \in seen[w]) \in BOOLEAN
    OBVIOUS
  <2>3. RowStep(cur[w])
    BY <1>1, <2>2 DEF RecoverJob, RowStep
  <2>4. QED
    BY <2>1, <2>3
<1>2. CASE Register(w)
  <2>1. cur[w] \in Jobs /\ mine[w] \in Children \cup {None}
    BY <1>2 DEF Register, At, RunSteps, IInv, PlanFits, OtherTypes
  <2>2. RowStep(cur[w])
    BY <1>2, <2>1 DEF Register, RowStep
  <2>3. QED
    BY <2>1, <2>2
<1>3. CASE Leaving(w)
  <2>1. pc[w] \in RunSteps
    BY <1>3 DEF Leaving, GiveBack, Retry, Continue, Park, FinishJob, At, RunSteps
  <2>2. /\ cur[w] \in Jobs
        /\ pc[w] = "park" => plan[w] \in Reasons
        /\ pc[w] = "finish" => plan[w] \in Final
    BY <2>1 DEF IInv, PlanFits
  <2>3. RowStep(cur[w])
    <3>1. CASE GiveBack(w) \/ Retry(w) \/ Continue(w)
      BY <3>1 DEF GiveBack, Retry, Continue, RowStep
    <3>2. CASE Park(w) \/ FinishJob(w)
      BY <2>2, <3>2 DEF Park, FinishJob, At, RowStep
    <3>3. QED
      BY <1>3, <3>1, <3>2 DEF Leaving
  <2>4. QED
    BY <2>2, <2>3
<1>4. CASE \E j \in Jobs : UnblockOne(w, j)
  <2>1. ~RecoverJob(w) /\ ~Register(w) /\ ~Leaving(w)
    BY <1>4 DEF UnblockOne, RecoverJob, Register, Leaving, GiveBack, Retry,
       Continue, Park, FinishJob, At
  <2>2. QED
    BY <1>4, <2>1 DEF UnblockOne, RowStep
<1>5. CASE \E j \in Jobs : Claim(w, j)
  <2>1. ~RecoverJob(w) /\ ~Register(w) /\ ~Leaving(w)
    BY <1>5 DEF Claim, RecoverJob, Register, Leaving, GiveBack, Retry,
       Continue, Park, FinishJob, At
  <2>2. QED
    BY <1>5, <2>1 DEF Claim, RowStep
<1>6. QED
  BY <1>1, <1>2, <1>3, <1>4, <1>5 DEF Writer

\* A row changes only by a transition or when its job is submitted, and only a
\* user's cancel moves the answer.
LEMMA TableSteps ==
  ASSUME IInv, OtherTypes, [Next]_vars
  PROVE  \/ UNCHANGED <<table, asked>>
         \/ \E j \in Jobs : (Add(j) \/ RowStep(j)) /\ UNCHANGED asked
         \/ \E j \in Jobs : CancelFirst(j) \/ CancelSecond(j)
<1>1. ASSUME NEW w \in Workers, Mover(w)
      PROVE  /\ UNCHANGED asked
             /\ UNCHANGED table \/ \E j \in Jobs : RowStep(j)
  BY <1>1, WritersWrite, WriterSteps
<1>2. CASE \E c \in Children : Child(c)
  BY <1>2 DEF Child, ChildActs, ChildFinishes, ChildDies
<1>3. CASE \E j \in Jobs : User(j)
  BY <1>3 DEF User, Submit, Cancel, OwnerUnblocks, RowStep
<1>4. CASE KeysBreak \/ KeysHeal \/ UNCHANGED vars
  BY <1>4 DEF KeysBreak, KeysHeal, vars
<1>5. QED
  BY <1>1, <1>2, <1>3, <1>4, Movers

\* What is final stays as it is.
LEMMA FinalStays ==
  ASSUME IInv, OtherTypes, [Next]_vars, NEW j \in Jobs, In(j, Final)
  PROVE  table'[j] = table[j]
<1>1. ASSUME NEW k \in Jobs, RowStep(k)
      PROVE  table'[j] = table[j]
  BY <1>1, RowStepEffect DEF IInv
<1>2. ASSUME NEW k \in Jobs, Add(k)
      PROVE  table'[j] = table[j]
  BY <1>2 DEF Add, Write, In, Final, IInv, TableInv
<1>3. ASSUME NEW k \in Jobs, CancelFirst(k) \/ CancelSecond(k)
      PROVE  RowStep(k)
  BY <1>3 DEF RowStep
<1>4. QED
  BY <1>1, <1>2, <1>3, TableSteps

LEMMA Rewritten ==
  ASSUME OtherTypes, NEW k \in Jobs, NEW files, Rewrite(k, files), NEW j \in Jobs
  PROVE  disk'[j] = IF j = k THEN files ELSE disk[j]
BY DEF OtherTypes, Rewrite

\* What a step of a worker may do to the files of a job.
LEMMA MoverFiles ==
  ASSUME IInv, OtherTypes, NEW w \in Workers, Mover(w), NEW j \in Jobs
  PROVE  /\ j # cur[w] => disk'[j] = disk[j]
         /\ QueueContinuation(w) \/ disk'[j].used = disk[j].used
         /\ ApplyRollback(w) \/ disk'[j].reverted = disk[j].reverted
         /\ \/ disk'[j].result = disk[j].result
            \/ (PrepareFails(w) \/ Prepare(w)) /\ disk'[j].result = None
<1> DEFINE d == disk[cur[w]]
<1>1. disk \in [Jobs -> Disk]
  BY DEF OtherTypes
<1>2. CASE UNCHANGED disk
  BY <1>2
<1>3. CASE PrepareFails(w) \/ Prepare(w) \/ FailToBlocked(w) \/ FailToFinal(w)
  <2>1. cur[w] \in Jobs /\ d \in Disk
    BY <1>1, <1>3 DEF PrepareFails, Prepare, FailToBlocked, FailToFinal, At,
       RunSteps, IInv, PlanFits
  <2>2. PICK files \in {[d EXCEPT !.result = None],
                        [d EXCEPT !.result = None, !.deferred = FALSE],
                        [d EXCEPT !.deferred = FALSE]} :
          /\ Rewrite(cur[w], files)
          /\ files = [d EXCEPT !.deferred = FALSE] \/ PrepareFails(w) \/ Prepare(w)
    BY <1>3 DEF PrepareFails, Prepare, CleanStart, FailToBlocked, FailToFinal, Keep
  <2>3. disk'[j] = IF j = cur[w] THEN files ELSE disk[j]
    BY <2>1, <2>2, Rewritten
  <2>4. /\ files.used = d.used /\ files.reverted = d.reverted
        /\ files.result = d.result \/ (files.result = None /\ (PrepareFails(w) \/ Prepare(w)))
    BY <2>1, <2>2 DEF Disk
  <2>5. QED
    BY <2>3, <2>4
<1>5. CASE QueueContinuation(w)
  BY <1>1, <1>5 DEF QueueContinuation, Keep, Rewrite, Disk
<1>6. CASE ApplyRollback(w)
  <2>1. cur[w] \in Jobs /\ d \in Disk
    BY <1>1, <1>6 DEF ApplyRollback, At, RunSteps, IInv, PlanFits
  <2>2. PICK kept, back \in BOOLEAN :
           Rewrite(cur[w], [d EXCEPT !.deferred = kept, !.reverted = back])
    <3>1. PICK written, settled \in BOOLEAN :
             Rewrite(cur[w], [d EXCEPT !.deferred = @ /\ ~settled,
                                       !.reverted = @ \/ (d.deferred /\ written)])
      BY <1>6 DEF ApplyRollback
    <3>2. /\ (d.deferred /\ ~settled) \in BOOLEAN
          /\ (d.reverted \/ (d.deferred /\ written)) \in BOOLEAN
      OBVIOUS
    <3>3. QED
      BY <3>1, <3>2
  <2> DEFINE files == [d EXCEPT !.deferred = kept, !.reverted = back]
  <2>3. files.used = d.used /\ files.result = d.result
    BY <2>1 DEF Disk
  <2> HIDE DEF files
  <2>4. disk'[j] = IF j = cur[w] THEN files ELSE disk[j]
    BY <2>1, <2>2, Rewritten DEF files
  <2>5. QED
    BY <1>6, <2>3, <2>4
<1>7. CASE \E c \in Children : Spawn(w, c)
  BY <1>1, <1>7 DEF Spawn, Rewrite, Disk
<1>8. CASE Serve(w) \/ Leaving(w) \/ Register(w) \/ Tell(w) \/ Crash(w) \/ Signal(w)
  <2>1. UNCHANGED disk
    BY <1>8 DEF Serve, Start, ListRunning, KillOrphan, RecoverJob, Recovered,
       Leave, ListBlocked, TooEarly, UnblockOne, Unblocked, Claim, ClaimNothing,
       Leaving, GiveBack, Retry, Continue, Park, FinishJob, Register, Tell,
       Crash, Signal, fileVars
  <2>2. QED
    BY <1>2, <2>1
<1>9. CASE \/ Precheck(w) \/ Gate(w) \/ ChildGone(w) \/ StopChild(w) \/ Timeout(w)
           \/ KillChild(w) \/ RunnerFault(w) \/ ReadResult(w) \/ AfterStop(w)
           \/ RetriesUsed(w) \/ HandOff(w)
  <2>1. UNCHANGED disk
    BY <1>9 DEF Precheck, Gate, ChildGone, StopChild, Timeout, KillChild,
       RunnerFault, ReadResult, AfterStop, RetriesUsed, HandOff, fileVars
  <2>2. QED
    BY <1>2, <2>1
<1>10. QED
  BY <1>3, <1>5, <1>6, <1>7, <1>8, <1>9
     DEF Mover, Worker, RunJob, Leaving

\* What a child may do: to the files of its own job, and to itself.
LEMMA ChildFiles ==
  ASSUME OtherTypes, NEW c \in Children, Child(c), NEW j \in Jobs
  PROVE  /\ disk'[j].used = disk[j].used
         /\ disk'[j].reverted = disk[j].reverted
         /\ \/ disk'[j].result = disk[j].result
            \/ Alive(c) /\ j = kid[c].job /\ disk'[j].result.by = c
         /\ UNCHANGED kid \/ Kill(c)
         /\ UNCHANGED <<table, asked, workerVars, handed, told, keysOk, count>>
<1>1. disk \in [Jobs -> Disk]
  BY DEF OtherTypes
<1>2. ASSUME NEW effect \in ChildEffects, ChildActs(c, effect)
      PROVE  /\ disk'[j].used = disk[j].used
             /\ disk'[j].reverted = disk[j].reverted
             /\ disk'[j].result = disk[j].result
  <2>1. kid[c].job \in Jobs
    BY <1>2 DEF ChildActs, Alive, OtherTypes, Kid
  <2> DEFINE d == disk[kid[c].job]
  <2>2. PICK files \in {[d EXCEPT !.authLog = TRUE], [d EXCEPT !.broke = TRUE],
                        [d EXCEPT !.deferred = TRUE]} : Rewrite(kid[c].job, files)
    BY <1>2 DEF ChildActs
  <2>3. disk'[j] = IF j = kid[c].job THEN files ELSE disk[j]
    BY <2>1, <2>2, Rewritten
  <2>4. /\ files.used = d.used /\ files.reverted = d.reverted
        /\ files.result = d.result
    BY <1>1, <2>1, <2>2 DEF Disk
  <2>5. QED
    BY <2>3, <2>4
<1>3. ASSUME NEW says \in ChildResults, ChildFinishes(c, says)
      PROVE  /\ disk'[j].used = disk[j].used
             /\ disk'[j].reverted = disk[j].reverted
             /\ \/ disk'[j].result = disk[j].result
                \/ Alive(c) /\ j = kid[c].job /\ disk'[j].result.by = c
  <2>1. kid[c].job \in Jobs /\ Alive(c)
    BY <1>3 DEF ChildFinishes, Alive, OtherTypes, Kid
  <2> DEFINE d == disk[kid[c].job]
             files == [d EXCEPT !.result = [by |-> c, says |-> says]]
  <2>2. d \in Disk
    BY <1>1, <2>1
  <2>3. /\ files.used = d.used /\ files.reverted = d.reverted
        /\ files.result = [by |-> c, says |-> says]
    BY <2>2 DEF Disk
  <2>4. Rewrite(kid[c].job, files)
    BY <1>3 DEF ChildFinishes
  <2> HIDE DEF files
  <2>5. disk'[j] = IF j = kid[c].job THEN files ELSE disk[j]
    BY <2>1, <2>4, Rewritten
  <2>6. QED
    BY <2>1, <2>3, <2>5
<1>4. ChildDies(c) => UNCHANGED disk
  BY DEF ChildDies, fileVars
<1>5. /\ UNCHANGED kid \/ Kill(c)
      /\ UNCHANGED <<table, asked, workerVars, handed, told, keysOk, count>>
  BY DEF Child, ChildActs, ChildFinishes, ChildDies, fileVars
<1>6. QED
  BY <1>2, <1>3, <1>4, <1>5 DEF Child

-----------------------------------------------------------------------------
(* How jobs end                                                            *)

\* A transition other than a cancel, a final write or a recovery ends no job.
LEMMA NotFinal ==
  ASSUME IInv, NEW j \in Jobs,
         \/ \E w \in Workers : ClaimNext(w, j)
         \/ \E c \in Children \cup {None} : SetChild(j, c)
         \/ \E why \in Reasons : Block(j, why)
         \/ Unblock(j)
         \/ \E refund \in BOOLEAN : Requeue(j, refund)
  PROVE  table'[j].state \notin Final
<1>1. table \in [Jobs -> Row]
  BY DEF IInv, TableInv
<1>2. CASE \E w \in Workers : ClaimNext(w, j)
  BY <1>1, <1>2 DEF ClaimNext, Write, Row, Final
<1>3. CASE \E c \in Children \cup {None} : SetChild(j, c)
  BY <1>1, <1>3 DEF SetChild, In, Write, Row, Final
<1>4. CASE \E why \in Reasons : Block(j, why)
  <2>1. PICK why \in Reasons : Block(j, why)
    BY <1>4
  <2>2. QED
    BY <1>1, <2>1 DEF Block, Write, Row, Final
<1>5. CASE Unblock(j)
  BY <1>1, <1>5 DEF Unblock, Write, Row, Final
<1>6. ASSUME NEW refund \in BOOLEAN, Requeue(j, refund)
      PROVE  table'[j].state \notin Final
  BY <1>1, <1>6 DEF Requeue, Write, Row, Final
<1>7. QED
  BY <1>2, <1>3, <1>4, <1>5, <1>6

\* Only RecoverJob and FinishJob write a row's last state, that of cur[w].
LEMMA WorkerEnds ==
  ASSUME IInv, OtherTypes, NEW w \in Workers, Mover(w), NEW j \in Jobs,
         table'[j].state \in Final, table'[j].state # table[j].state
  PROVE  /\ j = cur[w]
         /\ \/ FinishJob(w) /\ table'[j].state = plan[w]
            \/ /\ RecoverJob(w)
               /\ \/ table'[j].state = FAILED
                  \/ table'[j].state = CANCELLED /\ j \in seen[w]
<1>1. Writer(w)
  BY WritersWrite
<1>2. ASSUME RecoverJob(w) \/ Register(w) \/ Leaving(w)
      PROVE  j = cur[w]
  <2>1. cur[w] \in Jobs /\ RowStep(cur[w])
    BY <1>1, <1>2, WriterSteps
  <2>2. \A k \in Jobs \ {cur[w]} : table'[k] = table[k]
    BY <2>1, RowStepEffect DEF IInv
  <2>3. QED
    BY <2>2
<1>3. CASE RecoverJob(w)
  <2>1. j = cur[w] /\ RecoverRow(j, j \in seen[w])
    BY <1>2, <1>3 DEF RecoverJob
  <2>2. ~Requeue(j, FALSE)
    BY NotFinal
  <2>3. PICK s \in {CANCELLED, FAILED} :
          /\ Write(j, [table[j] EXCEPT !.state = s, !.child = None])
          /\ s = CANCELLED => j \in seen[w]
    BY <2>1, <2>2 DEF RecoverRow
  <2>4. table'[j].state = s
    BY <2>3 DEF Write, Row, IInv, TableInv
  <2>5. QED
    BY <1>3, <2>1, <2>3, <2>4
<1>4. CASE Register(w)
  <2>1. mine[w] \in Children \cup {None}
    BY DEF OtherTypes
  <2>2. QED
    BY <1>2, <1>4, <2>1, NotFinal DEF Register
<1>5. CASE GiveBack(w) \/ Retry(w) \/ Continue(w)
  BY <1>2, <1>5, NotFinal DEF GiveBack, Retry, Continue, Leaving
<1>6. CASE Park(w)
  <2>1. plan[w] \in Reasons
    BY <1>6 DEF Park, At, IInv, PlanFits
  <2>2. QED
    BY <1>2, <1>6, <2>1, NotFinal DEF Park, Leaving
<1>7. CASE FinishJob(w)
  <2>1. j = cur[w]
    BY <1>2, <1>7 DEF Leaving
  <2>2. table'[j].state = plan[w]
    BY <1>7, <2>1 DEF FinishJob, Finish, Write, Row, IInv, TableInv
  <2>3. QED
    BY <1>7, <2>1, <2>2
<1>8. ASSUME NEW k \in Jobs, UnblockOne(w, k) \/ Claim(w, k)
      PROVE  FALSE
  <2>1. CASE UNCHANGED table
    BY <2>1
  <2>2. CASE Unblock(k) \/ ClaimNext(w, k)
    <3>1. j = k
      BY <2>2, RowStepEffect DEF IInv, RowStep
    <3>2. QED
      BY <2>2, <3>1, NotFinal
  <2>3. QED
    BY <1>8, <2>1, <2>2 DEF UnblockOne, Claim
<1>9. QED
  BY <1>1, <1>3, <1>4, <1>5, <1>6, <1>7, <1>8 DEF Writer, Leaving

\* Users end a job only by its cancel, and the rest of the world none.
LEMMA OthersEnd ==
  ASSUME IInv, OtherTypes, [Next]_vars, ~\E w \in Workers : Mover(w), NEW j \in Jobs,
         table'[j].state \in Final, table'[j].state # table[j].state
  PROVE  CancelFirst(j) /\ table'[j].state = CANCELLED
<1>1. UNCHANGED table \/ \E k \in Jobs : User(k)
  BY Movers DEF Child, ChildActs, ChildFinishes, ChildDies, KeysBreak, KeysHeal, vars
<1>2. PICK k \in Jobs : User(k)
  BY <1>1
<1>3. table \in [Jobs -> Row]
  BY DEF IInv, TableInv
<1>4. k = j
  <2>1. RowStep(k) \/ Add(k)
    BY <1>2 DEF User, Submit, Cancel, OwnerUnblocks, RowStep
  <2>2. RowStep(k) => \A i \in Jobs \ {k} : table'[i] = table[i]
    BY RowStepEffect DEF IInv
  <2>3. Add(k) => \A i \in Jobs \ {k} : table'[i] = table[i]
    BY <1>3 DEF Add, Write
  <2>4. QED
    BY <2>1, <2>2, <2>3
<1>5. ~Submit(j)
  BY <1>3 DEF Submit, Add, Write, NoRow, Final
<1>6. ~OwnerUnblocks(j)
  BY NotFinal DEF OwnerUnblocks
<1>7. ~CancelSecond(j)
  <2>1. Write(j, [table[j] EXCEPT !.cancel = TRUE])
           => table'[j].state = table[j].state
    BY <1>3 DEF Write, Row
  <2>2. QED
    BY <2>1 DEF CancelSecond
<1>8. CancelFirst(j)
  BY <1>2, <1>4, <1>5, <1>6, <1>7 DEF User, Cancel
<1>9. Write(j, [table[j] EXCEPT !.state = CANCELLED])
  BY <1>8 DEF CancelFirst
<1>10. QED
  BY <1>3, <1>8, <1>9 DEF Write, Row

-----------------------------------------------------------------------------
(* Nobody's job is cancelled unasked                                       *)

\* A worker cancels only where the flag is up: a recovery acts on the flag it
\* saw, a run on the one that stopped it, and no flag is ever taken back.
LEMMA WorkerCancelsFlagged ==
  ASSUME IInv, OtherTypes, NEW w \in Workers, Mover(w), NEW j \in Jobs,
         table[j].state # CANCELLED, table'[j].state = CANCELLED
  PROVE  table[j].cancel
<1>1. /\ j = cur[w]
      /\ \/ FinishJob(w) /\ plan[w] = CANCELLED
         \/ RecoverJob(w) /\ j \in seen[w]
  BY WorkerEnds DEF Final
<1>2. FinishJob(w) /\ plan[w] = CANCELLED => table[j].cancel
  BY <1>1 DEF FinishJob, At, IInv, PlanFits
<1>3. RecoverJob(w) /\ j \in seen[w] => table[j].cancel
  BY <1>1 DEF RecoverJob, At, IInv, RecoversRunning, Recovering
<1>4. QED
  BY <1>1, <1>2, <1>3

\* The inductive invariant: OnlyAskedIsCancelled needs to know that a raised
\* flag is always a user's.
AskedInv == Answered /\ OnlyAskedIsCancelled

LEMMA AskedStep ==
  ASSUME IInv, OtherTypes, AskedInv, [Next]_vars
  PROVE  AskedInv'
<1>1. Answered'
  <2>1. CASE UNCHANGED <<table, asked>>
    BY <2>1 DEF AskedInv, Answered, In
  <2>2. QED
    BY <2>1, TableSteps, AnsweredStep DEF AskedInv, IInv, OtherTypes
<1>2. ASSUME NEW j \in Jobs, table'[j].state = CANCELLED
      PROVE  asked'[j] \in {"cancelled", "requested"}
  <2>1. ASSUME NEW k \in Jobs, CancelFirst(k) \/ CancelSecond(k)
        PROVE  \/ k # j /\ asked'[j] = asked[j] /\ table'[j] = table[j]
               \/ k = j /\ asked[j] \in {"not asked", "first done"}
    <3>1. k # j => table'[j] = table[j]
      BY <2>1, RowStepEffect DEF IInv, RowStep
    <3>2. k # j => asked'[j] = asked[j]
      BY <2>1 DEF CancelFirst, CancelSecond, OtherTypes
    <3>3. QED
      BY <2>1, <3>1, <3>2 DEF CancelFirst, CancelSecond
  <2>2. CASE table[j].state = CANCELLED
    <3>1. asked[j] \in {"cancelled", "requested"}
      BY <2>2 DEF AskedInv, OnlyAskedIsCancelled
    <3>2. QED
      BY <2>1, <3>1, TableSteps
  <2>3. CASE table[j].state # CANCELLED
    <3>1. ASSUME NEW w \in Workers, Mover(w)
          PROVE  asked'[j] \in {"cancelled", "requested"}
      <4>1. table[j].cancel /\ UNCHANGED asked
        BY <1>2, <2>3, <3>1, WorkerCancelsFlagged, WritersWrite
      <4>2. QED
        BY <4>1 DEF AskedInv, Answered
    <3>2. CASE ~\E w \in Workers : Mover(w)
      <4>1. CancelFirst(j) /\ ~UNCHANGED table
        BY <1>2, <2>3, <3>2, OthersEnd DEF Final
      <4>2. QED
        BY <4>1 DEF CancelFirst, OtherTypes
    <3>3. QED
      BY <3>1, <3>2
  <2>4. QED
    BY <2>2, <2>3
<1>3. QED
  BY <1>1, <1>2 DEF AskedInv, OnlyAskedIsCancelled

\* Nobody's job is cancelled unasked, whatever signals, crashes and recoveries
\* come between the request and the end of the job.
THEOREM CancelledWereAsked == Spec => []OnlyAskedIsCancelled
<1>1. Init => AskedInv
  <2> SUFFICES ASSUME Init PROVE AskedInv
    OBVIOUS
  <2>1. Answered
    BY AnsweredInit DEF Init
  <2>2. \A j \in Jobs : table[j].state = ABSENT
    BY DEF Init, TableInit, NoRow
  <2>3. QED
    BY <2>1, <2>2 DEF AskedInv, OnlyAskedIsCancelled
<1>2. IInv /\ OtherTypes /\ AskedInv /\ [Next]_vars => AskedInv'
  BY AskedStep
<1>3. AskedInv => OnlyAskedIsCancelled
  BY DEF AskedInv
<1>4. QED
  BY <1>1, <1>2, <1>3, Invariance, PTL DEF Spec

-----------------------------------------------------------------------------
(* The attempts are bounded                                                *)

\* a row's attempts against the continuations it used: a queued row has one
\* attempt left
RowFits(row, used) ==
    /\ row.attempts <= MaxAttempts + used
    /\ row.state = QUEUED => row.attempts < MaxAttempts + used

RoomLeft(j) == table[j].attempts < MaxAttempts + disk[j].used

\* The inductive invariant.  AttemptsBounded alone breaks at the next claim: it
\* takes that whoever re-queues a job left it an attempt, for a continuation by
\* writing continue.json first.
AttemptsInv ==
    /\ \A j \in Jobs : /\ disk[j].used <= MaxContinuations
                       /\ RowFits(table[j], disk[j].used)
    /\ \A w \in Workers : pc[w] = "continue" => RoomLeft(cur[w])

LEMMA RowTypes ==
  ASSUME IInv, OtherTypes, NEW j \in Jobs
  PROVE  /\ table[j] \in Row /\ table[j].attempts \in Nat
         /\ disk[j].used \in Nat /\ MaxAttempts \in Nat \ {0}
         /\ In(j, Claimed) => table[j].attempts >= 1
BY ConstantsOK DEF IInv, TableInv, ClaimsCounted, OtherTypes, Row, Disk

\* an unblock gives the attempt of the blocked run back
LEMMA UnblockFits ==
  ASSUME IInv, OtherTypes, AttemptsInv, NEW j \in Jobs, NEW k \in Jobs, Unblock(k)
  PROVE  RowFits(table'[j], disk[j].used)
<1> DEFINE row == [table[k] EXCEPT !.state = QUEUED, !.worker = None,
                                   !.attempts = Refunded(@)]
<1>1. RowFits(table[j], disk[j].used) /\ RowFits(table[k], disk[k].used)
  BY DEF AttemptsInv
<1>2. table[k].attempts >= 1
  BY RowTypes DEF Unblock, In, Claimed
<1>3. row.attempts = table[k].attempts - 1
  BY <1>2, RowTypes DEF Row, Refunded
<1>4. table' = [table EXCEPT ![k] = row] /\ table \in [Jobs -> Row]
  BY DEF Unblock, Write, IInv, TableInv
<1> HIDE DEF row
<1>5. row.attempts < MaxAttempts + disk[k].used
  BY <1>1, <1>2, <1>3, RowTypes DEF RowFits
<1>6. RowFits(row, disk[k].used)
  BY <1>3, <1>5, RowTypes DEF RowFits
<1>7. QED
  BY <1>1, <1>4, <1>6

\* a return to the queue that leaves an attempt
LEMMA RequeueFits ==
  ASSUME IInv, OtherTypes, AttemptsInv, NEW j \in Jobs, NEW k \in Jobs,
         NEW refund \in BOOLEAN, Requeue(k, refund),
         In(k, {RUNNING}), refund \/ RoomLeft(k)
  PROVE  RowFits(table'[j], disk[j].used)
<1> DEFINE row == [table[k] EXCEPT !.state = QUEUED, !.worker = None,
                                   !.child = None,
                                   !.attempts = IF refund THEN Refunded(@) ELSE @]
<1>1. RowFits(table[j], disk[j].used) /\ RowFits(table[k], disk[k].used)
  BY DEF AttemptsInv
<1>2. table[k].attempts >= 1
  BY RowTypes DEF In, Claimed
<1>3. row.attempts = IF refund THEN table[k].attempts - 1 ELSE table[k].attempts
  BY <1>2, RowTypes DEF Row, Refunded
<1>4. table' = [table EXCEPT ![k] = row] /\ table \in [Jobs -> Row]
  BY DEF Requeue, Write, IInv, TableInv
<1> HIDE DEF row
<1>5. row.attempts < MaxAttempts + disk[k].used
  BY <1>1, <1>2, <1>3, RowTypes DEF RowFits, RoomLeft
<1>6. RowFits(row, disk[k].used)
  BY <1>3, <1>5, RowTypes DEF RowFits
<1>7. QED
  BY <1>1, <1>4, <1>6

\* a write that leaves the attempts alone and does not queue the job
LEMMA OtherWriteFits ==
  ASSUME IInv, OtherTypes, AttemptsInv, NEW j \in Jobs, NEW k \in Jobs, NEW row,
         Write(k, row), row.attempts = table[k].attempts, row.state # QUEUED
  PROVE  RowFits(table'[j], disk[j].used)
<1>1. RowFits(table[j], disk[j].used) /\ RowFits(table[k], disk[k].used)
  BY DEF AttemptsInv
<1>2. table' = [table EXCEPT ![k] = row] /\ table \in [Jobs -> Row]
  BY DEF Write, IInv, TableInv
<1>3. RowFits(row, disk[k].used)
  BY <1>1 DEF RowFits
<1>4. QED
  BY <1>1, <1>2, <1>3

LEMMA ClaimFits ==
  ASSUME IInv, OtherTypes, AttemptsInv, NEW j \in Jobs, NEW k \in Jobs,
         NEW w \in Workers, ClaimNext(w, k)
  PROVE  RowFits(table'[j], disk[j].used)
<1> DEFINE row == [table[k] EXCEPT !.state = RUNNING, !.attempts = @ + 1,
                                   !.worker = w, !.child = None]
<1>1. RowFits(table[j], disk[j].used) /\ RowFits(table[k], disk[k].used)
  BY DEF AttemptsInv
<1>2. table[k].state = QUEUED
  BY DEF ClaimNext, Oldest, In
<1>3. row.attempts = table[k].attempts + 1 /\ row.state = RUNNING
  BY RowTypes DEF Row
<1>4. table' = [table EXCEPT ![k] = row] /\ table \in [Jobs -> Row]
  BY DEF ClaimNext, Write, IInv, TableInv
<1> HIDE DEF row
<1>5. RowFits(row, disk[k].used)
  BY <1>1, <1>2, <1>3, RowTypes DEF RowFits
<1>6. QED
  BY <1>1, <1>4, <1>5

\* whatever a worker writes, the row fits the continuations used so far
LEMMA WriterFits ==
  ASSUME IInv, OtherTypes, AttemptsInv, NEW w \in Workers, Writer(w), NEW j \in Jobs
  PROVE  RowFits(table'[j], disk[j].used)
<1> DEFINE i == cur[w]
<1>1. /\ RowFits(table[j], disk[j].used)
      /\ RecoverJob(w) \/ Register(w) \/ Leaving(w) => i \in Jobs
  BY WriterSteps DEF AttemptsInv
<1>2. i \in Jobs => table[i] \in Row
  BY DEF IInv, TableInv
<1>3. pc[w] \in RunSteps => /\ i \in Jobs /\ In(i, {RUNNING})
                            /\ table[i].attempts = att[w]
  BY DEF IInv, ClaimHeld, PlanFits, In
<1>4. CASE RecoverJob(w)
  <2>1. i \in Jobs /\ In(i, {RUNNING})
    BY <1>4 DEF RecoverJob, At, IInv, CoreTypes, RecoversRunning, Recovering, In
  <2>2. CASE table[i].attempts < MaxAttempts /\ Requeue(i, FALSE)
    <3>1. RoomLeft(i)
      BY <2>1, <2>2, RowTypes DEF RoomLeft
    <3>2. QED
      BY <2>1, <2>2, <3>1, RequeueFits
  <2>3. ASSUME NEW s \in {CANCELLED, FAILED},
               Write(i, [table[i] EXCEPT !.state = s, !.child = None])
        PROVE  RowFits(table'[j], disk[j].used)
    <3> DEFINE row == [table[i] EXCEPT !.state = s, !.child = None]
    <3>1. row.attempts = table[i].attempts /\ row.state # QUEUED
      BY <1>2, <2>1 DEF Row
    <3>2. Write(i, row)
      BY <2>3
    <3> HIDE DEF row
    <3>3. QED
      BY <2>1, <3>1, <3>2, OtherWriteFits
  <2>4. QED
    BY <1>4, <2>2, <2>3 DEF RecoverJob, RecoverRow
<1>5. CASE Register(w)
  <2> DEFINE row == [table[i] EXCEPT !.child = mine[w]]
  <2>1. i \in Jobs /\ In(i, {RUNNING}) /\ Write(i, row)
    BY <1>1, <1>5 DEF Register, SetChild
  <2>2. row.attempts = table[i].attempts /\ row.state # QUEUED
    BY <1>2, <2>1 DEF Row, In
  <2> HIDE DEF row
  <2>3. QED
    BY <2>1, <2>2, OtherWriteFits
<1>6. CASE GiveBack(w)
  BY <1>3, <1>6, RequeueFits DEF GiveBack, At, RunSteps
<1>7. CASE Retry(w)
  <2>1. i \in Jobs /\ In(i, {RUNNING}) /\ table[i].attempts < MaxAttempts
    BY <1>3, <1>7 DEF Retry, MayRetry, At, RunSteps
  <2>2. RoomLeft(i)
    BY <2>1, RowTypes DEF RoomLeft
  <2>3. QED
    BY <1>7, <2>1, <2>2, RequeueFits DEF Retry
<1>8. CASE Continue(w)
  <2>1. i \in Jobs /\ In(i, {RUNNING}) /\ RoomLeft(i)
    BY <1>3, <1>8 DEF Continue, At, RunSteps, AttemptsInv
  <2>2. QED
    BY <1>8, <2>1, RequeueFits DEF Continue
<1>9. CASE Park(w)
  <2> DEFINE row == [table[i] EXCEPT !.state = BLOCKED, !.child = None,
                                     !.blocked = plan[w]]
  <2>1. i \in Jobs /\ Write(i, row)
    BY <1>1, <1>9 DEF Park, Block, Leaving
  <2>2. row.attempts = table[i].attempts /\ row.state # QUEUED
    BY <1>2, <2>1 DEF Row
  <2> HIDE DEF row
  <2>3. QED
    BY <2>1, <2>2, OtherWriteFits
<1>10. CASE FinishJob(w)
  <2> DEFINE row == [table[i] EXCEPT !.state = plan[w], !.child = None,
                                     !.blocked = None]
  <2>1. i \in Jobs /\ Write(i, row) /\ plan[w] \in Final
    BY <1>1, <1>10 DEF FinishJob, Finish, Leaving, At, IInv, PlanFits
  <2>2. row.attempts = table[i].attempts /\ row.state # QUEUED
    BY <1>2, <2>1 DEF Row, Final
  <2> HIDE DEF row
  <2>3. QED
    BY <2>1, <2>2, OtherWriteFits
<1>11. CASE \E k \in Jobs : UnblockOne(w, k)
  BY <1>1, <1>11, UnblockFits DEF UnblockOne
<1>12. CASE \E k \in Jobs : Claim(w, k)
  BY <1>12, ClaimFits DEF Claim
<1>13. QED
  BY <1>4, <1>5, <1>6, <1>7, <1>8, <1>9, <1>10, <1>11, <1>12 DEF Writer, Leaving

\* and so is whatever a user writes
LEMMA UserFits ==
  ASSUME IInv, OtherTypes, AttemptsInv, NEW k \in Jobs, User(k), NEW j \in Jobs
  PROVE  RowFits(table'[j], disk[j].used)
<1>1. RowFits(table[j], disk[j].used) /\ table[k] \in Row
  BY RowTypes DEF AttemptsInv
<1>2. CASE Submit(k)
  <2> DEFINE row == [NoRow EXCEPT !.state = QUEUED, !.seq = NextSeq]
  <2>1. row.attempts = 0
    BY DEF NoRow
  <2>2. table' = [table EXCEPT ![k] = row] /\ table \in [Jobs -> Row]
    BY <1>2 DEF Submit, Add, Write, IInv, TableInv
  <2> HIDE DEF row
  <2>3. RowFits(row, disk[k].used)
    BY <2>1, RowTypes DEF RowFits
  <2>4. QED
    BY <1>1, <2>2, <2>3
<1>3. CASE OwnerUnblocks(k)
  BY <1>3, UnblockFits DEF OwnerUnblocks
<1>4. CASE CancelFirst(k) /\ Write(k, [table[k] EXCEPT !.state = CANCELLED])
  <2> DEFINE row == [table[k] EXCEPT !.state = CANCELLED]
  <2>1. row.attempts = table[k].attempts /\ row.state # QUEUED /\ Write(k, row)
    BY <1>1, <1>4 DEF Row
  <2> HIDE DEF row
  <2>2. QED
    BY <2>1, OtherWriteFits
<1>5. CASE CancelSecond(k) /\ Running(k) /\ Write(k, [table[k] EXCEPT !.cancel = TRUE])
  <2> DEFINE row == [table[k] EXCEPT !.cancel = TRUE]
  <2>1. row.attempts = table[k].attempts /\ row.state # QUEUED /\ Write(k, row)
    BY <1>1, <1>5 DEF Row, Running, In
  <2> HIDE DEF row
  <2>2. QED
    BY <2>1, OtherWriteFits
<1>6. CASE UNCHANGED table
  BY <1>1, <1>6
<1>7. QED
  BY <1>2, <1>3, <1>4, <1>5, <1>6 DEF User, Cancel, CancelFirst, CancelSecond

LEMMA AttemptsStep ==
  ASSUME IInv, OtherTypes, AttemptsInv, [Next]_vars
  PROVE  AttemptsInv'
<1>1. \A j \in Jobs : RowFits(table'[j], disk[j].used)
  <2>1. CASE UNCHANGED table
    BY <2>1 DEF AttemptsInv
  <2>2. ASSUME NEW w \in Workers, Mover(w)
        PROVE  UNCHANGED table \/ Writer(w)
    BY <2>2, WritersWrite
  <2>3. CASE \E c \in Children : Child(c)
    BY <2>1, <2>3 DEF Child, ChildActs, ChildFinishes, ChildDies
  <2>4. CASE KeysBreak \/ KeysHeal \/ UNCHANGED vars
    BY <2>1, <2>4 DEF KeysBreak, KeysHeal, vars
  <2>5. QED
    BY <2>1, <2>2, <2>3, <2>4, WriterFits, UserFits, Movers
<1>2. ASSUME NEW w \in Workers, QueueContinuation(w)
      PROVE  /\ cur[w] \in Jobs /\ UNCHANGED <<table, cur>>
             /\ disk[cur[w]].used < MaxContinuations
             /\ \A j \in Jobs : disk'[j].used
                    = IF j = cur[w] THEN disk[j].used + 1 ELSE disk[j].used
  <2>1. cur[w] \in Jobs /\ disk[cur[w]] \in Disk
    BY <1>2 DEF QueueContinuation, At, RunSteps, IInv, PlanFits, OtherTypes
  <2> DEFINE files == [Keep(disk[cur[w]]) EXCEPT !.used = @ + 1]
  <2>2. files.used = disk[cur[w]].used + 1
    BY <2>1 DEF Disk, Keep
  <2>3. Rewrite(cur[w], files)
    BY <1>2 DEF QueueContinuation
  <2> HIDE DEF files
  <2>4. QED
    BY <1>2, <2>1, <2>2, <2>3, Rewritten
       DEF QueueContinuation, MayContinue, Advance, Decide
<1>3. \A j \in Jobs : /\ disk'[j].used \in Nat /\ disk[j].used <= disk'[j].used
                      /\ disk'[j].used <= MaxContinuations
  <2>1. CASE UNCHANGED disk
    BY <2>1, RowTypes DEF AttemptsInv
  <2>2. ASSUME NEW w \in Workers, Mover(w), NEW j \in Jobs
        PROVE  /\ disk'[j].used \in Nat /\ disk[j].used <= disk'[j].used
               /\ disk'[j].used <= MaxContinuations
    <3>1. disk[j].used \in Nat /\ disk[j].used <= MaxContinuations
      BY RowTypes DEF AttemptsInv
    <3>2. CASE QueueContinuation(w)
      BY <1>2, <3>1, <3>2, BoundsOK
    <3>3. CASE disk'[j].used = disk[j].used
      BY <3>1, <3>3
    <3>4. QED
      BY <2>2, <3>2, <3>3, MoverFiles
  <2>3. ASSUME NEW c \in Children, Child(c), NEW j \in Jobs
        PROVE  disk'[j].used = disk[j].used
    BY <2>3, ChildFiles
  <2>4. CASE \/ \E j \in Jobs : User(j)
             \/ KeysBreak \/ KeysHeal \/ UNCHANGED vars
    BY <2>1, <2>4 DEF User, Submit, Cancel, OwnerUnblocks, KeysBreak, KeysHeal,
       vars, fileVars
  <2>5. QED
    BY <2>2, <2>3, <2>4, RowTypes, Movers DEF AttemptsInv
<1>4. IInv' /\ OtherTypes'
  BY StepInv
<1>5. \A j \in Jobs : RowFits(table'[j], disk'[j].used)
  <2>1. TAKE j \in Jobs
  <2>2. table'[j].attempts \in Nat
    BY <1>4 DEF IInv, TableInv, Row
  <2>3. QED
    BY <1>1, <1>3, <2>2, RowTypes DEF RowFits
<1>6. ASSUME NEW v \in Workers, pc'[v] = "continue"
      PROVE  RoomLeft(cur[v])'
  <2>1. ASSUME NEW w \in Workers, Mover(w)
        PROVE  /\ v = w
               /\ \/ QueueContinuation(w)
                  \/ UNCHANGED <<table, cur, disk>> /\ pc[w] = "continue"
    <3>1. v = w
      BY <1>6, <2>1, OthersStay
    <3>2. pc \in [Workers -> PCs]
      BY DEF IInv, CoreTypes
    <3>3. CASE Serve(w)
      BY <1>6, <3>1, <3>2, <3>3 DEF Serve, Start, ListRunning, KillOrphan,
         RecoverJob, Recovered, Leave, ListBlocked, TooEarly, UnblockOne,
         Unblocked, Claim, ClaimNothing, Vanish, Advance, Decide, Go, At
    <3>4. CASE Leaving(w) \/ Register(w) \/ Tell(w) \/ \E c \in Children : Spawn(w, c)
      BY <1>6, <3>1, <3>2, <3>4 DEF Leaving, GiveBack, Retry, Continue, Park,
         FinishJob, Register, Tell, Spawn, BackToLoop, Advance, Decide, Go
    <3>5. CASE Inside(w) /\ ~QueueContinuation(w)
      BY <1>6, <3>1, <3>2, <3>5 DEF Inside, Precheck, Gate, PrepareFails,
         Prepare, ChildGone, StopChild, Timeout, KillChild, RunnerFault,
         ReadResult, AfterStop, RetriesUsed, FailToBlocked, FailToFinal,
         ApplyRollback, HandOff, Advance, Decide, Go
    <3>6. CASE Crash(w)
      BY <1>6, <3>1, <3>2, <3>6 DEF Crash, Vanish, Go
    <3>7. CASE Signal(w)
      BY <1>6, <3>1, <3>7 DEF Signal, fileVars
    <3>8. QED
      BY <2>1, <3>1, <3>3, <3>4, <3>5, <3>6, <3>7, MoverKinds
  <2>2. ASSUME NEW w \in Workers, Mover(w)
        PROVE  RoomLeft(cur[v])'
    <3>1. CASE QueueContinuation(w)
      <4>1. /\ v = w /\ cur[w] \in Jobs /\ UNCHANGED <<table, cur>>
            /\ disk'[cur[w]].used = disk[cur[w]].used + 1
            /\ RowFits(table[cur[w]], disk[cur[w]].used)
        BY <1>2, <2>1, <2>2, <3>1 DEF AttemptsInv
      <4>2. QED
        BY <4>1, RowTypes DEF RowFits, RoomLeft
    <3>2. CASE UNCHANGED <<table, cur, disk>> /\ pc[v] = "continue"
      BY <3>2 DEF AttemptsInv, RoomLeft
    <3>3. QED
      BY <2>1, <2>2, <3>1, <3>2
  <2>3. CASE ~\E w \in Workers : Mover(w)
    <3>1. UNCHANGED <<pc, cur>>
      BY <2>3, Movers DEF Child, ChildActs, ChildFinishes, ChildDies, User, Submit,
         Cancel, OwnerUnblocks, KeysBreak, KeysHeal, vars, workerVars
    <3>2. /\ cur[v] \in Jobs /\ table[cur[v]].state = RUNNING /\ RoomLeft(cur[v])
      BY <1>6, <3>1 DEF IInv, ClaimHeld, PlanFits, RunSteps, AttemptsInv
    <3>3. table'[cur[v]].attempts = table[cur[v]].attempts
      <4>1. att[v] = table[cur[v]].attempts
        BY <1>6, <3>1 DEF IInv, ClaimHeld, RunSteps
      <4>2. att'[v] = table'[cur'[v]].attempts
        BY <1>4, <1>6 DEF IInv, ClaimHeld, RunSteps
      <4>3. UNCHANGED att
        BY <2>3, Movers DEF Child, ChildActs, ChildFinishes, ChildDies, User,
           Submit, Cancel, OwnerUnblocks, KeysBreak, KeysHeal, vars, workerVars
      <4>4. QED
        BY <3>1, <4>1, <4>2, <4>3
    <3>4. QED
      BY <1>3, <3>1, <3>2, <3>3, RowTypes DEF RoomLeft
  <2>4. QED
    BY <2>2, <2>3
<1>7. QED
  BY <1>3, <1>5, <1>6 DEF AttemptsInv

\* However a job comes back to the queue, by retries, continuations, crashes,
\* clean stops or unblocks, it never runs more often than MaxAttempts plus the
\* continuations it was allowed.
THEOREM AttemptsAreBounded == Spec => []AttemptsBounded
<1>1. Init => AttemptsInv
  <2> SUFFICES ASSUME Init PROVE AttemptsInv
    OBVIOUS
  <2>1. \A j \in Jobs : /\ table[j].state = ABSENT /\ table[j].attempts = 0
                        /\ disk[j].used = 0
    BY DEF Init, TableInit, NoRow
  <2>2. \A w \in Workers : pc[w] # "continue"
    BY DEF Init
  <2>3. QED
    BY <2>1, <2>2, ConstantsOK, BoundsOK DEF AttemptsInv, RowFits
<1>2. IInv /\ OtherTypes /\ AttemptsInv /\ [Next]_vars => AttemptsInv'
  BY AttemptsStep
<1>3. AttemptsInv => AttemptsBounded
  BY DEF AttemptsInv, RowFits, AttemptsBounded
<1>4. QED
  BY <1>1, <1>2, <1>3, Invariance, PTL DEF Spec

-----------------------------------------------------------------------------
(* The owner is told the truth                                             *)

\* A step that leaves the worker alone hands nothing off and tells nobody.
LEMMA OthersKeep ==
  ASSUME [Next]_vars, ~\E w \in Workers : Mover(w)
  PROVE  UNCHANGED <<workerVars, handed, told, count>> \/ KeysBreak
BY Movers DEF Child, ChildActs, ChildFinishes, ChildDies, User, Submit, Cancel,
   OwnerUnblocks, KeysHeal, vars, fileVars, workerVars

\* Which steps lead to the hand-off, the final write and the notice.
LEMMA LateSteps ==
  ASSUME IInv, OtherTypes, NEW w \in Workers, Mover(w)
  PROVE  /\ UNCHANGED <<pc, cur, plan>> \/ HandOff(w) \/ pc'[w] # "finish"
         /\ UNCHANGED <<pc, cur, plan>> \/ FinishJob(w) \/ pc'[w] # "tell"
         /\ UNCHANGED handed \/ HandOff(w)
         /\ UNCHANGED told \/ Tell(w)
         /\ UNCHANGED count \/ Crash(w) \/ Signal(w) \/ RunnerFault(w)
<1>1. pc \in [Workers -> PCs]
  BY DEF IInv, CoreTypes
<1>2. CASE Serve(w)
  <2>1. UNCHANGED <<handed, told, count>>
    BY <1>2 DEF Serve, Start, ListRunning, KillOrphan, RecoverJob, Recovered,
       Leave, ListBlocked, TooEarly, UnblockOne, Unblocked, Claim, ClaimNothing,
       fileVars
  <2>2. pc'[w] \notin {"finish", "tell"}
    BY <1>1, <1>2 DEF Serve, Start, ListRunning, KillOrphan, RecoverJob, Recovered,
       Leave, ListBlocked, TooEarly, UnblockOne, Unblocked, Claim, ClaimNothing,
       Vanish, Advance, Decide, Go, At
  <2>3. QED
    BY <2>1, <2>2
<1>3. CASE Inside(w) /\ ~HandOff(w)
  <2>1. /\ UNCHANGED <<handed, told>>
        /\ UNCHANGED count \/ RunnerFault(w)
    BY <1>3 DEF Inside, Precheck, Gate, PrepareFails, Prepare, ChildGone, StopChild,
       Timeout, KillChild, ReadResult, AfterStop, RetriesUsed,
       FailToBlocked, QueueContinuation, FailToFinal, ApplyRollback, RunnerFault,
       fileVars
  <2>2. pc'[w] \notin {"finish", "tell"}
    BY <1>1, <1>3 DEF Inside, Precheck, Gate, PrepareFails, Prepare, ChildGone,
       StopChild, Timeout, KillChild, RunnerFault, ReadResult, AfterStop,
       RetriesUsed, FailToBlocked, QueueContinuation, FailToFinal,
       ApplyRollback, Advance, Decide, Go
  <2>3. QED
    BY <2>1, <2>2
<1>4. CASE HandOff(w)
  BY <1>1, <1>4 DEF HandOff, Advance, Decide, Go
<1>5. CASE FinishJob(w)
  BY <1>1, <1>5 DEF FinishJob, Advance, Decide, Go, fileVars
<1>6. CASE GiveBack(w) \/ Retry(w) \/ Continue(w) \/ Park(w) \/ Tell(w)
  BY <1>1, <1>6 DEF GiveBack, Retry, Continue, Park, Tell, BackToLoop, Go, fileVars
<1>7. CASE Register(w) \/ \E c \in Children : Spawn(w, c)
  BY <1>1, <1>7 DEF Register, Spawn, Advance, Decide, Go, fileVars
<1>8. CASE Crash(w) \/ Signal(w)
  BY <1>1, <1>8 DEF Crash, Signal, Vanish, Go, fileVars
<1>9. QED
  BY <1>2, <1>3, <1>4, <1>5, <1>6, <1>7, <1>8, MoverKinds DEF Leaving

\* The inductive invariant: the worker tells what the row holds at that moment.
NoticeInv ==
    /\ ToldTheTruth
    /\ \A w \in Workers :
          pc[w] = "tell" => cur[w] \in Jobs /\ table[cur[w]].state = plan[w]

LEMMA NoticeStep ==
  ASSUME IInv, OtherTypes, NoticeInv, [Next]_vars
  PROVE  NoticeInv'
<1>1. /\ cur \in [Workers -> Jobs \cup {None}]
      /\ plan \in [Workers -> Stops \cup Final \cup Reasons \cup {None}]
      /\ told \in [Jobs -> SUBSET Final]
  BY DEF IInv, CoreTypes, OtherTypes
<1>2. ASSUME NEW w \in Workers, pc[w] = "tell"
      PROVE  /\ cur[w] \in Jobs /\ table[cur[w]].state = plan[w]
             /\ table'[cur[w]].state = plan[w]
  <2>1. /\ cur[w] \in Jobs /\ table[cur[w]].state = plan[w] /\ plan[w] \in Final
    BY <1>2 DEF NoticeInv, IInv, PlanFits
  <2>2. QED
    BY <2>1, FinalStays DEF In
<1>3. ASSUME NEW w \in Workers, FinishJob(w)
      PROVE  /\ cur[w] \in Jobs /\ cur'[w] = cur[w] /\ plan'[w] = plan[w]
             /\ table'[cur[w]].state = plan[w]
  <2>1. cur[w] \in Jobs /\ cur'[w] = cur[w] /\ plan'[w] = plan[w]
    BY <1>1, <1>3 DEF FinishJob, At, RunSteps, IInv, PlanFits, Advance, Decide
  <2>2. QED
    BY <1>3, <2>1 DEF FinishJob, Finish, Write, Row, IInv, TableInv
<1>4. ASSUME NEW j \in Jobs
      PROVE  told'[j] \subseteq {table'[j].state}
  <2>1. told[j] \subseteq {table'[j].state}
    <3>1. told[j] \in SUBSET Final
      BY <1>1
    <3>2. told[j] \subseteq {table[j].state}
      <4>1. ToldTheTruth
        BY DEF NoticeInv
      <4>2. QED
        BY <4>1 DEF ToldTheTruth
    <3>3. table[j].state \in Final => table'[j].state = table[j].state
      BY FinalStays DEF In
    <3>4. QED
      BY <3>1, <3>2, <3>3
  <2>2. UNCHANGED told \/ \E w \in Workers : Tell(w)
    BY LateSteps, OthersKeep DEF KeysBreak, fileVars
  <2>3. ASSUME NEW w \in Workers, Tell(w), ~UNCHANGED told
        PROVE  told'[j] \subseteq {table'[j].state}
    <3>1. pc[w] = "tell" /\ told' = [told EXCEPT ![cur[w]] = @ \cup {plan[w]}]
      BY <2>3 DEF Tell, At
    <3>2. told'[j] = IF j = cur[w] THEN told[j] \cup {plan[w]} ELSE told[j]
      BY <1>1, <3>1
    <3>3. QED
      BY <1>2, <2>1, <3>1, <3>2
  <2>4. QED
    BY <2>1, <2>2, <2>3
<1>5. ASSUME NEW v \in Workers, pc'[v] = "tell"
      PROVE  cur'[v] \in Jobs /\ table'[cur'[v]].state = plan'[v]
  <2>1. CASE UNCHANGED <<pc, cur, plan>>
    BY <1>2, <1>5, <2>1
  <2>2. ASSUME NEW w \in Workers, Mover(w), ~UNCHANGED <<pc, cur, plan>>
        PROVE  cur'[v] \in Jobs /\ table'[cur'[v]].state = plan'[v]
    <3>1. v = w
      BY <1>5, <2>2, OthersStay
    <3>2. FinishJob(w)
      BY <1>5, <2>2, <3>1, LateSteps
    <3>3. QED
      BY <1>3, <3>1, <3>2
  <2>3. QED
    BY <2>1, <2>2, OthersKeep DEF KeysBreak, workerVars
<1>6. QED
  BY <1>4, <1>5 DEF NoticeInv, ToldTheTruth

\* The owner hears of one outcome only, and of the one the row keeps for good,
\* whatever crashes, retries, late cancels and unblocks come between or after
\* (_notify of worker.py after finish of queue.py).
THEOREM NoticesAreTrue == Spec => []ToldTheTruth
<1>1. Init => NoticeInv
  <2> SUFFICES ASSUME Init PROVE NoticeInv
    OBVIOUS
  <2>1. \A j \in Jobs : told[j] = {}
    BY DEF Init
  <2>2. \A w \in Workers : pc[w] # "tell"
    BY DEF Init
  <2>3. QED
    BY <2>1, <2>2 DEF NoticeInv, ToldTheTruth
<1>2. IInv /\ OtherTypes /\ NoticeInv /\ [Next]_vars => NoticeInv'
  BY NoticeStep
<1>3. NoticeInv => ToldTheTruth
  BY DEF NoticeInv
<1>4. QED
  BY <1>1, <1>2, <1>3, Invariance, PTL DEF Spec

-----------------------------------------------------------------------------
(* Two hand-offs with two outcomes cost a crash                            *)

\* what j was handed off as although it is not, and will not be, its outcome
Contradictions(j) == handed[j] \ Outcomes(j)

LEMMA FinalIsFinite == IsFiniteSet(Final)
<1>1. IsFiniteSet({DONE}) /\ IsFiniteSet({DONE} \cup {FAILED})
  BY FS_Singleton, FS_AddElement
<1>2. IsFiniteSet(({DONE} \cup {FAILED}) \cup {CANCELLED})
  BY <1>1, FS_AddElement
<1>3. Final = ({DONE} \cup {FAILED}) \cup {CANCELLED}
  BY DEF Final
<1>4. QED
  BY <1>2, <1>3

\* A worker that is about to write the outcome writes it or dies.
LEMMA FinishLeaves ==
  ASSUME IInv, NEW w \in Workers, Mover(w), pc[w] = "finish"
  PROVE  UNCHANGED <<pc, cur, plan>> \/ FinishJob(w) \/ Crash(w)
<1>1. ~Serve(w)
  BY DEF Serve, Start, ListRunning, KillOrphan, RecoverJob, Recovered,
     Leave, ListBlocked, TooEarly, UnblockOne, Unblocked, Claim, ClaimNothing, At
<1>2. ~Inside(w)
  BY DEF Inside, Precheck, Gate, PrepareFails, Prepare, ChildGone, StopChild,
     Timeout, KillChild, ReadResult, AfterStop, RetriesUsed, FailToBlocked,
     QueueContinuation, FailToFinal, ApplyRollback, RunnerFault, HandOff, At
<1>3. Leaving(w) => FinishJob(w)
  BY DEF Leaving, GiveBack, Retry, Continue, Park, At
<1>4. ~Register(w) /\ ~Tell(w) /\ ~\E c \in Children : Spawn(w, c)
  BY DEF Register, Tell, Spawn, At
<1>5. Signal(w) => UNCHANGED <<pc, cur, plan>>
  BY DEF Signal
<1>6. QED
  BY <1>1, <1>2, <1>3, <1>4, <1>5, MoverKinds

\* An outcome stays one, unless its worker dies before it wrote it.
LEMMA OutcomesStay ==
  ASSUME IInv, OtherTypes, [Next]_vars, NEW j \in Jobs, NEW s \in Final,
         s \in Outcomes(j), s \notin Outcomes(j)'
  PROVE  \E w \in Workers : Crash(w) /\ s = plan[w]
<1>1. table[j].state # s
  <2>1. table[j].state = s => table'[j].state = s
    BY FinalStays DEF In
  <2>2. QED
    BY <2>1 DEF Outcomes
<1>2. PICK w \in Workers : pc[w] = "finish" /\ cur[w] = j /\ plan[w] = s
  BY <1>1 DEF Outcomes, At
<1>3. ~(pc'[w] = "finish" /\ cur'[w] = j /\ plan'[w] = s)
  BY DEF Outcomes, At
<1>4. ~UNCHANGED <<pc, cur, plan>>
  BY <1>2, <1>3
<1>5. PICK v \in Workers : Mover(v)
  BY <1>4, OthersKeep DEF KeysBreak, workerVars
<1>6. v = w
  BY <1>2, <1>5, OthersStay
<1>7. ~FinishJob(w)
  <2> SUFFICES ASSUME FinishJob(w) PROVE table'[j].state = s
    BY DEF Outcomes
  <2>1. QED
    BY <1>2 DEF FinishJob, Finish, Write, Row, IInv, TableInv
<1>8. QED
  BY <1>2, <1>4, <1>5, <1>6, <1>7, FinishLeaves

\* Whatever is handed off is about to be written.
LEMMA HandedIsOutcome ==
  ASSUME IInv, OtherTypes, [Next]_vars, NEW j \in Jobs, NEW s,
         s \in handed'[j], s \notin handed[j]
  PROVE  s \in Outcomes(j)'
<1>1. /\ cur \in [Workers -> Jobs \cup {None}] /\ pc \in [Workers -> PCs]
      /\ plan \in [Workers -> Stops \cup Final \cup Reasons \cup {None}]
      /\ handed \in [Jobs -> SUBSET Final]
  BY DEF IInv, CoreTypes, OtherTypes
<1>2. PICK w \in Workers : HandOff(w)
  BY LateSteps, OthersKeep DEF KeysBreak, fileVars
<1>3. handed' = [handed EXCEPT ![cur[w]] = @ \cup {plan[w]}]
  BY <1>2 DEF HandOff
<1>4. j = cur[w] /\ s = plan[w]
  BY <1>1, <1>3
<1>5. pc'[w] = "finish" /\ cur'[w] = j /\ plan'[w] = s
  BY <1>1, <1>2, <1>4 DEF HandOff, Advance, Decide, Go
<1>6. QED
  BY <1>5 DEF Outcomes, At

LEMMA ContradictionsStep ==
  ASSUME IInv, OtherTypes, [Next]_vars, NEW j \in Jobs
  PROVE  \/ Contradictions(j)' \subseteq Contradictions(j)
         \/ \E w \in Workers :
               Crash(w) /\ Contradictions(j)' \subseteq Contradictions(j) \cup {plan[w]}
<1>1. handed'[j] \subseteq Final
  BY StepInv DEF OtherTypes
<1>2. ASSUME NEW s \in Contradictions(j)', s \notin Contradictions(j)
      PROVE  \E w \in Workers : Crash(w) /\ s = plan[w]
  <2>1. s \in Final /\ s \in handed'[j] /\ s \notin Outcomes(j)'
    BY <1>1, <1>2 DEF Contradictions
  <2>2. s \in handed[j]
    BY <2>1, HandedIsOutcome
  <2>3. s \in Outcomes(j)
    BY <1>2, <2>2 DEF Contradictions
  <2>4. QED
    BY <2>1, <2>3, OutcomesStay
<1>3. ASSUME NEW v \in Workers, NEW w \in Workers, Crash(v), Crash(w)
      PROVE  v = w
  <2>1. Mover(v) /\ Mover(w) /\ pc[v] # "down"
    BY <1>3 DEF Mover, Crash, At
  <2>2. QED
    BY <2>1, OthersStay
<1>4. QED
  BY <1>2, <1>3

LEMMA CrashCount ==
  ASSUME OtherTypes, IInv, [Next]_vars
  PROVE  /\ count["crashes"] \in Nat /\ count'["crashes"] \in Nat
         /\ count'["crashes"] >= count["crashes"]
         /\ \A w \in Workers : Crash(w) => count'["crashes"] = count["crashes"] + 1
<1>1. count \in [Counters -> Nat] /\ "crashes" \in Counters
  BY DEF OtherTypes, Counters
<1>2. ASSUME NEW k \in Counters, NEW bound, Count(k, bound)
      PROVE  count'["crashes"] = IF k = "crashes" THEN count["crashes"] + 1
                                                  ELSE count["crashes"]
  BY <1>1, <1>2 DEF Count
<1>3. \A w \in Workers : Crash(w) => count'["crashes"] = count["crashes"] + 1
  BY <1>2 DEF Crash, Counters
<1>4. \/ UNCHANGED count
      \/ \E k \in Counters, bound \in {MaxCrashes, MaxSignals, MaxFaults, MaxKeyBreaks} :
            Count(k, bound)
  <2>1. ASSUME NEW w \in Workers, Crash(w) \/ Signal(w) \/ RunnerFault(w)
        PROVE  \E k \in Counters, bound \in {MaxCrashes, MaxSignals, MaxFaults} :
                  Count(k, bound)
    BY <2>1 DEF Crash, Signal, RunnerFault, Counters
  <2>2. KeysBreak => Count("key breaks", MaxKeyBreaks)
    BY DEF KeysBreak
  <2>3. QED
    BY <2>1, <2>2, LateSteps, OthersKeep DEF Counters
<1>5. \/ count'["crashes"] = count["crashes"]
      \/ count'["crashes"] = count["crashes"] + 1
  BY <1>2, <1>4
<1>6. count["crashes"] \in Nat
  BY <1>1
<1>7. QED
  BY <1>3, <1>5, <1>6

LEMMA SecondOutcomeStep ==
  ASSUME IInv, OtherTypes, SecondOutcomeCostsCrash, [Next]_vars
  PROVE  SecondOutcomeCostsCrash'
<1> SUFFICES ASSUME NEW j \in Jobs
             PROVE  Cardinality(Contradictions(j)') <= count'["crashes"]
  BY DEF SecondOutcomeCostsCrash, Contradictions
<1>1. IsFiniteSet(Contradictions(j))
  <2>1. Contradictions(j) \in SUBSET Final
    BY DEF Contradictions, OtherTypes
  <2>2. QED
    BY <2>1, FinalIsFinite, FS_Subset
<1>2. /\ Cardinality(Contradictions(j)) \in Nat
      /\ Cardinality(Contradictions(j)) <= count["crashes"]
  BY <1>1, FS_CardinalityType DEF SecondOutcomeCostsCrash, Contradictions
<1>3. CASE Contradictions(j)' \subseteq Contradictions(j)
  <2>1. /\ IsFiniteSet(Contradictions(j)')
        /\ Cardinality(Contradictions(j)') <= Cardinality(Contradictions(j))
    BY <1>1, <1>3, FS_Subset
  <2>2. Cardinality(Contradictions(j)') \in Nat
    BY <2>1, FS_CardinalityType
  <2>3. QED
    BY <1>2, <2>1, <2>2, CrashCount
<1>4. ASSUME NEW w \in Workers, Crash(w),
             Contradictions(j)' \subseteq Contradictions(j) \cup {plan[w]}
      PROVE  Cardinality(Contradictions(j)') <= count'["crashes"]
  <2> DEFINE more == Contradictions(j) \cup {plan[w]}
  <2>1. /\ IsFiniteSet(more)
        /\ Cardinality(more) = Cardinality(Contradictions(j))
           \/ Cardinality(more) = Cardinality(Contradictions(j)) + 1
    BY <1>1, FS_AddElement
  <2>2. /\ IsFiniteSet(Contradictions(j)')
        /\ Cardinality(Contradictions(j)') <= Cardinality(more)
    BY <1>4, <2>1, FS_Subset
  <2>3. Cardinality(Contradictions(j)') \in Nat
    BY <2>2, FS_CardinalityType
  <2> HIDE DEF more
  <2>4. count["crashes"] \in Nat /\ count'["crashes"] = count["crashes"] + 1
    BY <1>4, CrashCount
  <2>5. QED
    BY <1>2, <2>1, <2>2, <2>3, <2>4
<1>5. QED
  BY <1>3, <1>4, ContradictionsStep

\* A review branch or report never says another outcome than the job's row
\* except for one per crash: retries, cancels, stops, unblocks and failing
\* hand-offs alone never bring it about (_hand_off of worker.py before finish).
THEOREM SecondOutcomesCostCrashes == Spec => []SecondOutcomeCostsCrash
<1>1. Init => SecondOutcomeCostsCrash
  <2> SUFFICES ASSUME Init, NEW j \in Jobs
               PROVE  Cardinality(handed[j] \ Outcomes(j)) <= count["crashes"]
    BY DEF SecondOutcomeCostsCrash
  <2>1. handed[j] \ Outcomes(j) = {}
    BY DEF Init
  <2>2. count["crashes"] = 0
    BY DEF Init, Counters
  <2>3. QED
    BY <2>1, <2>2, FS_EmptySet
<1>2. IInv /\ OtherTypes /\ SecondOutcomeCostsCrash /\ [Next]_vars
        => SecondOutcomeCostsCrash'
  BY SecondOutcomeStep
<1>3. QED
  BY <1>1, <1>2, Invariance, PTL DEF Spec

-----------------------------------------------------------------------------
(* A workspace is rolled back only on the way to DONE                      *)

\* between the rollback and the final write of a run that is to end DONE
EndsDone(w, j) == pc[w] \in {"hand off", "finish"} /\ cur[w] = j /\ plan[w] = DONE

\* The inductive invariant: from the rollback on nothing but a crash keeps the
\* worker from the final write, and nothing undoes that.
RevertInv ==
    \A j \in Jobs : disk[j].reverted /\ count["crashes"] = 0 =>
        table[j].state = DONE \/ \E w \in Workers : EndsDone(w, j)

\* How a step that is not a crash goes on after the rollback.
LEMMA DoneGoesOn ==
  ASSUME IInv, OtherTypes, NEW w \in Workers, Mover(w), ~Crash(w),
         NEW j \in Jobs, EndsDone(w, j)
  PROVE  EndsDone(w, j)' \/ table'[j].state = DONE
<1>1. /\ pc \in [Workers -> PCs] /\ cur[w] = j /\ plan[w] = DONE
      /\ plan \in [Workers -> Stops \cup Final \cup Reasons \cup {None}]
  BY DEF IInv, CoreTypes, EndsDone
<1>2. HandOff(w) \/ FinishJob(w) \/ Signal(w)
  <2>1. pc[w] \in {"hand off", "finish"}
    BY DEF EndsDone
  <2>2. ~Serve(w)
    BY <2>1 DEF Serve, Start, ListRunning, KillOrphan, RecoverJob, Recovered,
       Leave, ListBlocked, TooEarly, UnblockOne, Unblocked, Claim, ClaimNothing, At
  <2>3. ~Inside(w) \/ HandOff(w)
    BY <2>1 DEF Inside, Precheck, Gate, PrepareFails, Prepare, ChildGone, StopChild,
       Timeout, KillChild, RunnerFault, ReadResult, AfterStop, RetriesUsed,
       FailToBlocked, QueueContinuation, FailToFinal, ApplyRollback, At
  <2>4. ~Leaving(w) \/ FinishJob(w)
    BY <2>1 DEF Leaving, GiveBack, Retry, Continue, Park, At
  <2>5. ~Register(w) /\ ~Tell(w) /\ ~\E c \in Children : Spawn(w, c)
    BY <2>1 DEF Register, Tell, Spawn, At
  <2>6. QED
    BY <2>2, <2>3, <2>4, <2>5, MoverKinds
<1>3. CASE HandOff(w)
  BY <1>1, <1>3 DEF HandOff, Advance, Decide, Go, EndsDone
<1>4. CASE Signal(w)
  BY <1>4 DEF Signal, EndsDone
<1>5. CASE FinishJob(w)
  BY <1>1, <1>5 DEF FinishJob, Finish, Write, Row, IInv, TableInv
<1>6. QED
  BY <1>2, <1>3, <1>4, <1>5

LEMMA RevertStep ==
  ASSUME IInv, OtherTypes, RevertInv, [Next]_vars
  PROVE  RevertInv'
<1> SUFFICES ASSUME NEW j \in Jobs, disk'[j].reverted, count'["crashes"] = 0
             PROVE  table'[j].state = DONE \/ \E w \in Workers : EndsDone(w, j)'
  BY DEF RevertInv
<1>1. count["crashes"] = 0 /\ \A w \in Workers : ~Crash(w)
  <2>1. count \in [Counters -> Nat] /\ "crashes" \in Counters
    BY DEF OtherTypes, Counters
  <2>2. ASSUME NEW w \in Workers, Crash(w)
        PROVE  FALSE
    <3>1. count' = [count EXCEPT !["crashes"] = count["crashes"] + 1]
      BY <2>2 DEF Crash, Count
    <3>2. QED
      BY <2>1, <3>1
  <2>3. ASSUME NEW w \in Workers, Signal(w) \/ RunnerFault(w)
        PROVE  count'["crashes"] = count["crashes"]
    BY <2>1, <2>3 DEF Signal, RunnerFault, Count
  <2>4. KeysBreak => count'["crashes"] = count["crashes"]
    BY <2>1 DEF KeysBreak, Count
  <2>5. UNCHANGED count => count'["crashes"] = count["crashes"]
    OBVIOUS
  <2>6. QED
    BY <2>2, <2>3, <2>4, <2>5, LateSteps, OthersKeep
<1>2. disk[j].reverted \/ \E w \in Workers : ApplyRollback(w) /\ j = cur[w]
  <2>1. ASSUME NEW w \in Workers, Mover(w)
        PROVE  disk'[j].reverted => disk[j].reverted \/ (ApplyRollback(w) /\ j = cur[w])
    BY <2>1, MoverFiles
  <2>2. ASSUME NEW c \in Children, Child(c)
        PROVE  disk'[j].reverted = disk[j].reverted
    BY <2>2, ChildFiles
  <2>3. CASE \/ \E k \in Jobs : User(k)
             \/ KeysBreak \/ KeysHeal \/ UNCHANGED vars
    BY <2>3 DEF User, Submit, Cancel, OwnerUnblocks, KeysBreak, KeysHeal, vars, fileVars
  <2>4. QED
    BY <2>1, <2>2, <2>3, Movers
<1>3. ASSUME NEW w \in Workers, ApplyRollback(w), j = cur[w]
      PROVE  EndsDone(w, j)'
  BY <1>3 DEF ApplyRollback, Decide, Go, EndsDone, IInv, CoreTypes
<1>4. CASE disk[j].reverted
  <2>1. CASE table[j].state = DONE
    BY <2>1, FinalStays DEF In, Final
  <2>2. ASSUME NEW w \in Workers, EndsDone(w, j)
        PROVE  table'[j].state = DONE \/ EndsDone(w, j)'
    <3>1. CASE Mover(w)
      BY <1>1, <2>2, <3>1, DoneGoesOn
    <3>2. ASSUME NEW v \in Workers \ {w}, Mover(v)
          PROVE  FALSE
      BY <2>2, <3>2, OthersStay DEF EndsDone
    <3>3. CASE ~\E v \in Workers : Mover(v)
      BY <2>2, <3>3, OthersKeep DEF KeysBreak, workerVars, EndsDone
    <3>4. QED
      BY <3>1, <3>2, <3>3
  <2>3. QED
    BY <1>1, <1>4, <2>1, <2>2 DEF RevertInv
<1>5. QED
  BY <1>2, <1>3, <1>4

\* While no crash intervenes, a job that ends otherwise than DONE, or does not end
\* at all, still has everything its child did.
THEOREM RollbackMeansDone == Spec => []RevertedOnlyWhenDone
<1>1. Init => RevertInv
  BY DEF Init, RevertInv
<1>2. IInv /\ OtherTypes /\ RevertInv /\ [Next]_vars => RevertInv'
  BY RevertStep
<1>3. RevertInv => RevertedOnlyWhenDone
  BY DEF RevertInv, RevertedOnlyWhenDone, EndsDone, In
<1>4. QED
  BY <1>1, <1>2, <1>3, Invariance, PTL DEF Spec

-----------------------------------------------------------------------------
(* One child for a running job, and its result for its worker              *)

\* worker w waits for child c, and the row says so once it is registered
Tends(w, c) ==
    /\ pc[w] \in {"register", "poll", "kill"}
    /\ cur[w] = kid[c].job
    /\ mine[w] = c
    /\ kid[c].parent = w
    /\ pc[w] # "register" => table[kid[c].job].child = c

\* worker w has still to look for a child of job j
Due(w, j) ==
    \/ pc[w] = "boot"
    \/ pc[w] = "recover" /\ j \in todo[w]
    \/ pc[w] = "recover row" /\ j \in todo[w] /\ j # cur[w]

\* child c outlived its worker, and the next recovery will find it
LeftBehind(c) ==
    /\ kid[c].parent = None
    /\ table[kid[c].job].state = RUNNING
    /\ table[kid[c].job].child = c
    /\ lock # None => Due(lock, kid[c].job)

\* The inductive invariant.  OnlyRunningHasChild says nothing of the row's child
\* and of the recovery, and so does not survive the crash of a worker.
KidInv == \A c \in Children :
             Watched(c) => LeftBehind(c) \/ \E w \in Workers : Tends(w, c)

\* A worker that is up either tends a watched child or is due to look for it.
LEMMA KidSeen ==
  ASSUME IInv, KidInv, NEW w \in Workers, pc[w] # "down",
         NEW c \in Children, Watched(c)
  PROVE  Tends(w, c) \/ (LeftBehind(c) /\ Due(w, kid[c].job))
<1>1. lock = w /\ \A v \in Workers \ {w} : pc[v] = "down"
  BY OneUp
<1>2. \A v \in Workers : Tends(v, c) => v = w
  BY <1>1 DEF Tends
<1>3. LeftBehind(c) => Due(w, kid[c].job)
  BY <1>1, ConstantsOK DEF LeftBehind
<1>4. QED
  BY <1>2, <1>3 DEF KidInv

\* Anywhere else nothing of an earlier attempt is alive and in sight.
LEMMA NoKids ==
  ASSUME IInv, KidInv, NEW w \in Workers,
         pc[w] \notin {"down", "boot", "recover", "recover row",
                       "register", "poll", "kill"}
  PROVE  \A c \in Children : ~Watched(c)
BY KidSeen DEF Tends, Due

LEMMA NoneWatched ==
  ASSUME OtherTypes, \A c \in Children : ~Watched(c),
         UNCHANGED kid \/ \E w \in Workers : Vanish(w)
  PROVE  KidInv'
<1>1. \A c \in Children : ~Watched(c)'
  <2>1. TAKE c \in Children
  <2>2. CASE UNCHANGED kid
    BY <2>2 DEF Watched, Alive
  <2>3. ASSUME NEW w \in Workers, Vanish(w)
        PROVE  ~Watched(c)'
    <3>1. kid'[c] = IF kid[c].parent = w
                    THEN [kid[c] EXCEPT !.parent = None, !.lost = @ \/ At(w, "register")]
                    ELSE kid[c]
      BY <2>3 DEF Vanish
    <3>2. kid'[c].job = kid[c].job /\ (kid[c].lost => kid'[c].lost)
      BY <3>1 DEF OtherTypes, Kid
    <3>3. QED
      BY <3>2 DEF Watched, Alive
  <2>4. QED
    BY <2>2, <2>3
<1>2. QED
  BY <1>1 DEF KidInv

\* A user's write leaves a running row its state and its child.
LEMMA RunningRowKept ==
  ASSUME IInv, NEW k \in Jobs, User(k), NEW j \in Jobs, table[j].state = RUNNING
  PROVE  table'[j].state = RUNNING /\ table'[j].child = table[j].child
<1>1. table \in [Jobs -> Row]
  BY DEF IInv, TableInv
<1>2. CASE UNCHANGED table
  BY <1>2
<1>3. CASE Submit(k)
  BY <1>1, <1>3 DEF Submit, Add, In, Write
<1>4. CASE OwnerUnblocks(k)
  BY <1>1, <1>4 DEF OwnerUnblocks, Unblock, In, Write
<1>5. CASE In(k, Idle) /\ Write(k, [table[k] EXCEPT !.state = CANCELLED])
  BY <1>1, <1>5 DEF In, Idle, Write
<1>6. CASE Write(k, [table[k] EXCEPT !.cancel = TRUE])
  BY <1>1, <1>6 DEF Write, Row
<1>7. QED
  BY <1>2, <1>3, <1>4, <1>5, <1>6 DEF User, Cancel, CancelFirst, CancelSecond

\* Steps around the worker keep what it knows of its children.
LEMMA KidFrame ==
  ASSUME IInv, OtherTypes, KidInv, UNCHANGED <<lock, pc, cur, mine, todo>>,
         \A c \in Children : kid'[c] = kid[c] \/ ~Watched(c)',
         \A j \in Jobs : table[j].state = RUNNING =>
            table'[j].state = RUNNING /\ table'[j].child = table[j].child
  PROVE  KidInv'
<1> SUFFICES ASSUME NEW c \in Children, Watched(c)'
             PROVE  LeftBehind(c)' \/ \E w \in Workers : Tends(w, c)'
  BY DEF KidInv
<1>1. kid'[c] = kid[c] /\ Watched(c) /\ kid[c].job \in Jobs
  BY DEF Watched, Alive, OtherTypes, Kid
<1>2. CASE LeftBehind(c)
  BY <1>1, <1>2 DEF LeftBehind, Due
<1>3. ASSUME NEW w \in Workers, Tends(w, c)
      PROVE  Tends(w, c)'
  <2>1. table[kid[c].job].state = RUNNING
    BY <1>3 DEF Tends, IInv, ClaimHeld, RunSteps
  <2>2. QED
    BY <1>1, <1>3, <2>1 DEF Tends
<1>4. QED
  BY <1>1, <1>2, <1>3 DEF KidInv

\* A child that is killed or lost sight of is watched no longer; the others are
\* as they were.
LEMMA Unwatched ==
  ASSUME OtherTypes, NEW d, Kill(d) \/ LosesSight(d), NEW c \in Children
  PROVE  IF c = d THEN ~Watched(c)' ELSE kid'[c] = kid[c]
<1>1. kid \in [Children -> Kid]
  BY DEF OtherTypes
<1>2. CASE Kill(d)
  BY <1>1, <1>2 DEF Kill, Kid, Watched, Alive
<1>3. CASE LosesSight(d) /\ c # d
  BY <1>1, <1>3 DEF LosesSight
<1>4. CASE LosesSight(d) /\ c = d
  <2>1. kid'[c] = [kid[c] EXCEPT !.lost = @ \/ Alive(c)]
    BY <1>1, <1>4 DEF LosesSight
  <2>2. kid'[c].job = kid[c].job /\ (kid'[c].lost <=> kid[c].lost \/ Alive(c))
    BY <1>1, <2>1 DEF Kid
  <2>3. QED
    BY <1>4, <2>2 DEF Watched, Alive
<1>5. QED
  BY <1>2, <1>3, <1>4

\* the steps of a recovery
LEMMA RecoveryKids ==
  ASSUME IInv, OtherTypes, KidInv, NEW w \in Workers,
         \/ Start(w) \/ ListRunning(w) \/ RecoverJob(w) \/ Recovered(w)
         \/ \E j \in Jobs : KillOrphan(w, j)
  PROVE  KidInv'
<1>0. /\ pc \in [Workers -> PCs] /\ cur \in [Workers -> Jobs \cup {None}]
      /\ todo \in [Workers -> SUBSET Jobs]
      /\ kid \in [Children -> Kid]
      /\ table \in [Jobs -> Row]
  BY DEF IInv, CoreTypes, OtherTypes, TableInv
<1> SUFFICES ASSUME NEW c \in Children, Watched(c)'
             PROVE  LeftBehind(c)' \/ \E v \in Workers : Tends(v, c)'
  BY DEF KidInv
<1>1. kid'[c] = kid[c] /\ Watched(c) /\ kid[c].job \in Jobs
  <2>1. UNCHANGED kid \/ \E d : Kill(d) \/ LosesSight(d)
    BY DEF Start, ListRunning, RecoverJob, Recovered, KillOrphan, KillRecorded
  <2>2. ASSUME NEW d, Kill(d) \/ LosesSight(d)
        PROVE  kid'[c] = kid[c]
    BY <2>2, Unwatched
  <2>3. kid'[c] = kid[c]
    BY <2>1, <2>2
  <2>4. QED
    BY <1>0, <2>3 DEF Watched, Alive, Kid
<1> DEFINE j == kid[c].job
<1>2. lock = w \/ Start(w)
  BY OneUp DEF ListRunning, RecoverJob, Recovered, KillOrphan, At
<1>3. LeftBehind(c) /\ (~Start(w) => Due(w, j))
  <2>1. CASE Start(w)
    <3>1. \A v \in Workers : ~Tends(v, c)
      BY <2>1, ConstantsOK DEF Start, IInv, LockHeld, Tends
    <3>2. QED
      BY <1>1, <2>1, <3>1 DEF KidInv
  <2>2. CASE ~Start(w)
    <3>1. pc[w] \in {"boot", "recover", "recover row"}
      BY <2>2 DEF ListRunning, RecoverJob, Recovered, KillOrphan, At
    <3>2. QED
      BY <1>1, <2>2, <3>1, KidSeen DEF Tends
  <2>3. QED
    BY <2>1, <2>2
<1>4. kid[c].parent = None /\ table[j].state = RUNNING /\ table[j].child = c
  BY <1>3 DEF LeftBehind
<1>5. CASE Start(w)
  <2>1. lock' = w /\ pc'[w] = "boot" /\ UNCHANGED table
    BY <1>0, <1>5 DEF Start, Go
  <2>2. QED
    BY <1>1, <1>4, <2>1 DEF LeftBehind, Due
<1>6. CASE ListRunning(w)
  <2>1. /\ lock' = w /\ pc'[w] = "recover" /\ UNCHANGED table
        /\ j \in todo'[w]
    BY <1>0, <1>1, <1>2, <1>4, <1>6 DEF ListRunning, Go, Running, In, Start, At
  <2>2. QED
    BY <1>1, <1>4, <2>1 DEF LeftBehind, Due
<1>7. ASSUME NEW k \in Jobs, KillOrphan(w, k)
      PROVE  LeftBehind(c)'
  <2>1. pc[w] = "recover" /\ ~Start(w)
    BY <1>7 DEF KillOrphan, Start, At
  <2>2. j \in todo[w] /\ lock = w
    BY <1>2, <1>3, <2>1 DEF Due
  <2>3. j # k
    <3>1. SUFFICES ASSUME j = k PROVE FALSE
      OBVIOUS
    <3>2. table[k].child = c /\ c # None
      BY <1>4, <3>1, ConstantsOK
    <3>3. Kill(c) \/ LosesSight(c)
      BY <1>7, <3>2 DEF KillOrphan, KillRecorded
    <3>4. QED
      BY <3>3, Unwatched
  <2>4. /\ lock' = w /\ pc'[w] = "recover row" /\ cur'[w] = k
        /\ UNCHANGED <<table, todo>>
    BY <1>0, <1>7, <2>2 DEF KillOrphan, Go
  <2>5. QED
    BY <1>1, <1>4, <2>2, <2>3, <2>4 DEF LeftBehind, Due
<1>8. CASE RecoverJob(w)
  <2>1. pc[w] = "recover row" /\ ~Start(w)
    BY <1>8 DEF RecoverJob, Start, At
  <2>2. j \in todo[w] /\ j # cur[w] /\ lock = w
    BY <1>2, <1>3, <2>1 DEF Due
  <2>3. table'[j] = table[j]
    <3>1. cur[w] \in Jobs /\ RowStep(cur[w])
      BY <1>8, WriterSteps DEF Writer
    <3>2. QED
      BY <1>1, <2>2, <3>1, RowStepEffect DEF IInv
  <2>4. /\ lock' = w /\ pc'[w] = "recover" /\ todo'[w] = todo[w] \ {cur[w]}
    BY <1>0, <1>8, <2>2 DEF RecoverJob, Go
  <2>5. QED
    BY <1>1, <1>4, <2>2, <2>3, <2>4 DEF LeftBehind, Due
<1>9. CASE Recovered(w)
  <2>1. pc[w] = "recover" /\ todo[w] = {} /\ ~Start(w)
    BY <1>9 DEF Recovered, Start, At
  <2>2. QED
    BY <1>3, <2>1 DEF Due
<1>10. QED
  BY <1>5, <1>6, <1>7, <1>8, <1>9

\* the steps of an attempt that has a child
LEMMA AttemptKids ==
  ASSUME IInv, OtherTypes, KidInv, NEW w \in Workers,
         \/ Register(w) \/ ChildGone(w) \/ StopChild(w) \/ Timeout(w)
         \/ KillChild(w) \/ \E c \in Children : Spawn(w, c)
  PROVE  KidInv'
<1>0. /\ pc \in [Workers -> PCs] /\ cur \in [Workers -> Jobs \cup {None}]
      /\ mine \in [Workers -> Children \cup {None}]
      /\ kid \in [Children -> Kid]
      /\ table \in [Jobs -> Row]
  BY DEF IInv, CoreTypes, OtherTypes, TableInv
<1> SUFFICES ASSUME NEW c \in Children, Watched(c)'
             PROVE  Tends(w, c)'
  BY DEF KidInv
<1>1. CASE \E d \in Children : Spawn(w, d)
  <2>1. PICK d \in Children : Spawn(w, d)
    BY <1>1
  <2>2. ~Watched(c)
    BY <2>1, NoKids DEF Spawn, At
  <2>3. c = d /\ kid'[c] = [job |-> cur[w], parent |-> w, lost |-> FALSE]
    BY <1>0, <2>1, <2>2 DEF Spawn, Watched, Alive
  <2>4. pc'[w] = "register" /\ cur'[w] = cur[w] /\ mine'[w] = c
    BY <1>0, <2>1, <2>3 DEF Spawn, Go
  <2>5. QED
    BY <2>3, <2>4 DEF Tends
<1>2. CASE ~\E d \in Children : Spawn(w, d)
  <2>1. Watched(c) /\ kid'[c] = kid[c] /\ kid[c].job \in Jobs
    <3>1. UNCHANGED kid \/ \E d : Kill(d)
      BY <1>2 DEF Register, ChildGone, StopChild, Timeout, KillChild
    <3>2. kid'[c] = kid[c]
      BY <3>1, Unwatched
    <3>3. QED
      BY <1>0, <3>2 DEF Watched, Alive, Kid
  <2>2. pc[w] \in {"register", "poll", "kill"}
    BY <1>2 DEF Register, ChildGone, StopChild, Timeout, KillChild, At
  <2>3. Tends(w, c)
    BY <2>1, <2>2, KidSeen DEF Due
  <2>4. CASE Register(w)
    <3>1. /\ pc'[w] = "poll" /\ cur'[w] = cur[w] /\ mine'[w] = mine[w]
          /\ cur[w] = kid[c].job /\ mine[w] = c
      BY <1>0, <2>3, <2>4 DEF Register, Advance, Decide, Go, Tends
    <3>2. table'[kid[c].job].child = c
      BY <1>0, <2>1, <2>4, <3>1 DEF Register, SetChild, Write, Row
    <3>3. QED
      BY <2>1, <2>3, <3>1, <3>2 DEF Tends
  <2>5. CASE StopChild(w) \/ Timeout(w)
    <3>1. /\ pc[w] = "poll" /\ pc'[w] = "kill" /\ UNCHANGED <<cur, mine, table>>
      BY <1>0, <2>5 DEF StopChild, Timeout, Advance, Decide, Go, At
    <3>2. QED
      BY <2>1, <2>3, <3>1 DEF Tends
  <2>6. CASE ChildGone(w)
    BY <2>1, <2>3, <2>6 DEF ChildGone, Tends, Watched
  <2>7. CASE KillChild(w)
    <3>1. ~Watched(c)'
      BY <2>3, <2>7, Unwatched DEF KillChild, Tends
    <3>2. QED
      BY <3>1
  <2>8. QED
    BY <1>2, <2>4, <2>5, <2>6, <2>7
<1>3. QED
  BY <1>1, <1>2

\* a crash leaves what it tended to the next recovery, if it was registered
LEMMA CrashKids ==
  ASSUME IInv, OtherTypes, KidInv, NEW w \in Workers, Crash(w)
  PROVE  KidInv'
<1>0. kid \in [Children -> Kid]
  BY DEF OtherTypes
<1>1. pc[w] # "down" /\ UNCHANGED table
  BY DEF Crash, At
<1>2. lock' = None
  BY <1>1, OneUp DEF Crash, Vanish
<1> SUFFICES ASSUME NEW c \in Children, Watched(c)'
             PROVE  LeftBehind(c)'
  BY DEF KidInv
<1>3. /\ Watched(c) /\ kid'[c].job = kid[c].job
      /\ kid'[c].parent = IF kid[c].parent = w THEN None ELSE kid[c].parent
      /\ ~(kid[c].parent = w /\ pc[w] = "register")
  <2>1. kid'[c] = IF kid[c].parent = w
                  THEN [kid[c] EXCEPT !.parent = None, !.lost = @ \/ At(w, "register")]
                  ELSE kid[c]
    BY DEF Crash, Vanish
  <2>2. /\ kid'[c].job = kid[c].job
        /\ kid[c].lost => kid'[c].lost
        /\ kid[c].parent = w /\ At(w, "register") => kid'[c].lost
        /\ kid'[c].parent = IF kid[c].parent = w THEN None ELSE kid[c].parent
    BY <1>0, <2>1 DEF Kid
  <2>3. QED
    BY <2>2 DEF Watched, Alive, At
<1>4. CASE Tends(w, c)
  <2>1. table[kid[c].job].state = RUNNING /\ table[kid[c].job].child = c
    BY <1>1, <1>3, <1>4 DEF Tends, IInv, ClaimHeld, RunSteps
  <2>2. kid[c].parent = w
    BY <1>4 DEF Tends
  <2>3. QED
    BY <1>1, <1>2, <1>3, <2>1, <2>2 DEF LeftBehind
<1>5. CASE LeftBehind(c)
  BY <1>1, <1>2, <1>3, <1>5, ConstantsOK DEF LeftBehind
<1>6. QED
  BY <1>1, <1>3, <1>4, <1>5, KidSeen

\* the steps of a worker as a whole
LEMMA MoverKids ==
  ASSUME IInv, OtherTypes, KidInv, NEW w \in Workers, Mover(w)
  PROVE  KidInv'
<1>1. CASE RunnerFault(w)
  <2> SUFFICES ASSUME NEW c \in Children, Watched(c)' PROVE FALSE
    BY DEF KidInv
  <2>1. LosesSight(mine[w]) /\ pc[w] \in {"register", "poll", "exited", "stopped"}
    BY <1>1 DEF RunnerFault
  <2>2. kid'[c] = kid[c] /\ c # mine[w]
    BY <2>1, Unwatched
  <2>3. Watched(c)
    BY <2>2 DEF Watched, Alive
  <2>4. Tends(w, c)
    BY <2>1, <2>3, KidSeen DEF Due
  <2>5. QED
    BY <2>2, <2>4 DEF Tends
<1>2. CASE \/ Start(w) \/ ListRunning(w) \/ RecoverJob(w) \/ Recovered(w)
           \/ \E j \in Jobs : KillOrphan(w, j)
  BY <1>2, RecoveryKids
<1>3. CASE \/ Register(w) \/ ChildGone(w) \/ StopChild(w) \/ Timeout(w)
           \/ KillChild(w) \/ \E c \in Children : Spawn(w, c)
  BY <1>3, AttemptKids
<1>4. CASE Crash(w)
  BY <1>4, CrashKids
<1>5. CASE Signal(w)
  BY <1>5, KidFrame DEF Signal
<1>6. CASE \/ Leave(w) \/ ListBlocked(w) \/ TooEarly(w) \/ Unblocked(w)
           \/ ClaimNothing(w) \/ \E j \in Jobs : UnblockOne(w, j) \/ Claim(w, j)
  <2>1. pc[w] \in {"loop", "unblock", "claim"}
    BY <1>6 DEF Leave, ListBlocked, TooEarly, Unblocked, ClaimNothing,
       UnblockOne, Claim, At
  <2>2. UNCHANGED kid \/ Vanish(w)
    BY <1>6 DEF Leave, ListBlocked, TooEarly, Unblocked, ClaimNothing,
       UnblockOne, Claim
  <2>3. QED
    BY <2>1, <2>2, NoKids, NoneWatched
<1>7. CASE Leaving(w) \/ Tell(w)
  <2>1. pc[w] \in {"give back", "retry", "continue", "park", "finish", "tell"}
    BY <1>7 DEF Leaving, GiveBack, Retry, Continue, Park, FinishJob, Tell, At
  <2>2. UNCHANGED kid
    BY <1>7 DEF Leaving, GiveBack, Retry, Continue, Park, FinishJob, Tell
  <2>3. QED
    BY <2>1, <2>2, NoKids, NoneWatched
<1>8. CASE \/ Precheck(w) \/ Gate(w) \/ PrepareFails(w) \/ Prepare(w)
           \/ ReadResult(w) \/ AfterStop(w) \/ RetriesUsed(w) \/ FailToBlocked(w)
           \/ QueueContinuation(w) \/ FailToFinal(w) \/ ApplyRollback(w) \/ HandOff(w)
  <2>1. pc[w] \in {"precheck", "gate", "prepare", "exited", "stopped", "retry",
                   "raised", "rollback", "hand off"}
    BY <1>8 DEF Precheck, Gate, PrepareFails, Prepare, ReadResult, AfterStop,
       RetriesUsed, FailToBlocked, QueueContinuation, FailToFinal,
       ApplyRollback, HandOff, At
  <2>2. UNCHANGED kid
    BY <1>8 DEF Precheck, Gate, PrepareFails, Prepare, ReadResult, AfterStop,
       RetriesUsed, FailToBlocked, QueueContinuation, FailToFinal,
       ApplyRollback, HandOff
  <2>3. QED
    BY <2>1, <2>2, NoKids, NoneWatched
<1>9. QED
  BY <1>1, <1>2, <1>3, <1>4, <1>5, <1>6, <1>7, <1>8
     DEF Mover, Worker, Serve, RunJob, Leaving

LEMMA KidStep ==
  ASSUME IInv, OtherTypes, KidInv, [Next]_vars
  PROVE  KidInv'
<1>1. ASSUME NEW c \in Children, Child(c)
      PROVE  KidInv'
  <2>1. UNCHANGED kid \/ Kill(c)
    BY <1>1 DEF Child, ChildActs, ChildFinishes, ChildDies
  <2>2. \A d \in Children : kid'[d] = kid[d] \/ ~Watched(d)'
    BY <2>1, Unwatched
  <2>3. UNCHANGED <<table, lock, pc, cur, mine, todo>>
    BY <1>1 DEF Child, ChildActs, ChildFinishes, ChildDies, workerVars
  <2>4. QED
    BY <2>2, <2>3, KidFrame
<1>2. ASSUME NEW k \in Jobs, User(k)
      PROVE  KidInv'
  <2>1. UNCHANGED <<kid, lock, pc, cur, mine, todo>>
    BY <1>2 DEF User, Submit, Cancel, OwnerUnblocks, workerVars
  <2>2. QED
    BY <1>2, <2>1, KidFrame, RunningRowKept
<1>3. CASE KeysBreak \/ KeysHeal \/ UNCHANGED vars
  <2>1. UNCHANGED <<table, kid, lock, pc, cur, mine, todo>>
    BY <1>3 DEF KeysBreak, KeysHeal, vars, workerVars
  <2>2. QED
    BY <2>1, KidFrame
<1>4. QED
  BY <1>1, <1>2, <1>3, MoverKids, Movers

\* Before the child and until its exit is read, the result on disk is its own or
\* that of a child nobody watches.
ResultInv ==
    \A w \in Workers :
        LET r == disk[cur[w]].result IN
        /\ pc[w] = "spawn" => r = None \/ kid[r.by].lost
        /\ pc[w] \in {"register", "poll", "exited"} =>
              r = None \/ r.by = mine[w] \/ kid[r.by].lost

LEMMA InitKids == Init => KidInv /\ ResultInv
BY DEF Init, KidInv, Watched, Alive, ResultInv

\* How a worker comes to the steps ResultInv speaks of.
LEMMA ResultSteps ==
  ASSUME IInv, OtherTypes, NEW w \in Workers, Mover(w),
         pc'[w] \in {"spawn", "register", "poll", "exited"}
  PROVE  \/ Prepare(w) /\ pc'[w] = "spawn"
         \/ \E c \in Children : Spawn(w, c) /\ pc'[w] = "register"
         \/ /\ Register(w) \/ ChildGone(w)
            /\ pc[w] \in {"register", "poll"} /\ pc'[w] # "spawn"
            /\ UNCHANGED <<cur, mine, disk, kid>>
         \/ UNCHANGED <<pc, cur, mine, disk, kid>>
<1>1. pc \in [Workers -> PCs]
  BY DEF IInv, CoreTypes
<1>2. ~Serve(w)
  BY <1>1 DEF Serve, Start, ListRunning, KillOrphan, RecoverJob, Recovered,
     Leave, ListBlocked, TooEarly, UnblockOne, Unblocked, Claim, ClaimNothing,
     Vanish, Advance, Decide, Go, At
<1>3. ~Leaving(w) /\ ~Tell(w) /\ ~Crash(w)
  BY <1>1 DEF Leaving, GiveBack, Retry, Continue, Park, FinishJob, Tell, Crash,
     BackToLoop, Advance, Decide, Vanish, Go
<1>4. ~Inside(w) \/ Prepare(w) \/ ChildGone(w)
  BY <1>1 DEF Inside, Precheck, Gate, PrepareFails, StopChild, Timeout, KillChild,
     RunnerFault, ReadResult, AfterStop, RetriesUsed, FailToBlocked,
     QueueContinuation, FailToFinal, ApplyRollback, HandOff, Advance, Decide, Go
<1>5. Prepare(w) => pc'[w] = "spawn"
  BY <1>1 DEF Prepare, Advance, Decide, Go
<1>6. \A c \in Children : Spawn(w, c) => pc'[w] = "register"
  BY <1>1 DEF Spawn, Go
<1>7. Register(w) \/ ChildGone(w) =>
         /\ pc[w] \in {"register", "poll"} /\ pc'[w] # "spawn"
         /\ UNCHANGED <<cur, mine, disk, kid>>
  BY <1>1 DEF Register, ChildGone, Advance, Decide, Go, At, fileVars
<1>8. Signal(w) => UNCHANGED <<pc, cur, mine, disk, kid>>
  BY DEF Signal, fileVars
<1>9. QED
  BY <1>2, <1>3, <1>4, <1>5, <1>6, <1>7, <1>8, MoverKinds

\* Out of sight a child stays until its identity is used anew.
LEMMA LostStays ==
  ASSUME OtherTypes, NEW c \in Children, Child(c), NEW d \in Children, kid[d].lost
  PROVE  kid'[d].lost
<1>1. UNCHANGED kid \/ Kill(c)
  BY DEF Child, ChildActs, ChildFinishes, ChildDies
<1>2. QED
  BY <1>1 DEF Kill, OtherTypes, Kid

LEMMA ResultStep ==
  ASSUME IInv, OtherTypes, KidInv, ResultInv, [Next]_vars
  PROVE  ResultInv'
<1> DEFINE Good(v) == LET r == disk'[cur'[v]].result IN
                      \/ r = None
                      \/ pc'[v] # "spawn" /\ r.by = mine'[v]
                      \/ kid'[r.by].lost
<1> SUFFICES ASSUME NEW v \in Workers,
                    pc'[v] \in {"spawn", "register", "poll", "exited"}
             PROVE  Good(v)
  BY DEF ResultInv
<1>0. /\ mine \in [Workers -> Children \cup {None}] /\ disk \in [Jobs -> Disk]
      /\ cur \in [Workers -> Jobs \cup {None}] /\ kid \in [Children -> Kid]
  BY DEF IInv, CoreTypes, OtherTypes
<1>1. CASE UNCHANGED <<pc, cur, mine, disk, kid>>
  BY <1>1 DEF ResultInv
<1>2. ASSUME NEW w \in Workers, Mover(w)
      PROVE  Good(v)
  <2>1. v = w
    BY <1>2, OthersStay
  <2>2. CASE Prepare(w)
    <3>1. cur[w] \in Jobs /\ cur'[w] = cur[w]
      BY <1>0, <2>2 DEF Prepare, At, RunSteps, IInv, PlanFits, Advance, Decide
    <3>2. disk'[cur[w]].result = None
      BY <1>0, <2>2, <3>1 DEF Prepare, CleanStart, Rewrite, Disk
    <3>3. QED
      BY <2>1, <3>1, <3>2
  <2>3. ASSUME NEW c \in Children, Spawn(w, c)
        PROVE  Good(v)
    <3> DEFINE r == disk[cur[w]].result
    <3>1. /\ cur[w] \in Jobs /\ cur' = cur
          /\ r = None \/ kid[r.by].lost
      BY <2>3 DEF Spawn, At, RunSteps, IInv, PlanFits, ResultInv
    <3>2. disk'[cur[w]].result = r
      BY <1>0, <2>3, <3>1 DEF Spawn, Rewrite, Disk
    <3>3. r # None => r.by # c
      <4>1. ~In(cur[w], Final)
        BY <2>3 DEF Spawn, At, IInv, ClaimHeld, RunSteps, In, Final
      <4>2. QED
        BY <2>3, <3>1, <4>1 DEF Spawn, Fresh
    <3>4. r # None => kid'[r.by].lost
      <4>1. kid' = [kid EXCEPT ![c] = [job |-> cur[w], parent |-> w, lost |-> FALSE]]
        BY <2>3 DEF Spawn
      <4>2. r # None => r.by \in Children
        BY <1>0, <3>1 DEF Disk, Result
      <4>3. QED
        BY <1>0, <3>1, <3>3, <4>1, <4>2
    <3>5. QED
      BY <2>1, <3>1, <3>2, <3>4
  <2>4. CASE /\ pc[w] \in {"register", "poll"} /\ pc'[w] # "spawn"
             /\ UNCHANGED <<cur, mine, disk, kid>>
    BY <2>1, <2>4 DEF ResultInv
  <2>5. QED
    BY <1>1, <1>2, <2>1, <2>2, <2>3, <2>4, ResultSteps
<1>3. ASSUME NEW c \in Children, Child(c)
      PROVE  Good(v)
  <2>1. UNCHANGED <<pc, cur, mine>>
    BY <1>3 DEF Child, ChildActs, ChildFinishes, ChildDies, workerVars
  <2>2. cur[v] \in Jobs
    BY <2>1 DEF IInv, PlanFits, RunSteps
  <2>3. CASE disk'[cur[v]].result = disk[cur[v]].result
    <3> DEFINE r == disk[cur[v]].result
    <3>1. r # None => r.by \in Children
      BY <1>0, <2>2 DEF Disk, Result
    <3>2. \/ r = None
          \/ pc[v] # "spawn" /\ r.by = mine[v]
          \/ kid[r.by].lost
      BY <2>1 DEF ResultInv
    <3>3. r # None /\ kid[r.by].lost => kid'[r.by].lost
      BY <1>3, <3>1, LostStays
    <3>4. QED
      BY <2>1, <2>3, <3>2, <3>3
  <2>4. CASE Alive(c) /\ cur[v] = kid[c].job /\ disk'[cur[v]].result.by = c
    <3>1. CASE Watched(c)
      <4>1. Tends(v, c)
        BY <2>1, <3>1, KidSeen DEF Due
      <4>2. mine[v] = c /\ pc[v] # "spawn"
        BY <4>1 DEF Tends
      <4>3. QED
        BY <2>1, <2>4, <4>2
    <3>2. CASE kid[c].lost
      BY <1>3, <2>1, <2>4, <3>2, LostStays
    <3>3. QED
      BY <2>4, <3>1, <3>2 DEF Watched
  <2>5. QED
    BY <1>3, <2>2, <2>3, <2>4, ChildFiles
<1>4. CASE \/ \E k \in Jobs : User(k)
           \/ KeysBreak \/ KeysHeal \/ UNCHANGED vars
  <2>1. UNCHANGED <<pc, cur, mine, disk, kid>>
    BY <1>4 DEF User, Submit, Cancel, OwnerUnblocks, KeysBreak, KeysHeal, vars,
       fileVars, workerVars
  <2>2. QED
    BY <1>1, <2>1
<1>5. QED
  BY <1>2, <1>3, <1>4, Movers

\* Only a running job has a live child, and only one, but for those the workers
\* lost sight of (worker.py between Popen and on_child, in _kill_orphan and in
\* subprocess_runner): a child that was registered is never left behind.
THEOREM OneChildOfRunning == Spec => []OnlyRunningHasChild
<1>1. Init => KidInv
  BY InitKids
<1>2. IInv /\ OtherTypes /\ KidInv /\ [Next]_vars => KidInv'
  BY KidStep
<1>3. IInv /\ OtherTypes /\ KidInv => OnlyRunningHasChild
  <2> SUFFICES ASSUME IInv, OtherTypes, KidInv,
                      NEW c \in Children, NEW d \in Children
               PROVE  /\ Watched(c) => In(kid[c].job, {RUNNING})
                      /\ Watched(c) /\ Watched(d) /\ kid[c].job = kid[d].job => c = d
    BY DEF OnlyRunningHasChild
  <2>1. ASSUME NEW w \in Workers, Tends(w, c)
        PROVE  /\ table[kid[c].job].state = RUNNING
               /\ Watched(d) => Tends(w, d)
    <3>1. pc[w] \in {"register", "poll", "kill"}
      BY <2>1 DEF Tends
    <3>2. table[kid[c].job].state = RUNNING
      BY <2>1, <3>1 DEF Tends, IInv, ClaimHeld, RunSteps
    <3>3. Watched(d) => Tends(w, d)
      BY <3>1, KidSeen DEF Due
    <3>4. QED
      BY <3>2, <3>3
  <2>2. ASSUME NEW w \in Workers, Tends(w, d), Watched(c)
        PROVE  Tends(w, c)
    <3>1. pc[w] \in {"register", "poll", "kill"}
      BY <2>2 DEF Tends
    <3>2. QED
      BY <2>2, <3>1, KidSeen DEF Due
  <2>3. QED
    BY <2>1, <2>2 DEF KidInv, LeftBehind, Tends, In
<1>4. QED
  BY <1>1, <1>2, <1>3, Invariance, PTL DEF Spec

\* The result a worker acts on is that of the child of this very attempt, or of
\* one that the workers lost sight of.
THEOREM OwnResult == Spec => []ReadsOwnResult
<1>1. Init => KidInv /\ ResultInv
  BY InitKids
<1>2. IInv /\ OtherTypes /\ KidInv /\ ResultInv /\ [Next]_vars => (KidInv /\ ResultInv)'
  BY KidStep, ResultStep
<1>3. ResultInv => ReadsOwnResult
  BY DEF ResultInv, ReadsOwnResult, At
<1>4. QED
  BY <1>1, <1>2, <1>3, Invariance, PTL DEF Spec

=============================================================================
