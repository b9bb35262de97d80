-------------------------- MODULE HostWorkerProofs --------------------------
(***************************************************************************)
(* HostWorker for any number of jobs, workers and children and any bounds: *)
(* one running job at a time, claims held to the end, and the lifecycle    *)
(* the owner was promised.                                                 *)
(***************************************************************************)
EXTENDS HostWorker, JobTableProofs

CoreTypes ==
    /\ lock \in Workers \cup {None}
    /\ pc \in [Workers -> PCs]
    /\ cur \in [Workers -> Jobs \cup {None}]
    /\ att \in [Workers -> Nat]
    /\ plan \in [Workers -> Stops \cup Final \cup Reasons \cup {None}]
    /\ todo \in [Workers -> SUBSET Jobs]
    /\ seen \in [Workers -> SUBSET Jobs]

OtherTypes ==
    /\ asked \in [Jobs -> Asking]
    /\ mine \in [Workers -> Children \cup {None}]
    /\ stop \in [Workers -> BOOLEAN]
    /\ kid \in [Children -> Kid]
    /\ disk \in [Jobs -> Disk]
    /\ handed \in [Jobs -> SUBSET Final]
    /\ told \in [Jobs -> SUBSET Final]
    /\ keysOk \in BOOLEAN
    /\ count \in [Counters -> Nat]

\* the flock: exactly the process that is up holds it
LockHeld == \A w \in Workers : pc[w] # "down" <=> lock = w

Recovering(w) == pc[w] \in {"recover", "recover row"}

\* recover() reads the running rows once; until it is through, every row still
\* on its list is running and every flag it saw is up
RecoversRunning ==
    \A w \in Workers :
        /\ Recovering(w) => \A j \in todo[w] :
              table[j].state = RUNNING /\ (j \in seen[w] => table[j].cancel)
        /\ pc[w] = "recover row" => cur[w] \in todo[w]

Running1(w, j) ==
    \/ pc[w] \in RunSteps /\ cur[w] = j
    \/ pc[w] = "boot"
    \/ Recovering(w) /\ j \in todo[w]

\* a running row is the lock holder's job, or one it is about to recover
RunningIsOwned ==
    \A j \in Jobs : In(j, {RUNNING}) /\ lock # None => Running1(lock, j)

\* the step run_job() is at and what it decided fit together
PlanFits ==
    \A w \in Workers :
        /\ pc[w] \in RunSteps => cur[w] \in Jobs
        /\ pc[w] = "park" => plan[w] \in Reasons
        /\ pc[w] \in {"hand off", "finish"} =>
              /\ plan[w] \in Final
              /\ plan[w] = CANCELLED => table[cur[w]].cancel
        /\ pc[w] = "tell" => plan[w] \in Final

NothingPaused == \A j \in Jobs : ~In(j, {PAUSED})

\* The inductive invariant.  OneRunning alone is not inductive: a claim keeps it
\* only because RunningIsOwned says that a worker that reached the claim has
\* nothing running left, which in turn needs the lock and the list of recover().
IInv ==
    /\ TableInv
    /\ CoreTypes
    /\ LockHeld
    /\ ClaimHeld
    /\ OneRunning
    /\ RecoversRunning
    /\ RunningIsOwned
    /\ PlanFits
    /\ NothingPaused

USE DEF ABSENT, QUEUED, RUNNING, PAUSED, BLOCKED, DONE, FAILED, CANCELLED

coreVars == <<lock, pc, cur, att, plan, todo, seen>>

-----------------------------------------------------------------------------
(* Kinds of steps                                                          *)

\* Only one process is up, so what must hold of every process that is up is to
\* be shown of the one that moves.
LEMMA OneUp ==
  ASSUME IInv, NEW w \in Workers, pc[w] # "down"
  PROVE  lock = w /\ \A v \in Workers \ {w} : pc[v] = "down"
BY DEF IInv, LockHeld

\* Steps of children and of the outside world touch none of this.
LEMMA OutsideStep ==
  ASSUME IInv, UNCHANGED table, UNCHANGED coreVars
  PROVE  IInv'
<1>1. TableInv'
  BY DEF IInv, TableInv, AbsentIsEmpty, SeqsBounded, Seqs, SeqsDistinct,
         ClaimsCounted, In
<1>2. QED
  BY <1>1 DEF IInv, CoreTypes, LockHeld, ClaimHeld, OneRunning, RecoversRunning,
     RunningIsOwned, Running1, Recovering, PlanFits, NothingPaused, In, coreVars

\* A user's write changes one row: it starts and stops no running job and never
\* takes a cancel flag back.
LEMMA UserStep ==
  ASSUME IInv, TableInv', UNCHANGED coreVars, NEW j \in Jobs,
         \A k \in Jobs \ {j} : table'[k] = table[k],
         table'[j].state # PAUSED,
         table[j].state = RUNNING <=> table'[j].state = RUNNING,
         table[j].state = RUNNING =>
            /\ table'[j].worker = table[j].worker
            /\ table'[j].attempts = table[j].attempts
            /\ table[j].cancel => table'[j].cancel
  PROVE  IInv'
<1>1. \A k \in Jobs :
        /\ table[k].state = RUNNING <=> table'[k].state = RUNNING
        /\ table[k].state = RUNNING =>
              /\ table'[k].worker = table[k].worker
              /\ table'[k].attempts = table[k].attempts
              /\ table[k].cancel => table'[k].cancel
  OBVIOUS
<1>2. CoreTypes' /\ LockHeld'
  BY DEF IInv, CoreTypes, LockHeld, coreVars
<1>3. ClaimHeld'
  BY <1>1 DEF IInv, ClaimHeld, PlanFits, coreVars
<1>4. OneRunning' /\ RunningIsOwned'
  BY <1>1 DEF IInv, OneRunning, RunningIsOwned, Running1, Recovering, In, coreVars
<1>5. RecoversRunning'
  BY <1>1 DEF IInv, RecoversRunning, Recovering, CoreTypes, coreVars
<1>6. PlanFits'
  <2>1. \A w \in Workers : pc[w] \in RunSteps =>
           cur[w] \in Jobs /\ table[cur[w]].state = RUNNING
    BY DEF IInv, ClaimHeld, PlanFits
  <2>2. QED
    BY <1>1, <2>1 DEF IInv, PlanFits, RunSteps, coreVars
<1>7. NothingPaused'
  BY DEF IInv, NothingPaused, In
<1>8. QED
  BY <1>2, <1>3, <1>4, <1>5, <1>6, <1>7 DEF IInv

\* A step inside run_job(): it goes on and may decide, the table stays.
LEMMA RunStep ==
  ASSUME IInv, UNCHANGED table, NEW w \in Workers, pc[w] \in RunSteps,
         NEW what \in Stops \cup Final \cup Reasons \cup {None},
         NEW step \in RunSteps,
         plan' = [plan EXCEPT ![w] = what], pc' = [pc EXCEPT ![w] = step],
         UNCHANGED <<lock, cur, att, todo, seen>>,
         step = "park" => what \in Reasons,
         step \in {"hand off", "finish"} =>
            what \in Final /\ (what = CANCELLED => table[cur[w]].cancel)
  PROVE  IInv'
<1>1. pc[w] # "down" /\ ~Recovering(w) /\ pc[w] # "boot"
  BY DEF RunSteps, Recovering
<1>2. step # "down" /\ step \notin {"recover", "recover row", "boot"} /\ step \in PCs
  BY DEF RunSteps, PCs
<1>3. lock = w /\ \A v \in Workers \ {w} : pc[v] = "down"
  BY <1>1, OneUp
<1>4. /\ pc'[w] = step /\ plan'[w] = what
      /\ \A v \in Workers \ {w} : pc'[v] = "down"
  BY <1>3 DEF IInv, CoreTypes
<1>5. TableInv'
  BY DEF IInv, TableInv, AbsentIsEmpty, SeqsBounded, Seqs, SeqsDistinct,
         ClaimsCounted, In
<1>6. CoreTypes' /\ LockHeld'
  BY <1>2, <1>3, <1>4 DEF IInv, CoreTypes, LockHeld
<1>7. ClaimHeld'
  <2>1. "down" \notin RunSteps
    BY DEF RunSteps
  <2>2. QED
    BY <1>3, <1>4, <2>1 DEF IInv, ClaimHeld
<1>8. OneRunning' /\ NothingPaused'
  BY DEF IInv, OneRunning, NothingPaused, In
<1>9. RecoversRunning'
  BY <1>2, <1>4 DEF RecoversRunning, Recovering
<1>10. RunningIsOwned'
  BY <1>1, <1>3, <1>4 DEF IInv, RunningIsOwned, Running1, In
<1>11. PlanFits'
  BY <1>4 DEF IInv, PlanFits, RunSteps
<1>12. QED
  BY <1>5, <1>6, <1>7, <1>8, <1>9, <1>10, <1>11 DEF IInv

\* A run ends: its row leaves RUNNING, the worker leaves run_job().
LEMMA RunEnds ==
  ASSUME IInv, TableInv', NEW w \in Workers, pc[w] \in RunSteps,
         NEW step \in {"loop", "tell"},
         pc' = [pc EXCEPT ![w] = step], UNCHANGED lock, CoreTypes',
         \A k \in Jobs \ {cur[w]} : table'[k] = table[k],
         table'[cur[w]].state \notin {RUNNING, PAUSED},
         step = "tell" => plan'[w] \in Final
  PROVE  IInv'
<1>1. pc[w] # "down" /\ ~Recovering(w) /\ pc[w] # "boot"
  BY DEF RunSteps, Recovering
<1>2. step \notin RunSteps \cup {"recover", "recover row", "boot", "down"}
  BY DEF RunSteps
<1>3. lock = w /\ \A v \in Workers \ {w} : pc[v] = "down"
  BY <1>1, OneUp
<1>4. pc'[w] = step /\ \A v \in Workers \ {w} : pc'[v] = "down"
  BY <1>3 DEF IInv, CoreTypes
<1>5. \A k \in Jobs : table'[k].state # RUNNING
  <2>1. \A k \in Jobs : table[k].state = RUNNING => k = cur[w]
    BY <1>1, <1>3 DEF IInv, RunningIsOwned, Running1, In, CoreTypes, RunSteps,
       ClaimHeld, OneRunning, PlanFits
  <2>2. QED
    BY <2>1
<1>6. LockHeld'
  BY <1>2, <1>3, <1>4 DEF LockHeld
<1>7. ClaimHeld' /\ PlanFits' /\ RecoversRunning'
  BY <1>2, <1>4 DEF ClaimHeld, PlanFits, RecoversRunning, Recovering, RunSteps
<1>8. OneRunning' /\ RunningIsOwned'
  BY <1>5 DEF OneRunning, RunningIsOwned, In
<1>9. NothingPaused'
  BY DEF IInv, NothingPaused, In
<1>10. QED
  BY <1>6, <1>7, <1>8, <1>9 DEF IInv

\* The process is gone.
LEMMA VanishStep ==
  ASSUME IInv, UNCHANGED table, NEW w \in Workers, pc[w] # "down", Vanish(w)
  PROVE  IInv'
<1>1. lock = w /\ \A v \in Workers \ {w} : pc[v] = "down"
  BY OneUp
<1>2. lock' = None /\ \A v \in Workers : pc'[v] = "down"
  BY <1>1 DEF IInv, CoreTypes, Vanish, Go
<1>3. TableInv'
  BY DEF IInv, TableInv, AbsentIsEmpty, SeqsBounded, Seqs, SeqsDistinct,
         ClaimsCounted, In
<1>4. CoreTypes'
  BY <1>2 DEF IInv, CoreTypes, Vanish, Go, PCs
<1>5. LockHeld'
  BY <1>2, ConstantsOK DEF LockHeld
<1>6. ClaimHeld' /\ PlanFits' /\ RecoversRunning'
  BY <1>2 DEF ClaimHeld, PlanFits, RecoversRunning, Recovering, RunSteps
<1>7. OneRunning' /\ RunningIsOwned' /\ NothingPaused'
  BY <1>2 DEF IInv, OneRunning, RunningIsOwned, NothingPaused, In
<1>8. QED
  BY <1>3, <1>4, <1>5, <1>6, <1>7 DEF IInv

\* The initial state satisfies the inductive invariant.
LEMMA InitInv == Init => IInv
<1> SUFFICES ASSUME Init PROVE IInv
  OBVIOUS
<1>1. TableInv
  BY TableInitInv DEF Init
<1>2. \A j \in Jobs : table[j].state = ABSENT
  BY DEF Init, TableInit, NoRow
<1>3. CoreTypes
  BY DEF Init, CoreTypes, PCs
<1>4. LockHeld
  BY ConstantsOK DEF Init, LockHeld
<1>5. ClaimHeld /\ PlanFits /\ RecoversRunning
  BY DEF Init, ClaimHeld, PlanFits, RecoversRunning, Recovering, RunSteps
<1>6. OneRunning /\ RunningIsOwned /\ NothingPaused
  BY <1>2 DEF OneRunning, RunningIsOwned, NothingPaused, In
<1>7. QED
  BY <1>1, <1>3, <1>4, <1>5, <1>6 DEF IInv

-----------------------------------------------------------------------------
(* serve()                                                                 *)

\* A step of serve() that leaves the table alone and lands outside run_job().
LEMMA ServeStep ==
  ASSUME IInv, UNCHANGED table, NEW w \in Workers,
         pc[w] \in Serving \cup {"down", "tell"},
         NEW step \in Serving, lock \in {w, None}, lock' = w,
         pc' = [pc EXCEPT ![w] = step], CoreTypes',
         step \in {"recover", "recover row"} =>
           \A j \in Jobs :
             /\ j \in todo'[w] <=> table[j].state = RUNNING
             /\ j \in todo'[w] /\ j \in seen'[w] => table[j].cancel,
         step = "recover row" => cur'[w] \in todo'[w],
         step \in {"loop", "unblock", "claim"} => \A j \in Jobs : ~In(j, {RUNNING})
  PROVE  IInv'
<1>1. \A v \in Workers \ {w} : pc[v] = "down"
  BY ConstantsOK DEF IInv, LockHeld
<1>2. pc'[w] = step /\ \A v \in Workers \ {w} : pc'[v] = "down"
  BY <1>1 DEF IInv, CoreTypes
<1>3. step \notin RunSteps \cup {"down", "tell"}
  BY DEF Serving, RunSteps
<1>4. TableInv'
  BY DEF IInv, TableInv, AbsentIsEmpty, SeqsBounded, Seqs, SeqsDistinct,
         ClaimsCounted, In
<1>5. LockHeld'
  BY <1>2, <1>3 DEF LockHeld
<1>6. ClaimHeld' /\ PlanFits'
  BY <1>2, <1>3 DEF ClaimHeld, PlanFits, RunSteps
<1>7. RecoversRunning'
  BY <1>2 DEF RecoversRunning, Recovering, CoreTypes
<1>8. RunningIsOwned'
  BY <1>2 DEF RunningIsOwned, Running1, Recovering, In, Serving
<1>9. OneRunning' /\ NothingPaused'
  BY DEF IInv, OneRunning, NothingPaused, In
<1>10. QED
  BY <1>4, <1>5, <1>6, <1>7, <1>8, <1>9 DEF IInv

\* Past recovery and outside run_job() nothing is running.
LEMMA NothingRuns ==
  ASSUME IInv, NEW w \in Workers, pc[w] \in {"loop", "unblock", "claim", "tell"}
  PROVE  \A j \in Jobs : ~In(j, {RUNNING})
<1>1. lock = w
  BY OneUp
<1>2. \A j \in Jobs : ~Running1(w, j)
  BY DEF Running1, Recovering, RunSteps
<1>3. QED
  BY <1>1, <1>2, ConstantsOK DEF IInv, RunningIsOwned

\* While recovering, the running rows are those still on the list.
LEMMA ListIsRunning ==
  ASSUME IInv, NEW w \in Workers, Recovering(w), NEW j \in Jobs
  PROVE  /\ j \in todo[w] <=> table[j].state = RUNNING
         /\ j \in todo[w] /\ j \in seen[w] => table[j].cancel
<1>1. lock = w
  BY OneUp DEF Recovering
<1>2. pc[w] \notin RunSteps \cup {"boot"}
  BY DEF Recovering, RunSteps
<1>3. table[j].state = RUNNING => j \in todo[w]
  BY <1>1, <1>2, ConstantsOK DEF IInv, RunningIsOwned, Running1, In
<1>4. QED
  BY <1>3 DEF IInv, RecoversRunning

LEMMA StartInv ==
  ASSUME IInv, NEW w \in Workers, Start(w)
  PROVE  IInv'
<1>1. CoreTypes'
  BY DEF IInv, CoreTypes, Start, Go, PCs, Serving
<1>2. QED
  BY <1>1, ServeStep DEF Start, At, Go, Serving

LEMMA ListRunningInv ==
  ASSUME IInv, NEW w \in Workers, ListRunning(w)
  PROVE  IInv'
<1>1. lock = w
  BY OneUp DEF ListRunning, At
<1>2. CoreTypes'
  BY DEF IInv, CoreTypes, ListRunning, Go, PCs, Serving
<1>3. /\ todo'[w] = {j \in Jobs : Running(j)}
      /\ seen'[w] = {j \in Jobs : Running(j) /\ table[j].cancel}
  BY DEF IInv, CoreTypes, ListRunning
<1>4. QED
  BY <1>1, <1>2, <1>3, ServeStep DEF ListRunning, At, Go, Serving, Running, In

LEMMA KillOrphanInv ==
  ASSUME IInv, NEW w \in Workers, NEW j \in Jobs, KillOrphan(w, j)
  PROVE  IInv'
<1>1. lock = w
  BY OneUp DEF KillOrphan, At
<1>2. CoreTypes'
  BY DEF IInv, CoreTypes, KillOrphan, Go, PCs, Serving
<1>3. cur'[w] = j /\ j \in todo'[w]
  BY DEF IInv, CoreTypes, KillOrphan
<1>4. \A k \in Jobs :
        /\ k \in todo'[w] <=> table[k].state = RUNNING
        /\ k \in todo'[w] /\ k \in seen'[w] => table[k].cancel
  BY ListIsRunning DEF KillOrphan, At, Recovering
<1>5. QED
  BY <1>1, <1>2, <1>3, <1>4, ServeStep DEF KillOrphan, At, Go, Serving

LEMMA RecoveredInv ==
  ASSUME IInv, NEW w \in Workers, Recovered(w)
  PROVE  IInv'
<1>1. lock = w
  BY OneUp DEF Recovered, At
<1>2. CoreTypes'
  BY DEF IInv, CoreTypes, Recovered, Go, PCs, Serving
<1>3. \A j \in Jobs : ~In(j, {RUNNING})
  BY ListIsRunning DEF Recovered, At, Recovering, In
<1>4. QED
  BY <1>1, <1>2, <1>3, ServeStep DEF Recovered, At, Go, Serving

\* ListBlocked, TooEarly, Unblocked and an idle ClaimNothing: around the loop
LEMMA LoopInv ==
  ASSUME IInv, NEW w \in Workers,
         \/ ListBlocked(w) \/ TooEarly(w) \/ Unblocked(w)
         \/ ClaimNothing(w) /\ Advance(w, "loop")
  PROVE  IInv'
<1>1. pc[w] \in {"loop", "unblock", "claim"}
  BY DEF ListBlocked, TooEarly, Unblocked, ClaimNothing, At
<1>2. lock = w /\ lock' = w /\ UNCHANGED table
  BY <1>1, OneUp DEF ListBlocked, TooEarly, Unblocked, ClaimNothing,
     Advance, Decide
<1>3. CoreTypes'
  BY DEF IInv, CoreTypes, ListBlocked, TooEarly, Unblocked, Advance, Decide, Go,
         PCs, Serving
<1>4. PICK step \in {"loop", "unblock", "claim"} : pc' = [pc EXCEPT ![w] = step]
  BY DEF ListBlocked, TooEarly, Unblocked, ClaimNothing, Advance, Decide, Go
<1>5. QED
  BY <1>1, <1>2, <1>3, <1>4, NothingRuns, ServeStep DEF Serving

\* one row of the list of recover()
LEMMA RecoverJobInv ==
  ASSUME IInv, NEW w \in Workers, RecoverJob(w)
  PROVE  IInv'
<1> DEFINE j == cur[w]
<1>1. /\ lock = w /\ Recovering(w)
      /\ \A v \in Workers \ {w} : pc[v] = "down"
  BY OneUp DEF RecoverJob, At, Recovering
<1>2. j \in Jobs /\ j \in todo[w]
  BY DEF IInv, CoreTypes, RecoversRunning, RecoverJob, At
<1>3. TableInv'
  <2>1. (j \in seen[w]) \in BOOLEAN
    OBVIOUS
  <2>2. RowStep(j)
    BY <2>1 DEF RecoverJob, RowStep
  <2>3. QED
    BY <1>2, <2>2, RowStepKeepsInv DEF IInv
<1>4. /\ table'[j].state \notin {RUNNING, PAUSED}
      /\ \A k \in Jobs \ {j} : table'[k] = table[k]
  <2>1. PICK s \in {CANCELLED, FAILED, QUEUED} :
          \/ Write(j, [table[j] EXCEPT !.state = s, !.child = None])
          \/ Write(j, [table[j] EXCEPT !.state = s, !.worker = None, !.child = None,
                         !.attempts = IF FALSE THEN Refunded(@) ELSE @])
    BY DEF RecoverJob, RecoverRow, Requeue
  <2>2. table[j] \in Row /\ j \in Jobs
    BY <1>2 DEF IInv, TableInv
  <2>3. ASSUME NEW row, Write(j, row), row.state = s
        PROVE  /\ table'[j].state \notin {RUNNING, PAUSED}
               /\ \A k \in Jobs \ {j} : table'[k] = table[k]
    BY <2>2, <2>3 DEF Write, IInv, TableInv
  <2>4. CASE Write(j, [table[j] EXCEPT !.state = s, !.child = None])
    <3> DEFINE row == [table[j] EXCEPT !.state = s, !.child = None]
    <3>1. row.state = s
      BY <2>2 DEF Row
    <3>2. Write(j, row)
      BY <2>4
    <3> HIDE DEF row
    <3>3. QED
      BY <2>3, <3>1, <3>2
  <2>5. CASE Write(j, [table[j] EXCEPT !.state = s, !.worker = None, !.child = None,
                         !.attempts = IF FALSE THEN Refunded(@) ELSE @])
    <3> DEFINE row == [table[j] EXCEPT !.state = s, !.worker = None, !.child = None,
                         !.attempts = IF FALSE THEN Refunded(@) ELSE @]
    <3>1. row.state = s
      BY <2>2 DEF Row
    <3>2. Write(j, row)
      BY <2>5
    <3> HIDE DEF row
    <3>3. QED
      BY <2>3, <3>1, <3>2
  <2>6. QED
    BY <2>1, <2>4, <2>5
<1>5. /\ pc'[w] = "recover"
      /\ \A v \in Workers \ {w} : pc'[v] = "down"
      /\ todo'[w] = todo[w] \ {j}
      /\ UNCHANGED <<lock, seen>>
  BY <1>1 DEF RecoverJob, Go, IInv, CoreTypes
<1>6. CoreTypes'
  BY DEF IInv, CoreTypes, RecoverJob, Go, PCs, Serving
<1>7. LockHeld'
  BY <1>1, <1>5 DEF LockHeld
<1>8. ClaimHeld' /\ PlanFits'
  BY <1>5 DEF ClaimHeld, PlanFits, RunSteps
<1>9. \A k \in Jobs \ {j} :
        /\ k \in todo'[w] <=> table'[k].state = RUNNING
        /\ k \in todo'[w] /\ k \in seen'[w] => table'[k].cancel
  BY <1>1, <1>4, <1>5, ListIsRunning
<1>10. RecoversRunning'
  BY <1>2, <1>5, <1>6, <1>9 DEF RecoversRunning, Recovering, CoreTypes
<1>11. RunningIsOwned'
  BY <1>1, <1>4, <1>5, <1>9 DEF RunningIsOwned, Running1, Recovering, In
<1>12. OneRunning' /\ NothingPaused'
  BY <1>4 DEF IInv, OneRunning, NothingPaused, In
<1>13. QED
  BY <1>3, <1>6, <1>7, <1>8, <1>10, <1>11, <1>12 DEF IInv

\* one row of the list of unblock_if_keys_ok()
LEMMA UnblockOneInv ==
  ASSUME IInv, NEW w \in Workers, NEW j \in Jobs, UnblockOne(w, j)
  PROVE  IInv'
<1>1. /\ lock = w /\ pc[w] = "unblock" /\ pc' = pc /\ lock' = lock
      /\ \A v \in Workers \ {w} : pc[v] = "down"
  BY OneUp DEF UnblockOne, At
<1>2. CoreTypes'
  BY DEF IInv, CoreTypes, UnblockOne
<1>3. TableInv' /\ \A k \in Jobs : table'[k].state \notin {RUNNING, PAUSED}
  <2>1. \A k \in Jobs : table[k].state \notin {RUNNING, PAUSED}
    BY <1>1, NothingRuns DEF IInv, NothingPaused, In
  <2>2. CASE UNCHANGED table
    BY <2>1, <2>2 DEF IInv, TableInv, AbsentIsEmpty, SeqsBounded, Seqs,
       SeqsDistinct, ClaimsCounted, In
  <2>3. CASE Unblock(j)
    <3>1. TableInv'
      BY <2>3, RowStepKeepsInv DEF IInv, RowStep
    <3>2. QED
      BY <2>1, <2>3, <3>1 DEF Unblock, Write, IInv, TableInv, Row
  <2>4. QED
    BY <2>2, <2>3 DEF UnblockOne
<1>4. LockHeld'
  BY <1>1 DEF IInv, LockHeld
<1>5. ClaimHeld' /\ PlanFits' /\ RecoversRunning'
  BY <1>1 DEF ClaimHeld, PlanFits, RecoversRunning, Recovering, RunSteps
<1>6. OneRunning' /\ RunningIsOwned' /\ NothingPaused'
  BY <1>3 DEF OneRunning, RunningIsOwned, NothingPaused, In
<1>7. QED
  BY <1>2, <1>3, <1>4, <1>5, <1>6 DEF IInv

\* the claim: nothing else is running, so the claimed row becomes the one
LEMMA ClaimInv ==
  ASSUME IInv, NEW w \in Workers, NEW j \in Jobs, Claim(w, j)
  PROVE  IInv'
<1>1. /\ lock = w /\ pc[w] = "claim"
      /\ \A v \in Workers \ {w} : pc[v] = "down"
      /\ \A k \in Jobs : table[k].state # RUNNING
  BY OneUp, NothingRuns DEF Claim, At, In
<1>2. TableInv'
  BY RowStepKeepsInv DEF Claim, RowStep, IInv
<1>3. /\ table[j] \in Row
      /\ table'[j] = [table[j] EXCEPT !.state = RUNNING, !.attempts = @ + 1,
                                      !.worker = w, !.child = None]
      /\ \A k \in Jobs \ {j} : table'[k] = table[k]
  BY DEF Claim, ClaimNext, Write, IInv, TableInv
<1>4. /\ table'[j].state = RUNNING /\ table'[j].worker = w
      /\ table'[j].attempts = table[j].attempts + 1
      /\ table[j].attempts + 1 \in Nat
  BY <1>3 DEF Row
<1>5. /\ pc'[w] = "precheck" /\ cur'[w] = j /\ att'[w] = table[j].attempts + 1
      /\ \A v \in Workers \ {w} : pc'[v] = "down"
      /\ lock' = w
  BY <1>1 DEF Claim, Go, IInv, CoreTypes
<1>6. CoreTypes'
  BY <1>4 DEF IInv, CoreTypes, Claim, Go, PCs, RunSteps
<1>7. LockHeld'
  BY <1>5 DEF LockHeld
<1>8. ClaimHeld'
  BY <1>4, <1>5 DEF ClaimHeld, RunSteps
<1>9. PlanFits' /\ RecoversRunning'
  BY <1>5 DEF PlanFits, RecoversRunning, Recovering, RunSteps
<1>10. OneRunning'
  BY <1>1, <1>3 DEF OneRunning, In
<1>11. RunningIsOwned'
  BY <1>1, <1>3, <1>5 DEF RunningIsOwned, Running1, In, RunSteps
<1>12. NothingPaused'
  BY <1>3, <1>4 DEF IInv, NothingPaused, In
<1>13. QED
  BY <1>2, <1>6, <1>7, <1>8, <1>9, <1>10, <1>11, <1>12 DEF IInv

\* serve() as a whole
LEMMA ServeInv ==
  ASSUME IInv, NEW w \in Workers, Serve(w)
  PROVE  IInv'
<1>1. CASE Leave(w)
  BY <1>1, VanishStep DEF Leave, At
<1>2. CASE ClaimNothing(w)
  <2>1. CASE Vanish(w)
    BY <1>2, <2>1, VanishStep DEF ClaimNothing, At
  <2>2. CASE Advance(w, "loop")
    BY <1>2, <2>2, LoopInv
  <2>3. QED
    BY <1>2, <2>1, <2>2 DEF ClaimNothing
<1>3. CASE \E j \in Jobs : KillOrphan(w, j)
  BY <1>3, KillOrphanInv
<1>4. CASE \E j \in Jobs : UnblockOne(w, j)
  BY <1>4, UnblockOneInv
<1>5. CASE \E j \in Jobs : Claim(w, j)
  BY <1>5, ClaimInv
<1>6. CASE Start(w) \/ ListRunning(w) \/ RecoverJob(w) \/ Recovered(w)
  BY <1>6, StartInv, ListRunningInv, RecoverJobInv, RecoveredInv
<1>7. CASE ListBlocked(w) \/ TooEarly(w) \/ Unblocked(w)
  BY <1>7, LoopInv
<1>8. QED
  BY <1>1, <1>2, <1>3, <1>4, <1>5, <1>6, <1>7 DEF Serve

-----------------------------------------------------------------------------
(* run_job()                                                               *)

\* the steps of a run that write no row
Inside(w) ==
    \/ Precheck(w) \/ Gate(w) \/ PrepareFails(w) \/ Prepare(w)
    \/ ChildGone(w) \/ StopChild(w) \/ Timeout(w) \/ KillChild(w)
    \/ RunnerFault(w) \/ ReadResult(w) \/ AfterStop(w) \/ RetriesUsed(w)
    \/ FailToBlocked(w) \/ QueueContinuation(w) \/ FailToFinal(w)
    \/ ApplyRollback(w) \/ HandOff(w)

\* What such a step may decide, and when: nothing new, or a reason on the way to
\* the park, or an outcome on the way to the hand-off, CANCELLED only by the flag.
Fits(w, what, step) ==
    /\ what \in Stops \cup Final \cup Reasons \cup {None}
    /\ step \in RunSteps
    /\ Decide(w, what, step)
    /\ step = "park" => what \in Reasons
    /\ step \in {"hand off", "finish"} =>
          what \in Final /\ (what = CANCELLED => table[cur[w]].cancel)

LEMMA InsideDecides ==
  ASSUME IInv, OtherTypes, NEW w \in Workers, Inside(w)
  PROVE  /\ pc[w] \in RunSteps /\ UNCHANGED table
         /\ \E what, step : Fits(w, what, step)
<1>1. plan[w] \in Stops \cup Final \cup Reasons \cup {None}
  BY DEF IInv, CoreTypes
<1>2. pc[w] \in RunSteps /\ UNCHANGED table
  BY DEF Inside, Precheck, Gate, PrepareFails, Prepare, ChildGone, StopChild,
     Timeout, KillChild, RunnerFault, ReadResult, AfterStop, RetriesUsed,
     FailToBlocked, QueueContinuation, FailToFinal, ApplyRollback, HandOff,
     At, RunSteps
<1>3. CASE Precheck(w)
  <2>1. Fits(w, plan[w], "gate") \/ Fits(w, "credentials", "park")
    BY <1>1, <1>3 DEF Precheck, Fits, Advance, RunSteps, Reasons
  <2>2. QED
    BY <1>2, <2>1
<1>4. CASE Gate(w)
  <2>1. Fits(w, plan[w], "prepare") \/ Fits(w, "free_tier", "park")
    BY <1>1, <1>4 DEF Gate, Fits, Advance, RunSteps, Reasons
  <2>2. QED
    BY <1>2, <2>1
<1>5. CASE PrepareFails(w) \/ RunnerFault(w)
  <2>1. Fits(w, "hard", "raised")
    BY <1>5 DEF PrepareFails, RunnerFault, Fits, RunSteps, Stops
  <2>2. QED
    BY <1>2, <2>1
<1>6. CASE Prepare(w) \/ ChildGone(w) \/ StopChild(w) \/ KillChild(w)
             \/ QueueContinuation(w)
  <2>1. \E step \in {"spawn", "exited", "kill", "stopped", "raised", "continue"} :
          Fits(w, plan[w], step)
    BY <1>1, <1>6 DEF Prepare, ChildGone, StopChild, KillChild,
       QueueContinuation, Fits, Advance, RunSteps
  <2>2. QED
    BY <1>2, <2>1
<1>7. CASE Timeout(w)
  <2>1. Fits(w, "limit", "kill")
    BY <1>7 DEF Timeout, Fits, RunSteps, Stops
  <2>2. QED
    BY <1>2, <2>1
<1>8. CASE ReadResult(w)
  <2>1. \/ Fits(w, plan[w], "rollback") \/ Fits(w, plan[w], "retry")
        \/ Fits(w, "hard", "raised")
        \/ \E what \in Stops : Fits(w, what, "raised")
    <3>1. disk[cur[w]].result # None /\ Decide(w, disk[cur[w]].result.says, "raised")
            => disk[cur[w]].result.says \in Stops
      BY <1>2 DEF IInv, PlanFits, OtherTypes, Disk, Result
    <3>2. QED
      BY <1>1, <1>8, <3>1 DEF ReadResult, Fits, Advance, RunSteps, Stops
  <2>2. QED
    BY <1>2, <2>1
<1>9. CASE AfterStop(w)
  <2>1. Fits(w, CANCELLED, "hand off") \/ Fits(w, plan[w], "give back")
    BY <1>1, <1>9 DEF AfterStop, Fits, Advance, RunSteps, Final
  <2>2. QED
    BY <1>2, <2>1
<1>10. CASE RetriesUsed(w) \/ FailToFinal(w)
  <2>1. Fits(w, FAILED, "hand off")
    BY <1>10 DEF RetriesUsed, FailToFinal, Fits, RunSteps, Final
  <2>2. QED
    BY <1>2, <2>1
<1>11. CASE FailToBlocked(w)
  <2>1. Fits(w, "credentials", "park")
    BY <1>11 DEF FailToBlocked, Fits, RunSteps, Reasons
  <2>2. QED
    BY <1>2, <2>1
<1>12. CASE ApplyRollback(w)
  <2>1. Fits(w, DONE, "hand off")
    BY <1>12 DEF ApplyRollback, Fits, RunSteps, Final
  <2>2. QED
    BY <1>2, <2>1
<1>13. CASE HandOff(w)
  <2>1. Fits(w, plan[w], "finish")
    BY <1>1, <1>13 DEF HandOff, Fits, Advance, At, IInv, PlanFits, RunSteps
  <2>2. QED
    BY <1>2, <2>1
<1>14. QED
  BY <1>3, <1>4, <1>5, <1>6, <1>7, <1>8, <1>9, <1>10, <1>11, <1>12, <1>13
     DEF Inside

LEMMA InsideInv ==
  ASSUME IInv, OtherTypes, NEW w \in Workers, Inside(w)
  PROVE  IInv'
BY InsideDecides, RunStep DEF Fits, Decide, Go

\* the steps of a run that take its row out of RUNNING
Leaving(w) == GiveBack(w) \/ Retry(w) \/ Continue(w) \/ Park(w) \/ FinishJob(w)

LEMMA LeavingInv ==
  ASSUME IInv, NEW w \in Workers, Leaving(w)
  PROVE  IInv'
<1> DEFINE j == cur[w]
<1>1. pc[w] \in RunSteps
  BY DEF Leaving, GiveBack, Retry, Continue, Park, FinishJob, At, RunSteps
<1>2. /\ j \in Jobs /\ table[j] \in Row
      /\ pc[w] = "park" => plan[w] \in Reasons
      /\ pc[w] = "finish" => plan[w] \in Final
  BY <1>1 DEF IInv, PlanFits, TableInv
<1>3. RowStep(j)
  <2>1. CASE GiveBack(w) \/ Retry(w) \/ Continue(w)
    BY <2>1 DEF GiveBack, Retry, Continue, RowStep
  <2>2. CASE Park(w)
    BY <1>2, <2>2 DEF Park, At, RowStep
  <2>3. CASE FinishJob(w)
    BY <1>2, <2>3 DEF FinishJob, At, RowStep
  <2>4. QED
    BY <2>1, <2>2, <2>3 DEF Leaving
<1>4. TableInv' /\ \A k \in Jobs \ {j} : table'[k] = table[k]
  BY <1>2, <1>3, RowStepKeepsInv, RowStepEffect DEF IInv
<1>5. table'[j].state \notin {RUNNING, PAUSED}
  <2>1. ASSUME NEW refund \in BOOLEAN, Requeue(j, refund)
        PROVE  table'[j].state = QUEUED
    BY <1>2, <2>1 DEF Requeue, Write, Row, IInv, TableInv
  <2>2. CASE GiveBack(w) \/ Retry(w) \/ Continue(w)
    BY <2>1, <2>2 DEF GiveBack, Retry, Continue
  <2>3. CASE Park(w)
    BY <1>2, <2>3 DEF Park, Block, Write, Row, IInv, TableInv
  <2>4. CASE FinishJob(w)
    BY <1>2, <2>4 DEF FinishJob, Finish, Write, Row, IInv, TableInv, At, Final
  <2>5. QED
    BY <2>2, <2>3, <2>4 DEF Leaving
<1>6. PICK step \in {"loop", "tell"} : pc' = [pc EXCEPT ![w] = step]
  BY DEF Leaving, GiveBack, Retry, Continue, Park, FinishJob, BackToLoop,
     Advance, Decide, Go
<1>7. CoreTypes' /\ UNCHANGED lock
  <2>1. CASE BackToLoop(w)
    BY <2>1 DEF BackToLoop, IInv, CoreTypes, Go, PCs, Serving
  <2>2. CASE Advance(w, "tell")
    BY <2>2 DEF Advance, Decide, IInv, CoreTypes, Go, PCs
  <2>3. QED
    BY <2>1, <2>2 DEF Leaving, GiveBack, Retry, Continue, Park, FinishJob
<1>8. step = "tell" => plan'[w] \in Final
  <2>1. pc'[w] = step
    BY <1>6 DEF IInv, CoreTypes
  <2>2. pc'[w] = "tell" => FinishJob(w)
    BY DEF Leaving, GiveBack, Retry, Continue, Park, BackToLoop, Go, IInv, CoreTypes
  <2>3. FinishJob(w) => plan'[w] \in Final
    BY <1>2 DEF FinishJob, Advance, Decide, At, IInv, CoreTypes
  <2>4. QED
    BY <2>1, <2>2, <2>3
<1>9. QED
  BY <1>1, <1>4, <1>5, <1>6, <1>7, <1>8, RunEnds

LEMMA SpawnInv ==
  ASSUME IInv, NEW w \in Workers, NEW c \in Children, Spawn(w, c)
  PROVE  IInv'
<1>1. plan[w] \in Stops \cup Final \cup Reasons \cup {None}
  BY DEF IInv, CoreTypes
<1>2. plan' = [plan EXCEPT ![w] = plan[w]]
  BY DEF Spawn, IInv, CoreTypes
<1>3. QED
  BY <1>1, <1>2, RunStep DEF Spawn, At, Go, RunSteps

\* Register writes the child into the row of the run, Tell leaves run_job().
LEMMA RegisterInv ==
  ASSUME IInv, OtherTypes, NEW w \in Workers, Register(w)
  PROVE  IInv'
<1> DEFINE j == cur[w]
<1>1. /\ pc[w] \in RunSteps /\ j \in Jobs /\ mine[w] \in Children \cup {None}
      /\ plan[w] \in Stops \cup Final \cup Reasons \cup {None}
  BY DEF Register, At, RunSteps, IInv, PlanFits, CoreTypes, OtherTypes
<1>2. TableInv'
  BY <1>1, RowStepKeepsInv DEF Register, RowStep, IInv
<1>3. /\ table[j] \in Row
      /\ table'[j] = [table[j] EXCEPT !.child = mine[w]]
      /\ \A k \in Jobs \ {j} : table'[k] = table[k]
  BY <1>1 DEF Register, SetChild, Write, IInv, TableInv
<1>4. \A k \in Jobs :
        /\ table'[k].state = table[k].state
        /\ table'[k].worker = table[k].worker
        /\ table'[k].attempts = table[k].attempts
        /\ table'[k].cancel = table[k].cancel
  BY <1>3 DEF Row
<1>5. /\ lock = w /\ \A v \in Workers \ {w} : pc[v] = "down"
      /\ pc'[w] = "poll" /\ \A v \in Workers \ {w} : pc'[v] = "down"
      /\ UNCHANGED <<lock, cur, att, todo, seen>>
  <2>1. pc[w] # "down"
    BY <1>1 DEF RunSteps
  <2>2. QED
    BY <2>1, OneUp DEF Register, Advance, Decide, Go, IInv, CoreTypes
<1>6. CoreTypes' /\ LockHeld'
  BY <1>5 DEF Register, Advance, Decide, Go, IInv, CoreTypes, LockHeld, PCs, RunSteps
<1>7. ClaimHeld'
  <2>1. "down" \notin RunSteps
    BY DEF RunSteps
  <2>2. \A v \in Workers : pc'[v] \in RunSteps => v = w
    BY <1>5, <2>1
  <2>3. /\ lock' = w /\ cur'[w] = j /\ att'[w] = att[w]
        /\ table[j].state = RUNNING /\ table[j].worker = w
        /\ table[j].attempts = att[w]
    BY <1>1, <1>5 DEF IInv, ClaimHeld
  <2>4. QED
    BY <1>1, <1>4, <2>2, <2>3 DEF ClaimHeld
<1>8. PlanFits' /\ RecoversRunning'
  BY <1>1, <1>5 DEF PlanFits, RecoversRunning, Recovering, RunSteps
<1>9. OneRunning' /\ NothingPaused'
  BY <1>4 DEF IInv, OneRunning, NothingPaused, In
<1>10. RunningIsOwned'
  <2>1. \A k \in Jobs : table[k].state = RUNNING => k = j
    BY <1>1, <1>5 DEF IInv, ClaimHeld, OneRunning, In
  <2>2. QED
    BY <1>4, <1>5, <2>1 DEF RunningIsOwned, Running1, In, RunSteps
<1>11. QED
  BY <1>2, <1>6, <1>7, <1>8, <1>9, <1>10 DEF IInv

LEMMA TellInv ==
  ASSUME IInv, NEW w \in Workers, Tell(w)
  PROVE  IInv'
<1>1. lock = w /\ \A j \in Jobs : ~In(j, {RUNNING})
  BY OneUp, NothingRuns DEF Tell, At
<1>2. CoreTypes' /\ UNCHANGED <<lock, table>>
  BY DEF Tell, BackToLoop, IInv, CoreTypes, Go, PCs, Serving
<1>3. QED
  BY <1>1, <1>2, ServeStep DEF Tell, At, BackToLoop, Go, Serving

-----------------------------------------------------------------------------
(* Users, children, crashes                                                *)

\* what users write
LEMMA SubmitInv ==
  ASSUME IInv, NEW j \in Jobs, Submit(j)
  PROVE  IInv'
<1>1. TableInv'
  BY AddKeepsInv DEF Submit, IInv
<1>2. UNCHANGED coreVars
  BY DEF Submit, coreVars, workerVars
<1>3. /\ [NoRow EXCEPT !.state = QUEUED, !.seq = NextSeq].state = QUEUED
      /\ Write(j, [NoRow EXCEPT !.state = QUEUED, !.seq = NextSeq])
      /\ table[j].state = ABSENT
  BY DEF Submit, Add, NoRow, In
<1>4. /\ table'[j].state = QUEUED
      /\ \A k \in Jobs \ {j} : table'[k] = table[k]
  BY <1>3 DEF Write, IInv, TableInv
<1>5. QED
  BY <1>1, <1>2, <1>3, <1>4, UserStep

LEMMA OwnerUnblocksInv ==
  ASSUME IInv, NEW j \in Jobs, OwnerUnblocks(j)
  PROVE  IInv'
<1>1. TableInv'
  BY RowStepKeepsInv DEF OwnerUnblocks, RowStep, IInv
<1>2. UNCHANGED coreVars
  BY DEF OwnerUnblocks, coreVars, workerVars
<1>3. table[j] \in Row /\ table[j].state = BLOCKED
  BY DEF OwnerUnblocks, Unblock, In, IInv, TableInv
<1>4. /\ table'[j].state = QUEUED
      /\ \A k \in Jobs \ {j} : table'[k] = table[k]
  BY <1>3 DEF OwnerUnblocks, Unblock, Write, Row, IInv, TableInv
<1>5. QED
  BY <1>1, <1>2, <1>3, <1>4, UserStep

LEMMA CancelInv ==
  ASSUME IInv, NEW j \in Jobs, Cancel(j)
  PROVE  IInv'
<1>1. UNCHANGED coreVars
  BY DEF Cancel, coreVars, workerVars
<1>2. TableInv'
  BY RowStepKeepsInv DEF Cancel, RowStep, IInv
<1>3. table[j] \in Row
  BY DEF IInv, TableInv
<1>4. CASE UNCHANGED table
  BY <1>1, <1>4, OutsideStep
<1>5. CASE CancelFirst(j) /\ In(j, Idle)
  <2>1. table[j].state # RUNNING
    BY <1>5 DEF In, Idle
  <2>2. /\ table'[j].state = CANCELLED
        /\ \A k \in Jobs \ {j} : table'[k] = table[k]
    BY <1>3, <1>5 DEF CancelFirst, Write, Row, IInv, TableInv
  <2>3. QED
    BY <1>1, <1>2, <2>1, <2>2, UserStep
<1>6. CASE CancelSecond(j) /\ Running(j)
  <2>1. table[j].state = RUNNING
    BY <1>6 DEF Running, In
  <2>2. /\ table'[j] = [table[j] EXCEPT !.cancel = TRUE]
        /\ \A k \in Jobs \ {j} : table'[k] = table[k]
    BY <1>6 DEF CancelSecond, Write, IInv, TableInv
  <2>3. /\ table'[j].state = table[j].state
        /\ table'[j].worker = table[j].worker
        /\ table'[j].attempts = table[j].attempts
        /\ table'[j].cancel
    BY <1>3, <2>2 DEF Row
  <2>4. QED
    BY <1>1, <1>2, <2>1, <2>2, <2>3, UserStep
<1>7. QED
  BY <1>4, <1>5, <1>6 DEF Cancel, CancelFirst, CancelSecond

\* Children and the rest of the world leave the table and the worker alone.
LEMMA WorldInv ==
  ASSUME IInv,
         \/ \E w \in Workers : Signal(w)
         \/ \E c \in Children : Child(c)
         \/ KeysBreak \/ KeysHeal \/ UNCHANGED vars
  PROVE  IInv'
<1>1. UNCHANGED table /\ UNCHANGED coreVars
  <2>1. CASE \E c \in Children : Child(c)
    BY <2>1 DEF Child, ChildActs, ChildFinishes, ChildDies, coreVars, workerVars
  <2>2. CASE \E w \in Workers : Signal(w)
    BY <2>2 DEF Signal, coreVars
  <2>3. CASE KeysBreak \/ KeysHeal \/ UNCHANGED vars
    BY <2>3 DEF KeysBreak, KeysHeal, vars, coreVars, workerVars
  <2>4. QED
    BY <2>1, <2>2, <2>3
<1>2. QED
  BY <1>1, OutsideStep

-----------------------------------------------------------------------------
(* The other variables only need their types                               *)

LEMMA InitTypes == Init => OtherTypes
<1> SUFFICES ASSUME Init PROVE OtherTypes
  OBVIOUS
<1>1. [result |-> None, used |-> 0, authLog |-> FALSE, broke |-> FALSE,
       deferred |-> FALSE, reverted |-> FALSE] \in Disk
  BY DEF Disk
<1>2. disk \in [Jobs -> Disk]
  BY <1>1 DEF Init
<1>3. asked \in [Jobs -> Asking]
  BY DEF Init, TableInit, Asking
<1>4. QED
  BY <1>2, <1>3 DEF Init, OtherTypes, Kid

\* One file of one job directory is rewritten.
LEMMA RewriteTypes ==
  ASSUME OtherTypes, NEW j \in Jobs, NEW files \in Disk, Rewrite(j, files)
  PROVE  disk' \in [Jobs -> Disk]
BY DEF OtherTypes, Rewrite

LEMMA KillTypes ==
  ASSUME OtherTypes, NEW c, Kill(c)
  PROVE  kid' \in [Children -> Kid]
BY DEF OtherTypes, Kill, Kid

LEMMA SightTypes ==
  ASSUME OtherTypes, NEW c, LosesSight(c)
  PROVE  kid' \in [Children -> Kid]
<1> DEFINE gone == kid[c].lost \/ Alive(c)
<1>1. kid \in [Children -> Kid] /\ kid' = [kid EXCEPT ![c].lost = gone]
  BY DEF OtherTypes, LosesSight
<1>2. gone \in BOOLEAN
  BY DEF Alive
<1> HIDE DEF gone
<1>3. QED
  BY <1>1, <1>2 DEF Kid

LEMMA VanishTypes ==
  ASSUME OtherTypes, NEW w \in Workers, Vanish(w),
         UNCHANGED <<asked, fileVars, keysOk>>, count' \in [Counters -> Nat]
  PROVE  OtherTypes'
<1>1. kid' \in [Children -> Kid]
  BY DEF OtherTypes, Vanish, At, Kid
<1>2. mine' \in [Workers -> Children \cup {None}] /\ stop' \in [Workers -> BOOLEAN]
  BY DEF OtherTypes, Vanish
<1>3. QED
  BY <1>1, <1>2 DEF OtherTypes, fileVars

LEMMA CountTypes ==
  ASSUME OtherTypes, NEW k \in Counters, NEW bound, Count(k, bound)
  PROVE  count' \in [Counters -> Nat]
BY DEF OtherTypes, Count

LEMMA ServeTypes ==
  ASSUME OtherTypes, NEW w \in Workers, Serve(w)
  PROVE  OtherTypes'
<1>1. CASE Leave(w) \/ (ClaimNothing(w) /\ Vanish(w))
  <2>1. count' = count /\ count \in [Counters -> Nat]
    BY <1>1 DEF Leave, ClaimNothing, OtherTypes
  <2>2. QED
    BY <1>1, <2>1, VanishTypes DEF Leave, ClaimNothing
<1>2. CASE \E j \in Jobs : KillOrphan(w, j)
  <2>1. PICK j \in Jobs : KillOrphan(w, j)
    BY <1>2
  <2>2. kid' \in [Children -> Kid]
    BY <2>1, KillTypes, SightTypes DEF KillOrphan, KillRecorded, OtherTypes
  <2>3. QED
    BY <2>1, <2>2 DEF KillOrphan, OtherTypes, fileVars
<1>3. CASE ListBlocked(w) \/ TooEarly(w) \/ Unblocked(w)
  BY <1>3 DEF ListBlocked, TooEarly, Unblocked, Advance, Decide,
     OtherTypes, fileVars
<1>4. CASE Start(w) \/ ListRunning(w) \/ RecoverJob(w) \/ Recovered(w)
  BY <1>4 DEF Start, ListRunning, RecoverJob, Recovered, OtherTypes, fileVars
<1>5. CASE (\E j \in Jobs : UnblockOne(w, j)) \/ (\E j \in Jobs : Claim(w, j))
  BY <1>5 DEF UnblockOne, Claim, OtherTypes, fileVars
<1>6. CASE ClaimNothing(w) /\ ~Vanish(w)
  <2>1. kid' = kid /\ Advance(w, "loop")
    BY <1>6 DEF ClaimNothing
  <2>2. QED
    BY <1>6, <2>1 DEF ClaimNothing, Advance, Decide, OtherTypes, fileVars
<1>7. QED
  BY <1>1, <1>2, <1>3, <1>4, <1>5, <1>6 DEF Serve

\* steps of a run that write neither a file nor a child
LEMMA QuietTypes ==
  ASSUME OtherTypes, NEW w \in Workers,
         \/ Precheck(w) \/ Gate(w) \/ Register(w) \/ ChildGone(w) \/ StopChild(w)
         \/ Timeout(w) \/ ReadResult(w) \/ AfterStop(w) \/ GiveBack(w) \/ Retry(w)
         \/ RetriesUsed(w) \/ Continue(w) \/ Park(w) \/ FinishJob(w)
  PROVE  OtherTypes'
<1>1. /\ UNCHANGED <<asked, kid, disk, handed, told, keysOk, count>>
      /\ BackToLoop(w) \/ \E what, step : Decide(w, what, step)
  BY DEF Precheck, Gate, Register, ChildGone, StopChild, Timeout, ReadResult,
     AfterStop, GiveBack, Retry, RetriesUsed, Continue, Park, FinishJob,
     Advance, fileVars
<1>2. mine' \in [Workers -> Children \cup {None}] /\ stop' = stop
  BY <1>1 DEF BackToLoop, Decide, OtherTypes
<1>3. QED
  BY <1>1, <1>2 DEF OtherTypes

\* steps of a run that rewrite one file of the job
LEMMA FileTypes ==
  ASSUME IInv, OtherTypes, NEW w \in Workers,
         \/ PrepareFails(w) \/ Prepare(w) \/ FailToBlocked(w)
         \/ QueueContinuation(w) \/ FailToFinal(w) \/ ApplyRollback(w)
  PROVE  OtherTypes'
<1>1. pc[w] \in RunSteps
  BY DEF PrepareFails, Prepare, FailToBlocked, QueueContinuation, FailToFinal,
     ApplyRollback, At, RunSteps
<1>2. cur[w] \in Jobs /\ disk[cur[w]] \in Disk
  BY <1>1 DEF IInv, PlanFits, OtherTypes
<1>3. /\ UNCHANGED <<asked, mine, stop, kid, handed, told, keysOk, count>>
      /\ \/ Rewrite(cur[w], [disk[cur[w]] EXCEPT !.result = None])
         \/ Rewrite(cur[w], [disk[cur[w]] EXCEPT !.result = None, !.deferred = FALSE])
         \/ Rewrite(cur[w], [disk[cur[w]] EXCEPT !.deferred = FALSE])
         \/ Rewrite(cur[w], [[disk[cur[w]] EXCEPT !.deferred = FALSE]
                               EXCEPT !.used = @ + 1])
         \/ \E written, settled \in BOOLEAN :
               Rewrite(cur[w], [disk[cur[w]] EXCEPT
                                  !.deferred = @ /\ ~settled,
                                  !.reverted = @ \/ (disk[cur[w]].deferred /\ written)])
  BY DEF PrepareFails, Prepare, CleanStart, FailToBlocked, Keep,
     QueueContinuation, FailToFinal, ApplyRollback, Advance, Decide
<1> DEFINE d == disk[cur[w]]
<1>4. /\ [d EXCEPT !.result = None] \in Disk
      /\ [d EXCEPT !.result = None, !.deferred = FALSE] \in Disk
      /\ [d EXCEPT !.deferred = FALSE] \in Disk
      /\ [[d EXCEPT !.deferred = FALSE] EXCEPT !.used = @ + 1] \in Disk
      /\ \A written, settled \in BOOLEAN :
            [d EXCEPT !.deferred = @ /\ ~settled,
                      !.reverted = @ \/ (d.deferred /\ written)] \in Disk
  <2>1. d.used + 1 \in Nat
    BY <1>2 DEF Disk
  <2>2. [[d EXCEPT !.deferred = FALSE] EXCEPT !.used = @ + 1]
          = [d EXCEPT !.deferred = FALSE, !.used = d.used + 1]
    BY <1>2 DEF Disk
  <2>3. QED
    BY <1>2, <2>1, <2>2 DEF Disk
<1>5. disk' \in [Jobs -> Disk]
  BY <1>2, <1>3, <1>4, RewriteTypes
<1>6. QED
  BY <1>3, <1>5 DEF OtherTypes

LEMMA RunTypes ==
  ASSUME IInv, OtherTypes, NEW w \in Workers, RunJob(w) \/ Timeout(w)
  PROVE  OtherTypes'
<1>1. CASE \E c \in Children : Spawn(w, c)
  <2>1. PICK c \in Children : Spawn(w, c)
    BY <1>1
  <2>2. cur[w] \in Jobs /\ disk[cur[w]] \in Disk
    BY <2>1 DEF Spawn, At, RunSteps, IInv, PlanFits, OtherTypes
  <2>3. [disk[cur[w]] EXCEPT !.authLog = FALSE] \in Disk
    BY <2>2 DEF Disk
  <2>4. disk' \in [Jobs -> Disk]
    BY <2>1, <2>2, <2>3, RewriteTypes DEF Spawn
  <2>5. kid' \in [Children -> Kid]
    BY <2>1, <2>2 DEF Spawn, OtherTypes, Kid
  <2>6. QED
    BY <2>1, <2>4, <2>5 DEF Spawn, OtherTypes
<1>2. CASE KillChild(w)
  <2>1. kid' \in [Children -> Kid]
    BY <1>2, KillTypes DEF KillChild
  <2>2. QED
    BY <1>2, <2>1 DEF KillChild, Advance, Decide, OtherTypes, fileVars
<1>3. CASE HandOff(w)
  <2>1. plan[w] \in Final
    BY <1>3 DEF HandOff, At, IInv, PlanFits
  <2>2. handed' \in [Jobs -> SUBSET Final]
    <3>1. \/ handed' = [handed EXCEPT ![cur[w]] = @ \cup {plan[w]}]
          \/ handed' = handed
      BY <1>3 DEF HandOff
    <3>2. QED
      BY <2>1, <3>1 DEF OtherTypes
  <2>3. QED
    BY <1>3, <2>2 DEF HandOff, Advance, Decide, OtherTypes
<1>4. CASE Tell(w)
  <2>1. told' \in [Jobs -> SUBSET Final]
    <3>1. plan[w] \in Final
      BY <1>4 DEF Tell, At, IInv, PlanFits
    <3>2. \/ told' = [told EXCEPT ![cur[w]] = @ \cup {plan[w]}]
          \/ told' = told
      BY <1>4 DEF Tell
    <3>3. QED
      BY <3>1, <3>2 DEF OtherTypes
  <2>2. mine' \in [Workers -> Children \cup {None}] /\ stop' = stop
    BY <1>4 DEF Tell, BackToLoop, OtherTypes
  <2>3. QED
    BY <1>4, <2>1, <2>2 DEF Tell, OtherTypes
<1>5. QED
  BY <1>1, <1>2, <1>3, <1>4, FileTypes, QuietTypes DEF RunJob

LEMMA WorldTypes ==
  ASSUME OtherTypes, (\E c \in Children : Child(c)) \/ Environment
  PROVE  OtherTypes'
<1>1. ASSUME NEW c \in Children, NEW effect \in ChildEffects, ChildActs(c, effect)
      PROVE  OtherTypes'
  <2>1. kid[c].job \in Jobs /\ disk[kid[c].job] \in Disk
    BY <1>1 DEF ChildActs, Alive, OtherTypes, Kid
  <2>2. disk' \in [Jobs -> Disk]
    <3> DEFINE d == disk[kid[c].job]
    <3>1. /\ [d EXCEPT !.authLog = TRUE] \in Disk
          /\ [d EXCEPT !.broke = TRUE] \in Disk
          /\ [d EXCEPT !.deferred = TRUE] \in Disk
      BY <2>1 DEF Disk
    <3>2. \/ Rewrite(kid[c].job, [d EXCEPT !.authLog = TRUE])
          \/ Rewrite(kid[c].job, [d EXCEPT !.broke = TRUE])
          \/ Rewrite(kid[c].job, [d EXCEPT !.deferred = TRUE])
      BY <1>1 DEF ChildActs
    <3>3. QED
      BY <2>1, <3>1, <3>2, RewriteTypes
  <2>3. QED
    BY <1>1, <2>2 DEF ChildActs, workerVars, OtherTypes
<1>2. ASSUME NEW c \in Children, NEW says \in ChildResults, ChildFinishes(c, says)
      PROVE  OtherTypes'
  <2>1. kid[c].job \in Jobs /\ disk[kid[c].job] \in Disk
    BY <1>2 DEF ChildFinishes, Alive, OtherTypes, Kid
  <2>2. [by |-> c, says |-> says] \in Result
    BY BoundsOK DEF Result
  <2>3. disk' \in [Jobs -> Disk]
    BY <1>2, <2>1, <2>2 DEF ChildFinishes, Rewrite, OtherTypes, Disk
  <2>4. QED
    BY <1>2, <2>3, KillTypes DEF ChildFinishes, workerVars, OtherTypes
<1>3. ASSUME NEW c \in Children, ChildDies(c)
      PROVE  OtherTypes'
  BY <1>3, KillTypes DEF ChildDies, workerVars, fileVars, OtherTypes
<1>4. ASSUME NEW w \in Workers, Crash(w)
      PROVE  OtherTypes'
  BY <1>4, CountTypes, VanishTypes DEF Crash, Counters
<1>5. ASSUME NEW w \in Workers, Signal(w)
      PROVE  OtherTypes'
  <2>1. count' \in [Counters -> Nat]
    BY <1>5, CountTypes DEF Signal, Counters
  <2>2. QED
    BY <1>5, <2>1 DEF Signal, OtherTypes, fileVars
<1>6. ASSUME NEW w \in Workers, RunnerFault(w)
      PROVE  OtherTypes'
  <2>1. count' \in [Counters -> Nat]
    BY <1>6, CountTypes DEF RunnerFault, Counters
  <2>2. QED
    BY <1>6, <2>1, SightTypes DEF RunnerFault, Decide, OtherTypes, fileVars
<1>7. ASSUME NEW j \in Jobs, Submit(j) \/ OwnerUnblocks(j)
      PROVE  OtherTypes'
  BY <1>7 DEF Submit, OwnerUnblocks, workerVars, fileVars, OtherTypes
<1>8. ASSUME NEW j \in Jobs, Cancel(j)
      PROVE  OtherTypes'
  <2>1. asked' \in [Jobs -> Asking]
    BY <1>8 DEF Cancel, CancelFirst, CancelSecond, Asking, Answers, OtherTypes
  <2>2. QED
    BY <1>8, <2>1 DEF Cancel, workerVars, fileVars, OtherTypes
<1>9. CASE KeysBreak \/ KeysHeal
  <2>1. count' \in [Counters -> Nat]
    BY <1>9, CountTypes DEF KeysBreak, KeysHeal, Counters, OtherTypes
  <2>2. QED
    BY <1>9, <2>1 DEF KeysBreak, KeysHeal, workerVars, fileVars, OtherTypes
<1>10. QED
  BY <1>1, <1>2, <1>3, <1>4, <1>5, <1>6, <1>7, <1>8, <1>9 DEF Child, Environment

-----------------------------------------------------------------------------
(* The theorems                                                            *)

LEMMA StepInv ==
  ASSUME IInv, OtherTypes, [Next]_vars
  PROVE  IInv' /\ OtherTypes'
<1>1. CASE UNCHANGED vars
  BY <1>1, WorldInv DEF OtherTypes, vars
<1>2. ASSUME NEW w \in Workers, Worker(w)
      PROVE  IInv' /\ OtherTypes'
  <2>1. CASE Serve(w)
    BY <2>1, ServeInv, ServeTypes
  <2>2. CASE RunJob(w) \/ Timeout(w)
    <3>1. IInv'
      BY <2>2, InsideInv, LeavingInv, SpawnInv, RegisterInv, TellInv
         DEF RunJob, Inside, Leaving
    <3>2. QED
      BY <2>2, <3>1, RunTypes
  <2>3. QED
    BY <1>2, <2>1, <2>2 DEF Worker
<1>3. CASE \E c \in Children : Child(c)
  BY <1>3, WorldInv, WorldTypes
<1>4. CASE Environment
  <2>1. ASSUME NEW w \in Workers, Crash(w)
        PROVE  IInv'
    BY <2>1, VanishStep DEF Crash, At
  <2>2. ASSUME NEW w \in Workers, RunnerFault(w)
        PROVE  IInv'
    BY <2>2, InsideInv DEF Inside
  <2>3. IInv'
    BY <1>4, <2>1, <2>2, WorldInv, SubmitInv, CancelInv, OwnerUnblocksInv
       DEF Environment
  <2>4. QED
    BY <1>4, <2>3, WorldTypes
<1>5. QED
  BY <1>1, <1>2, <1>3, <1>4 DEF Next

\* The inductive invariant holds of every behaviour of the worker.
THEOREM Invariance == Spec => [](IInv /\ OtherTypes)
<1>1. Init => IInv /\ OtherTypes
  BY InitInv, InitTypes
<1>2. IInv /\ OtherTypes /\ [Next]_vars => (IInv /\ OtherTypes)'
  BY StepInv
<1>3. QED
  BY <1>1, <1>2, PTL DEF Spec

\* Every variable keeps its type.
THEOREM TypeCorrect == Spec => []TypeOK
<1>1. IInv /\ OtherTypes => TypeOK
  BY DEF IInv, OtherTypes, TypeOK, TableTypeOK, TableInv, CoreTypes
<1>2. QED
  BY <1>1, Invariance, PTL

\* However often workers crash and restart, at most one job runs.
THEOREM OnlyOneRuns == Spec => []OneRunning
<1>1. IInv => OneRunning
  BY DEF IInv
<1>2. QED
  BY <1>1, Invariance, PTL

\* The row a worker works on stays its own to the final write.
THEOREM ClaimsHold == Spec => []ClaimHeld
<1>1. IInv => ClaimHeld
  BY DEF IInv
<1>2. QED
  BY <1>1, Invariance, PTL

-----------------------------------------------------------------------------
(* HostWorker implements JobLifecycle                                      *)

\* A write that changes only the state of one row, as the lifecycle sees it.
LEMMA MoveMaps ==
  ASSUME TableInv, TableInv', NEW j \in Jobs, NEW row, Write(j, row), NEW from, NEW to,
         table[j].state \in from, row.state = to, row.cancel = table[j].cancel
  PROVE  Lifecycle!Move(j, from, to)
<1>1. row \in Row /\ table'[j] = row /\ \A k \in Jobs \ {j} : table'[k] = table[k]
  BY DEF Write, TableInv
<1>2. [k \in Jobs |-> table'[k].state]
        = [[k \in Jobs |-> table[k].state] EXCEPT ![j] = to]
  BY <1>1
<1>3. [k \in Jobs |-> table'[k].cancel] = [k \in Jobs |-> table[k].cancel]
  BY <1>1
<1>4. QED
  BY <1>2, <1>3 DEF Lifecycle!Move

\* The lifecycle steps of a job that is moved by a transition of the table.
LEMMA RequeueMaps ==
  ASSUME TableInv, TableInv', NEW j \in Jobs, NEW refund \in BOOLEAN, Requeue(j, refund),
         table[j].state # PAUSED
  PROVE  Lifecycle!Next
<1> DEFINE row == [table[j] EXCEPT !.state = QUEUED, !.worker = None, !.child = None,
                     !.attempts = IF refund THEN Refunded(@) ELSE @]
<1>1. table[j] \in Row
  BY DEF TableInv
<1>2. row.state = QUEUED /\ row.cancel = table[j].cancel
  BY <1>1 DEF Row
<1>3. Write(j, row) /\ table[j].state \in {RUNNING}
  BY DEF Requeue, In
<1> HIDE DEF row
<1>4. Lifecycle!Return(j)
  BY <1>2, <1>3, MoveMaps DEF Lifecycle!Return
<1>5. QED
  BY <1>4 DEF Lifecycle!Next

LEMMA UnblockMaps ==
  ASSUME TableInv, TableInv', NEW j \in Jobs, Unblock(j)
  PROVE  Lifecycle!Next
<1> DEFINE row == [table[j] EXCEPT !.state = QUEUED, !.worker = None,
                                   !.attempts = Refunded(@)]
<1>1. row.state = QUEUED /\ row.cancel = table[j].cancel
  BY DEF Row, TableInv
<1>2. Write(j, row) /\ table[j].state \in {BLOCKED}
  BY DEF Unblock, In
<1> HIDE DEF row
<1>3. Lifecycle!Release(j)
  BY <1>1, <1>2, MoveMaps DEF Lifecycle!Release
<1>4. QED
  BY <1>3 DEF Lifecycle!Next

LEMMA BlockMaps ==
  ASSUME TableInv, TableInv', NEW j \in Jobs, NEW why, Block(j, why)
  PROVE  Lifecycle!Next
<1> DEFINE row == [table[j] EXCEPT !.state = BLOCKED, !.child = None,
                                   !.blocked = why]
<1>1. row.state = BLOCKED /\ row.cancel = table[j].cancel
  BY DEF Row, TableInv
<1>2. Write(j, row) /\ table[j].state \in {RUNNING}
  BY DEF Block, Running, In
<1> HIDE DEF row
<1>3. Lifecycle!Park(j)
  BY <1>1, <1>2, MoveMaps DEF Lifecycle!Park
<1>4. QED
  BY <1>3 DEF Lifecycle!Next

\* A running job reaches an outcome: CANCELLED only at its user's wish.
LEMMA OutcomeMaps ==
  ASSUME TableInv, TableInv', NEW j \in Jobs, Running(j), NEW row, Write(j, row),
         row.state \in Final, row.cancel = table[j].cancel,
         row.state = CANCELLED => table[j].cancel
  PROVE  Lifecycle!Next
<1>1. Lifecycle!Move(j, {RUNNING}, row.state)
  BY MoveMaps DEF Running, In
<1>2. Lifecycle!Conclude(j, row.state)
  BY <1>1 DEF Lifecycle!Conclude
<1>3. row.state \in Lifecycle!Outcomes
  BY DEF Lifecycle!Outcomes, Final
<1>4. QED
  BY <1>2, <1>3 DEF Lifecycle!Next

\* A step that leaves the table alone is not seen.
LEMMA Unseen ==
  ASSUME UNCHANGED table
  PROVE  UNCHANGED Lifecycle!vars
BY DEF Lifecycle!vars

LEMMA ServeMaps ==
  ASSUME IInv, IInv', NEW w \in Workers, Serve(w)
  PROVE  [Lifecycle!Next]_(Lifecycle!vars)
<1>1. CASE RecoverJob(w)
  <2> DEFINE j == cur[w]
  <2>1. /\ j \in Jobs /\ j \in todo[w] /\ table[j].state = RUNNING
        /\ j \in seen[w] => table[j].cancel
        /\ table[j] \in Row
    BY <1>1 DEF RecoverJob, At, IInv, CoreTypes, RecoversRunning, Recovering,
       TableInv
  <2>2. CASE Requeue(j, FALSE)
    BY <2>1, <2>2, RequeueMaps DEF IInv
  <2>3. ASSUME NEW s \in {CANCELLED, FAILED}, s = CANCELLED => j \in seen[w],
               Running(j), Write(j, [table[j] EXCEPT !.state = s, !.child = None])
        PROVE  Lifecycle!Next
    <3> DEFINE row == [table[j] EXCEPT !.state = s, !.child = None]
    <3>1. row.state = s /\ row.cancel = table[j].cancel
      BY <2>1 DEF Row
    <3>2. Write(j, row) /\ Running(j)
      BY <2>3
    <3> HIDE DEF row
    <3>3. QED
      BY <2>1, <2>3, <3>1, <3>2, OutcomeMaps DEF IInv, Final
  <2>4. QED
    BY <1>1, <2>2, <2>3 DEF RecoverJob, RecoverRow
<1>2. ASSUME NEW j \in Jobs, UnblockOne(w, j)
      PROVE  [Lifecycle!Next]_(Lifecycle!vars)
  BY <1>2, UnblockMaps, Unseen DEF UnblockOne, IInv
<1>3. ASSUME NEW j \in Jobs, Claim(w, j)
      PROVE  Lifecycle!Next
  <2> DEFINE row == [table[j] EXCEPT !.state = RUNNING, !.attempts = @ + 1,
                                     !.worker = w, !.child = None]
  <2>1. row.state = RUNNING /\ row.cancel = table[j].cancel
    BY DEF Row, IInv, TableInv
  <2>2. Write(j, row) /\ table[j].state \in {QUEUED}
    BY <1>3 DEF Claim, ClaimNext, Oldest, In
  <2> HIDE DEF row
  <2>3. Lifecycle!Move(j, {QUEUED}, RUNNING)
    BY <2>1, <2>2, MoveMaps DEF IInv
  <2>4. \A k \in Jobs : table[k].state # RUNNING
    BY <1>3, NothingRuns DEF Claim, At, In
  <2>5. Lifecycle!Begin(j)
    BY <2>3, <2>4 DEF Lifecycle!Begin
  <2>6. QED
    BY <2>5 DEF Lifecycle!Next
<1>4. ASSUME NEW j \in Jobs, KillOrphan(w, j)
      PROVE  UNCHANGED table
  BY <1>4 DEF KillOrphan
<1>5. CASE \/ Start(w) \/ ListRunning(w) \/ Recovered(w) \/ Leave(w)
           \/ ListBlocked(w) \/ TooEarly(w) \/ Unblocked(w) \/ ClaimNothing(w)
  BY <1>5, Unseen DEF Start, ListRunning, Recovered, Leave, ListBlocked,
     TooEarly, Unblocked, ClaimNothing
<1>6. QED
  BY <1>1, <1>2, <1>3, <1>4, <1>5, Unseen DEF Serve

LEMMA LeavingMaps ==
  ASSUME IInv, IInv', NEW w \in Workers, Leaving(w)
  PROVE  Lifecycle!Next
<1> DEFINE j == cur[w]
<1>1. /\ pc[w] \in RunSteps /\ j \in Jobs /\ table[j].state = RUNNING
      /\ table[j] \in Row
  BY DEF Leaving, GiveBack, Retry, Continue, Park, FinishJob, At, RunSteps,
     IInv, ClaimHeld, PlanFits, TableInv
<1>2. CASE GiveBack(w) \/ Retry(w) \/ Continue(w)
  BY <1>1, <1>2, RequeueMaps DEF GiveBack, Retry, Continue, IInv
<1>3. CASE Park(w)
  BY <1>1, <1>3, BlockMaps DEF Park, IInv
<1>4. CASE FinishJob(w)
  <2> DEFINE row == [table[j] EXCEPT !.state = plan[w], !.child = None,
                                     !.blocked = None]
  <2>1. /\ row.state = plan[w] /\ row.cancel = table[j].cancel
    BY <1>1 DEF Row
  <2>2. /\ plan[w] \in Final
        /\ plan[w] = CANCELLED => table[j].cancel
    BY <1>4 DEF FinishJob, At, IInv, PlanFits
  <2>3. Write(j, row) /\ Running(j)
    BY <1>4 DEF FinishJob, Finish
  <2> HIDE DEF row
  <2>4. QED
    BY <1>1, <2>1, <2>2, <2>3, OutcomeMaps DEF IInv
<1>5. QED
  BY <1>2, <1>3, <1>4 DEF Leaving

LEMMA RegisterMaps ==
  ASSUME IInv, IInv', NEW w \in Workers, Register(w)
  PROVE  UNCHANGED Lifecycle!vars
<1>1. \A k \in Jobs : /\ table'[k].state = table[k].state
                      /\ table'[k].cancel = table[k].cancel
  BY DEF Register, SetChild, Write, Row, IInv, TableInv
<1>2. QED
  BY <1>1 DEF Lifecycle!vars

LEMMA UserMaps ==
  ASSUME IInv, IInv', NEW j \in Jobs, Submit(j) \/ Cancel(j) \/ OwnerUnblocks(j)
  PROVE  [Lifecycle!Next]_(Lifecycle!vars)
<1>1. table[j] \in Row
  BY DEF IInv, TableInv
<1>2. CASE Submit(j)
  <2> DEFINE row == [NoRow EXCEPT !.state = QUEUED, !.seq = NextSeq]
  <2>1. /\ table[j].state = ABSENT /\ table[j] = NoRow
    BY <1>2 DEF Submit, Add, In, IInv, TableInv, AbsentIsEmpty
  <2>2. row.state = QUEUED /\ row.cancel = NoRow.cancel
    BY DEF NoRow
  <2>3. Write(j, row)
    BY <1>2 DEF Submit, Add
  <2> HIDE DEF row
  <2>4. Lifecycle!Submit(j)
    BY <2>1, <2>2, <2>3, MoveMaps DEF Lifecycle!Submit, IInv
  <2>5. QED
    BY <2>4 DEF Lifecycle!Next
<1>3. CASE OwnerUnblocks(j)
  BY <1>3, UnblockMaps DEF OwnerUnblocks, IInv
<1>4. CASE CancelFirst(j) /\ In(j, Idle)
  <2> DEFINE row == [table[j] EXCEPT !.state = CANCELLED]
  <2>1. row.state = CANCELLED /\ row.cancel = table[j].cancel
    BY <1>1 DEF Row
  <2>2. Write(j, row) /\ table[j].state \in {QUEUED, BLOCKED}
    BY <1>4 DEF CancelFirst, In, Idle, IInv, NothingPaused
  <2> HIDE DEF row
  <2>3. Lifecycle!Withdraw(j)
    BY <2>1, <2>2, MoveMaps DEF Lifecycle!Withdraw, IInv
  <2>4. QED
    BY <2>3 DEF Lifecycle!Next
<1>5. CASE CancelSecond(j) /\ Running(j)
  <2>1. \A k \in Jobs : /\ table'[k].state = table[k].state
                        /\ table'[k].cancel = IF k = j THEN TRUE ELSE table[k].cancel
    <3>1. table'[j] = [table[j] EXCEPT !.cancel = TRUE]
      BY <1>5 DEF CancelSecond, Write, IInv, TableInv
    <3>2. \A k \in Jobs \ {j} : table'[k] = table[k]
      BY <1>5 DEF CancelSecond, Write, IInv, TableInv
    <3>3. QED
      BY <1>1, <3>1, <3>2 DEF Row
  <2>2. table[j].state = RUNNING
    BY <1>5 DEF Running, In
  <2>3. Lifecycle!Wish(j)
    BY <2>1, <2>2 DEF Lifecycle!Wish
  <2>4. QED
    BY <2>3 DEF Lifecycle!Next
<1>6. QED
  BY <1>2, <1>3, <1>4, <1>5, Unseen DEF Cancel, CancelFirst, CancelSecond

LEMMA StepMaps ==
  ASSUME IInv, OtherTypes, [Next]_vars
  PROVE  [Lifecycle!Next]_(Lifecycle!vars)
<1> IInv'
  BY StepInv
<1>1. ASSUME NEW w \in Workers, Worker(w)
      PROVE  [Lifecycle!Next]_(Lifecycle!vars)
  <2>1. CASE Inside(w)
    BY <2>1, InsideDecides, Unseen
  <2>2. CASE Tell(w) \/ \E c \in Children : Spawn(w, c)
    BY <2>2, Unseen DEF Tell, Spawn
  <2>3. QED
    BY <1>1, <2>1, <2>2, ServeMaps, LeavingMaps, RegisterMaps
       DEF Worker, RunJob, Inside, Leaving
<1>2. CASE \E c \in Children : Child(c)
  <2>1. UNCHANGED table
    BY <1>2 DEF Child, ChildActs, ChildFinishes, ChildDies
  <2>2. QED
    BY <2>1, Unseen
<1>3. CASE \E j \in Jobs : Submit(j) \/ Cancel(j) \/ OwnerUnblocks(j)
  BY <1>3, UserMaps
<1>4. CASE KeysBreak \/ KeysHeal \/ UNCHANGED vars
           \/ \E w \in Workers : Crash(w) \/ Signal(w) \/ RunnerFault(w)
  <2>1. UNCHANGED table
    BY <1>4 DEF KeysBreak, KeysHeal, Crash, Signal, RunnerFault, vars
  <2>2. QED
    BY <2>1, Unseen
<1>5. QED
  BY <1>1, <1>2, <1>3, <1>4 DEF Next, Environment

\* Whatever crashes, stops, retries, continuations and races do, the owner sees
\* the lifecycle the host promises.
THEOREM Implements == Spec => ImplementsLifecycle
<1>1. Init => Lifecycle!Init
  <2> SUFFICES ASSUME Init PROVE Lifecycle!Init
    OBVIOUS
  <2>1. \A j \in Jobs : table[j].state = ABSENT /\ table[j].cancel = FALSE
    BY DEF Init, TableInit, NoRow
  <2>2. QED
    BY <2>1 DEF Lifecycle!Init
<1>2. IInv /\ OtherTypes /\ [Next]_vars => [Lifecycle!Next]_(Lifecycle!vars)
  BY StepMaps
<1>3. Spec => Lifecycle!Spec
  BY <1>1, <1>2, Invariance, PTL DEF Spec, Lifecycle!Spec
<1>4. QED
  BY <1>3 DEF ImplementsLifecycle

=============================================================================
