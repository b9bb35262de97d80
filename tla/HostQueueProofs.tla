--------------------------- MODULE HostQueueProofs ---------------------------
(***************************************************************************)
(* HostQueue for any number of jobs and processes: types, exclusive claims *)
(* with strict submission order, the accounting of attempts, and the       *)
(* finality of outcomes.                                                   *)
(***************************************************************************)
EXTENDS HostQueue, JobTableProofs

\* The inductive invariant.  AttemptsAccounted needs ClaimsCounted (a refund
\* never meets the floor 0) and ExclusiveHold (only the holder's row loses an
\* attempt); Claim needs SeqsBounded for nothing but the type of the next row.
IInv ==
    /\ TypeOK
    /\ TableInv
    /\ ExclusiveHold
    /\ AttemptsAccounted

USE DEF ABSENT, QUEUED, RUNNING, PAUSED, BLOCKED, DONE, FAILED, CANCELLED

-----------------------------------------------------------------------------
(* One step                                                                *)

\* What a step that writes the row of j and leaves hold alone must show: the row
\* of a holder stays RUNNING and the holder's.
LEMMA UnheldWrite ==
  ASSUME TypeOK, ExclusiveHold, UNCHANGED hold, NEW j \in Jobs,
         \A k \in Jobs \ {j} : table'[k] = table[k],
         Held(j) => /\ table'[j].state = table[j].state
                    /\ table'[j].worker = table[j].worker
  PROVE  ExclusiveHold'
BY ConstantsOK DEF ExclusiveHold, Held, TypeOK

\* The holder lets go after writing only its own row.
LEMMA HolderWrite ==
  ASSUME TypeOK, ExclusiveHold, NEW w \in Workers, hold[w] # None, LetGo(w),
         \A k \in Jobs \ {hold[w]} : table'[k] = table[k]
  PROVE  ExclusiveHold'
<1>1. \A v \in Workers : hold'[v] = IF v = w THEN None ELSE hold[v]
  BY DEF LetGo, TypeOK
<1>2. \A v \in Workers \ {w} : hold[v] # None => hold[v] \in Jobs \ {hold[w]}
  BY DEF ExclusiveHold, TypeOK
<1>3. QED
  BY <1>1, <1>2 DEF ExclusiveHold

\* A held job is RUNNING.
LEMMA HeldIsRunning ==
  ASSUME TypeOK, ExclusiveHold, NEW j \in Jobs, Held(j)
  PROVE  table[j].state = RUNNING
BY ConstantsOK DEF ExclusiveHold, Held

\* A write touches one row.
LEMMA OneRow ==
  ASSUME table \in [Jobs -> Row], NEW j \in Jobs, NEW row, Write(j, row)
  PROVE  /\ table'[j] = row
         /\ \A k \in Jobs \ {j} : table'[k] = table[k]
BY DEF Write

\* The initial state satisfies the inductive invariant.
LEMMA InitInv == Init => IInv
<1> SUFFICES ASSUME Init PROVE IInv
  OBVIOUS
<1>1. TableInv
  BY TableInitInv DEF Init
<1>2. TypeOK
  BY <1>1 DEF Init, TypeOK, TableTypeOK, TableInit, TableInv, Asking, Answers
<1>3. ExclusiveHold
  BY DEF Init, ExclusiveHold
<1>4. AttemptsAccounted
  <2>1. NoRow.attempts = 0
    BY DEF NoRow
  <2>2. ASSUME NEW j \in Jobs
        PROVE  table[j].attempts + refunds[j] = claims[j]
    <3>1. table[j].attempts = 0 /\ refunds[j] = 0 /\ claims[j] = 0
      BY <2>1 DEF Init, TableInit
    <3>2. QED
      BY <3>1
  <2>3. QED
    BY <2>2 DEF AttemptsAccounted
<1>5. QED
  BY <1>1, <1>2, <1>3, <1>4 DEF IInv

\* Whatever a process does, the table makes one of its transitions or none.
LEMMA StepShape ==
  ASSUME IInv, [Next]_vars
  PROVE  UNCHANGED table \/ \E j \in Jobs : Add(j) \/ RowStep(j)
<1> DEFINE Shape == UNCHANGED table \/ \E j \in Jobs : Add(j) \/ RowStep(j)
<1>1. \A w \in Workers : hold[w] # None => hold[w] \in Jobs
  BY DEF IInv, TypeOK
<1>2. ASSUME NEW j \in Jobs, Submit(j) \/ Recover(j) \/ Release(j) \/ Cancel(j)
      PROVE  Shape
  <2>1. table[j].cancel \in BOOLEAN
    BY DEF IInv, TableInv, Row
  <2>2. QED
    BY <1>2, <2>1 DEF Submit, Recover, Release, Cancel, RowStep
<1>3. ASSUME NEW w \in Workers, NEW j \in Jobs, Claim(w, j) PROVE Shape
  BY <1>3 DEF Claim, RowStep
<1>4. ASSUME NEW w \in Workers, NEW c \in Children, RecordChild(w, c)
      PROVE  Shape
  BY <1>1, <1>4 DEF RecordChild, RowStep
<1>5. ASSUME NEW w \in Workers, NEW s \in Final, End(w, s) PROVE Shape
  BY <1>1, <1>5 DEF End, RowStep
<1>6. ASSUME NEW w \in Workers, NEW why \in Reasons, Park(w, why) PROVE Shape
  BY <1>1, <1>6 DEF Park, RowStep
<1>7. ASSUME NEW w \in Workers, NEW refund \in BOOLEAN, GiveBack(w, refund)
      PROVE  Shape
  BY <1>1, <1>7 DEF GiveBack, RowStep
<1>8. ASSUME NEW w \in Workers, Die(w) PROVE Shape
  BY <1>8 DEF Die
<1>9. CASE UNCHANGED vars
  BY <1>9 DEF vars
<1>10. CASE Next
  <2>1. CASE \E j \in Jobs : Submit(j) \/ Recover(j) \/ Release(j) \/ Cancel(j)
    BY <1>2, <2>1
  <2>2. CASE \E w \in Workers, j \in Jobs : Claim(w, j)
    BY <1>3, <2>2
  <2>3. CASE \E w \in Workers, c \in Children : RecordChild(w, c)
    BY <1>4, <2>3
  <2>4. CASE \E w \in Workers, s \in Final : End(w, s)
    BY <1>5, <2>4
  <2>5. CASE \E w \in Workers, why \in Reasons : Park(w, why)
    BY <1>6, <2>5
  <2>6. CASE \E w \in Workers, refund \in BOOLEAN : GiveBack(w, refund)
    BY <1>7, <2>6
  <2>7. CASE \E w \in Workers : Die(w)
    BY <1>8, <2>7
  <2>8. QED
    BY <1>10, <2>1, <2>2, <2>3, <2>4, <2>5, <2>6, <2>7 DEF Next
<1>11. QED
  BY <1>9, <1>10

\* Every step keeps the table's invariant.
LEMMA TableStep ==
  ASSUME IInv, [Next]_vars
  PROVE  TableInv'
<1>1. CASE UNCHANGED table
  BY <1>1 DEF IInv, TableInv, AbsentIsEmpty, SeqsBounded, Seqs, SeqsDistinct,
              ClaimsCounted, In
<1>2. QED
  BY <1>1, StepShape, AddKeepsInv, RowStepKeepsInv DEF IInv

\* The counters of a step that leaves all of them and the attempts alone.
LEMMA NothingCounted ==
  ASSUME AttemptsAccounted, UNCHANGED <<claims, refunds>>,
         \A k \in Jobs : table'[k].attempts = table[k].attempts
  PROVE  AttemptsAccounted'
BY DEF AttemptsAccounted

\* An attempt given back exactly once is accounted for.
LEMMA RefundCounted ==
  ASSUME TypeOK, TableInv, AttemptsAccounted, UNCHANGED claims,
         NEW j \in Jobs, In(j, Claimed), NEW refund \in BOOLEAN,
         refunds' = [refunds EXCEPT ![j] = @ + (IF refund THEN 1 ELSE 0)],
         table'[j].attempts =
            IF refund THEN Refunded(table[j].attempts) ELSE table[j].attempts,
         \A k \in Jobs \ {j} : table'[k] = table[k]
  PROVE  AttemptsAccounted' /\ refunds' \in [Jobs -> Nat]
<1> DEFINE gain == IF refund THEN 1 ELSE 0
<1>1. /\ table[j].attempts \in Nat /\ table[j].attempts >= 1
      /\ refunds[j] \in Nat /\ claims[j] \in Nat
      /\ table[j].attempts + refunds[j] = claims[j]
  BY DEF TableInv, ClaimsCounted, Row, TypeOK, AttemptsAccounted
<1>2. /\ refunds'[j] = refunds[j] + gain
      /\ \A k \in Jobs \ {j} : refunds'[k] = refunds[k]
      /\ refunds' \in [Jobs -> Nat]
  BY <1>1 DEF TypeOK
<1>3. table'[j].attempts + refunds'[j] = claims[j]
  <2>1. CASE refund
    BY <1>1, <1>2, <2>1 DEF Refunded
  <2>2. CASE ~refund
    BY <1>1, <1>2, <2>2
  <2>3. QED
    BY <2>1, <2>2
<1>4. QED
  BY <1>2, <1>3 DEF AttemptsAccounted

\* Submit
LEMMA SubmitInv ==
  ASSUME IInv, TableInv', NEW j \in Jobs, Submit(j)
  PROVE  IInv'
<1> DEFINE row == [NoRow EXCEPT !.state = QUEUED, !.seq = NextSeq]
<1>1. /\ table[j].state = ABSENT
      /\ table'[j] = row
      /\ \A k \in Jobs \ {j} : table'[k] = table[k]
  BY OneRow DEF Submit, Add, In, IInv, TableInv
<1>2. TypeOK'
  BY DEF IInv, TypeOK, TableTypeOK, TableInv, Submit
<1>3. ~Held(j)
  BY <1>1, HeldIsRunning DEF IInv
<1>4. ExclusiveHold'
  BY <1>1, <1>3, UnheldWrite DEF IInv, Submit
<1>5. AttemptsAccounted'
  <2>1. table[j] = NoRow
    BY <1>1 DEF IInv, TableInv, AbsentIsEmpty, In
  <2>2. row.attempts = NoRow.attempts
    BY DEF NoRow
  <2>3. QED
    BY <1>1, <2>1, <2>2, NothingCounted DEF IInv, Submit
<1>6. QED
  BY <1>2, <1>4, <1>5 DEF IInv

\* Claim
LEMMA ClaimInv ==
  ASSUME IInv, TableInv', NEW w \in Workers, NEW j \in Jobs, Claim(w, j)
  PROVE  IInv'
<1> DEFINE row == [table[j] EXCEPT !.state = RUNNING, !.attempts = @ + 1,
                                   !.worker = w, !.child = None]
<1>1. /\ table[j].state = QUEUED
      /\ table[j] \in Row
      /\ table'[j] = row
      /\ \A k \in Jobs \ {j} : table'[k] = table[k]
  BY OneRow DEF Claim, ClaimNext, Oldest, In, IInv, TableInv
<1>2. /\ table'[j].state = RUNNING
      /\ table'[j].worker = w
      /\ table'[j].attempts = table[j].attempts + 1
      /\ table[j].attempts \in Nat
  BY <1>1 DEF Row
<1>3. /\ hold'[w] = j /\ hold[w] = None
      /\ \A v \in Workers \ {w} : hold'[v] = hold[v]
      /\ hold' \in [Workers -> Jobs \cup {None}]
      /\ j # None
  BY ConstantsOK DEF Claim, IInv, TypeOK
<1>4. /\ claims'[j] = claims[j] + 1
      /\ \A k \in Jobs \ {j} : claims'[k] = claims[k]
      /\ claims' \in [Jobs -> Nat]
  BY DEF Claim, IInv, TypeOK
<1>5. TypeOK'
  BY <1>3, <1>4 DEF IInv, TypeOK, TableTypeOK, TableInv, Claim
<1>6. ~Held(j)
  BY <1>1, HeldIsRunning DEF IInv
<1>7. ExclusiveHold'
  <2>1. ASSUME NEW v \in Workers, hold'[v] # None, v # w
        PROVE  /\ hold'[v] = hold[v] /\ hold[v] # j /\ hold[v] \in Jobs
               /\ table'[hold'[v]].state = RUNNING
               /\ table'[hold'[v]].worker = v
    BY <1>1, <1>3, <1>6, <2>1 DEF IInv, ExclusiveHold, Held, TypeOK
  <2>2. QED
    BY <1>2, <1>3, <2>1 DEF IInv, ExclusiveHold
<1>8. AttemptsAccounted'
  <2>1. /\ refunds[j] \in Nat /\ claims[j] \in Nat
        /\ table[j].attempts + refunds[j] = claims[j]
    BY DEF IInv, TypeOK, AttemptsAccounted
  <2>2. table'[j].attempts + refunds'[j] = claims'[j]
    BY <1>2, <1>4, <2>1 DEF Claim
  <2>3. QED
    BY <1>1, <1>4, <2>2 DEF IInv, AttemptsAccounted, Claim
<1>9. QED
  BY <1>5, <1>7, <1>8 DEF IInv

\* RecordChild
LEMMA RecordChildInv ==
  ASSUME IInv, TableInv', NEW w \in Workers, NEW c \in Children,
         RecordChild(w, c)
  PROVE  IInv'
<1> DEFINE j == hold[w]
<1>1. j \in Jobs
  BY DEF IInv, TypeOK, RecordChild
<1>2. /\ table[j] \in Row
      /\ table'[j] = [table[j] EXCEPT !.child = c]
      /\ \A k \in Jobs \ {j} : table'[k] = table[k]
  BY <1>1, OneRow DEF RecordChild, SetChild, IInv, TableInv
<1>3. /\ table'[j].state = table[j].state
      /\ table'[j].worker = table[j].worker
      /\ table'[j].attempts = table[j].attempts
  BY <1>2 DEF Row
<1>4. TypeOK'
  BY DEF IInv, TypeOK, TableTypeOK, TableInv, RecordChild
<1>5. ExclusiveHold'
  BY <1>1, <1>2, <1>3, UnheldWrite DEF IInv, RecordChild
<1>6. AttemptsAccounted'
  BY <1>2, <1>3, NothingCounted DEF IInv, RecordChild
<1>7. QED
  BY <1>4, <1>5, <1>6 DEF IInv

\* End, Park and GiveBack: a running job's holder writes its row and lets go
LEMMA EndInv ==
  ASSUME IInv, TableInv', NEW w \in Workers, NEW s \in Final, End(w, s)
  PROVE  IInv'
<1> DEFINE j == hold[w]
<1>1. j \in Jobs
  BY DEF IInv, TypeOK, End
<1>2. /\ table[j] \in Row
      /\ table'[j] = [table[j] EXCEPT !.state = s, !.child = None,
                                      !.blocked = None]
      /\ \A k \in Jobs \ {j} : table'[k] = table[k]
  BY <1>1, OneRow DEF End, Finish, IInv, TableInv
<1>3. table'[j].attempts = table[j].attempts
  BY <1>2 DEF Row
<1>4. TypeOK'
  BY ConstantsOK DEF IInv, TypeOK, TableTypeOK, TableInv, End, LetGo
<1>5. ExclusiveHold'
  BY <1>2, HolderWrite DEF IInv, End
<1>6. AttemptsAccounted'
  BY <1>2, <1>3, NothingCounted DEF IInv, End
<1>7. QED
  BY <1>4, <1>5, <1>6 DEF IInv

LEMMA ParkInv ==
  ASSUME IInv, TableInv', NEW w \in Workers, NEW why \in Reasons, Park(w, why)
  PROVE  IInv'
<1> DEFINE j == hold[w]
<1>1. j \in Jobs
  BY DEF IInv, TypeOK, Park
<1>2. /\ table[j] \in Row
      /\ table'[j] = [table[j] EXCEPT !.state = BLOCKED, !.child = None,
                                      !.blocked = why]
      /\ \A k \in Jobs \ {j} : table'[k] = table[k]
  BY <1>1, OneRow DEF Park, Block, IInv, TableInv
<1>3. table'[j].attempts = table[j].attempts
  BY <1>2 DEF Row
<1>4. TypeOK'
  BY ConstantsOK DEF IInv, TypeOK, TableTypeOK, TableInv, Park, LetGo
<1>5. ExclusiveHold'
  BY <1>2, HolderWrite DEF IInv, Park
<1>6. AttemptsAccounted'
  BY <1>2, <1>3, NothingCounted DEF IInv, Park
<1>7. QED
  BY <1>4, <1>5, <1>6 DEF IInv

LEMMA GiveBackInv ==
  ASSUME IInv, TableInv', NEW w \in Workers, NEW refund \in BOOLEAN,
         GiveBack(w, refund)
  PROVE  IInv'
<1> DEFINE j == hold[w]
<1>1. j \in Jobs /\ In(j, Claimed)
  BY DEF IInv, TypeOK, GiveBack, Requeue, In, Claimed
<1>2. /\ table[j] \in Row
      /\ table'[j] = [table[j] EXCEPT !.state = QUEUED, !.worker = None,
                        !.child = None,
                        !.attempts = IF refund THEN Refunded(@) ELSE @]
      /\ \A k \in Jobs \ {j} : table'[k] = table[k]
  BY <1>1, OneRow DEF GiveBack, Requeue, IInv, TableInv
<1>3. table'[j].attempts =
        IF refund THEN Refunded(table[j].attempts) ELSE table[j].attempts
  BY <1>2 DEF Row
<1>4. AttemptsAccounted' /\ refunds' \in [Jobs -> Nat]
  BY <1>1, <1>2, <1>3, RefundCounted DEF IInv, GiveBack
<1>5. TypeOK'
  BY <1>4, ConstantsOK DEF IInv, TypeOK, TableTypeOK, TableInv, GiveBack, LetGo
<1>6. ExclusiveHold'
  BY <1>2, HolderWrite DEF IInv, GiveBack
<1>7. QED
  BY <1>4, <1>5, <1>6 DEF IInv

\* Die
LEMMA DieInv ==
  ASSUME IInv, TableInv', NEW w \in Workers, Die(w)
  PROVE  IInv'
<1>1. TypeOK'
  BY ConstantsOK DEF IInv, TypeOK, TableTypeOK, Die, LetGo
<1>2. ExclusiveHold'
  BY HolderWrite DEF IInv, Die
<1>3. AttemptsAccounted'
  BY DEF IInv, AttemptsAccounted, Die
<1>4. QED
  BY <1>1, <1>2, <1>3 DEF IInv

\* Recover: nobody holds a job
LEMMA RecoverInv ==
  ASSUME IInv, TableInv', NEW j \in Jobs, Recover(j)
  PROVE  IInv'
<1>1. PICK s \in {CANCELLED, FAILED, QUEUED} :
        \/ Write(j, [table[j] EXCEPT !.state = s, !.child = None])
        \/ Write(j, [table[j] EXCEPT !.state = s, !.worker = None, !.child = None,
                       !.attempts = IF FALSE THEN Refunded(@) ELSE @])
  BY DEF Recover, RecoverRow, Requeue
<1>2. /\ table'[j].attempts = table[j].attempts
      /\ \A k \in Jobs \ {j} : table'[k] = table[k]
  BY <1>1 DEF IInv, TableInv, Row, Write
<1>3. TypeOK'
  BY DEF IInv, TypeOK, TableTypeOK, TableInv, Recover
<1>4. ExclusiveHold'
  BY DEF ExclusiveHold, Recover
<1>5. AttemptsAccounted'
  BY <1>2, NothingCounted DEF IInv, Recover
<1>6. QED
  BY <1>3, <1>4, <1>5 DEF IInv

\* Release
LEMMA ReleaseInv ==
  ASSUME IInv, TableInv', NEW j \in Jobs, Release(j)
  PROVE  IInv'
<1>1. /\ table[j].state = BLOCKED
      /\ table[j] \in Row
      /\ table'[j] = [table[j] EXCEPT !.state = QUEUED, !.worker = None,
                                      !.attempts = Refunded(@)]
      /\ \A k \in Jobs \ {j} : table'[k] = table[k]
  BY OneRow DEF Release, Unblock, In, IInv, TableInv
<1>2. table'[j].attempts = Refunded(table[j].attempts)
  BY <1>1 DEF Row
<1>3. refunds' = [refunds EXCEPT ![j] = @ + (IF TRUE THEN 1 ELSE 0)]
  BY DEF Release
<1>4. In(j, Claimed) /\ TRUE \in BOOLEAN
  BY <1>1 DEF In, Claimed
<1>5. AttemptsAccounted' /\ refunds' \in [Jobs -> Nat]
  BY <1>1, <1>2, <1>3, <1>4, RefundCounted DEF IInv, Release
<1>6. TypeOK'
  BY <1>5 DEF IInv, TypeOK, TableTypeOK, TableInv, Release
<1>7. ~Held(j)
  BY <1>1, HeldIsRunning DEF IInv
<1>8. ExclusiveHold'
  BY <1>1, <1>7, UnheldWrite DEF IInv, Release
<1>9. QED
  BY <1>5, <1>6, <1>8 DEF IInv

\* Cancel: the first transaction finds the job idle or changes nothing, the
\* second raises the flag of a running job or changes nothing
LEMMA CancelInv ==
  ASSUME IInv, TableInv', NEW j \in Jobs, Cancel(j)
  PROVE  IInv'
<1>1. asked' \in [Jobs -> Asking]
  <2>1. PICK s \in Asking : asked' = [asked EXCEPT ![j] = s]
    BY DEF Cancel, CancelFirst, CancelSecond, Asking, Answers
  <2>2. QED
    BY <2>1 DEF IInv, TypeOK, TableTypeOK
<1>2. TypeOK'
  BY <1>1 DEF IInv, TypeOK, TableTypeOK, TableInv, Cancel
<1>3. CASE UNCHANGED table
  BY <1>2, <1>3 DEF IInv, ExclusiveHold, AttemptsAccounted, Cancel
<1>4. CASE In(j, Idle) /\ Write(j, [table[j] EXCEPT !.state = CANCELLED])
  <2>1. /\ table[j] \in Row
        /\ table'[j] = [table[j] EXCEPT !.state = CANCELLED]
        /\ \A k \in Jobs \ {j} : table'[k] = table[k]
    BY <1>4, OneRow DEF IInv, TableInv
  <2>2. table'[j].attempts = table[j].attempts
    BY <2>1 DEF Row
  <2>3. ~Held(j)
    BY <1>4, HeldIsRunning DEF IInv, In, Idle
  <2>4. ExclusiveHold'
    BY <2>1, <2>3, UnheldWrite DEF IInv, Cancel
  <2>5. AttemptsAccounted'
    BY <2>1, <2>2, NothingCounted DEF IInv, Cancel
  <2>6. QED
    BY <1>2, <2>4, <2>5 DEF IInv
<1>5. CASE Running(j) /\ Write(j, [table[j] EXCEPT !.cancel = TRUE])
  <2>1. /\ table[j] \in Row
        /\ table'[j] = [table[j] EXCEPT !.cancel = TRUE]
        /\ \A k \in Jobs \ {j} : table'[k] = table[k]
    BY <1>5, OneRow DEF IInv, TableInv
  <2>2. /\ table'[j].attempts = table[j].attempts
        /\ table'[j].state = table[j].state
        /\ table'[j].worker = table[j].worker
    BY <2>1 DEF Row
  <2>3. ExclusiveHold'
    BY <2>1, <2>2, UnheldWrite DEF IInv, Cancel
  <2>4. AttemptsAccounted'
    BY <2>1, <2>2, NothingCounted DEF IInv, Cancel
  <2>5. QED
    BY <1>2, <2>3, <2>4 DEF IInv
<1>6. QED
  BY <1>3, <1>4, <1>5 DEF Cancel, CancelFirst, CancelSecond

-----------------------------------------------------------------------------

\* Every step keeps the inductive invariant.
LEMMA StepInv == IInv /\ [Next]_vars => IInv'
<1> SUFFICES ASSUME IInv, [Next]_vars PROVE IInv'
  OBVIOUS
<1>1. TableInv'
  BY TableStep
<1>2. CASE UNCHANGED vars
  BY <1>1, <1>2 DEF IInv, TypeOK, TableTypeOK, ExclusiveHold, AttemptsAccounted, vars
<1>3. CASE Next
  BY <1>1, <1>3, SubmitInv, RecoverInv, ReleaseInv, CancelInv, ClaimInv,
     RecordChildInv, EndInv, ParkInv, GiveBackInv, DieInv DEF Next
<1>4. QED
  BY <1>2, <1>3

\* The inductive invariant holds in every reachable state.
THEOREM Invariance == Spec => []IInv
BY InitInv, StepInv, PTL DEF Spec

\* Every variable keeps its type, whatever the processes do.
THEOREM TypeCorrect == Spec => []TypeOK
<1>1. IInv => TypeOK
  BY DEF IInv
<1>2. QED
  BY <1>1, Invariance, PTL

\* A claimed job belongs to its claimer alone until the claimer lets go.
THEOREM ExclusiveClaims == Spec => []ExclusiveHold
<1>1. IInv => ExclusiveHold
  BY DEF IInv
<1>2. QED
  BY <1>1, Invariance, PTL

\* Submitted jobs never share a sequence number, so their order is strict.
THEOREM StrictOrder == Spec => []SubmissionOrder
<1>1. IInv => SubmissionOrder
  BY DEF IInv, TableInv, SeqsDistinct, SubmissionOrder
<1>2. QED
  BY <1>1, Invariance, PTL

\* The attempt counter is the number of claims less those given back.
THEOREM AttemptsAreAccounted == Spec => []AttemptsAccounted
<1>1. IInv => AttemptsAccounted
  BY DEF IInv
<1>2. QED
  BY <1>1, Invariance, PTL

\* No process ever touches a job that has its outcome.
THEOREM OutcomesAreFinal == Spec => FinalForGood
<1>1. IInv /\ [Next]_vars => [\A j \in Jobs : In(j, Final) => table'[j] = table[j]]_vars
  <2> SUFFICES ASSUME IInv, [Next]_vars, NEW j \in Jobs, In(j, Final)
               PROVE  table'[j] = table[j]
    OBVIOUS
  <2>1. CASE UNCHANGED table
    BY <2>1
  <2>2. ASSUME NEW k \in Jobs, Add(k) PROVE table'[j] = table[j]
    BY <2>2 DEF Add, Write, In, Final, IInv, TableInv
  <2>3. ASSUME NEW k \in Jobs, RowStep(k) PROVE table'[j] = table[j]
    BY <2>3, RowStepEffect DEF IInv
  <2>4. QED
    BY <2>1, <2>2, <2>3, StepShape
<1>2. QED
  BY <1>1, Invariance, PTL DEF Spec, FinalForGood

\* No claim overtakes an older queued job, however often jobs come back.
THEOREM ClaimsInOrder == Spec => NoOvertaking
<1> DEFINE Fair(i, j) ==
      /\ table[i].state = QUEUED /\ table[j].state = QUEUED
      /\ table[j].attempts < table'[j].attempts
      => table[i].seq >= table[j].seq
<1>1. ASSUME IInv, [Next]_vars, NEW i \in Jobs, NEW j \in Jobs PROVE Fair(i, j)
  <2>1. table[i] \in Row /\ table[j] \in Row
    BY <1>1 DEF IInv, TableInv
  <2>2. /\ table[i].seq \in Nat /\ table[j].seq \in Nat
        /\ table[j].attempts \in Nat
    BY <2>1 DEF Row
  <2>3. ASSUME table[i].state = QUEUED, table[j].state = QUEUED,
               table[j].attempts < table'[j].attempts
        PROVE  table[i].seq >= table[j].seq
    <3>1. table'[j] # table[j]
      BY <2>2, <2>3
    <3>2. \A k \in Jobs : ~Add(k)
      BY <1>1, <2>3, <3>1 DEF Add, Write, In, IInv, TableInv
    <3>3. RowStep(j)
      BY <1>1, <3>1, <3>2, StepShape, RowStepEffect DEF IInv
    <3>4. Oldest(j)
      BY <1>1, <2>3, <3>3, RowStepEffect DEF IInv, In
    <3>5. QED
      BY <2>2, <2>3, <3>4 DEF Oldest, In
  <2>4. QED
    BY <2>3
<1>2. IInv /\ [Next]_vars => [\A i, j \in Jobs : Fair(i, j)]_vars
  BY <1>1
<1>3. QED
  BY <1>2, Invariance, PTL DEF Spec, NoOvertaking

\* The answers of cancel() stay true whatever the processes do.
LEMMA AnswersStep ==
  ASSUME IInv, Answered, [Next]_vars
  PROVE  Answered'
<1>1. asked \in [Jobs -> Asking]
  BY DEF IInv, TypeOK, TableTypeOK
<1>2. CASE \E j \in Jobs : Cancel(j)
  BY <1>1, <1>2, AnsweredStep DEF Cancel, IInv
<1>3. CASE UNCHANGED asked
  <2>1. CASE UNCHANGED table
    BY <1>3, <2>1 DEF Answered, In
  <2>2. CASE \E j \in Jobs : Add(j) \/ RowStep(j)
    BY <1>1, <1>3, <2>2, AnsweredStep DEF IInv
  <2>3. QED
    BY <2>1, <2>2, StepShape
<1>4. CASE \/ \E j \in Jobs : Submit(j) \/ Recover(j) \/ Release(j)
           \/ \E w \in Workers, j \in Jobs : Claim(w, j)
  BY <1>3, <1>4 DEF Submit, Recover, Release, Claim
<1>5. CASE \/ \E w \in Workers, c \in Children : RecordChild(w, c)
           \/ \E w \in Workers, s \in Final : End(w, s)
           \/ \E w \in Workers, why \in Reasons : Park(w, why)
           \/ \E w \in Workers, refund \in BOOLEAN : GiveBack(w, refund)
           \/ \E w \in Workers : Die(w)
  BY <1>3, <1>5 DEF RecordChild, End, Park, GiveBack, Die
<1>6. QED
  BY <1>2, <1>3, <1>4, <1>5 DEF Next, vars

\* A user who was told "cancelled" has a cancelled job for good, one who was told
\* "requested" has the flag up for good, however the two halves of cancel() and
\* the steps of other processes interleave.
THEOREM CancelIsHonest == Spec => []CancelKeepsWord
<1>1. Init => Answered
  BY AnsweredInit DEF Init
<1>2. IInv /\ Answered /\ [Next]_vars => Answered'
  BY AnswersStep
<1>3. Answered => CancelKeepsWord
  BY DEF Answered, CancelKeepsWord, In
<1>4. QED
  BY <1>1, <1>2, <1>3, Invariance, PTL DEF Spec

=============================================================================
