--------------------------- MODULE JobTableProofs ---------------------------
(***************************************************************************)
(* What every transition of the job table keeps, proved once for HostQueue *)
(* and HostWorker: whoever makes the steps, the rows stay rows, the        *)
(* sequence numbers of the submitted jobs stay different, and a row that   *)
(* was claimed has an attempt to give back.                                *)
(***************************************************************************)
EXTENDS JobTable, TLAPS

\* MAX(seq) exists; the table is not assumed finite
SeqsBounded == \E m \in Seqs : \A n \in Seqs : n <= m

SeqsDistinct ==
    \A i, j \in Jobs : i # j /\ ~In(i, {ABSENT}) /\ ~In(j, {ABSENT})
                           => table[i].seq # table[j].seq

Claimed == {RUNNING, PAUSED, BLOCKED}

ClaimsCounted == \A j \in Jobs : In(j, Claimed) => table[j].attempts >= 1

AbsentIsEmpty == \A j \in Jobs : In(j, {ABSENT}) => table[j] = NoRow

TableInv ==
    /\ table \in [Jobs -> Row]
    /\ AbsentIsEmpty
    /\ SeqsBounded
    /\ SeqsDistinct
    /\ ClaimsCounted

\* every transition but the one that inserts a row
RowStep(j) ==
    \/ \E w \in Workers : ClaimNext(w, j)
    \/ \E c \in Children \cup {None} : SetChild(j, c)
    \/ \E s \in Final : Finish(j, s)
    \/ \E why \in Reasons : Block(j, why)
    \/ Unblock(j)
    \/ \E refund \in BOOLEAN : Requeue(j, refund)
    \/ \E flag \in BOOLEAN : RecoverRow(j, flag)
    \/ CancelFirst(j)
    \/ CancelSecond(j)

\* What cancel() told its user is what it did: nobody asks for a job that is not
\* there, "cancelled" is said of a cancelled job, and the flag is up on just the
\* jobs whose user was told "requested".
Answered ==
    \A j \in Jobs :
        /\ In(j, {ABSENT}) => asked[j] = "not asked"
        /\ asked[j] = "cancelled" => In(j, {CANCELLED})
        /\ asked[j] = "requested" <=> table[j].cancel

USE DEF ABSENT, QUEUED, RUNNING, PAUSED, BLOCKED, DONE, FAILED, CANCELLED

-----------------------------------------------------------------------------

\* An empty table satisfies the invariant.
LEMMA TableInitInv ==
  ASSUME TableInit
  PROVE  TableInv
<1>1. NoRow \in Row
  BY ConstantsOK DEF NoRow, Row, States, Final
<1>2. Seqs = {0}
  BY DEF Seqs, TableInit, NoRow
<1>3. table \in [Jobs -> Row]
  BY <1>1 DEF TableInit
<1>4. \A j \in Jobs : table[j].state = ABSENT
  BY DEF TableInit, NoRow
<1>5. SeqsBounded
  BY <1>2 DEF SeqsBounded
<1>6. AbsentIsEmpty /\ SeqsDistinct /\ ClaimsCounted
  BY <1>4 DEF TableInit, AbsentIsEmpty, SeqsDistinct, ClaimsCounted, Claimed, In
<1>7. QED
  BY <1>3, <1>5, <1>6 DEF TableInv

\* NextSeq is larger than every number in use.
LEMMA NextSeqIsNew ==
  ASSUME table \in [Jobs -> Row], SeqsBounded
  PROVE  /\ NextSeq \in Nat
         /\ \A n \in Seqs : n < NextSeq
<1>1. Seqs \subseteq Nat
  BY DEF Seqs, Row
<1>2. PICK m \in Seqs : \A n \in Seqs : n <= m
  BY DEF SeqsBounded
<1> DEFINE top == CHOOSE x \in Seqs : \A n \in Seqs : n <= x
<1>3. top \in Seqs /\ \A n \in Seqs : n <= top
  BY <1>2
<1>4. NextSeq = 1 + top
  BY DEF NextSeq
<1> HIDE DEF top
<1>5. QED
  BY <1>1, <1>3, <1>4

\* A write that keeps the sequence number, the fact that the row exists and the
\* attempt of a claimed row keeps the invariant.
LEMMA WriteKeepsInv ==
  ASSUME TableInv,
         NEW j \in Jobs, NEW row \in Row, Write(j, row),
         row.seq = table[j].seq,
         table[j].state # ABSENT, row.state # ABSENT,
         row.state \in Claimed => row.attempts >= 1
  PROVE  TableInv'
<1>1. table' \in [Jobs -> Row]
  BY DEF TableInv, Write
<1>2. \A k \in Jobs : table'[k].seq = table[k].seq
  BY DEF TableInv, Write
<1>3. SeqsBounded'
  <2>1. Seqs' = Seqs
    BY <1>2 DEF Seqs
  <2>2. QED
    BY <2>1 DEF SeqsBounded, TableInv
<1>4. SeqsDistinct'
  <2>1. \A k \in Jobs : table'[k].state # ABSENT => table[k].state # ABSENT
    BY DEF TableInv, Write
  <2>2. QED
    BY <1>2, <2>1 DEF TableInv, SeqsDistinct, In
<1>5. ClaimsCounted'
  BY DEF TableInv, ClaimsCounted, In, Write
<1>6. AbsentIsEmpty'
  BY DEF TableInv, AbsentIsEmpty, In, Write
<1>7. QED
  BY <1>1, <1>3, <1>4, <1>5, <1>6 DEF TableInv

\* Inserting a row keeps the invariant.
LEMMA AddKeepsInv ==
  ASSUME TableInv, NEW j \in Jobs, Add(j)
  PROVE  TableInv'
<1> DEFINE row == [NoRow EXCEPT !.state = QUEUED, !.seq = NextSeq]
<1>1. NextSeq \in Nat /\ \A n \in Seqs : n < NextSeq
  BY NextSeqIsNew DEF TableInv
<1>2. row \in Row /\ row.state = QUEUED /\ row.seq = NextSeq
  BY <1>1, ConstantsOK DEF NoRow, Row, States, Final
<1>3. table' = [table EXCEPT ![j] = row] /\ table[j].state = ABSENT
  BY DEF Add, Write, In
<1> HIDE DEF row
<1>4. table' \in [Jobs -> Row]
  BY <1>2, <1>3 DEF TableInv
<1>5. table'[j] = row /\ \A k \in Jobs \ {j} : table'[k] = table[k]
  BY <1>3 DEF TableInv
<1>6. \A k \in Jobs : table[k].seq \in Seqs
  BY DEF Seqs
<1>7. SeqsBounded'
  <2>1. NextSeq \in Seqs'
    BY <1>2, <1>5 DEF Seqs
  <2>2. \A n \in Seqs' : n = NextSeq \/ n \in Seqs
    BY <1>2, <1>5 DEF Seqs
  <2>3. Seqs \subseteq Nat
    BY DEF Seqs, Row, TableInv
  <2>4. QED
    BY <1>1, <2>1, <2>2, <2>3 DEF SeqsBounded
<1>8. SeqsDistinct'
  <2>1. \A k \in Jobs \ {j} : table'[k].seq \in Seqs
    BY <1>5, <1>6
  <2>2. \A k \in Jobs \ {j} : table'[k].seq # table'[j].seq
    <3>1. Seqs \subseteq Nat
      BY DEF Seqs, Row, TableInv
    <3>2. table'[j].seq = NextSeq
      BY <1>2, <1>5
    <3>3. QED
      BY <1>1, <2>1, <3>1, <3>2
  <2>3. QED
    BY <1>5, <2>2 DEF TableInv, SeqsDistinct, In
<1>9. ClaimsCounted'
  BY <1>2, <1>5 DEF TableInv, ClaimsCounted, In, Claimed
<1>10. AbsentIsEmpty'
  BY <1>2, <1>5 DEF TableInv, AbsentIsEmpty, In
<1>11. QED
  BY <1>4, <1>7, <1>8, <1>9, <1>10 DEF TableInv

\* Giving an attempt back never leaves the naturals.
LEMMA RefundedIsNat ==
  ASSUME NEW n \in Nat
  PROVE  Refunded(n) \in Nat
BY DEF Refunded

\* Every other transition keeps the invariant.
LEMMA RowStepKeepsInv ==
  ASSUME TableInv, NEW j \in Jobs, RowStep(j)
  PROVE  TableInv'
<1> DEFINE old == table[j]
<1>1. /\ old \in Row
      /\ In(j, Claimed) => old.attempts >= 1
  BY DEF TableInv, ClaimsCounted
<1> USE <1>1 DEF Row, In, Write
<1>2. CASE \E w \in Workers : ClaimNext(w, j)
  <2>1. PICK w \in Workers : ClaimNext(w, j)
    BY <1>2
  <2> DEFINE new == [old EXCEPT !.state = RUNNING, !.attempts = @ + 1,
                                !.worker = w, !.child = None]
  <2>2. old.attempts + 1 \in Nat /\ old.attempts + 1 >= 1
    OBVIOUS
  <2>3. new \in Row /\ new.seq = old.seq /\ new.attempts = old.attempts + 1
    BY <2>2 DEF States
  <2>4. QED
    BY <2>1, <2>2, <2>3, WriteKeepsInv DEF ClaimNext, Oldest
<1>3. CASE \E c \in Children \cup {None} : SetChild(j, c)
  <2>1. PICK c \in Children \cup {None} : SetChild(j, c)
    BY <1>3
  <2> DEFINE new == [old EXCEPT !.child = c]
  <2>2. new \in Row /\ new.seq = old.seq /\ new.attempts = old.attempts
    BY DEF States
  <2>3. QED
    BY <2>1, <2>2, WriteKeepsInv DEF SetChild, Claimed
<1>4. CASE \E s \in Final : Finish(j, s)
  <2>1. PICK s \in Final : Finish(j, s)
    BY <1>4
  <2> DEFINE new == [old EXCEPT !.state = s, !.child = None, !.blocked = None]
  <2>2. new \in Row /\ new.seq = old.seq /\ new.state \notin Claimed \cup {ABSENT}
    BY DEF States, Final, Claimed
  <2>3. QED
    BY <2>1, <2>2, WriteKeepsInv DEF Finish, Running
<1>5. CASE \E why \in Reasons : Block(j, why)
  <2>1. PICK why \in Reasons : Block(j, why)
    BY <1>5
  <2> DEFINE new == [old EXCEPT !.state = BLOCKED, !.child = None,
                                !.blocked = why]
  <2>2. new \in Row /\ new.seq = old.seq /\ new.attempts = old.attempts
    BY DEF States
  <2>3. QED
    BY <2>1, <2>2, WriteKeepsInv DEF Block, Running, Claimed
<1>6. CASE Unblock(j)
  <2> DEFINE new == [old EXCEPT !.state = QUEUED, !.worker = None,
                                !.attempts = Refunded(@)]
  <2>1. Refunded(old.attempts) \in Nat
    BY RefundedIsNat
  <2>2. new \in Row /\ new.seq = old.seq /\ new.state \notin Claimed \cup {ABSENT}
    BY <2>1 DEF States, Claimed
  <2>3. QED
    BY <1>6, <2>2, WriteKeepsInv DEF Unblock
<1>7. ASSUME NEW refund \in BOOLEAN, Requeue(j, refund)
      PROVE  TableInv'
  <2> DEFINE new == [old EXCEPT !.state = QUEUED, !.worker = None, !.child = None,
                                !.attempts = IF refund THEN Refunded(@) ELSE @]
  <2>1. (IF refund THEN Refunded(old.attempts) ELSE old.attempts) \in Nat
    BY RefundedIsNat
  <2>2. new \in Row /\ new.seq = old.seq /\ new.state \notin Claimed \cup {ABSENT}
    BY <2>1 DEF States, Claimed
  <2>3. QED
    BY <1>7, <2>2, WriteKeepsInv DEF Requeue
<1>8. ASSUME NEW s \in {CANCELLED, FAILED}, Running(j),
             Write(j, [table[j] EXCEPT !.state = s, !.child = None])
      PROVE  TableInv'
  <2> DEFINE new == [old EXCEPT !.state = s, !.child = None]
  <2>2. new \in Row /\ new.seq = old.seq /\ new.state \notin Claimed \cup {ABSENT}
    BY DEF States, Final, Claimed
  <2>3. QED
    BY <1>8, <2>2, WriteKeepsInv DEF Running
<1>9. CASE \E flag \in BOOLEAN : RecoverRow(j, flag)
  BY <1>7, <1>8, <1>9 DEF RecoverRow
<1>10. CASE UNCHANGED table
  BY <1>10 DEF TableInv, AbsentIsEmpty, SeqsBounded, Seqs, SeqsDistinct,
                   ClaimsCounted, In
<1>11. CASE CancelFirst(j)
  <2> DEFINE new == [old EXCEPT !.state = CANCELLED]
  <2>1. new \in Row /\ new.seq = old.seq /\ new.state \notin Claimed \cup {ABSENT}
    BY DEF States, Final, Claimed
  <2>2. QED
    BY <1>10, <1>11, <2>1, WriteKeepsInv DEF CancelFirst
<1>12. CASE CancelSecond(j)
  <2> DEFINE new == [old EXCEPT !.cancel = TRUE]
  <2>1. new \in Row /\ new.seq = old.seq /\ new.attempts = old.attempts
    BY DEF States
  <2>2. QED
    BY <1>10, <1>12, <2>1, WriteKeepsInv DEF CancelSecond, Running, Claimed
<1>13. QED
  BY <1>2, <1>3, <1>4, <1>5, <1>6, <1>7, <1>9, <1>11, <1>12 DEF RowStep

\* What a transition may do to the row of a job, seen from outside: it leaves
\* the other rows and every final row alone, creates and deletes no row, starts a
\* queued job only if no queued job is older, and never touches the cancel flag,
\* which is for the second half of cancel() alone.
LEMMA RowStepEffect ==
  ASSUME TableInv, NEW j \in Jobs, RowStep(j)
  PROVE  /\ \A k \in Jobs \ {j} : table'[k] = table[k]
         /\ In(j, Final) => table'[j] = table[j]
         /\ In(j, {QUEUED}) /\ table[j].attempts < table'[j].attempts
               => Oldest(j)
         /\ In(j, {ABSENT}) <=> table'[j].state = ABSENT
         /\ CancelSecond(j) \/ table'[j].cancel = table[j].cancel
<1>1. table[j] \in Row
  BY DEF TableInv
<1>2. \A k \in Jobs \ {j} : table'[k] = table[k]
  BY DEF RowStep, ClaimNext, SetChild, Finish, Block, Unblock, Requeue,
         RecoverRow, CancelFirst, CancelSecond, Write, TableInv
<1>3. In(j, Final) => table'[j] = table[j]
  BY DEF RowStep, ClaimNext, Oldest, SetChild, Finish, Block, Unblock, Requeue,
         RecoverRow, Running, CancelFirst, CancelSecond, Idle, In, Final
<1>4. ASSUME In(j, {QUEUED}), table[j].attempts < table'[j].attempts
      PROVE  Oldest(j)
  <2>1. CASE \E w \in Workers : ClaimNext(w, j)
    BY <2>1 DEF ClaimNext
  <2>2. CASE CancelFirst(j)
    <3>1. table'[j].attempts = table[j].attempts
      BY <1>1, <2>2 DEF CancelFirst, Write, Row, TableInv
    <3>2. QED
      BY <1>1, <1>4, <3>1 DEF Row
  <2>3. CASE CancelSecond(j)
    <3>1. table'[j].attempts = table[j].attempts
      BY <1>1, <2>3 DEF CancelSecond, Write, Row, TableInv
    <3>2. QED
      BY <1>1, <1>4, <3>1 DEF Row
  <2>4. QED
    BY <1>4, <2>1, <2>2, <2>3 DEF RowStep, SetChild, Finish, Block, Unblock,
       Requeue, RecoverRow, Running, In
<1>5. In(j, {ABSENT}) <=> table'[j].state = ABSENT
  <2>1. CASE \E w \in Workers : ClaimNext(w, j)
    BY <1>1, <2>1 DEF ClaimNext, Oldest, Write, In, Row, TableInv
  <2>2. CASE \E c \in Children \cup {None} : SetChild(j, c)
    BY <1>1, <2>2 DEF SetChild, Write, In, Row, TableInv
  <2>3. CASE \E s \in Final : Finish(j, s)
    BY <1>1, <2>3 DEF Finish, Running, Write, In, Row, TableInv, Final
  <2>4. CASE \E why \in Reasons : Block(j, why)
    BY <1>1, <2>4 DEF Block, Running, Write, In, Row, TableInv
  <2>5. ASSUME NEW refund \in BOOLEAN, Requeue(j, refund)
        PROVE  In(j, {ABSENT}) <=> table'[j].state = ABSENT
    BY <1>1, <2>5 DEF Requeue, Write, In, Row, TableInv
  <2>6. CASE \E flag \in BOOLEAN : RecoverRow(j, flag)
    BY <1>1, <2>5, <2>6 DEF RecoverRow, Running, Write, In, Row, TableInv
  <2>7. CASE Unblock(j)
    BY <1>1, <2>7 DEF Unblock, Write, In, Row, TableInv
  <2>8. CASE CancelFirst(j)
    BY <1>1, <2>8 DEF CancelFirst, Write, In, Row, TableInv, Idle
  <2>9. CASE CancelSecond(j)
    BY <1>1, <2>9 DEF CancelSecond, Running, Write, In, Row, TableInv
  <2>10. QED
    BY <2>1, <2>2, <2>3, <2>4, <2>5, <2>6, <2>7, <2>8, <2>9 DEF RowStep
<1>6. CancelSecond(j) \/ table'[j].cancel = table[j].cancel
  <2>1. CASE \E w \in Workers : ClaimNext(w, j)
    BY <1>1, <2>1 DEF ClaimNext, Write, Row, TableInv
  <2>2. CASE \E c \in Children \cup {None} : SetChild(j, c)
    BY <1>1, <2>2 DEF SetChild, Write, Row, TableInv
  <2>3. CASE \E s \in Final : Finish(j, s)
    BY <1>1, <2>3 DEF Finish, Write, Row, TableInv
  <2>4. CASE \E why \in Reasons : Block(j, why)
    BY <1>1, <2>4 DEF Block, Write, Row, TableInv
  <2>5. ASSUME NEW refund \in BOOLEAN, Requeue(j, refund)
        PROVE  table'[j].cancel = table[j].cancel
    BY <1>1, <2>5 DEF Requeue, Write, Row, TableInv
  <2>6. CASE \E flag \in BOOLEAN : RecoverRow(j, flag)
    BY <1>1, <2>5, <2>6 DEF RecoverRow, Write, Row, TableInv
  <2>7. CASE Unblock(j)
    BY <1>1, <2>7 DEF Unblock, Write, Row, TableInv
  <2>8. CASE CancelFirst(j)
    BY <1>1, <2>8 DEF CancelFirst, Write, Row, TableInv
  <2>9. QED
    BY <2>1, <2>2, <2>3, <2>4, <2>5, <2>6, <2>7, <2>8 DEF RowStep
<1>7. QED
  BY <1>2, <1>3, <1>4, <1>5, <1>6

\* Nobody has asked for anything yet.
LEMMA AnsweredInit ==
  ASSUME TableInit
  PROVE  Answered
BY DEF TableInit, Answered, In, NoRow

\* Whatever transition comes next, the answers stay true.
LEMMA AnsweredStep ==
  ASSUME TableInv, asked \in [Jobs -> Asking], Answered, NEW j \in Jobs,
         \/ (Add(j) \/ RowStep(j)) /\ UNCHANGED asked
         \/ CancelFirst(j) \/ CancelSecond(j)
  PROVE  Answered'
<1>1. table[j] \in Row
  BY DEF TableInv
<1>2. CASE CancelFirst(j)
  <2>1. CASE Write(j, [table[j] EXCEPT !.state = CANCELLED])
    BY <1>1, <1>2, <2>1 DEF CancelFirst, Idle, Write, In, Row, TableInv, Answered
  <2>2. CASE UNCHANGED table /\ asked' = [asked EXCEPT ![j] = "first done"]
    BY <1>2, <2>2 DEF CancelFirst, In, Answered
  <2>3. QED
    BY <1>2, <2>1, <2>2 DEF CancelFirst
<1>3. CASE CancelSecond(j)
  <2>1. CASE Write(j, [table[j] EXCEPT !.cancel = TRUE])
    BY <1>1, <1>3, <2>1 DEF CancelSecond, Running, Write, In, Row, TableInv, Answered
  <2>2. CASE UNCHANGED table /\ asked' = [asked EXCEPT ![j] = "final"]
    BY <1>3, <2>2 DEF CancelSecond, In, Answered
  <2>3. QED
    BY <1>3, <2>1, <2>2 DEF CancelSecond
<1>4. CASE Add(j) /\ UNCHANGED asked
  BY <1>4 DEF Add, Write, In, NoRow, TableInv, AbsentIsEmpty, Answered
<1>5. CASE RowStep(j) /\ UNCHANGED asked /\ ~CancelSecond(j)
  <2>1. /\ \A k \in Jobs \ {j} : table'[k] = table[k]
        /\ In(j, Final) => table'[j] = table[j]
        /\ table'[j].cancel = table[j].cancel
        /\ In(j, {ABSENT}) <=> table'[j].state = ABSENT
    BY <1>5, RowStepEffect
  <2>2. QED
    BY <1>5, <2>1 DEF Answered, In, Final
<1>6. QED
  BY <1>2, <1>3, <1>4, <1>5

=============================================================================
