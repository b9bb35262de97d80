------------------------------ MODULE JobTable ------------------------------
(***************************************************************************)
(* The durable job table of the AWOS host: the rows of <root>/queue.sqlite *)
(* (scaffold/agent/host/queue.py, host/models.py) and the transitions the  *)
(* code may make on them.  Every write of queue.py is one BEGIN IMMEDIATE  *)
(* transaction guarded by WHERE state IN (...), so every transition below  *)
(* is one atomic action with that guard.  cancel() is the exception: it is *)
(* two transactions, and other processes may run between them.             *)
(*                                                                         *)
(* This module has no behaviour of its own.  HostQueue lets any number of  *)
(* processes race on the table, HostWorker lets the real worker use it.    *)
(***************************************************************************)
EXTENDS Naturals

CONSTANTS
    Jobs,           \* the jobs that may ever be submitted
    Workers,        \* the worker processes (pid + start time)
    Children,       \* the child processes (pid + start time)
    None,           \* SQL NULL
    MaxAttempts     \* AWOS_HOST_MAX_ATTEMPTS, at least 1

ASSUME ConstantsOK ==
    /\ MaxAttempts \in Nat \ {0}
    /\ None \notin Jobs \cup Workers \cup Children

VARIABLES
    table,          \* table[j]: the row of job j
    asked           \* asked[j]: where the user's cancel(j) call stands

tableVars == <<table, asked>>

-----------------------------------------------------------------------------
(* States and rows                                                         *)

ABSENT    == "absent"
QUEUED    == "queued"
RUNNING   == "running"
PAUSED    == "paused"
BLOCKED   == "blocked"
DONE      == "done"
FAILED    == "failed"
CANCELLED == "cancelled"

Final  == {DONE, FAILED, CANCELLED}
States == {QUEUED, RUNNING, PAUSED, BLOCKED} \cup Final

\* why a BLOCKED job is parked: result["blocked"], or nothing
Reasons == {"credentials", "free_tier"}

Row == [state    : States \cup {ABSENT},
        attempts : Nat,
        seq      : Nat,
        cancel   : BOOLEAN,
        worker   : Workers \cup {None},
        child    : Children \cup {None},
        blocked  : Reasons \cup {None}]

NoRow == [state |-> ABSENT, attempts |-> 0, seq |-> 0, cancel |-> FALSE,
          worker |-> None, child |-> None, blocked |-> None]

\* where a call of cancel(j) stands, and what it told the user in the end
Answers == {"cancelled", "requested", "final"}
Asking  == {"not asked", "first done"} \cup Answers

TableTypeOK ==
    /\ table \in [Jobs -> Row]
    /\ asked \in [Jobs -> Asking]

TableInit ==
    /\ table = [j \in Jobs |-> NoRow]
    /\ asked = [j \in Jobs |-> "not asked"]

In(j, states) == table[j].state \in states

Write(j, row) == table' = [table EXCEPT ![j] = row]

-----------------------------------------------------------------------------
(* Transitions.  Each is the UPDATE of one transaction, guard included.    *)

Seqs == {0} \cup {table[j].seq : j \in Jobs}

\* mutant: seq restarts
NextSeqRestarting == 1

\* SELECT COALESCE(MAX(seq), 0) + 1 FROM jobs
NextSeq == 1 + (CHOOSE m \in Seqs : \A n \in Seqs : n <= m)

Add(j) ==
    /\ In(j, {ABSENT})
    /\ Write(j, [NoRow EXCEPT !.state = QUEUED, !.seq = NextSeq])

\* mutant: the UPDATE forgets AND state = 'queued' and picks running rows too
OldestOrRunning(j) ==
    /\ In(j, {QUEUED, RUNNING})
    /\ \A k \in Jobs : In(k, {QUEUED}) => table[j].seq <= table[k].seq

\* mutant: ORDER BY seq dropped
AnyQueued(j) == In(j, {QUEUED})

\* ORDER BY seq LIMIT 1 of the queued rows
Oldest(j) ==
    /\ In(j, {QUEUED})
    /\ \A k \in Jobs : In(k, {QUEUED}) => table[j].seq <= table[k].seq

ClaimNext(w, j) ==
    /\ Oldest(j)
    /\ Write(j, [table[j] EXCEPT !.state = RUNNING, !.attempts = @ + 1,
                                 !.worker = w, !.child = None])

SetChild(j, c) ==
    /\ In(j, {RUNNING})
    /\ Write(j, [table[j] EXCEPT !.child = c])

\* mutant: the WHERE state IN (...) guard of finish is dropped
AnyState(j) == TRUE

\* the guard of every transition out of a run
Running(j) == In(j, {RUNNING})

Finish(j, s) ==
    /\ Running(j)
    /\ Write(j, [table[j] EXCEPT !.state = s, !.child = None, !.blocked = None])

Block(j, why) ==
    /\ Running(j)
    /\ Write(j, [table[j] EXCEPT !.state = BLOCKED, !.child = None,
                                 !.blocked = why])

\* mutant: the refund is forgotten
NotRefunded(n) == n

\* mutant: two attempts given back, and no MAX(0, ...)
RefundedTwice(n) == n - 2

\* MAX(0, attempts - 1)
Refunded(n) == IF n > 0 THEN n - 1 ELSE 0

\* mutant: a cancelled job can be unblocked
Revive(j) ==
    /\ In(j, {BLOCKED, CANCELLED})
    /\ Write(j, [table[j] EXCEPT !.state = QUEUED, !.worker = None,
                                 !.attempts = Refunded(@)])

Unblock(j) ==
    /\ In(j, {BLOCKED})
    /\ Write(j, [table[j] EXCEPT !.state = QUEUED, !.worker = None,
                                 !.attempts = Refunded(@)])

Requeue(j, refund) ==
    /\ In(j, {RUNNING, PAUSED})
    /\ Write(j, [table[j] EXCEPT !.state = QUEUED, !.worker = None,
                                 !.child = None,
                                 !.attempts = IF refund THEN Refunded(@) ELSE @])

\* recover() on one running row; flag is cancel_requested as list() read it
RecoverRow(j, flag) ==
    \/ /\ flag
       /\ Running(j)
       /\ Write(j, [table[j] EXCEPT !.state = CANCELLED, !.child = None])
    \/ /\ ~flag
       /\ table[j].attempts >= MaxAttempts
       /\ Running(j)
       /\ Write(j, [table[j] EXCEPT !.state = FAILED, !.child = None])
    \/ /\ ~flag
       /\ table[j].attempts < MaxAttempts
       /\ Requeue(j, FALSE)

-----------------------------------------------------------------------------
(* cancel(j): a first transaction on a job that is not running, then, if   *)
(* it changed no row, a second one on a running job.  One call per job.    *)

\* mutant: a running job is cancelled at once, under its worker
IdleOrRunning == {QUEUED, PAUSED, BLOCKED, RUNNING}

\* the states cancel() ends at once
Idle == {QUEUED, PAUSED, BLOCKED}

CancelFirst(j) ==
    /\ asked[j] = "not asked"
    /\ ~In(j, {ABSENT})
    /\ \/ /\ In(j, Idle)
          /\ Write(j, [table[j] EXCEPT !.state = CANCELLED])
          /\ asked' = [asked EXCEPT ![j] = "cancelled"]
       \/ /\ ~In(j, Idle)
          /\ asked' = [asked EXCEPT ![j] = "first done"]
          /\ UNCHANGED table

CancelSecond(j) ==
    /\ asked[j] = "first done"
    /\ \/ /\ Running(j)
          /\ Write(j, [table[j] EXCEPT !.cancel = TRUE])
          /\ asked' = [asked EXCEPT ![j] = "requested"]
       \/ /\ ~Running(j)
          /\ asked' = [asked EXCEPT ![j] = "final"]
          /\ UNCHANGED table

=============================================================================
