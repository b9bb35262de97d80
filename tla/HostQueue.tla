------------------------------ MODULE HostQueue ------------------------------
(***************************************************************************)
(* Any number of processes use one job table at the same time: submitters, *)
(* racing claimers, users who cancel and unblock (scaffold/agent/host/     *)
(* queue.py with its callers in awos.py and app/).  Nothing here assumes   *)
(* the worker lock: this is what the transactions alone guarantee.         *)
(* recover() is the one call whose docstring asks for the lock; it is made *)
(* only while no living process holds a job, which is what the lock means. *)
(***************************************************************************)
EXTENDS JobTable, FiniteSets

VARIABLES
    hold,           \* hold[w]: the job claim_next gave process w, or None
    claims,         \* claims[j]: how often claim_next handed out j
    refunds         \* refunds[j]: how often an attempt of j was given back

CONSTANT MaxClaims  \* bound: claims of one job in a behaviour

ASSUME MaxClaimsOK == MaxClaims \in Nat

vars == <<table, asked, hold, claims, refunds>>

Held(j) == \E w \in Workers : hold[w] = j

TypeOK ==
    /\ TableTypeOK
    /\ hold \in [Workers -> Jobs \cup {None}]
    /\ claims \in [Jobs -> Nat]
    /\ refunds \in [Jobs -> Nat]

Init ==
    /\ TableInit
    /\ hold = [w \in Workers |-> None]
    /\ claims = [j \in Jobs |-> 0]
    /\ refunds = [j \in Jobs |-> 0]

-----------------------------------------------------------------------------

Submit(j) == Add(j) /\ UNCHANGED <<asked, hold, claims, refunds>>

Claim(w, j) ==
    /\ hold[w] = None
    /\ claims[j] < MaxClaims
    /\ ClaimNext(w, j)
    /\ hold' = [hold EXCEPT ![w] = j]
    /\ claims' = [claims EXCEPT ![j] = @ + 1]
    /\ UNCHANGED <<asked, refunds>>

RecordChild(w, c) ==
    /\ hold[w] # None
    /\ SetChild(hold[w], c)
    /\ UNCHANGED <<asked, hold, claims, refunds>>

\* the holder lets go of its job by one of the three guarded transitions
LetGo(w) == hold' = [hold EXCEPT ![w] = None]

End(w, s) ==
    /\ hold[w] # None
    /\ Finish(hold[w], s)
    /\ LetGo(w)
    /\ UNCHANGED <<asked, claims, refunds>>

Park(w, why) ==
    /\ hold[w] # None
    /\ Block(hold[w], why)
    /\ LetGo(w)
    /\ UNCHANGED <<asked, claims, refunds>>

GiveBack(w, refund) ==
    /\ hold[w] # None
    /\ Requeue(hold[w], refund)
    /\ LetGo(w)
    /\ refunds' = [refunds EXCEPT ![hold[w]] = @ + (IF refund THEN 1 ELSE 0)]
    /\ UNCHANGED <<asked, claims>>

\* the process is killed: its job stays RUNNING with nobody behind it
Die(w) ==
    /\ hold[w] # None
    /\ LetGo(w)
    /\ UNCHANGED <<table, asked, claims, refunds>>

Recover(j) ==
    /\ \A w \in Workers : hold[w] = None
    /\ RecoverRow(j, table[j].cancel)
    /\ UNCHANGED <<asked, hold, claims, refunds>>

Release(j) ==
    /\ Unblock(j)
    /\ refunds' = [refunds EXCEPT ![j] = @ + 1]
    /\ UNCHANGED <<asked, hold, claims>>

Cancel(j) ==
    /\ CancelFirst(j) \/ CancelSecond(j)
    /\ UNCHANGED <<hold, claims, refunds>>

Next ==
    \/ \E j \in Jobs : Submit(j) \/ Recover(j) \/ Release(j) \/ Cancel(j)
    \/ \E w \in Workers, j \in Jobs : Claim(w, j)
    \/ \E w \in Workers, c \in Children : RecordChild(w, c)
    \/ \E w \in Workers, s \in Final : End(w, s)
    \/ \E w \in Workers, why \in Reasons : Park(w, why)
    \/ \E w \in Workers, refund \in BOOLEAN : GiveBack(w, refund)
    \/ \E w \in Workers : Die(w)

Spec == Init /\ [][Next]_vars

-----------------------------------------------------------------------------
(* Properties                                                              *)

\* A job claim_next handed out belongs to that process alone until the process
\* lets go: no other process gets it, and no submitter, canceller or unblocker
\* moves it ("a job is claimed by at most one worker", queue.py:4-7).
ExclusiveHold ==
    /\ \A v, w \in Workers : hold[v] = hold[w] /\ hold[v] # None => v = w
    /\ \A w \in Workers : hold[w] # None =>
          /\ table[hold[w]].state = RUNNING
          /\ table[hold[w]].worker = w

\* Submission order is a strict order of the submitted jobs, and claims respect
\* it: no job starts while an earlier submitted one waits, even one that ran,
\* was parked and came back (seq is assigned as MAX + 1 and never rewritten).
SubmissionOrder ==
    \A i, j \in Jobs : i # j /\ ~In(i, {ABSENT}) /\ ~In(j, {ABSENT})
                           => table[i].seq # table[j].seq

NoOvertaking ==
    [][\A i, j \in Jobs :
          /\ table[i].state = QUEUED /\ table[j].state = QUEUED
          /\ table[j].attempts < table'[j].attempts
          => table[i].seq >= table[j].seq]_vars

\* The attempt counter accounts for every claim that was not given back: the
\* floor MAX(0, ...) of the two refunds never hides a lost count, whatever the
\* order of claims, stops, blocks and releases.
AttemptsAccounted ==
    \A j \in Jobs : table[j].attempts + refunds[j] = claims[j]

\* A job that reached a final state is never touched again, by no late finish,
\* block, requeue, cancel or recover ("finished at most once", queue.py:4-7).
FinalForGood ==
    [][\A j \in Jobs : In(j, Final) => table'[j] = table[j]]_vars

\* cancel() keeps its word to the user: "cancelled" means the job is cancelled
\* and will never start again, "requested" that the flag the worker polls is up.
CancelKeepsWord ==
    \A j \in Jobs :
        /\ asked[j] = "cancelled" => table[j].state = CANCELLED
        /\ asked[j] = "requested" => table[j].cancel

\* "final" (already finished): the docstring's meaning of the third answer
\* (queue.py:225-228).
FinalMeansFinished ==
    \A j \in Jobs : asked[j] = "final" => In(j, Final)

=============================================================================
