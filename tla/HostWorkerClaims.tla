-------------------------- MODULE HostWorkerClaims --------------------------
(***************************************************************************)
(* What the repository's documents and comments say of the worker and TLC  *)
(* finds otherwise.  Each statement has a run of its own that ends in a    *)
(* counterexample; README.md tells the stories.                            *)
(***************************************************************************)
EXTENDS HostWorker

\* "Once earlier attempts have used the budget, the next one fails without
\* starting a child" (docs/specs/host_queue.md:78-79): a run that was refused
\* for its budget is not parked for credentials instead.
RefusedRunFails ==
    [][\A w \in Workers :
          At(w, "raised") /\ mine[w] = None /\ disk[cur[w]].broke
              => pc'[w] # "park"]_vars

\* "Never a half-reverted branch" (worker.py:1202-1204): the failed branch holds
\* everything the job did, so a job handed off as failed was not rolled back.
NeverHalfReverted ==
    [][\A j \in Jobs :
          FAILED \in handed'[j] \ handed[j] => ~disk[j].reverted]_vars

=============================================================================
