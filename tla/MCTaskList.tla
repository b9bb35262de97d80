----------------------------- MODULE MCTaskList -----------------------------
(* The task list with a lead that makes every call and a mate that looks    *)
(* for work; and with two processes that create and delete.                 *)
EXTENDS TaskList

CONSTANTS lead, mate

Pair == {lead, mate}

LeadEdits  == [a \in Pair |-> IF a = lead THEN Calls ELSE {"claim", "delete"}]
TwoEditors == [a \in Pair |-> {"create", "delete"}]
=============================================================================
