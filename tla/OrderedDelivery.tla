---------------------------- MODULE OrderedDelivery ----------------------------
(***************************************************************************)
(* What the uplink promises, with no gate, buffer, POST, retry or timer:   *)
(* events are handed to transports in their order, arrive in a session or  *)
(* are lost, and a message of this run arrives only when everything its    *)
(* transport was handed before it has arrived or is lost.                  *)
(***************************************************************************)
EXTENDS Naturals

CONSTANTS Transports, History, Live

VARIABLES
    handed,   \* per transport: the events it was given to deliver
    arrived,  \* per transport: those its session has
    lost      \* per transport: those it has given up

delivery == <<handed, arrived, lost>>

Before(t, e) == {d \in handed[t] : d < e}

Init ==
    /\ handed = [t \in Transports |-> {}]
    /\ arrived = [t \in Transports |-> {}]
    /\ lost = [t \in Transports |-> {}]

(* New events for a transport, later ones than all it has.  A message goes  *)
(* to one transport only; of the history its session may have some already. *)
Hand(t) ==
    \E S \in SUBSET (History \cup Live) : \E known \in SUBSET (S \cap History) :
        /\ \A e \in S : Before(t, e) = handed[t]
        /\ \A m \in S \cap Live, r \in Transports : m \notin handed[r]
        /\ handed' = [handed EXCEPT ![t] = @ \cup S]
        /\ arrived' = [arrived EXCEPT ![t] = @ \cup known]
        /\ UNCHANGED lost

(* Events arrive and events are lost, on any of the transports. *)
InTurn(t) ==
    \A m \in (arrived'[t] \ arrived[t]) \cap Live :
        Before(t, m) \subseteq arrived'[t] \cup lost[t]

Progress ==
    /\ UNCHANGED handed
    /\ \A t \in Transports :
         /\ arrived[t] \subseteq arrived'[t] /\ arrived'[t] \subseteq handed[t]
         /\ lost[t] \subseteq lost'[t] /\ lost'[t] \subseteq handed[t]
         /\ InTurn(t)

Next == Progress \/ \E t \in Transports : Hand(t)

Spec == Init /\ [][Next]_delivery
=============================================================================
