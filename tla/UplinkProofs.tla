----------------------------- MODULE UplinkProofs -----------------------------
(***************************************************************************)
(* The uplink, for a history, messages, transports, sessions and mishaps   *)
(* of any number: its types, that the history goes first, that a mark is   *)
(* honest, and that a replaced transport keeps the queue.                  *)
(***************************************************************************)
EXTENDS Uplink, EventUploaderProofs, FiniteSetTheorems

USE UplinkConstants

(* What of t's events is settled: in its session, or given up. *)
Done(t) == seen[line[t].session] \cup GaveUp(t)

(* The flush of the history is behind a transport. *)
Opened(t) == line[t].connected /\ line[t].wait \in {"no", "over"}

(* A transport not made yet is as Init left it. *)
Unmade ==
    \A t \in Transports : t > made =>
        /\ up[t] = NewUploader /\ line[t] = NewLine /\ gone[t] = NoFate
        /\ transport # t
        /\ \A m \in Live : via[m] # t

(* An uploader is closed only after its transport, and not while in use; *)
(* a gate that is open has the flush of the transport in use behind it.  *)
Uses ==
    \A t \in Transports :
        /\ Tidy(up[t])
        /\ up[t].closed => line[t].closing
        /\ transport = t => ~line[t].closing
        /\ transport = t /\ ~gate.active => Opened(t)

(* What a flush set out to send is with the uploader until it is settled. *)
Flushing ==
    \A t \in Transports :
        /\ ~line[t].connected => line[t].wait = "no"
        /\ line[t].wait = "no" => line[t].owes = {}
        /\ line[t].wait = "waiting" => line[t].owes \subseteq Holds(up[t]) \cup Done(t)
        /\ line[t].wait \in {"resolved", "over"} => line[t].owes \subseteq Done(t)

(* A message is nowhere until it is given to a transport, whose flush is   *)
(* behind it by then; from there it gets to that transport's session only. *)
Places ==
    \A m \in Live :
        /\ via[m] # 0 => Opened(via[m])
        /\ \A s \in Sessions : m \in seen[s] => via[m] # 0 /\ line[via[m]].session = s
        /\ \A t \in Transports : m \in Holds(up[t]) => via[m] = t
        /\ \A post \in wire : m \in Items(post[2]) =>
                                via[m] # 0 /\ line[via[m]].session = post[1]
        /\ m \in Items(gate.queued) => via[m] = 0 /\ m \leq written
        /\ m > written => via[m] = 0

(* A fresh session is only begun where one more is allowed. *)
Room == rebuild = "fresh" => session < MaxSessions

IInv == TypeOK /\ Room /\ Unmade /\ Uses /\ Flushing /\ Places /\ HistoryFirst

-----------------------------------------------------------------------------
LEMMA Numbers ==
    /\ Live \subseteq Nat \ {0} /\ Transports \subseteq Nat \ {0} /\ Live \subseteq Event
    /\ History \subseteq Event /\ Sessions \subseteq Nat /\ 1 \in Sessions
    /\ \A m \in Live : m \notin History
  BY DEF Live, Transports, Event, History, Sessions

LEMMA MessagesTyped ==
    ASSUME NEW s \in Seq(Live)
    PROVE  s \in Seq(Event) /\ Items(s) \subseteq Live
  <1>1. \A i \in 1 .. Len(s) : s[i] \in Live
    OBVIOUS
  <1>2. \A i \in 1 .. Len(s) : s[i] \in Event
    BY <1>1 DEF Event
  <1> QED
    BY <1>2, ItemsTyped

LEMMA InitKeeps == Init => IInv
  <1> SUFFICES ASSUME Init
               PROVE  IInv
    OBVIOUS
  <1>1. NewUploader \in Uploaders(Event) /\ Tidy(NewUploader) /\ Holds(NewUploader) = {}
        /\ ~NewUploader.closed
    BY NewUploaderFacts
  <1>2. NewLine \in Lines /\ NoFate \in Fates
    BY Numbers DEF NewLine, Lines, NoFate, Fates
  <1>3. TypeOK
    <2>1. gate \in [active : BOOLEAN, queued : Seq(Live)]
      BY DEF Init
    <2>2. 0 \in 0 .. MaxMishaps
      OBVIOUS
    <2>3. session \in Sessions
      BY Numbers DEF Init
    <2>4. flushed \in SUBSET History
      BY DEF Init, History
    <2> QED
      BY <1>1, <1>2, <2>1, <2>2, <2>3, <2>4 DEF Init, TypeOK
  <1>4. Unmade
    BY Numbers DEF Unmade, Init
  <1>5. Uses
    BY <1>1, Numbers DEF Uses, Init
  <1>6. Flushing
    BY DEF Flushing, Init, NewLine
  <1>7. Items(gate.queued) = {}
    BY ItemsOfNone DEF Init
  <1>8. Places
    BY <1>1, <1>7, Numbers DEF Places, Init
  <1>9. HistoryFirst
    BY DEF HistoryFirst, Init
  <1> QED
    BY <1>3, <1>4, <1>5, <1>6, <1>8, <1>9 DEF IInv, Room, Init

(* A batch is logged once, and what was there before it is noted. *)
LEMMA LogFacts ==
    ASSUME TypeOK, NEW s \in Sessions, NEW b \in Seq(Event), LogIn(s, b)
    PROVE  /\ seen' \in [Sessions -> SUBSET Event] /\ prior' \in [Live -> SUBSET Event]
           /\ seen'[s] = seen[s] \cup Items(b)
           /\ \A r \in Sessions : r # s => seen'[r] = seen[r]
           /\ \A e \in Live : e \in Items(b) \ seen[s] => seen[s] \subseteq prior'[e]
           /\ \A e \in Live : e \notin Items(b) \ seen[s] => prior'[e] = prior[e]
  <1> DEFINE fresh == Items(b) \ seen[s]
             Ahead(e) == {b[j] : j \in {k \in DOMAIN b :
                                          \E i \in DOMAIN b : k < i /\ b[i] = e}}
  <1>1. /\ seen' = [seen EXCEPT ![s] = @ \cup Items(b)]
        /\ prior' = [e \in Live |-> IF e \in fresh THEN seen[s] \cup Ahead(e)
                                                  ELSE prior[e]]
    BY DEF LogIn
  <1>2. Items(b) \subseteq Event
    BY ItemsTyped
  <1>3. \A e \in Live : Ahead(e) \subseteq Event
    OBVIOUS
  <1> HIDE DEF Ahead
  <1>4. seen' \in [Sessions -> SUBSET Event]
    BY <1>1, <1>2 DEF TypeOK
  <1>5. prior' \in [Live -> SUBSET Event]
    BY <1>1, <1>3 DEF TypeOK
  <1> QED
    BY <1>1, <1>4, <1>5 DEF TypeOK

(* What HistoryFirst rests on: a message is logged where its transport's    *)
(* flush is settled, and what is settled before it is in prior or given up. *)
LEMMA HistoryKept ==
    ASSUME TypeOK, Flushing, Places, HistoryFirst,
           line' \in [Transports -> Lines],
           \A t \in Transports : GaveUp(t) \subseteq GaveUp(t)',
           \A m \in Live : via[m] # 0 =>
              /\ via'[m] = via[m] /\ via[m] \in Transports
              /\ line'[via[m]].session = line[via[m]].session
              /\ line'[via[m]].owes = line[via[m]].owes,
           \/ UNCHANGED <<seen, prior>>
           \/ /\ via' = via
              /\ \E s \in Sessions, b \in Seq(Event) :
                   /\ LogIn(s, b)
                   /\ \A m \in Live : m \in Items(b) =>
                        via[m] # 0 /\ line[via[m]].session = s,
           \A m \in Live : via'[m] \in {0} \cup Transports
    PROVE  HistoryFirst'
  <1> SUFFICES ASSUME NEW m \in Live, NEW t \in Transports, via'[m] = t,
                      m \in seen'[line'[t].session]
               PROVE  line'[t].owes \subseteq prior'[m] \cup GaveUp(t)'
    <2>1. \A m \in Live : via'[m] # 0 => via'[m] \in Transports
      OBVIOUS
    <2> QED
      BY <2>1 DEF HistoryFirst, GaveUp
  <1>1. CASE via[m] = 0
    <2>1. UNCHANGED <<seen, prior>>
      BY <1>1, Numbers
    <2>2. line'[t].session \in Sessions
      BY DEF Lines
    <2> QED
      BY <1>1, <2>1, <2>2 DEF Places
  <1>2. CASE via[m] # 0
    <2> DEFINE s == line[t].session
    <2>1. via[m] = t /\ line'[t].session = s /\ line'[t].owes = line[t].owes
          /\ s \in Sessions
      BY <1>2 DEF TypeOK, Lines
    <2>2. GaveUp(t) \subseteq GaveUp(t)'
      OBVIOUS
    <2>3. CASE m \in seen[s] /\ prior'[m] = prior[m]
      BY <1>2, <2>1, <2>2, <2>3 DEF HistoryFirst
    <2>4. line[t].owes \subseteq seen[s] \cup GaveUp(t)
      BY <1>2, <2>1 DEF Places, Opened, Flushing, Done
    <2>5. CASE ~(m \in seen[s] /\ prior'[m] = prior[m])
      <3>1. ~UNCHANGED <<seen, prior>>
        BY <2>1, <2>5
      <3>2. PICK r \in Sessions, b \in Seq(Event) :
                 /\ LogIn(r, b)
                 /\ \A n \in Live : n \in Items(b) =>
                      via[n] # 0 /\ line[via[n]].session = r
        BY <3>1
      <3>3. /\ seen'[r] = seen[r] \cup Items(b)
            /\ \A q \in Sessions : q # r => seen'[q] = seen[q]
            /\ \A e \in Live : e \in Items(b) \ seen[r] => seen[r] \subseteq prior'[e]
            /\ \A e \in Live : e \notin Items(b) \ seen[r] => prior'[e] = prior[e]
        BY <3>2, LogFacts
      <3>4. m \in Items(b) \ seen[r] /\ r = s
        BY <2>1, <2>5, <3>2, <3>3
      <3> QED
        BY <2>1, <2>2, <2>4, <3>3, <3>4
    <2> QED
      BY <2>3, <2>5
  <1> QED
    BY <1>1, <1>2
-----------------------------------------------------------------------------
(* The steps of doReconnect() that touch no transport, and stuttering. *)
LEMMA QuietKeeps ==
    ASSUME IInv, JoinReconnect \/ Registered \/ SwapSession \/ ClearFlushed \/ UNCHANGED vars
    PROVE  IInv'
  <1>1. UNCHANGED <<transport, gate, made, written, line, up, server, via, gone, mishaps>>
    BY DEF JoinReconnect, Registered, SwapSession, ClearFlushed, vars, bridge, server
  <1>2. /\ session' \in Sessions /\ flushed' \in SUBSET History
        /\ rebuild' \in {"no", "begun", "fresh", "swapped"} /\ polling' \in BOOLEAN
        /\ rebuild' = "fresh" => session' < MaxSessions
    <2>1. CASE SwapSession
      <3>1. session \in 1 .. MaxSessions /\ session < MaxSessions
        BY <2>1 DEF IInv, Room, TypeOK, SwapSession, Sessions
      <3> QED
        BY <2>1, <3>1 DEF IInv, TypeOK, SwapSession, Sessions
    <2>2. CASE Registered
      BY <2>2 DEF IInv, TypeOK, Room, Registered
    <2>3. CASE ClearFlushed
      BY <2>3 DEF IInv, TypeOK, Room, ClearFlushed
    <2>4. CASE JoinReconnect
      BY <2>4 DEF IInv, TypeOK, Room, JoinReconnect
    <2>5. CASE UNCHANGED vars
      BY <2>5 DEF IInv, TypeOK, Room, vars, bridge
    <2> QED
      BY <2>1, <2>2, <2>3, <2>4, <2>5
  <1>3. TypeOK'
    BY <1>1, <1>2 DEF IInv, TypeOK, server
  <1>4. Unmade' /\ Uses'
    BY <1>1 DEF IInv, Unmade, Uses, Opened
  <1>5. Flushing'
    BY <1>1 DEF IInv, Flushing, Done, GaveUp, server
  <1>6. Places'
    BY <1>1 DEF IInv, Places, Opened, server
  <1>7. HistoryFirst'
    BY <1>1 DEF IInv, HistoryFirst, GaveUp, server
  <1> QED
    BY <1>2, <1>3, <1>4, <1>5, <1>6, <1>7 DEF IInv, Room

(* close() on a transport: at once if it has nothing left to deliver. *)
LEMMA CloseFacts ==
    ASSUME TypeOK, Uses, NEW t \in Transports
    PROVE  LET u == IF Drained(up[t]) THEN Closed(up[t]) ELSE up[t] IN
           u \in Uploaders(Event) /\ Tidy(u) /\ Holds(u) = Holds(up[t])
  <1>1. up[t] \in Uploaders(Event) /\ Tidy(up[t])
    BY DEF TypeOK, Uses
  <1> QED
    BY <1>1, ClosedFacts

(* The transport in use is taken away. *)
LEMMA TakenKeeps ==
    ASSUME IInv, PermanentClose(transport) \/ LeaseLost \/ EnvironmentLost
    PROVE  IInv'
  <1>1. /\ transport' = 0 /\ gate' = [active |-> FALSE, queued |-> <<>>]
        /\ UNCHANGED <<flushed, session, made, written, server, via, gone>>
        /\ mishaps < MaxMishaps /\ mishaps' = mishaps + 1
        /\ rebuild' \in {rebuild, "begun"} /\ polling' \in {polling, FALSE}
    BY DEF PermanentClose, LeaseLost, EnvironmentLost, Mishap, DropGate
  <1>2. /\ up' = [t \in Transports |-> up'[t]] /\ line' = [t \in Transports |-> line'[t]]
        /\ \A t \in Transports :
              /\ up'[t] \in Uploaders(Event) /\ Tidy(up'[t])
              /\ Holds(up'[t]) = Holds(up[t])
              /\ line'[t] \in Lines /\ line'[t].session = line[t].session
              /\ line'[t].connected = line[t].connected /\ line'[t].owes = line[t].owes
              /\ line'[t].wait = line[t].wait
              /\ up'[t].closed => line'[t].closing
              /\ t > made => up'[t] = up[t] /\ line'[t] = line[t]
    <2>0. /\ up \in [Transports -> Uploaders(Event)] /\ line \in [Transports -> Lines]
          /\ transport \in {0} \cup Transports
          /\ \A t \in Transports : Tidy(up[t]) /\ (up[t].closed => line[t].closing)
          /\ \A t \in Transports : t > made => transport # t
      BY DEF IInv, TypeOK, Uses, Unmade
    <2>1. CASE UNCHANGED <<line, up>>
      BY <2>0, <2>1
    <2>2. CASE transport # 0 /\ CloseLine(transport)
      <3> DEFINE t0 == transport
                 u == IF Drained(up[t0]) THEN Closed(up[t0]) ELSE up[t0]
                 l == [line[t0] EXCEPT !.closing = TRUE]
      <3>1. t0 \in Transports
        BY <2>0, <2>2
      <3>2. up' = [up EXCEPT ![t0] = u] /\ line' = [line EXCEPT ![t0] = l]
        BY <2>2 DEF CloseLine
      <3>3. u \in Uploaders(Event) /\ Tidy(u) /\ Holds(u) = Holds(up[t0])
        BY <3>1, CloseFacts DEF IInv
      <3>4. /\ l \in Lines /\ l.session = line[t0].session /\ l.owes = line[t0].owes
            /\ l.connected = line[t0].connected /\ l.wait = line[t0].wait /\ l.closing
        BY <2>0, <3>1 DEF Lines
      <3> HIDE DEF t0, u, l
      <3>5. up'[t0] = u /\ line'[t0] = l
        BY <2>0, <3>1, <3>2
      <3>6. \A t \in Transports : t # t0 => up'[t] = up[t] /\ line'[t] = line[t]
        BY <2>0, <3>1, <3>2
      <3>7. up' = [t \in Transports |-> up'[t]] /\ line' = [t \in Transports |-> line'[t]]
        BY <2>0, <3>2
      <3> QED
        BY <2>0, <3>1, <3>3, <3>4, <3>5, <3>6, <3>7 DEF t0
    <2> QED
      BY <2>1, <2>2 DEF PermanentClose, LeaseLost, EnvironmentLost, CloseCurrent
  <1>3. TypeOK'
    <2>1. gate' \in [active : BOOLEAN, queued : Seq(Live)]
      BY <1>1
    <2>2. mishaps' \in 0 .. MaxMishaps
      BY <1>1 DEF IInv, TypeOK
    <2>3. up' \in [Transports -> Uploaders(Event)] /\ line' \in [Transports -> Lines]
      BY <1>2
    <2> QED
      BY <1>1, <2>1, <2>2, <2>3 DEF IInv, TypeOK, server
  <1>4. Unmade'
    BY <1>1, <1>2, Numbers DEF IInv, Unmade
  <1>5. Uses'
    BY <1>1, <1>2, Numbers DEF Uses
  <1>6. Flushing'
    BY <1>1, <1>2 DEF IInv, Flushing, Done, GaveUp, server
  <1>7. Items(gate'.queued) = {}
    BY <1>1, ItemsOfNone
  <1>8. \A m \in Live : via[m] \in {0} \cup Transports
    BY DEF IInv, TypeOK
  <1>9. Places'
    BY <1>1, <1>2, <1>7, <1>8 DEF IInv, Places, Opened, server
  <1>10. HistoryFirst'
    BY <1>1, <1>2, <1>8 DEF IInv, HistoryFirst, GaveUp, server
  <1>11. Room'
    BY <1>1 DEF IInv, Room
  <1> QED
    BY <1>3, <1>4, <1>5, <1>6, <1>9, <1>10, <1>11 DEF IInv

(* A new transport takes the place of the one in use. *)
LEMMA WorkKeeps ==
    ASSUME IInv, Work
    PROVE  IInv'
  <1> DEFINE n == made + 1
             fresh == [NewLine EXCEPT !.session = session]
  <1>1. /\ made < MaxTransports /\ made' = n /\ transport' = n
        /\ gate' = [active |-> TRUE, queued |-> gate.queued]
        /\ UNCHANGED <<flushed, session, rebuild, polling, written, server, via, gone, mishaps>>
    BY DEF Work, QueueKept
  <1>2. n \in Transports /\ made \in Nat /\ n > made
    BY <1>1 DEF IInv, TypeOK, Transports
  <1>3. /\ up[n] = NewUploader /\ line[n] = NewLine /\ gone[n] = NoFate
        /\ transport # n /\ \A m \in Live : via[m] # n
    BY <1>2 DEF IInv, Unmade
  <1>4. /\ fresh \in Lines /\ fresh.session = session /\ ~fresh.connected
        /\ fresh.owes = {} /\ fresh.wait = "no" /\ ~fresh.closing
    BY DEF NewLine, Lines, IInv, TypeOK
  <1>5. /\ line' = [t \in Transports |->
                      IF t = n THEN fresh
                      ELSE IF t = transport THEN [line[t] EXCEPT !.closing = TRUE]
                      ELSE line[t]]
        /\ up' = [t \in Transports |->
                      IF t = transport /\ Drained(up[t]) THEN Closed(up[t]) ELSE up[t]]
    BY DEF Work
  <1> HIDE DEF n, fresh
  <1>6. line'[n] = fresh /\ up'[n] = NewUploader
    BY <1>2, <1>3, <1>5
  <1>7. ASSUME NEW t \in Transports, t # n
        PROVE  /\ line'[t] \in Lines /\ line'[t].session = line[t].session
               /\ line'[t].connected = line[t].connected /\ line'[t].owes = line[t].owes
               /\ line'[t].wait = line[t].wait
               /\ t = transport => line'[t].closing
               /\ t # transport => line'[t] = line[t]
    <2>1. line[t] \in Lines
      BY DEF IInv, TypeOK
    <2>2. CASE t = transport
      <3>1. line'[t] = [line[t] EXCEPT !.closing = TRUE]
        BY <1>5, <1>7, <2>2
      <3> QED
        BY <2>1, <2>2, <3>1 DEF Lines
    <2>3. CASE t # transport
      BY <1>5, <1>7, <2>1, <2>3
    <2> QED
      BY <2>2, <2>3
  <1>8. ASSUME NEW t \in Transports
        PROVE  /\ up'[t] \in Uploaders(Event) /\ Tidy(up'[t]) /\ Holds(up'[t]) = Holds(up[t])
               /\ t # transport => up'[t] = up[t]
    <2>1. LET u == IF Drained(up[t]) THEN Closed(up[t]) ELSE up[t] IN
          u \in Uploaders(Event) /\ Tidy(u) /\ Holds(u) = Holds(up[t])
      BY CloseFacts DEF IInv
    <2>2. up[t] \in Uploaders(Event) /\ Tidy(up[t])
      BY DEF IInv, TypeOK, Uses
    <2> QED
      BY <1>5, <2>1, <2>2
  <1>9. ~NewUploader.closed /\ Holds(NewUploader) = {} /\ Tidy(NewUploader)
    BY NewUploaderFacts
  <1>10. \A m \in Live : via[m] \in {0} \cup Transports /\ via[m] # n
    BY <1>3 DEF IInv, TypeOK
  <1>11. TypeOK'
    <2>1. gate' \in [active : BOOLEAN, queued : Seq(Live)]
      BY <1>1 DEF IInv, TypeOK
    <2>2. up' \in [Transports -> Uploaders(Event)]
      BY <1>5, <1>8
    <2>3. line' \in [Transports -> Lines]
      BY <1>4, <1>5, <1>6, <1>7
    <2> QED
      BY <1>1, <1>2, <2>1, <2>2, <2>3 DEF IInv, TypeOK, server
  <1>12. Unmade'
    <2> SUFFICES ASSUME NEW t \in Transports, t > made'
                 PROVE  /\ up'[t] = NewUploader /\ line'[t] = NewLine /\ gone'[t] = NoFate
                        /\ transport' # t
                        /\ \A m \in Live : via'[m] # t
      BY DEF Unmade
    <2>1. t > made /\ t # n
      BY <1>1, <1>2, Numbers DEF n
    <2>2. /\ up[t] = NewUploader /\ line[t] = NewLine /\ gone[t] = NoFate
          /\ transport # t /\ \A m \in Live : via[m] # t
      BY <2>1 DEF IInv, Unmade
    <2> QED
      BY <1>1, <1>7, <1>8, <2>1, <2>2
  <1>13. Uses'
    <2> SUFFICES ASSUME NEW t \in Transports
                 PROVE  /\ Tidy(up'[t]) /\ (up'[t].closed => line'[t].closing)
                        /\ transport' = t => ~line'[t].closing
      BY <1>1 DEF Uses
    <2>1. CASE t = n
      BY <1>4, <1>6, <1>8, <1>9, <2>1
    <2>2. CASE t # n
      BY <1>1, <1>7, <1>8, <2>2 DEF IInv, Uses
    <2> QED
      BY <2>1, <2>2
  <1>14. Flushing'
    <2> SUFFICES ASSUME NEW t \in Transports
                 PROVE  /\ ~line'[t].connected => line'[t].wait = "no"
                        /\ line'[t].wait = "no" => line'[t].owes = {}
                        /\ line'[t].wait = "waiting" =>
                             line'[t].owes \subseteq Holds(up'[t]) \cup Done(t)'
                        /\ line'[t].wait \in {"resolved", "over"} =>
                             line'[t].owes \subseteq Done(t)'
      BY DEF Flushing
    <2>1. CASE t = n
      BY <1>4, <1>6, <2>1
    <2>2. CASE t # n
      <3>1. Done(t)' = Done(t)
        BY <1>1, <1>7, <2>2 DEF Done, GaveUp, server
      <3> QED
        BY <1>7, <1>8, <2>2, <3>1 DEF IInv, Flushing
    <2> QED
      BY <2>1, <2>2
  <1>15. Places'
    <2> SUFFICES ASSUME NEW m \in Live
                 PROVE  /\ via[m] # 0 => line'[via[m]].connected /\ line'[via[m]].wait \in {"no", "over"}
                        /\ \A s \in Sessions : m \in seen[s] =>
                             via[m] # 0 /\ line'[via[m]].session = s
                        /\ \A t \in Transports : m \in Holds(up'[t]) => via[m] = t
                        /\ \A post \in wire : m \in Items(post[2]) =>
                             via[m] # 0 /\ line'[via[m]].session = post[1]
                        /\ m \in Items(gate.queued) => via[m] = 0 /\ m \leq written
                        /\ m > written => via[m] = 0
      BY <1>1 DEF Places, Opened, server
    <2>1. via[m] # 0 => /\ line'[via[m]].connected = line[via[m]].connected
                        /\ line'[via[m]].wait = line[via[m]].wait
                        /\ line'[via[m]].session = line[via[m]].session
      BY <1>7, <1>10
    <2> QED
      BY <1>8, <2>1 DEF IInv, Places, Opened
  <1>16. HistoryFirst'
    <2>1. \A t \in Transports : GaveUp(t) \subseteq GaveUp(t)'
      BY <1>1 DEF GaveUp
    <2>2. \A m \in Live : via[m] # 0 =>
            /\ via'[m] = via[m] /\ via[m] \in Transports
            /\ line'[via[m]].session = line[via[m]].session
            /\ line'[via[m]].owes = line[via[m]].owes
      BY <1>1, <1>7, <1>10
    <2>3. line' \in [Transports -> Lines] /\ \A m \in Live : via'[m] \in {0} \cup Transports
      BY <1>11 DEF TypeOK
    <2>4. UNCHANGED <<seen, prior>>
      BY <1>1 DEF server
    <2> QED
      BY <2>1, <2>2, <2>3, <2>4, HistoryKept DEF IInv
  <1>17. Room'
    BY <1>1 DEF IInv, Room
  <1> QED
    BY <1>11, <1>12, <1>13, <1>14, <1>15, <1>16, <1>17 DEF IInv

(* Messages nobody has sent go to the transport in use, the flush of its   *)
(* history behind it: what Connect, AfterFlush and WriteMessage have in    *)
(* common.                                                                 *)
LEMMA SendKeeps ==
    ASSUME IInv, NEW t \in Transports, transport = t,
           NEW msgs \in Seq(Live), Send(t, msgs),
           \A m \in Live : m \in Items(msgs) => via[m] = 0 /\ m \leq written',
           NEW l \in Lines, line' = [line EXCEPT ![t] = l],
           l.session = line[t].session, l.owes = line[t].owes,
           l.closing = line[t].closing, l.connected, l.wait \in {"no", "over"},
           l.wait = "no" => l.owes = {}, l.owes \subseteq Done(t),
           UNCHANGED <<transport, session, rebuild, polling, made, server, gone, mishaps>>,
           flushed' \in SUBSET History,
           gate' \in [active : BOOLEAN, queued : Seq(Live)],
           Items(gate'.queued) \subseteq Items(gate.queued) \ Items(msgs),
           written' \in {NHistory} \cup Live, written \leq written'
    PROVE  IInv'
  <1>1. /\ up[t] \in Uploaders(Event) /\ Tidy(up[t]) /\ ~up[t].closed
        /\ up \in [Transports -> Uploaders(Event)] /\ line \in [Transports -> Lines]
        /\ via \in [Live -> {0} \cup Transports] /\ ~line[t].closing
    BY DEF IInv, TypeOK, Uses
  <1> DEFINE u == Enqueue(up[t], msgs)
  <1>2. msgs \in Seq(Event) /\ Items(msgs) \subseteq Live
    BY MessagesTyped
  <1>3. u \in Uploaders(Event) /\ Tidy(u) /\ ~u.closed /\ Holds(u) = Holds(up[t]) \cup Items(msgs)
    BY <1>1, <1>2, EnqueueFacts
  <1>4. up' = [up EXCEPT ![t] = u] /\ via' = [e \in Live |-> IF e \in Items(msgs) THEN t ELSE via[e]]
    BY DEF Send
  <1> HIDE DEF u
  <1>5. /\ up'[t] = u /\ line'[t] = l
        /\ \A r \in Transports : r # t => up'[r] = up[r] /\ line'[r] = line[r]
    BY <1>1, <1>4
  <1>6. \A m \in Live : /\ via'[m] = (IF m \in Items(msgs) THEN t ELSE via[m])
                        /\ via'[m] \in {0} \cup Transports
                        /\ via[m] \in {0} \cup Transports
    BY <1>1, <1>4
  <1>7. t \leq made /\ t # 0 /\ t \in Nat /\ made \in Nat
    BY Numbers DEF IInv, Unmade, TypeOK
  <1>8. \A r \in Transports : line'[r].session = line[r].session /\ line'[r].owes = line[r].owes
    BY <1>5
  <1>9. TypeOK'
    <2>1. up' \in [Transports -> Uploaders(Event)]
      BY <1>1, <1>3, <1>4
    <2>2. line' \in [Transports -> Lines]
      BY <1>1
    <2>3. via' \in [Live -> {0} \cup Transports]
      BY <1>1, <1>4
    <2> QED
      BY <2>1, <2>2, <2>3 DEF IInv, TypeOK, server
  <1>10. Unmade'
    <2> SUFFICES ASSUME NEW r \in Transports, r > made
                 PROVE  /\ up'[r] = NewUploader /\ line'[r] = NewLine /\ gone'[r] = NoFate
                        /\ transport' # r
                        /\ \A m \in Live : via'[m] # r
      BY DEF Unmade
    <2>1. r # t
      BY <1>7, Numbers
    <2> QED
      BY <1>5, <1>6, <2>1 DEF IInv, Unmade
  <1>11. Uses'
    <2> SUFFICES ASSUME NEW r \in Transports
                 PROVE  /\ Tidy(up'[r]) /\ (up'[r].closed => line'[r].closing)
                        /\ transport' = r => ~line'[r].closing
                        /\ transport' = r => line'[r].connected /\ line'[r].wait \in {"no", "over"}
      BY DEF Uses, Opened
    <2> QED
      BY <1>1, <1>3, <1>5 DEF IInv, Uses
  <1>12. Flushing'
    <2>1. \A r \in Transports : Done(r)' = Done(r)
      BY <1>8 DEF Done, GaveUp, server
    <2> SUFFICES ASSUME NEW r \in Transports
                 PROVE  /\ ~line'[r].connected => line'[r].wait = "no"
                        /\ line'[r].wait = "no" => line'[r].owes = {}
                        /\ line'[r].wait = "waiting" =>
                             line'[r].owes \subseteq Holds(up'[r]) \cup Done(r)
                        /\ line'[r].wait \in {"resolved", "over"} =>
                             line'[r].owes \subseteq Done(r)
      BY <2>1 DEF Flushing
    <2>2. CASE r = t
      BY <1>5, <2>2
    <2>3. CASE r # t
      BY <1>5, <2>3 DEF IInv, Flushing
    <2> QED
      BY <2>2, <2>3
  <1>13. Places'
    <2> SUFFICES ASSUME NEW m \in Live
                 PROVE  /\ via'[m] # 0 => line'[via'[m]].connected /\ line'[via'[m]].wait \in {"no", "over"}
                        /\ \A s \in Sessions : m \in seen[s] =>
                             via'[m] # 0 /\ line'[via'[m]].session = s
                        /\ \A r \in Transports : m \in Holds(up'[r]) => via'[m] = r
                        /\ \A post \in wire : m \in Items(post[2]) =>
                             via'[m] # 0 /\ line'[via'[m]].session = post[1]
                        /\ m \in Items(gate'.queued) => via'[m] = 0 /\ m \leq written'
                        /\ m > written' => via'[m] = 0
      BY DEF Places, Opened, server
    <2>1. CASE m \in Items(msgs)
      <3>1. via[m] = 0 /\ via'[m] = t /\ m \leq written'
        BY <1>6, <2>1
      <3>2. \A r \in Transports : m \notin Holds(up[r])
        BY <3>1, <1>7, Numbers DEF IInv, Places
      <3>3. ~(m > written')
        BY <3>1, Numbers DEF Live
      <3> QED
        BY <1>3, <1>5, <2>1, <3>1, <3>2, <3>3 DEF IInv, Places
    <2>2. CASE m \notin Items(msgs)
      <3>1. via'[m] = via[m]
        BY <1>6, <2>2
      <3>2. via[m] # 0 => line'[via[m]].connected /\ line'[via[m]].wait \in {"no", "over"}
        BY <1>5, <1>6 DEF IInv, Places, Opened
      <3>3. \A r \in Transports : m \in Holds(up'[r]) => m \in Holds(up[r])
        BY <1>3, <1>5, <2>2
      <3>4. m > written' => m > written
        BY Numbers DEF IInv, TypeOK, Live
      <3>5. m \leq written => m \leq written'
        BY Numbers DEF IInv, TypeOK, Live
      <3> QED
        BY <1>6, <1>8, <3>1, <3>2, <3>3, <3>4, <3>5 DEF IInv, Places
    <2> QED
      BY <2>1, <2>2
  <1>14. HistoryFirst'
    <2>1. \A r \in Transports : GaveUp(r) \subseteq GaveUp(r)'
      BY DEF GaveUp
    <2>2. \A m \in Live : via[m] # 0 =>
            /\ via'[m] = via[m] /\ via[m] \in Transports
            /\ line'[via[m]].session = line[via[m]].session
            /\ line'[via[m]].owes = line[via[m]].owes
      <3> SUFFICES ASSUME NEW m \in Live, via[m] # 0
                   PROVE  via'[m] = via[m] /\ via[m] \in Transports
        BY <1>8
      <3>1. m \notin Items(msgs)
        OBVIOUS
      <3> QED
        BY <1>6, <3>1
    <2>3. line' \in [Transports -> Lines] /\ \A m \in Live : via'[m] \in {0} \cup Transports
      BY <1>9 DEF TypeOK
    <2>4. UNCHANGED <<seen, prior>>
      BY DEF server
    <2> QED
      BY <2>1, <2>2, <2>3, <2>4, HistoryKept DEF IInv
  <1>15. Room'
    BY DEF IInv, Room
  <1> QED
    BY <1>9, <1>10, <1>11, <1>12, <1>13, <1>14, <1>15 DEF IInv

LEMMA FlushInSequence ==
    ASSUME NEW S \in SUBSET History, NEW q \in InSequence(S)
    PROVE  q \in Seq(Event) /\ Items(q) = S
  <1>0. 1 \in Int /\ NHistory \in Int
    OBVIOUS
  <1>a. IsFiniteSet(History)
    BY <1>0, FS_Interval DEF History
  <1>1. IsFiniteSet(S)
    BY <1>a, FS_Subset
  <1>2. Cardinality(S) \in Nat
    BY <1>1, FS_CardinalityType
  <1>3. q \in [1 .. Cardinality(S) -> S] /\ Items(q) = S
    BY DEF InSequence
  <1>4. \A i \in 1 .. Cardinality(S) : q[i] \in Event
    BY <1>3, Numbers
  <1> QED
    BY <1>2, <1>3, <1>4

(* The queue of the gate is messages nobody has sent. *)
LEMMA QueueFacts ==
    ASSUME TypeOK, Places
    PROVE  /\ gate.queued \in Seq(Live) /\ Items(gate.queued) \subseteq Live
           /\ \A m \in Live : m \in Items(gate.queued) => via[m] = 0 /\ m \leq written
  <1>1. gate.queued \in Seq(Live)
    BY DEF TypeOK
  <1> QED
    BY <1>1, ItemsTyped DEF Places

LEMMA WriteKeeps ==
    ASSUME IInv, WriteMessage
    PROVE  IInv'
  <1> DEFINE m == written + 1
  <1>1. /\ m \in Live /\ written' = m
        /\ UNCHANGED <<transport, flushed, session, rebuild, polling, made, line, server, gone, mishaps>>
    BY DEF WriteMessage
  <1>2. /\ gate.queued \in Seq(Live) /\ Items(gate.queued) \subseteq Live
        /\ \A e \in Live : e \in Items(gate.queued) => via[e] = 0 /\ e \leq written
    BY QueueFacts DEF IInv
  <1>3. written \in Nat /\ m > written /\ via[m] = 0
    BY <1>1, Numbers DEF IInv, TypeOK, Places
  <1>4. m \notin Items(gate.queued)
    BY <1>1, <1>2, <1>3
  <1>5. gate = [active |-> gate.active, queued |-> gate.queued]
        /\ gate.active \in BOOLEAN
    BY DEF IInv, TypeOK
  <1>6. CASE ~gate.active /\ transport # 0
    <2> DEFINE t == transport  msgs == <<m>>  l == line[t]
    <2>1. t \in Transports /\ l \in Lines
      BY <1>6 DEF IInv, TypeOK
    <2>2. gate' = gate /\ Send(t, msgs)
      BY <1>6 DEF WriteMessage, Held
    <2>3. msgs \in Seq(Live) /\ Items(msgs) = {m}
      BY <1>1 DEF Items
    <2>4. \A e \in Live : e \in Items(msgs) => via[e] = 0 /\ e \leq written'
      BY <1>1, <1>3, <2>3
    <2>5. line' = [line EXCEPT ![t] = l]
      BY <1>1 DEF IInv, TypeOK
    <2>6. l.connected /\ l.wait \in {"no", "over"}
      BY <1>6, <2>1 DEF IInv, Uses, Opened
    <2>7. (l.wait = "no" => l.owes = {}) /\ l.owes \subseteq Done(t)
      BY <2>1, <2>6 DEF IInv, Flushing
    <2>8. Items(gate'.queued) \subseteq Items(gate.queued) \ Items(msgs)
      BY <1>4, <2>2, <2>3
    <2>9. written' \in {NHistory} \cup Live /\ written \leq written'
      BY <1>1, <1>3
    <2>10. transport = t /\ l.session = line[t].session /\ l.owes = line[t].owes
           /\ l.closing = line[t].closing
      OBVIOUS
    <2>11. /\ flushed' \in SUBSET History
           /\ gate' \in [active : BOOLEAN, queued : Seq(Live)]
      BY <1>1, <2>2 DEF IInv, TypeOK
    <2> HIDE DEF t, msgs, l, m
    <2> QED
      BY <1>1, <2>1, <2>2, <2>3, <2>4, <2>5, <2>6, <2>7, <2>8, <2>9, <2>10, <2>11, SendKeeps
  <1>7. CASE gate.active \/ transport = 0
    <2>1. UNCHANGED <<up, via>>
      BY <1>5, <1>7 DEF WriteMessage, Held
    <2>2. \/ gate' = [gate EXCEPT !.queued = Append(@, m)]
          \/ gate' = gate
      BY <1>5, <1>7 DEF WriteMessage, Held
    <2>3. /\ Append(gate.queued, m) \in Seq(Live)
          /\ Items(Append(gate.queued, m)) = Items(gate.queued) \cup {m}
      BY <1>1, <1>2, ItemsOfAppend
    <2>4. /\ gate' \in [active : BOOLEAN, queued : Seq(Live)]
          /\ gate'.active = gate.active
          /\ Items(gate'.queued) \subseteq Items(gate.queued) \cup {m}
      <3>1. CASE gate' = gate
        BY <3>1 DEF IInv, TypeOK
      <3>2. CASE gate' = [gate EXCEPT !.queued = Append(@, m)]
        <4> DEFINE q == Append(gate.queued, m)
        <4>1. gate' = [gate EXCEPT !.queued = q] /\ q \in Seq(Live)
          BY <2>3, <3>2
        <4> HIDE DEF q
        <4>2. gate'.queued = q /\ gate'.active = gate.active
              /\ gate' \in [active : BOOLEAN, queued : Seq(Live)]
          BY <4>1 DEF IInv, TypeOK
        <4> QED
          BY <2>3, <4>2 DEF q
      <3> QED
        BY <2>2, <3>1, <3>2
    <2>5. TypeOK'
      BY <1>1, <2>1, <2>4 DEF IInv, TypeOK, server
    <2>6. Unmade' /\ Uses'
      BY <1>1, <2>1, <2>4 DEF IInv, Unmade, Uses, Opened
    <2>7. Flushing'
      BY <1>1, <2>1 DEF IInv, Flushing, Done, GaveUp, server
    <2>8. Places'
      <3> SUFFICES ASSUME NEW e \in Live
                   PROVE  /\ e \in Items(gate'.queued) => via[e] = 0 /\ e \leq written'
                          /\ e > written' => via[e] = 0
        BY <1>1, <2>1 DEF IInv, Places, Opened, server
      <3>1. e \leq written => e \leq written'
        BY <1>1, <1>3, Numbers
      <3>2. e > written' => e > written
        BY <1>1, <1>3, Numbers
      <3>3. m \leq written'
        BY <1>1, <1>3
      <3> QED
        BY <1>1, <1>2, <1>3, <2>4, <3>1, <3>2, <3>3 DEF IInv, Places
    <2>9. HistoryFirst' /\ Room'
      BY <1>1, <2>1 DEF IInv, HistoryFirst, GaveUp, Room, server
    <2> QED
      BY <2>5, <2>6, <2>7, <2>8, <2>9 DEF IInv
  <1> QED
    BY <1>6, <1>7

LEMMA ConnectKeeps ==
    ASSUME IInv, NEW t \in Transports, Connect(t)
    PROVE  IInv'
  <1>0. Capped \in SUBSET History
    BY DEF Capped, Eligible
  <1>1. /\ transport = t /\ ~line[t].connected
        /\ UNCHANGED <<transport, flushed, session, rebuild, polling, made, written, server, gone, mishaps>>
    BY DEF Connect, IsCurrent
  <1>2. /\ line[t] \in Lines /\ up[t] \in Uploaders(Event) /\ Tidy(up[t]) /\ ~up[t].closed
        /\ ~line[t].closing /\ line[t].wait = "no" /\ line[t].owes = {}
        /\ up \in [Transports -> Uploaders(Event)] /\ line \in [Transports -> Lines]
    BY <1>1 DEF IInv, TypeOK, Uses, Flushing
  <1>3. /\ gate.queued \in Seq(Live) /\ Items(gate.queued) \subseteq Live
        /\ \A m \in Live : m \in Items(gate.queued) => via[m] = 0 /\ m \leq written
    BY QueueFacts DEF IInv
  <1>4. CASE Capped = {}
    <2> DEFINE l == [line[t] EXCEPT !.connected = TRUE]
    <2>1. line' = [line EXCEPT ![t] = l]
      BY <1>4 DEF Connect
    <2>2. gate' = [active |-> FALSE, queued |-> <<>>] /\ Send(t, gate.queued)
      BY <1>4 DEF Connect, OpensAtOnce, DrainGate
    <2>3. /\ l \in Lines /\ l.session = line[t].session /\ l.owes = line[t].owes
          /\ l.closing = line[t].closing /\ l.connected /\ l.wait = "no" /\ l.owes = {}
      BY <1>2 DEF Lines
    <2>4. /\ gate' \in [active : BOOLEAN, queued : Seq(Live)]
          /\ Items(gate'.queued) = {}
      BY <2>2, ItemsOfNone
    <2>5. /\ flushed' \in SUBSET History /\ written' \in {NHistory} \cup Live
          /\ written \leq written'
      BY <1>1, Numbers DEF IInv, TypeOK
    <2> HIDE DEF l
    <2> QED
      BY <1>1, <1>3, <2>1, <2>2, <2>3, <2>4, <2>5, SendKeeps
  <1>5. CASE Capped # {}
    <2>1. PICK q \in InSequence(Capped) : up' = [up EXCEPT ![t] = Enqueue(@, q)]
      BY <1>5 DEF Connect
    <2> DEFINE l == [line[t] EXCEPT !.connected = TRUE, !.owes = Capped, !.wait = "waiting"]
               u == Enqueue(up[t], q)
    <2>2. line' = [line EXCEPT ![t] = l] /\ up' = [up EXCEPT ![t] = u] /\ UNCHANGED <<gate, via>>
      <3>1. line' = [line EXCEPT ![t].connected = TRUE, ![t].owes = Capped,
                                 ![t].wait = "waiting"]
        BY <1>5 DEF Connect
      <3> QED
        BY <1>2, <1>5, <2>1, <3>1 DEF Connect
    <2>3. q \in Seq(Event) /\ Items(q) = Capped
      BY <1>0, FlushInSequence
    <2>4. u \in Uploaders(Event) /\ Tidy(u) /\ ~u.closed /\ Holds(u) = Holds(up[t]) \cup Capped
      BY <1>2, <2>3, EnqueueFacts
    <2>5. /\ l \in Lines /\ l.session = line[t].session /\ l.owes = Capped
          /\ ~l.closing /\ l.connected /\ l.wait = "waiting"
      BY <1>0, <1>2, <2>3 DEF Lines
    <2> HIDE DEF l, u
    <2>6. /\ up'[t] = u /\ line'[t] = l
          /\ \A r \in Transports : r # t => up'[r] = up[r] /\ line'[r] = line[r]
      BY <1>2, <2>2
    <2>7. \A m \in Live : via[m] \in {0} \cup Transports /\ via[m] # t
      BY <1>1, Numbers DEF IInv, TypeOK, Places, Opened
    <2>8. TypeOK'
      <3>1. up' \in [Transports -> Uploaders(Event)] /\ line' \in [Transports -> Lines]
        BY <1>2, <2>2, <2>4, <2>5
      <3> QED
        BY <1>1, <2>2, <3>1 DEF IInv, TypeOK, server
    <2>9. Unmade'
      <3>1. ~(t > made)
        BY <1>1 DEF IInv, Unmade
      <3> QED
        BY <1>1, <2>2, <2>6, <3>1 DEF IInv, Unmade
    <2>10. Uses'
      <3>1. gate.active
        BY <1>1 DEF IInv, Uses, Opened
      <3> QED
        BY <1>1, <2>2, <2>4, <2>5, <2>6, <3>1 DEF IInv, Uses
    <2>11. Flushing'
      <3> SUFFICES ASSUME NEW r \in Transports
                   PROVE  /\ ~line'[r].connected => line'[r].wait = "no"
                          /\ line'[r].wait = "no" => line'[r].owes = {}
                          /\ line'[r].wait = "waiting" =>
                               line'[r].owes \subseteq Holds(up'[r]) \cup Done(r)'
                          /\ line'[r].wait \in {"resolved", "over"} =>
                               line'[r].owes \subseteq Done(r)'
        BY DEF Flushing
      <3>1. CASE r = t
        BY <2>4, <2>5, <2>6, <3>1
      <3>2. CASE r # t
        <4>1. Done(r)' = Done(r)
          BY <1>1, <2>6, <3>2 DEF Done, GaveUp, server
        <4> QED
          BY <2>6, <3>2, <4>1 DEF IInv, Flushing
      <3> QED
        BY <3>1, <3>2
    <2>12. Places'
      <3> SUFFICES ASSUME NEW m \in Live
                   PROVE  /\ via[m] # 0 => line'[via[m]].connected /\ line'[via[m]].wait \in {"no", "over"}
                          /\ \A s \in Sessions : m \in seen[s] =>
                               via[m] # 0 /\ line'[via[m]].session = s
                          /\ \A r \in Transports : m \in Holds(up'[r]) => via[m] = r
                          /\ \A post \in wire : m \in Items(post[2]) =>
                               via[m] # 0 /\ line'[via[m]].session = post[1]
        BY <1>1, <2>2 DEF IInv, Places, Opened, server
      <3>1. via[m] # 0 => line'[via[m]] = line[via[m]]
        BY <2>6, <2>7
      <3>2. \A r \in Transports : m \in Holds(up'[r]) => m \in Holds(up[r])
        BY <1>0, <2>3, <2>4, <2>6, Numbers
      <3> QED
        BY <3>1, <3>2 DEF IInv, Places, Opened
    <2>13. HistoryFirst'
      <3>1. \A r \in Transports : GaveUp(r) \subseteq GaveUp(r)'
        BY <1>1 DEF GaveUp
      <3>2. \A m \in Live : via[m] # 0 =>
              /\ via'[m] = via[m] /\ via[m] \in Transports
              /\ line'[via[m]].session = line[via[m]].session
              /\ line'[via[m]].owes = line[via[m]].owes
        BY <2>2, <2>6, <2>7
      <3>3. line' \in [Transports -> Lines] /\ \A m \in Live : via'[m] \in {0} \cup Transports
        BY <2>8 DEF TypeOK
      <3>4. UNCHANGED <<seen, prior>>
        BY <1>1 DEF server
      <3> QED
        BY <3>1, <3>2, <3>3, <3>4, HistoryKept DEF IInv
    <2>14. Room'
      BY <1>1 DEF IInv, Room
    <2> QED
      BY <2>8, <2>9, <2>10, <2>11, <2>12, <2>13, <2>14 DEF IInv
  <1> QED
    BY <1>4, <1>5

LEMMA AfterFlushKeeps ==
    ASSUME IInv, NEW t \in Transports, AfterFlush(t)
    PROVE  IInv'
  <1> DEFINE l == [line[t] EXCEPT !.wait = "over"]
  <1>1. /\ line[t].wait = "resolved" /\ line' = [line EXCEPT ![t] = l]
        /\ UNCHANGED <<transport, session, rebuild, polling, made, written, server, gone, mishaps>>
    BY DEF AfterFlush
  <1>2. /\ line[t] \in Lines /\ line \in [Transports -> Lines]
        /\ line[t].connected /\ line[t].owes \subseteq Done(t)
    BY <1>1 DEF IInv, TypeOK, Flushing
  <1>3. /\ l \in Lines /\ l.session = line[t].session /\ l.owes = line[t].owes
        /\ l.closing = line[t].closing /\ l.connected /\ l.wait = "over"
    BY <1>2 DEF Lines
  <1>4. flushed' \in SUBSET History
    BY <1>2 DEF AfterFlush, Marks, IInv, TypeOK, Lines
  <1>5. /\ gate.queued \in Seq(Live) /\ Items(gate.queued) \subseteq Live
        /\ \A m \in Live : m \in Items(gate.queued) => via[m] = 0 /\ m \leq written
    BY QueueFacts DEF IInv
  <1>6. written' \in {NHistory} \cup Live /\ written \leq written'
    BY <1>1, Numbers DEF IInv, TypeOK
  <1> HIDE DEF l
  <1>7. CASE transport = t
    <2>1. gate' = [active |-> FALSE, queued |-> <<>>] /\ Send(t, gate.queued)
      BY <1>7 DEF AfterFlush, StillInUse, DrainGate
    <2>2. /\ gate' \in [active : BOOLEAN, queued : Seq(Live)]
          /\ Items(gate'.queued) = {}
      BY <2>1, ItemsOfNone
    <2> QED
      BY <1>1, <1>2, <1>3, <1>4, <1>5, <1>6, <1>7, <2>1, <2>2, SendKeeps
  <1>8. CASE transport # t
    <2>1. UNCHANGED <<gate, up, via>>
      BY <1>8 DEF AfterFlush, StillInUse
    <2>2. line'[t] = l /\ \A r \in Transports : r # t => line'[r] = line[r]
      BY <1>1, <1>2
    <2>3. \A r \in Transports : Done(r)' = Done(r)
      BY <1>1, <1>3, <2>2 DEF Done, GaveUp, server
    <2>4. TypeOK'
      <3>1. line' \in [Transports -> Lines]
        BY <1>1, <1>2, <1>3
      <3> QED
        BY <1>1, <1>4, <2>1, <3>1 DEF IInv, TypeOK, server
    <2>5. Unmade'
      <3>1. ~(t > made)
        BY <1>1 DEF IInv, Unmade, NewLine
      <3> QED
        BY <1>1, <2>1, <2>2, <3>1 DEF IInv, Unmade
    <2>6. Uses'
      BY <1>1, <1>3, <1>8, <2>1, <2>2 DEF IInv, Uses, Opened
    <2>7. Flushing'
      <3> SUFFICES ASSUME NEW r \in Transports
                   PROVE  /\ ~line'[r].connected => line'[r].wait = "no"
                          /\ line'[r].wait = "no" => line'[r].owes = {}
                          /\ line'[r].wait = "waiting" =>
                               line'[r].owes \subseteq Holds(up'[r]) \cup Done(r)
                          /\ line'[r].wait \in {"resolved", "over"} =>
                               line'[r].owes \subseteq Done(r)
        BY <2>3 DEF Flushing
      <3>1. CASE r = t
        BY <1>2, <1>3, <2>2, <3>1
      <3>2. CASE r # t
        BY <2>1, <2>2, <3>2 DEF IInv, Flushing
      <3> QED
        BY <3>1, <3>2
    <2>8. Places'
      <3>1. \A m \in Live : via[m] \in {0} \cup Transports /\ via[m] # t
        BY <1>1, Numbers DEF IInv, TypeOK, Places, Opened
      <3>2. \A m \in Live : via[m] # 0 => line'[via[m]] = line[via[m]]
        BY <2>2, <3>1
      <3> QED
        BY <1>1, <2>1, <3>2 DEF IInv, Places, Opened, server
    <2>9. HistoryFirst' /\ Room'
      <3>1. \A m \in Live : via[m] \in {0} \cup Transports
        BY DEF IInv, TypeOK
      <3>2. \A r \in Transports : line'[r].session = line[r].session /\ line'[r].owes = line[r].owes
        BY <1>3, <2>2
      <3> QED
        BY <1>1, <2>1, <3>1, <3>2 DEF IInv, HistoryFirst, GaveUp, Room, server
    <2> QED
      BY <2>4, <2>5, <2>6, <2>7, <2>8, <2>9 DEF IInv
  <1> QED
    BY <1>7, <1>8

(* The drain loop of one uploader moves on: what it held, it still holds or *)
(* it is settled, and all that the server logs or the network keeps is the  *)
(* batch it had in hand.                                                    *)
LEMMA TurnKeeps ==
    ASSUME IInv, NEW t \in Transports, up[t].phase # "idle",
           NEW u \in Uploaders(Event), Tidy(u), u.closed = up[t].closed,
           Drained(u) => Holds(u) = {}, Holds(u) \subseteq Holds(up[t]),
           SetUploader(t, u), UNCHANGED <<bridge, via>>,
           \/ UNCHANGED <<seen, prior>>
           \/ LogIn(line[t].session, up[t].batch),
           wire' \subseteq wire \cup {<<line[t].session, up[t].batch>>},
           gone' \in [Transports -> Fates],
           \A r \in Transports : GaveUp(r) \subseteq GaveUp(r)',
           \A r \in Transports : r # t => gone'[r] = gone[r],
           Holds(up[t]) \subseteq Holds(u) \cup seen'[line[t].session] \cup GaveUp(t)',
           mishaps' \in 0 .. MaxMishaps
    PROVE  IInv'
  <1> DEFINE v == IF Drained(u) /\ line[t].closing THEN Closed(u) ELSE u
             w == IF Drained(u) /\ line[t].wait = "waiting" THEN "resolved" ELSE line[t].wait
             s == line[t].session
             b == up[t].batch
             l == [line[t] EXCEPT !.wait = w]
  <1>1. /\ up[t] \in Uploaders(Event) /\ Tidy(up[t]) /\ line[t] \in Lines
        /\ up \in [Transports -> Uploaders(Event)] /\ line \in [Transports -> Lines]
        /\ via \in [Live -> {0} \cup Transports]
        /\ up[t].closed => line[t].closing
    BY DEF IInv, TypeOK, Uses
  <1>2. s \in Sessions /\ b \in Seq(Event) /\ Items(b) \subseteq Holds(up[t])
    BY <1>1, Shape DEF Lines, Holds
  <1>3. /\ v \in Uploaders(Event) /\ Tidy(v) /\ Holds(v) = Holds(u)
        /\ v.closed => line[t].closing
    BY <1>1, ClosedFacts
  <1>4. up' = [up EXCEPT ![t] = v] /\ line' = [line EXCEPT ![t] = l]
    BY DEF SetUploader
  <1>5. /\ l \in Lines /\ l.session = s /\ l.owes = line[t].owes
        /\ l.closing = line[t].closing /\ l.connected = line[t].connected /\ l.wait = w
    <2>1. w \in {"no", "waiting", "resolved", "over"}
      BY <1>1 DEF Lines
    <2> HIDE DEF w
    <2> QED
      BY <1>1, <2>1 DEF Lines
  <1>6. w = line[t].wait \/ (line[t].wait = "waiting" /\ w = "resolved" /\ Holds(u) = {})
    OBVIOUS
  <1> HIDE DEF v, w, l, s, b
  <1>7. /\ up'[t] = v /\ line'[t] = l
        /\ \A r \in Transports : r # t => up'[r] = up[r] /\ line'[r] = line[r]
    BY <1>1, <1>4
  <1>8. \A r \in Transports : line'[r].session = line[r].session /\ line'[r].owes = line[r].owes
                              /\ line'[r].closing = line[r].closing
                              /\ line'[r].connected = line[r].connected
    BY <1>5, <1>7 DEF s
  <1>9. /\ UNCHANGED <<transport, gate, flushed, session, rebuild, polling, made, written, via>>
    BY DEF bridge
  <1>10. /\ seen' \in [Sessions -> SUBSET Event] /\ prior' \in [Live -> SUBSET Event]
         /\ \A r \in Sessions : seen[r] \subseteq seen'[r]
         /\ \A r \in Sessions : seen'[r] \subseteq seen[r] \cup Items(b)
         /\ \A r \in Sessions : r # s => seen'[r] = seen[r]
    <2>1. CASE UNCHANGED <<seen, prior>>
      BY <2>1 DEF IInv, TypeOK
    <2>2. CASE LogIn(s, b)
      <3>1. /\ seen' \in [Sessions -> SUBSET Event] /\ prior' \in [Live -> SUBSET Event]
            /\ seen'[s] = seen[s] \cup Items(b)
            /\ \A r \in Sessions : r # s => seen'[r] = seen[r]
        BY <1>2, <2>2, LogFacts DEF IInv
      <3> QED
        BY <3>1
    <2> QED
      BY <2>1, <2>2 DEF s, b
  <1>11. t \leq made /\ ~(t > made)
    <2>1. ~(t > made)
      BY DEF IInv, Unmade, NewUploader
    <2> QED
      BY <2>1, Numbers DEF IInv, TypeOK
  <1>12. TypeOK'
    <2>1. up' \in [Transports -> Uploaders(Event)] /\ line' \in [Transports -> Lines]
      BY <1>1, <1>3, <1>4, <1>5
    <2>2. wire' \in SUBSET (Sessions \X Seq(Event))
      BY <1>2 DEF IInv, TypeOK, s, b
    <2> QED
      BY <1>9, <1>10, <2>1, <2>2 DEF IInv, TypeOK
  <1>13. Unmade'
    BY <1>7, <1>9, <1>11 DEF IInv, Unmade
  <1>14. Uses'
    <2> SUFFICES ASSUME NEW r \in Transports
                 PROVE  /\ Tidy(up'[r]) /\ (up'[r].closed => line[r].closing)
                        /\ transport = r => ~line[r].closing
                        /\ transport = r /\ ~gate.active =>
                             line[r].connected /\ line'[r].wait \in {"no", "over"}
      BY <1>8, <1>9 DEF Uses, Opened
    <2>1. CASE r = t
      BY <1>3, <1>5, <1>6, <1>7, <2>1 DEF IInv, Uses, Opened
    <2>2. CASE r # t
      BY <1>7, <2>2 DEF IInv, Uses, Opened
    <2> QED
      BY <2>1, <2>2
  <1>15. Flushing'
    <2> SUFFICES ASSUME NEW r \in Transports
                 PROVE  /\ ~line[r].connected => line'[r].wait = "no"
                        /\ line'[r].wait = "no" => line[r].owes = {}
                        /\ line'[r].wait = "waiting" =>
                             line[r].owes \subseteq Holds(up'[r]) \cup Done(r)'
                        /\ line'[r].wait \in {"resolved", "over"} =>
                             line[r].owes \subseteq Done(r)'
      BY <1>8 DEF Flushing
    <2>1. /\ Done(r)' = seen'[line[r].session] \cup GaveUp(r)'
          /\ Done(r) \subseteq Done(r)'
      <3>1. line[r].session \in Sessions /\ line'[r].session = line[r].session
        BY <1>1, <1>8 DEF Lines
      <3>2. seen[line[r].session] \subseteq seen'[line[r].session]
        BY <1>10, <3>1
      <3>3. GaveUp(r) \subseteq GaveUp(r)'
        OBVIOUS
      <3> QED
        BY <3>1, <3>2, <3>3 DEF Done
    <2>2. CASE r = t
      <3>1. Holds(up[t]) \subseteq Holds(up'[t]) \cup Done(t)'
        BY <1>3, <1>7, <2>1, <2>2
      <3>2. Holds(u) = Holds(up'[t])
        BY <1>3, <1>7
      <3>3. CASE w = line[t].wait
        BY <1>5, <1>7, <2>1, <2>2, <3>1, <3>3 DEF IInv, Flushing
      <3>4. CASE line[t].wait = "waiting" /\ w = "resolved" /\ Holds(u) = {}
        BY <1>5, <1>7, <2>1, <2>2, <3>1, <3>2, <3>4 DEF IInv, Flushing
      <3> QED
        BY <1>6, <3>3, <3>4
    <2>3. CASE r # t
      BY <1>7, <2>1, <2>3 DEF IInv, Flushing
    <2> QED
      BY <2>2, <2>3
  <1>16. Places'
    <2> SUFFICES ASSUME NEW m \in Live
                 PROVE  /\ via[m] # 0 => line'[via[m]].connected /\ line'[via[m]].wait \in {"no", "over"}
                        /\ \A q \in Sessions : m \in seen'[q] =>
                             via[m] # 0 /\ line'[via[m]].session = q
                        /\ \A r \in Transports : m \in Holds(up'[r]) => via[m] = r
                        /\ \A post \in wire' : m \in Items(post[2]) =>
                             via[m] # 0 /\ line'[via[m]].session = post[1]
      BY <1>9 DEF IInv, Places, Opened
    <2>0. via[m] \in {0} \cup Transports /\ t # 0
      BY <1>1, Numbers
    <2>1. m \in Items(b) => via[m] = t
      BY <1>2 DEF IInv, Places
    <2>2. via[m] # 0 => line'[via[m]].connected /\ line'[via[m]].wait \in {"no", "over"}
      <3>1. via[m] # 0 => line[via[m]].connected /\ line[via[m]].wait \in {"no", "over"}
        BY DEF IInv, Places, Opened
      <3>2. CASE via[m] = t
        BY <1>5, <1>6, <1>7, <2>0, <3>1, <3>2
      <3>3. CASE via[m] # t
        BY <1>7, <2>0, <3>1, <3>3
      <3> QED
        BY <3>2, <3>3
    <2>3. via[m] # 0 => line'[via[m]].session = line[via[m]].session
      BY <1>8, <2>0
    <2>4. \A q \in Sessions : m \in seen'[q] => m \in seen[q] \/ (m \in Items(b) /\ q = s)
      BY <1>10
    <2>5. \A r \in Transports : m \in Holds(up'[r]) => m \in Holds(up[r])
      BY <1>3, <1>7
    <2>6. \A post \in wire' : post \in wire \/ post = <<s, b>>
      BY DEF s, b
    <2>7. \A q \in Sessions : m \in seen'[q] => via[m] # 0 /\ line'[via[m]].session = q
      BY <2>0, <2>1, <2>3, <2>4 DEF IInv, Places, s
    <2>8. \A post \in wire' : m \in Items(post[2]) =>
             via[m] # 0 /\ line'[via[m]].session = post[1]
      <3> SUFFICES ASSUME NEW post \in wire', m \in Items(post[2])
                   PROVE  via[m] # 0 /\ line'[via[m]].session = post[1]
        OBVIOUS
      <3>1. CASE post \in wire
        BY <2>3, <3>1 DEF IInv, Places
      <3>2. CASE post = <<s, b>>
        BY <2>0, <2>1, <2>3, <3>2 DEF s
      <3> QED
        BY <2>6, <3>1, <3>2
    <2> QED
      BY <2>2, <2>5, <2>7, <2>8 DEF IInv, Places
  <1>17. HistoryFirst'
    <2>1. line' \in [Transports -> Lines] /\ \A m \in Live : via'[m] \in {0} \cup Transports
      BY <1>12 DEF TypeOK
    <2>2. \A m \in Live : via[m] # 0 =>
            /\ via'[m] = via[m] /\ via[m] \in Transports
            /\ line'[via[m]].session = line[via[m]].session
            /\ line'[via[m]].owes = line[via[m]].owes
      BY <1>1, <1>8, <1>9
    <2>3. \/ UNCHANGED <<seen, prior>>
          \/ /\ via' = via
             /\ \E q \in Sessions, c \in Seq(Event) :
                  /\ LogIn(q, c)
                  /\ \A m \in Live : m \in Items(c) =>
                       via[m] # 0 /\ line[via[m]].session = q
      <3>1. \A m \in Live : m \in Items(b) => via[m] # 0 /\ line[via[m]].session = s
        BY <1>2, Numbers DEF IInv, Places, s
      <3>2. (UNCHANGED <<seen, prior>>) \/ LogIn(s, b)
        BY DEF s, b
      <3> QED
        BY <1>2, <1>9, <3>1, <3>2
    <2>4. \A r \in Transports : GaveUp(r) \subseteq GaveUp(r)'
      OBVIOUS
    <2> QED
      BY <2>1, <2>2, <2>3, <2>4, HistoryKept DEF IInv
  <1>18. Room'
    BY <1>9 DEF IInv, Room
  <1> QED
    BY <1>12, <1>13, <1>14, <1>15, <1>16, <1>17, <1>18 DEF IInv

(* What an uploader has given up, it holds no longer. *)
LEMMA FailedFacts ==
    ASSUME NEW u \in Uploaders(Event)
    PROVE  LET v == SendFailed(u) IN
           /\ v \in Uploaders(Event) /\ Tidy(v) /\ v.closed = u.closed
           /\ Drained(v) => Holds(v) = {}
           /\ Holds(v) \subseteq Holds(u)
           /\ ~LastFailure(u) => Holds(v) = Holds(u)
           /\ Holds(u) \subseteq Holds(v) \cup Items(u.batch)
  <1>1. CASE LastFailure(u)
    <2>1. SendFailed(u) = Sent(u)
      BY <1>1, SentFacts DEF SendFailed
    <2> QED
      BY <1>1, <2>1, SentFacts DEF Holds
  <1>2. CASE ~LastFailure(u)
    BY <1>2, RequeuedFacts DEF SendFailed
  <1> QED
    BY <1>1, <1>2

(* What a transport gives up is only ever added to. *)
LEMMA GoneGrows ==
    ASSUME TypeOK, NEW t \in Transports, NEW b \in Seq(Event),
           \/ gone' = [gone EXCEPT ![t].dropped = @ \cup Items(b)]
           \/ gone' = [gone EXCEPT ![t].refused = @ \cup Items(b)]
    PROVE  /\ gone' \in [Transports -> Fates]
           /\ \A r \in Transports : GaveUp(r) \subseteq GaveUp(r)'
           /\ \A r \in Transports : r # t => gone'[r] = gone[r]
           /\ Items(b) \subseteq GaveUp(t)' /\ GaveUp(t)' \subseteq GaveUp(t) \cup Items(b)
  <1>1. Items(b) \subseteq Event /\ gone[t] \in Fates /\ gone \in [Transports -> Fates]
    BY ItemsTyped DEF TypeOK
  <1> DEFINE f == [gone[t] EXCEPT !.dropped = @ \cup Items(b)]
             g == [gone[t] EXCEPT !.refused = @ \cup Items(b)]
  <1>2. /\ f \in Fates /\ f.dropped = gone[t].dropped \cup Items(b)
        /\ f.refused = gone[t].refused /\ f.left = gone[t].left
    BY <1>1 DEF Fates
  <1>3. /\ g \in Fates /\ g.refused = gone[t].refused \cup Items(b)
        /\ g.dropped = gone[t].dropped /\ g.left = gone[t].left
    BY <1>1 DEF Fates
  <1>4. gone' = [gone EXCEPT ![t] = f] \/ gone' = [gone EXCEPT ![t] = g]
    OBVIOUS
  <1> HIDE DEF f, g
  <1>5. \A r \in Transports : r # t => gone'[r] = gone[r]
    BY <1>1, <1>4
  <1>6. gone'[t] = f \/ gone'[t] = g
    BY <1>1, <1>4
  <1>7. gone' \in [Transports -> Fates]
    BY <1>1, <1>2, <1>3, <1>4
  <1>8. /\ GaveUp(t) \subseteq GaveUp(t)' /\ Items(b) \subseteq GaveUp(t)'
        /\ GaveUp(t)' \subseteq GaveUp(t) \cup Items(b)
    BY <1>2, <1>3, <1>6 DEF GaveUp
  <1>9. \A r \in Transports : r # t => GaveUp(r)' = GaveUp(r)
    BY <1>5 DEF GaveUp
  <1> QED
    BY <1>5, <1>7, <1>8, <1>9

LEMMA AnswerKeeps ==
    ASSUME IInv, NEW t \in Transports, Answer(t) \/ Wake(t)
    PROVE  IInv'
  <1> DEFINE u == up[t]  s == line[t].session
  <1>1. /\ u \in Uploaders(Event) /\ Tidy(u) /\ u.phase # "idle"
        /\ u.batch \in Seq(Event) /\ TypeOK /\ s \in Sessions
    <2>1. up[t] \in Uploaders(Event) /\ line[t] \in Lines /\ TypeOK /\ Tidy(up[t])
      BY DEF IInv, TypeOK, Uses
    <2>2. up[t].phase # "idle"
      BY DEF Answer, Posted, Refused, NotPosted, TimedOut, Wake, Sending
    <2> QED
      BY <2>1, <2>2, Shape DEF Lines
  <1>2. mishaps' \in 0 .. MaxMishaps
    BY DEF IInv, TypeOK, Answer, Posted, Refused, NotPosted, TimedOut, Wake, Mishap
  <1>3. UNCHANGED <<bridge, via>>
    BY DEF Answer, Posted, Refused, NotPosted, TimedOut, Wake
  <1>4. /\ Sent(u) \in Uploaders(Event) /\ Tidy(Sent(u)) /\ Sent(u).closed = u.closed
        /\ Drained(Sent(u)) => Holds(Sent(u)) = {}
        /\ Holds(Sent(u)) \subseteq Holds(u)
        /\ Holds(u) \subseteq Holds(Sent(u)) \cup Items(u.batch)
    BY <1>1, SentFacts DEF Holds
  <1>5. gone' = gone => /\ gone' \in [Transports -> Fates]
                        /\ \A r \in Transports : GaveUp(r) \subseteq GaveUp(r)'
                        /\ \A r \in Transports : r # t => gone'[r] = gone[r]
    BY <1>1 DEF TypeOK, GaveUp
  <1>6. CASE Posted(t)
    <2>1. /\ SetUploader(t, Sent(u)) /\ LogIn(s, u.batch) /\ wire' = wire /\ gone' = gone
      BY <1>6 DEF Posted
    <2>2. Items(u.batch) \subseteq seen'[s]
      BY <1>1, <2>1, LogFacts
    <2> HIDE DEF u, s
    <2> QED
      BY <1>1, <1>2, <1>3, <1>4, <1>5, <2>1, <2>2, TurnKeeps DEF u, s
  <1>7. CASE Refused(t)
    <2>1. /\ SetUploader(t, Sent(u)) /\ UNCHANGED <<seen, prior, wire>>
          /\ gone' = [gone EXCEPT ![t].refused = @ \cup Items(u.batch)]
      BY <1>7 DEF Refused, server
    <2>2. /\ gone' \in [Transports -> Fates]
          /\ \A r \in Transports : GaveUp(r) \subseteq GaveUp(r)'
          /\ \A r \in Transports : r # t => gone'[r] = gone[r]
          /\ Items(u.batch) \subseteq GaveUp(t)'
      BY <1>1, <2>1, GoneGrows
    <2> HIDE DEF u, s
    <2> QED
      BY <1>1, <1>2, <1>3, <1>4, <2>1, <2>2, TurnKeeps DEF u
  <1>8. CASE NotPosted(t) \/ TimedOut(t)
    <2> DEFINE v == SendFailed(u)
    <2>1. /\ SetUploader(t, v) /\ UNCHANGED <<seen, prior>>
          /\ wire' \subseteq wire \cup {<<s, u.batch>>}
          /\ gone' = IF LastFailure(u)
                     THEN [gone EXCEPT ![t].dropped = @ \cup Items(u.batch)] ELSE gone
      BY <1>8 DEF NotPosted, TimedOut, Fails, server
    <2>2. /\ v \in Uploaders(Event) /\ Tidy(v) /\ v.closed = u.closed
          /\ Drained(v) => Holds(v) = {}
          /\ Holds(v) \subseteq Holds(u)
          /\ ~LastFailure(u) => Holds(v) = Holds(u)
          /\ Holds(u) \subseteq Holds(v) \cup Items(u.batch)
      BY <1>1, FailedFacts
    <2>3. /\ gone' \in [Transports -> Fates]
          /\ \A r \in Transports : GaveUp(r) \subseteq GaveUp(r)'
          /\ \A r \in Transports : r # t => gone'[r] = gone[r]
          /\ LastFailure(u) => Items(u.batch) \subseteq GaveUp(t)'
      <3>1. CASE LastFailure(u)
        BY <1>1, <2>1, <3>1, GoneGrows
      <3>2. CASE ~LastFailure(u)
        BY <1>5, <2>1, <3>2
      <3> QED
        BY <3>1, <3>2
    <2> HIDE DEF v, u, s
    <2>4. Holds(u) \subseteq Holds(v) \cup seen'[s] \cup GaveUp(t)'
      BY <2>2, <2>3
    <2> QED
      BY <1>1, <1>2, <1>3, <2>1, <2>2, <2>3, <2>4, TurnKeeps DEF u, s
  <1>9. CASE Wake(t)
    <2> DEFINE v == NextTurn(u)
    <2>1. /\ SetUploader(t, v) /\ UNCHANGED <<seen, prior, wire, gone>> /\ u.phase = "sleeping"
      BY <1>9 DEF Wake, server
    <2>2. u.batch = <<>>
      BY <1>1, <2>1 DEF Tidy
    <2>3. /\ v \in Uploaders(Event) /\ Tidy(v) /\ v.closed = u.closed
          /\ Drained(v) => Holds(v) = {}
          /\ Holds(v) = Holds(u)
      BY <1>1, <2>2, NextTurnFacts, ItemsOfNone DEF Holds
    <2> HIDE DEF v, u, s
    <2> QED
      BY <1>1, <1>2, <1>3, <1>5, <2>1, <2>3, TurnKeeps DEF u, s
  <1> QED
    BY <1>6, <1>7, <1>8, <1>9 DEF Answer

LEMMA LateKeeps ==
    ASSUME IInv, NEW post \in wire, ArrivesLate(post)
    PROVE  IInv'
  <1> DEFINE s == post[1]  b == post[2]
  <1>1. s \in Sessions /\ b \in Seq(Event) /\ TypeOK
    BY DEF IInv, TypeOK
  <1>2. LogIn(s, b) /\ wire' = wire \ {post} /\ UNCHANGED <<bridge, line, up, via, gone, mishaps>>
    BY DEF ArrivesLate
  <1> HIDE DEF s, b
  <1>3. /\ seen' \in [Sessions -> SUBSET Event] /\ prior' \in [Live -> SUBSET Event]
        /\ seen'[s] = seen[s] \cup Items(b)
        /\ \A r \in Sessions : r # s => seen'[r] = seen[r]
    BY <1>1, <1>2, LogFacts
  <1>4. \A m \in Live : m \in Items(b) => via[m] # 0 /\ line[via[m]].session = s
    BY DEF IInv, Places, s, b
  <1>5. TypeOK'
    BY <1>1, <1>2, <1>3 DEF TypeOK, bridge
  <1>6. Unmade' /\ Uses' /\ Room'
    BY <1>2 DEF IInv, Unmade, Uses, Room, Opened, bridge
  <1>7. Flushing'
    <2>1. \A r \in Transports : Done(r) \subseteq Done(r)'
      <3> SUFFICES ASSUME NEW r \in Transports
                   PROVE  Done(r) \subseteq Done(r)'
        OBVIOUS
      <3>1. line[r].session \in Sessions
        BY <1>1 DEF TypeOK, Lines
      <3>2. seen[line[r].session] \subseteq seen'[line[r].session]
        BY <1>3, <3>1
      <3> QED
        BY <1>2, <3>2 DEF Done, GaveUp
    <2> QED
      BY <1>2, <2>1 DEF IInv, Flushing
  <1>8. Places'
    <2> SUFFICES ASSUME NEW m \in Live, NEW q \in Sessions, m \in seen'[q]
                 PROVE  via[m] # 0 /\ line[via[m]].session = q
      BY <1>2 DEF IInv, Places, Opened, bridge
    <2> QED
      BY <1>3, <1>4 DEF IInv, Places
  <1>9. HistoryFirst'
    <2>1. line' \in [Transports -> Lines] /\ \A m \in Live : via'[m] \in {0} \cup Transports
      BY <1>5 DEF TypeOK
    <2>2. \A m \in Live : via[m] # 0 =>
            /\ via'[m] = via[m] /\ via[m] \in Transports
            /\ line'[via[m]].session = line[via[m]].session
            /\ line'[via[m]].owes = line[via[m]].owes
      BY <1>1, <1>2 DEF TypeOK
    <2>3. \A r \in Transports : GaveUp(r) \subseteq GaveUp(r)'
      BY <1>2 DEF GaveUp
    <2>4. via' = via
      BY <1>2
    <2> QED
      BY <1>1, <1>2, <1>4, <2>1, <2>2, <2>3, <2>4, HistoryKept DEF IInv
  <1> QED
    BY <1>5, <1>6, <1>7, <1>8, <1>9 DEF IInv

LEMMA GraceKeeps ==
    ASSUME IInv, NEW t \in Transports, GraceOver(t)
    PROVE  IInv'
  <1> DEFINE v == Closed(up[t])
             w == IF line[t].wait = "waiting" THEN "resolved" ELSE line[t].wait
             l == [line[t] EXCEPT !.wait = w]
             more == Items(up[t].pending) \cup Items(up[t].batch)
             f == [gone[t] EXCEPT !.left = @ \cup more]
  <1>1. /\ up[t] \in Uploaders(Event) /\ Tidy(up[t]) /\ line[t] \in Lines /\ gone[t] \in Fates
        /\ up \in [Transports -> Uploaders(Event)] /\ line \in [Transports -> Lines]
        /\ gone \in [Transports -> Fates] /\ via \in [Live -> {0} \cup Transports]
    BY DEF IInv, TypeOK, Uses
  <1>2. /\ line[t].closing /\ up' = [up EXCEPT ![t] = v] /\ line' = [line EXCEPT ![t] = l]
        /\ UNCHANGED <<bridge, server, via, mishaps>>
    BY DEF GraceOver
  <1>3. more \subseteq Event /\ more = Holds(up[t])
    BY <1>1, Shape, ItemsTyped DEF Holds
  <1>4. gone' = [gone EXCEPT ![t] = f]
    BY DEF GraceOver
  <1>5. v \in Uploaders(Event) /\ Tidy(v) /\ Holds(v) \subseteq Holds(up[t])
    BY <1>1, ClosedFacts DEF Holds
  <1>6. /\ l \in Lines /\ l.session = line[t].session /\ l.owes = line[t].owes
        /\ l.closing = line[t].closing /\ l.connected = line[t].connected /\ l.wait = w
    <2>1. w \in {"no", "waiting", "resolved", "over"}
      BY <1>1 DEF Lines
    <2> HIDE DEF w
    <2> QED
      BY <1>1, <2>1 DEF Lines
  <1>7. w = line[t].wait \/ (line[t].wait = "waiting" /\ w = "resolved")
    OBVIOUS
  <1>8. /\ f \in Fates /\ f.left = gone[t].left \cup more
        /\ f.dropped = gone[t].dropped /\ f.refused = gone[t].refused
    BY <1>1, <1>3 DEF Fates
  <1>9. w # "waiting"
    OBVIOUS
  <1> HIDE DEF v, w, l, f, more
  <1>10. /\ up'[t] = v /\ line'[t] = l /\ gone'[t] = f
         /\ \A r \in Transports : r # t =>
              up'[r] = up[r] /\ line'[r] = line[r] /\ gone'[r] = gone[r]
    BY <1>1, <1>2, <1>4
  <1>11. \A r \in Transports : line'[r].session = line[r].session /\ line'[r].owes = line[r].owes
                               /\ line'[r].closing = line[r].closing
                               /\ line'[r].connected = line[r].connected
    BY <1>6, <1>10
  <1>12. /\ \A r \in Transports : GaveUp(r) \subseteq GaveUp(r)'
         /\ Holds(up[t]) \subseteq GaveUp(t)'
    <2>1. GaveUp(t) \subseteq GaveUp(t)' /\ Holds(up[t]) \subseteq GaveUp(t)'
      BY <1>3, <1>8, <1>10 DEF GaveUp
    <2>2. \A r \in Transports : r # t => GaveUp(r)' = GaveUp(r)
      BY <1>10 DEF GaveUp
    <2> QED
      BY <2>1, <2>2
  <1>13. ~(t > made)
    BY <1>2 DEF IInv, Unmade, NewLine
  <1>14. TypeOK'
    <2>1. /\ up' \in [Transports -> Uploaders(Event)] /\ line' \in [Transports -> Lines]
          /\ gone' \in [Transports -> Fates]
      BY <1>1, <1>2, <1>4, <1>5, <1>6, <1>8
    <2> QED
      BY <1>2, <2>1 DEF IInv, TypeOK, bridge, server
  <1>15. Unmade' /\ Room'
    BY <1>2, <1>10, <1>13 DEF IInv, Unmade, Room, bridge
  <1>16. Uses'
    <2> SUFFICES ASSUME NEW r \in Transports
                 PROVE  /\ Tidy(up'[r]) /\ (up'[r].closed => line[r].closing)
                        /\ transport = r => ~line[r].closing
                        /\ transport = r /\ ~gate.active =>
                             line[r].connected /\ line'[r].wait \in {"no", "over"}
      BY <1>2, <1>11 DEF Uses, Opened, bridge
    <2>1. CASE r = t
      BY <1>2, <1>5, <1>10, <2>1 DEF IInv, Uses
    <2>2. CASE r # t
      BY <1>10, <2>2 DEF IInv, Uses, Opened
    <2> QED
      BY <2>1, <2>2
  <1>17. Flushing'
    <2> SUFFICES ASSUME NEW r \in Transports
                 PROVE  /\ ~line[r].connected => line'[r].wait = "no"
                        /\ line'[r].wait = "no" => line[r].owes = {}
                        /\ line'[r].wait = "waiting" =>
                             line[r].owes \subseteq Holds(up'[r]) \cup Done(r)'
                        /\ line'[r].wait \in {"resolved", "over"} =>
                             line[r].owes \subseteq Done(r)'
      BY <1>11 DEF Flushing
    <2>1. Done(r)' = seen[line[r].session] \cup GaveUp(r)' /\ Done(r) \subseteq Done(r)'
      BY <1>2, <1>11, <1>12 DEF Done, server
    <2>2. CASE r = t
      BY <1>6, <1>7, <1>9, <1>10, <1>12, <2>1, <2>2 DEF IInv, Flushing
    <2>3. CASE r # t
      BY <1>10, <2>1, <2>3 DEF IInv, Flushing
    <2> QED
      BY <2>2, <2>3
  <1>18. Places'
    <2> SUFFICES ASSUME NEW m \in Live
                 PROVE  /\ via[m] # 0 => line'[via[m]].connected /\ line'[via[m]].wait \in {"no", "over"}
                        /\ \A q \in Sessions : m \in seen[q] =>
                             via[m] # 0 /\ line'[via[m]].session = q
                        /\ \A r \in Transports : m \in Holds(up'[r]) => via[m] = r
                        /\ \A post \in wire : m \in Items(post[2]) =>
                             via[m] # 0 /\ line'[via[m]].session = post[1]
      BY <1>2 DEF IInv, Places, Opened, bridge, server
    <2>1. via[m] \in {0} \cup Transports
      BY <1>1
    <2>2. via[m] # 0 => line'[via[m]].connected /\ line'[via[m]].wait \in {"no", "over"}
      <3>1. via[m] # 0 => line[via[m]].connected /\ line[via[m]].wait \in {"no", "over"}
        BY DEF IInv, Places, Opened
      <3>2. CASE via[m] = t
        BY <1>6, <1>7, <1>10, <2>1, <3>1, <3>2
      <3>3. CASE via[m] # t
        BY <1>10, <2>1, <3>1, <3>3
      <3> QED
        BY <3>2, <3>3
    <2>3. via[m] # 0 => line'[via[m]].session = line[via[m]].session
      BY <1>11, <2>1
    <2>4. \A r \in Transports : m \in Holds(up'[r]) => m \in Holds(up[r])
      BY <1>5, <1>10
    <2> QED
      BY <2>2, <2>3, <2>4 DEF IInv, Places
  <1>19. HistoryFirst'
    <2>1. line' \in [Transports -> Lines] /\ \A m \in Live : via'[m] \in {0} \cup Transports
      BY <1>14 DEF TypeOK
    <2>2. \A m \in Live : via[m] # 0 =>
            /\ via'[m] = via[m] /\ via[m] \in Transports
            /\ line'[via[m]].session = line[via[m]].session
            /\ line'[via[m]].owes = line[via[m]].owes
      BY <1>1, <1>2, <1>11
    <2>3. UNCHANGED <<seen, prior>>
      BY <1>2 DEF server
    <2> QED
      BY <1>12, <2>1, <2>2, <2>3, HistoryKept DEF IInv
  <1> QED
    BY <1>14, <1>15, <1>16, <1>17, <1>18, <1>19 DEF IInv
-----------------------------------------------------------------------------
LEMMA StepKeeps == IInv /\ [Next]_vars => IInv'
  <1> SUFFICES ASSUME IInv, [Next]_vars
               PROVE  IInv'
    OBVIOUS
  <1>1. CASE Work
    BY <1>1, WorkKeeps
  <1>2. CASE WriteMessage
    BY <1>2, WriteKeeps
  <1>3. CASE LeaseLost \/ EnvironmentLost
    BY <1>3, TakenKeeps
  <1>4. CASE JoinReconnect \/ Registered \/ SwapSession \/ ClearFlushed \/ UNCHANGED vars
    BY <1>4, QuietKeeps
  <1>5. ASSUME NEW t \in Transports, Move(t) \/ Connect(t) \/ PermanentClose(t)
        PROVE  IInv'
    <2>1. CASE Answer(t) \/ Wake(t)
      BY <2>1, AnswerKeeps
    <2>2. CASE GraceOver(t)
      BY <2>2, GraceKeeps
    <2>3. CASE AfterFlush(t)
      BY <2>3, AfterFlushKeeps
    <2>4. CASE Connect(t)
      BY <2>4, ConnectKeeps
    <2>5. CASE PermanentClose(t)
      <3>1. PermanentClose(transport)
        BY <2>5 DEF PermanentClose, IsCurrent
      <3> QED
        BY <3>1, TakenKeeps
    <2> QED
      BY <1>5, <2>1, <2>2, <2>3, <2>4, <2>5 DEF Move
  <1>6. ASSUME NEW post \in wire, ArrivesLate(post)
        PROVE  IInv'
    BY <1>6, LateKeeps
  <1> QED
    BY <1>1, <1>2, <1>3, <1>4, <1>5, <1>6 DEF Next

LEMMA Inductive == Spec => []IInv
  <1> QED
    BY InitKeeps, StepKeeps, PTL DEF Spec

(* The variables keep their types. *)
THEOREM TypesHold == Spec => []TypeOK
  <1>1. IInv => TypeOK
    BY DEF IInv
  <1> QED
    BY <1>1, Inductive, PTL

(* However many POSTs fail, time out, arrive late or are refused, and        *)
(* however often a transport is replaced or taken away: a message is logged  *)
(* after the history its transport set out to flush.                         *)
THEOREM HistoryGoesFirst == Spec => []HistoryFirst
  <1>1. IInv => HistoryFirst
    BY DEF IInv
  <1> QED
    BY <1>1, Inductive, PTL

(* A mark is made when a flush returns, for what that transport's session  *)
(* has, or it had refused, or left behind when closed; never for a drop.   *)
THEOREM MarksAreHonest == Spec => HonestMarks
  <1> DEFINE Honest ==
        \A e \in flushed' \ flushed : \E t \in Transports :
            /\ Returns(t)
            /\ e \in seen[line[t].session] \cup gone[t].refused \cup gone[t].left
            /\ e \notin gone[t].dropped
  <1>1. IInv /\ [Next]_vars => [Honest]_vars
    <2> SUFFICES ASSUME IInv, Next, NEW e \in flushed' \ flushed
                 PROVE  \E t \in Transports :
                           /\ Returns(t)
                           /\ e \in seen[line[t].session] \cup gone[t].refused \cup gone[t].left
                           /\ e \notin gone[t].dropped
      BY DEF Honest
    <2>1. \E t \in Transports : AfterFlush(t)
      BY DEF Next, Work, WriteMessage, LeaseLost, EnvironmentLost, JoinReconnect, Registered,
             SwapSession, ClearFlushed, Move, Answer, Posted, Refused, NotPosted, TimedOut, Wake,
             GraceOver, Connect, PermanentClose, ArrivesLate, bridge
    <2>2. PICK t \in Transports : AfterFlush(t)
      BY <2>1
    <2>3. line[t].wait = "resolved" /\ e \in line[t].owes /\ gone[t].dropped = {}
      BY <2>2 DEF AfterFlush, NoBatchDropped, Marks
    <2>4. line[t].owes \subseteq Done(t)
      BY <2>3 DEF IInv, Flushing
    <2>5. Returns(t)
      <3>1. line' = [line EXCEPT ![t].wait = "over"] /\ line \in [Transports -> Lines]
        BY <2>2 DEF AfterFlush, IInv, TypeOK
      <3> QED
        BY <2>3, <3>1 DEF Returns, Lines
    <2> QED
      BY <2>3, <2>4, <2>5 DEF Done, GaveUp
  <1> QED
    BY <1>1, Inductive, PTL DEF Spec, HonestMarks

(* What the gate holds is handed to a transport, or dropped with the last. *)
THEOREM QueuesSurvive == Spec => QueueSurvives
  <1> DEFINE Survives ==
        \A m \in Items(gate.queued) \ Items(gate'.queued) : via'[m] # 0 \/ transport' = 0
  <1>1. IInv /\ [Next]_vars => [Survives]_vars
    <2> SUFFICES ASSUME IInv, Next, NEW m \in Items(gate.queued) \ Items(gate'.queued),
                        transport' # 0
                 PROVE  via'[m] # 0
      BY DEF Survives
    <2>1. gate.queued \in Seq(Live) /\ Items(gate.queued) \subseteq Live /\ m \in Live
      BY QueueFacts DEF IInv
    <2>2. CASE \E t \in Transports : DrainGate(t)
      <3>1. PICK t \in Transports : DrainGate(t)
        BY <2>2
      <3>2. via'[m] = t
        BY <2>1, <3>1 DEF DrainGate, Send
      <3> QED
        BY <3>2, Numbers
    <2>3. CASE WriteMessage
      <3>1. gate.active \in BOOLEAN /\ gate \in [active : BOOLEAN, queued : Seq(Live)]
        BY DEF IInv, TypeOK
      <3>2. gate' = gate \/ gate' = [gate EXCEPT !.queued = Append(@, written + 1)]
        BY <2>3, <3>1 DEF WriteMessage, Held
      <3>3. gate' = gate \/ gate'.queued = Append(gate.queued, written + 1)
        BY <3>1, <3>2
      <3>4. written + 1 \in Live
        BY <2>3 DEF WriteMessage
      <3>5. Items(gate.queued) \subseteq Items(Append(gate.queued, written + 1))
        BY <2>1, <3>4, ItemsOfAppend
      <3>6. Items(gate.queued) \subseteq Items(gate'.queued)
        BY <3>3, <3>5
      <3> QED
        BY <3>6
    <2>4. CASE gate'.queued = gate.queued
      BY <2>4
    <2>5. \/ \E t \in Transports : DrainGate(t)
          \/ WriteMessage
          \/ gate'.queued = gate.queued
      <3>1. CASE Work
        BY <3>1 DEF Work, QueueKept
      <3>2. CASE LeaseLost \/ EnvironmentLost \/ \E t \in Transports : PermanentClose(t)
        BY <3>2 DEF LeaseLost, EnvironmentLost, PermanentClose
      <3>3. CASE JoinReconnect \/ Registered \/ SwapSession \/ ClearFlushed
                \/ \E post \in wire : ArrivesLate(post)
        BY <3>3 DEF JoinReconnect, Registered, SwapSession, ClearFlushed, ArrivesLate, bridge
      <3>4. ASSUME NEW t \in Transports, Move(t) \/ Connect(t)
            PROVE  DrainGate(t) \/ gate' = gate
        <4>1. CASE Connect(t)
          BY <4>1 DEF Connect, OpensAtOnce
        <4>2. CASE AfterFlush(t)
          BY <4>2 DEF AfterFlush, StillInUse
        <4>3. CASE Answer(t) \/ Wake(t) \/ GraceOver(t)
          BY <4>3 DEF Answer, Posted, Refused, NotPosted, TimedOut, Wake, GraceOver, bridge
        <4> QED
          BY <3>4, <4>1, <4>2, <4>3 DEF Move
      <3> QED
        BY <3>1, <3>2, <3>3, <3>4 DEF Next
    <2> QED
      BY <2>2, <2>3, <2>4, <2>5
  <1> QED
    BY <1>1, Inductive, PTL DEF Spec, QueueSurvives
=============================================================================
