-------------------------------- MODULE Uplink --------------------------------
(***************************************************************************)
(* The outgoing half of Remote Control: the bridge of an interactive       *)
(* session (src/src/bridge/replBridge.ts) sends the conversation so far,   *)
(* then every new message, to a session on a server.  Each work item the   *)
(* server dispatches gives the bridge a new transport (the HybridTransport *)
(* of the v1 protocol, a WebSocket to read and POSTs to write); the old    *)
(* one is closed, with a grace period in which its uploader goes on.  A    *)
(* flush gate (flushGate.ts) keeps new messages back while the history is  *)
(* being flushed.  The server is external: a POST it answers, it has       *)
(* logged once, but a POST the client gave up on may still arrive.         *)
(*                                                                         *)
(* An event is its number in the order it was made: the history first,     *)
(* then the messages of this run.                                          *)
(***************************************************************************)
EXTENDS EventUploader, FiniteSets

CONSTANTS
    NHistory,       \* messages of the conversation before the bridge
    Earlier,        \* how much of it an earlier bridge may have flushed already
    HistoryCap,     \* initialHistoryCap: the most of it one flush sends, 0 for all
    NLive,          \* bound: messages written while the bridge is up
    MaxTransports,  \* bound: work items received
    MaxSessions,    \* bound: sessions created
    MaxMishaps      \* bound: mishaps of the network and of the server

ASSUME UplinkConstants ==
    /\ NHistory \in Nat \ {0} /\ HistoryCap \in Nat /\ NLive \in Nat
    /\ Earlier \in SUBSET (0 .. NHistory)
    /\ MaxTransports \in Nat /\ MaxSessions \in Nat \ {0} /\ MaxMishaps \in Nat

History    == 1 .. NHistory
Live       == NHistory + 1 .. NHistory + NLive
Event      == History \cup Live
Transports == 1 .. MaxTransports
Sessions   == 1 .. MaxSessions

VARIABLES
    transport, \* the transport in use, 0 for none
    gate,      \* flushGate: [active, queued]
    flushed,   \* previouslyFlushedUUIDs
    session,   \* currentSessionId
    rebuild,   \* where doReconnect() is
    polling,   \* the poll loop is not awaiting a reconnect
    made,      \* transports made so far
    written,   \* the last message the conversation has produced
    line,      \* per transport: [session, connected, owes, wait, closing]
    up,        \* per transport: its uploader
    wire,      \* POSTs given up by their sender and still under way
    seen,      \* per session: the events the server has logged
    prior,     \* per message of this run: what was logged before it
    via,       \* per message of this run: the transport it was given to
    gone,      \* per transport: the events it gave up, by how it did
    mishaps    \* mishaps so far

bridge == <<transport, gate, flushed, session, rebuild, polling, made, written>>
server == <<wire, seen, prior>>
vars   == <<bridge, line, up, server, via, gone, mishaps>>

Lines ==
    [ session   : Sessions,
      connected : BOOLEAN,          \* setOnConnect's callback has run
      owes      : SUBSET History,   \* the history it set out to flush
      wait      : {"no", "waiting", "resolved", "over"}, \* that flush
      closing   : BOOLEAN ]         \* HybridTransport.close() was called

Fates == [dropped : SUBSET Event, refused : SUBSET Event, left : SUBSET Event]

NewLine == [session |-> 1, connected |-> FALSE, owes |-> {}, wait |-> "no",
            closing |-> FALSE]
NoFate  == [dropped |-> {}, refused |-> {}, left |-> {}]

GaveUp(t) == gone[t].dropped \cup gone[t].refused \cup gone[t].left

(* Remote Control may have been on before in this REPL: its set of flushed  *)
(* uuids is handed to the new bridge, and the conversation has grown since. *)
Init ==
    /\ transport = 0
    /\ gate = [active |-> FALSE, queued |-> <<>>]
    /\ \E k \in Earlier : flushed = 1 .. k
    /\ session = 1
    /\ rebuild = "no"
    /\ polling = TRUE
    /\ made = 0
    /\ written = NHistory
    /\ line = [t \in Transports |-> NewLine]
    /\ up = [t \in Transports |-> NewUploader]
    /\ wire = {}
    /\ seen = [s \in Sessions |-> {}]
    /\ prior = [e \in Live |-> {}]
    /\ via = [e \in Live |-> 0]
    /\ gone = [t \in Transports |-> NoFate]
    /\ mishaps = 0
-----------------------------------------------------------------------------
(* The steps of the code that several handlers share. *)

(* The uploader of t becomes u.  If that ends a flush, the flush of the    *)
(* history returns, and the grace of a closed transport is over.           *)
SetUploader(t, u) ==
    /\ up' = [up EXCEPT ![t] =
                 IF Drained(u) /\ line[t].closing THEN Closed(u) ELSE u]
    /\ line' = [line EXCEPT ![t].wait =
                 IF Drained(u) /\ @ = "waiting" THEN "resolved" ELSE @]

(* Messages go to transport t: enqueue(), and nobody waits for them. *)
Send(t, msgs) ==
    /\ up' = [up EXCEPT ![t] = Enqueue(@, msgs)]
    /\ via' = [e \in Live |-> IF e \in Items(msgs) THEN t ELSE via[e]]

(* FlushGate.drop() *)
DropGate ==
    /\ gate' = [active |-> FALSE, queued |-> <<>>]

(* FlushGate.end() hands over what it holds, drainFlushGate() sends it. *)
DrainGate(t) ==
    /\ gate' = [active |-> FALSE, queued |-> <<>>]
    /\ Send(t, gate.queued)

(* HybridTransport.close(): flush, and close the uploader after it. *)
CloseLine(t) ==
    /\ line' = [line EXCEPT ![t].closing = TRUE]
    /\ up' = [up EXCEPT ![t] = IF Drained(@) THEN Closed(@) ELSE @]

(* The transport in use, if any, is closed and forgotten. *)
CloseCurrent ==
    IF transport = 0 THEN UNCHANGED <<line, up>> ELSE CloseLine(transport)

IsCurrent(t) == transport = t
-----------------------------------------------------------------------------
(* onWorkReceived(), wireTransport() *)

\* mutant: the queue goes with the transport
NothingKept == <<>>
QueueKept   == gate.queued   \* deactivate(): the queue outlives the transport

Work ==
    /\ polling
    /\ made < MaxTransports
    /\ LET t == made + 1 IN
       /\ made' = t
       /\ transport' = t
       /\ gate' = [active |-> TRUE, queued |-> QueueKept]
       /\ line' = [r \in Transports |->
                     IF r = t THEN [NewLine EXCEPT !.session = session]
                     ELSE IF r = transport THEN [line[r] EXCEPT !.closing = TRUE]
                     ELSE line[r]]
       /\ up' = [r \in Transports |->
                     IF r = transport /\ Drained(up[r]) THEN Closed(up[r])
                     ELSE up[r]]
    /\ UNCHANGED <<flushed, session, rebuild, polling, written, server, via,
                   gone, mishaps>>

(* setOnConnect: the history not yet flushed, or the latest part of it,    *)
(* goes out in order, and its flush is awaited; with nothing to flush the  *)
(* gate opens at once.                                                     *)
Eligible == History \ flushed
Capped   == IF HistoryCap = 0 THEN Eligible
            ELSE {e \in Eligible : Cardinality({f \in Eligible : f >= e}) <= HistoryCap}

InSequence(S) == {q \in [1 .. Cardinality(S) -> S] :
                    Items(q) = S /\ \A i, j \in DOMAIN q : i < j => q[i] < q[j]}

\* mutant: with nothing to flush the gate stays as it is
ForgetsGate(t) == UNCHANGED <<gate, up, via>>
OpensAtOnce(t) == DrainGate(t)

Connect(t) ==
    /\ IsCurrent(t)
    /\ ~line[t].connected
    /\ IF Capped # {}
       THEN /\ line' = [line EXCEPT ![t].connected = TRUE, ![t].owes = Capped,
                                    ![t].wait = "waiting"]
            /\ \E q \in InSequence(Capped) :
                  up' = [up EXCEPT ![t] = Enqueue(@, q)]
            /\ UNCHANGED <<gate, via>>
       ELSE /\ line' = [line EXCEPT ![t].connected = TRUE]
            /\ OpensAtOnce(t)
    /\ UNCHANGED <<transport, flushed, session, rebuild, polling, made,
                   written, server, gone, mishaps>>

(* The flush of the history has returned: .then() marks what it sent unless *)
(* a batch was dropped since it began (the first thing this transport sent, *)
(* so dropsBefore is 0), .finally() opens the gate of a transport in use.   *)
\* mutant: a flush that returns is taken for a delivery
ReturnedAtAll(t)  == TRUE
NoBatchDropped(t) == gone[t].dropped = {}
\* mutant: what waited in the gate is marked, too
MarksDrained(t) == line[t].owes \cup Items(gate.queued)
Marks(t)        == line[t].owes
\* mutant: the flush of a replaced transport opens the gate
AnyInUse(t)   == transport # 0
StillInUse(t) == transport = t

AfterFlush(t) ==
    /\ line[t].wait = "resolved"
    /\ line' = [line EXCEPT ![t].wait = "over"]
    /\ flushed' = IF NoBatchDropped(t) THEN flushed \cup Marks(t) ELSE flushed
    /\ IF StillInUse(t) THEN DrainGate(transport) ELSE UNCHANGED <<gate, up, via>>
    /\ UNCHANGED <<transport, session, rebuild, polling, made, written, server,
                   gone, mishaps>>

(* writeMessages(): to the gate, to the transport, or nowhere. *)
\* mutant: writeMessages() does not ask the gate
NeverHeld == FALSE
Held == gate.active

WriteMessage ==
    LET m == written + 1 IN
    /\ m \in Live
    /\ written' = m
    /\ CASE Held ->
              /\ gate' = [gate EXCEPT !.queued = Append(@, m)]
              /\ UNCHANGED <<up, via>>
         [] ~Held /\ transport # 0 ->
              /\ Send(transport, <<m>>)
              /\ UNCHANGED gate
         [] ~Held /\ transport = 0 ->
              UNCHANGED <<gate, up, via>>
    /\ UNCHANGED <<transport, flushed, session, rebuild, polling, made, line,
                   server, gone, mishaps>>
-----------------------------------------------------------------------------
(* The end of a POST.  The server has logged a batch, or not; the client    *)
(* has seen it succeed, or not.                                             *)

LogIn(s, b) ==
    LET fresh == Items(b) \ seen[s]
        Ahead(e) == {b[j] : j \in {k \in DOMAIN b :
                                     \E i \in DOMAIN b : k < i /\ b[i] = e}}
    IN  /\ seen' = [seen EXCEPT ![s] = @ \cup Items(b)]
        /\ prior' = [e \in Live |-> IF e \in fresh THEN seen[s] \cup Ahead(e)
                                                 ELSE prior[e]]

Fails(t) ==
    /\ SetUploader(t, SendFailed(up[t]))
    /\ gone' = IF LastFailure(up[t])
               THEN [gone EXCEPT ![t].dropped = @ \cup Items(up[t].batch)]
               ELSE gone

Sending(t) == up[t].phase = "sending"

(* A mishap the instance bounds.  A POST that just fails is none: the       *)
(* server may be down for ever.                                             *)
Mishap == mishaps < MaxMishaps /\ mishaps' = mishaps + 1

(* 2xx *)
Posted(t) ==
    /\ Sending(t)
    /\ LogIn(line[t].session, up[t].batch)
    /\ SetUploader(t, Sent(up[t]))
    /\ UNCHANGED <<bridge, wire, via, gone, mishaps>>

(* A 4xx that is no 429, or no token to post with: not sent, not retried. *)
Refused(t) ==
    /\ Sending(t)
    /\ Mishap
    /\ SetUploader(t, Sent(up[t]))
    /\ gone' = [gone EXCEPT ![t].refused = @ \cup Items(up[t].batch)]
    /\ UNCHANGED <<bridge, server, via>>

(* 429, 5xx, or the connection failed before the server had it. *)
NotPosted(t) ==
    /\ Sending(t)
    /\ Fails(t)
    /\ UNCHANGED <<bridge, server, via, mishaps>>

(* POST_TIMEOUT_MS ran out, or the answer was lost: the server may still log *)
(* the batch, at once or whenever it arrives.                               *)
TimedOut(t) ==
    /\ Sending(t)
    /\ Mishap
    /\ wire' = wire \cup {<<line[t].session, up[t].batch>>}
    /\ Fails(t)
    /\ UNCHANGED <<bridge, seen, prior, via>>

ArrivesLate(post) ==
    /\ post \in wire
    /\ wire' = wire \ {post}
    /\ LogIn(post[1], post[2])
    /\ UNCHANGED <<bridge, line, up, via, gone, mishaps>>

(* The back-off is over. *)
Wake(t) ==
    /\ up[t].phase = "sleeping"
    /\ SetUploader(t, NextTurn(up[t]))
    /\ UNCHANGED <<bridge, server, via, gone, mishaps>>

(* CLOSE_GRACE_MS ran out: uploader.close(), which ends every flush. *)
GraceOver(t) ==
    /\ line[t].closing /\ ~up[t].closed
    /\ up' = [up EXCEPT ![t] = Closed(@)]
    /\ line' = [line EXCEPT ![t].wait = IF @ = "waiting" THEN "resolved" ELSE @]
    /\ gone' = [gone EXCEPT ![t].left =
                  @ \cup Items(up[t].pending) \cup Items(up[t].batch)]
    /\ UNCHANGED <<bridge, server, via, mishaps>>
-----------------------------------------------------------------------------
(* What takes a transport away. *)

(* handleTransportPermanentClose(): the WebSocket is gone for good.  The    *)
(* uploader is not told; an environment reconnect begins if none is on.     *)
PermanentClose(t) ==
    /\ IsCurrent(t)
    /\ Mishap
    /\ transport' = 0
    /\ DropGate
    /\ rebuild' = IF rebuild = "no" THEN "begun" ELSE rebuild
    /\ UNCHANGED <<flushed, session, polling, made, written, line, up, server,
                   via, gone>>

(* The poll loop's heartbeat was rejected: the work item's lease is gone. *)
LeaseLost ==
    /\ polling
    /\ transport # 0
    /\ Mishap
    /\ CloseCurrent
    /\ transport' = 0
    /\ DropGate
    /\ UNCHANGED <<flushed, session, rebuild, polling, made, written, server,
                   via, gone>>

(* onEnvironmentLost(): the poll loop awaits doReconnect(), which goes up to *)
(* its first await at once; or it joins the reconnect that is on, and polls  *)
(* again when that ends.                                                     *)
EnvironmentLost ==
    /\ polling /\ polling' = FALSE
    /\ rebuild = "no" /\ rebuild' = "begun"
    /\ Mishap
    /\ CloseCurrent
    /\ transport' = 0
    /\ DropGate
    /\ UNCHANGED <<flushed, session, made, written, server, via, gone>>

JoinReconnect ==
    /\ polling /\ polling' = FALSE
    /\ rebuild # "no"
    /\ UNCHANGED <<transport, gate, flushed, session, rebuild, made, written,
                   line, up, server, via, gone, mishaps>>

(* doReconnect() has registered the environment: it is done if the poll     *)
(* loop has made a transport meanwhile, or once the session is resumed in   *)
(* place; otherwise it goes on to a fresh session.  (A reconnect that fails *)
(* tears the bridge down, which is not modelled.)                           *)
Registered ==
    /\ rebuild = "begun"
    /\ \/ rebuild' = "no" /\ polling' = TRUE
       \/ /\ transport = 0 /\ session < MaxSessions
          /\ rebuild' = "fresh" /\ UNCHANGED polling
    /\ UNCHANGED <<transport, gate, flushed, session, made, written, line,
                   up, server, via, gone, mishaps>>

(* The old session is archived and a new one made: currentSessionId. *)
SwapSession ==
    /\ rebuild = "fresh"
    /\ session' = session + 1
    /\ rebuild' = "swapped"
    /\ UNCHANGED <<transport, gate, flushed, polling, made, written, line, up,
                   server, via, gone, mishaps>>

(* After the pointer is written: previouslyFlushedUUIDs.clear(). *)
ClearFlushed ==
    /\ rebuild = "swapped"
    /\ rebuild' = "no" /\ polling' = TRUE
    /\ flushed' = {}
    /\ UNCHANGED <<transport, gate, session, made, written, line, up,
                   server, via, gone, mishaps>>
-----------------------------------------------------------------------------
Answer(t) == \/ Posted(t) \/ Refused(t) \/ NotPosted(t) \/ TimedOut(t)

Move(t) == Answer(t) \/ Wake(t) \/ GraceOver(t) \/ AfterFlush(t)

Next ==
    \/ Work \/ WriteMessage \/ LeaseLost \/ EnvironmentLost \/ JoinReconnect
    \/ Registered \/ SwapSession \/ ClearFlushed
    \/ \E t \in Transports : Move(t) \/ Connect(t) \/ PermanentClose(t)
    \/ \E post \in wire : ArrivesLate(post)

Spec == Init /\ [][Next]_vars

(* A POST ends within its timeout and a back-off with its timer; the flush  *)
(* that has returned is heard; a WebSocket that is not connected yet        *)
(* connects or is given up for good.  Nothing ever has to take a transport  *)
(* away that is connected, no grace period has to end before its uploader   *)
(* is empty, and the server need not dispatch or say anything.              *)
Opens(t) == Connect(t) \/ (~line[t].connected /\ PermanentClose(t))

Fairness ==
    \A t \in Transports :
        /\ WF_vars(Answer(t) \/ Wake(t))
        /\ WF_vars(AfterFlush(t))
        /\ WF_vars(Opens(t))

FairSpec == Spec /\ Fairness
-----------------------------------------------------------------------------
(* TYPE: every variable keeps its shape; a message of this run is with at   *)
(* most one transport, and the gate's queue holds only messages.            *)
TypeOK ==
    /\ transport \in {0} \cup Transports
    /\ gate \in [active : BOOLEAN, queued : Seq(Live)]
    /\ flushed \in SUBSET History
    /\ session \in Sessions
    /\ rebuild \in {"no", "begun", "fresh", "swapped"}
    /\ polling \in BOOLEAN
    /\ made \in {0} \cup Transports
    /\ written \in {NHistory} \cup Live
    /\ line \in [Transports -> Lines]
    /\ up \in [Transports -> Uploaders(Event)]
    /\ wire \in SUBSET (Sessions \X Seq(Event))
    /\ seen \in [Sessions -> SUBSET Event]
    /\ prior \in [Live -> SUBSET Event]
    /\ via \in [Live -> {0} \cup Transports]
    /\ gone \in [Transports -> Fates]
    /\ mishaps \in 0 .. MaxMishaps

(* HISTORY FIRST.  A message that went out on a transport is logged only    *)
(* after every event of the history that transport set out to flush, unless *)
(* the transport gave that event up: the flush gate, the stale-transport    *)
(* guard and the uploader's order together, through time-outs, late POSTs,  *)
(* replacement and reconnects.                                              *)
HistoryFirst ==
    \A m \in Live : via[m] # 0 /\ m \in seen[line[via[m]].session] =>
        line[via[m]].owes \subseteq
            prior[m] \cup GaveUp(via[m])

(* IN ORDER.  Of two messages given to one transport the later is logged    *)
(* only after the earlier, unless the transport gave the earlier one up,    *)
(* however many POSTs fail, are repeated or arrive after their time-out.    *)
InOrder ==
    \A m, n \in Live : 
        /\ m < n /\ via[m] # 0 /\ via[m] = via[n]
        /\ n \in seen[line[via[n]].session]
        => m \in prior[n] \cup GaveUp(via[n])

(* DELIVERY.  Seen from the transports the uplink is an ordered delivery: a *)
(* message arrives only after everything its transport was handed before it *)
(* has arrived or was given up, and what has arrived or was given up stays  *)
(* so.  (That an event arrives once, and in the session of its transport    *)
(* only, holds by the mapping alone.)                                       *)
Handed(t) == line[t].owes \cup {m \in Live : via[m] = t}

Delivery == INSTANCE OrderedDelivery WITH
    handed  <- [t \in Transports |-> Handed(t)],
    arrived <- [t \in Transports |-> seen[line[t].session] \cap Handed(t)],
    lost    <- [t \in Transports |-> GaveUp(t)]

DeliversInOrder == Delivery!Spec

(* HONEST MARKS.  Events are marked only when the flush of one transport    *)
(* returns, and each of them is then in the session of that transport, or   *)
(* that transport had it refused, or was closed around it.  What it dropped *)
(* is not marked, whatever another transport or session has of it.          *)
Returns(t) == line[t].wait = "resolved" /\ line'[t].wait = "over"

HonestMarks ==
    [][\A e \in flushed' \ flushed : \E t \in Transports :
          /\ Returns(t)
          /\ e \in seen[line[t].session] \cup gone[t].refused \cup gone[t].left
          /\ e \notin gone[t].dropped]_vars

(* THE QUEUE SURVIVES.  A message the gate holds leaves it onto a transport  *)
(* or because the transport was taken away and none put in its place: a     *)
(* replacement, which drops the flush it was waiting for, keeps it.         *)
QueueSurvives ==
    [][\A m \in Items(gate.queued) \ Items(gate'.queued) :
          via'[m] # 0 \/ transport' = 0]_vars

(* NOTHING STUCK.  A message written is in the end logged, or given up at a *)
(* place where the code gives up: it is never forgotten in the gate of a    *)
(* replaced transport or in a buffer nobody drains.                         *)
Discarded(m) == via[m] = 0 /\ m \notin Items(gate.queued)
Settled(m)   == \/ Discarded(m)
                \/ via[m] # 0 /\ m \in seen[line[via[m]].session] \cup GaveUp(via[m])

MessagesSettle == \A m \in Live : written >= m ~> Settled(m)

(* THE GATE OPENS.  With a server that never answers, too, the flush of the *)
(* history ends and the gate opens, or the transport is taken away.         *)
GateOpens == gate.active ~> ~gate.active

(* What replBridge.ts:825 says of a fresh session: the history is sent to   *)
(* it again, so a message never stands there without the history.           *)
HistoryInEverySession ==
    \A m \in Live : via[m] # 0 /\ m \in seen[line[via[m]].session] =>
        \A h \in History :
            \/ h \in prior[m]
            \/ \E t \in Transports :
                  line[t].session = line[via[m]].session /\ h \in GaveUp(t)
=============================================================================
