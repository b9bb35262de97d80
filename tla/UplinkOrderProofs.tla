--------------------------- MODULE UplinkOrderProofs ---------------------------
(***************************************************************************)
(* The uplink keeps the order: it implements OrderedDelivery, for a        *)
(* history, messages, transports, sessions and mishaps of any number.      *)
(***************************************************************************)
EXTENDS UplinkProofs

USE UplinkConstants

(* A batch is sorted, and what its transport was handed before a message    *)
(* of it is settled or in the batch.                                        *)
Fits(b) ==
    /\ Sorted(b)
    /\ \A t \in Transports, m \in Live : m \in Items(b) /\ via[m] = t =>
          \A d \in Handed(t) : d < m => d \in Done(t) \cup Items(b)

(* The queue of the gate comes after all that was sent; an open gate has none. *)
Gated ==
    /\ Sorted(gate.queued)
    /\ ~gate.active => gate.queued = <<>>
    /\ \A m, n \in Live : via[m] # 0 /\ n \in Items(gate.queued) => m < n

(* What a transport was handed is settled or held, in order. *)
Kept ==
    \A t \in Transports :
        /\ InStep(up[t])
        /\ Holds(up[t]) \subseteq Handed(t)
        /\ Handed(t) \subseteq Done(t) \cup Holds(up[t])
        /\ GaveUp(t) \subseteq Handed(t)

Posts == \A post \in wire : Fits(post[2])

(* InOrder, by transports. *)
OrderOn ==
    \A t \in Transports, m, n \in Live :
        m < n /\ via[m] = t /\ via[n] = t /\ n \in seen[line[t].session]
        => m \in prior[n] \cup GaveUp(t)

OInv == Gated /\ Kept /\ Posts /\ OrderOn

(* What the abstract specification sees of the server. *)
Arrived(t) == seen[line[t].session] \cap Handed(t)

-----------------------------------------------------------------------------
LEMMA EventsAreNumbers ==
    /\ Event \in SUBSET Nat /\ Live \in SUBSET Nat
    /\ \A h \in History, m \in Live : h < m
  <1>1. History \subseteq Nat /\ Live \subseteq Nat
    BY DEF History, Live
  <1>2. \A h \in History, m \in Live : h < m
    BY DEF History, Live
  <1> QED
    BY <1>1, <1>2 DEF Event

LEMMA HandedTyped ==
    ASSUME TypeOK, NEW t \in Transports
    PROVE  /\ Handed(t) \subseteq Event /\ line[t].owes \subseteq History
           /\ \A m \in Live : m \in Handed(t) <=> via[m] = t
  BY Numbers DEF Handed, TypeOK, Lines

(* What is ahead of a message in its batch is noted as before it. *)
LEMMA LogOrders ==
    ASSUME TypeOK, NEW s \in Sessions, NEW b \in Seq(Event), LogIn(s, b), Sorted(b),
           NEW n \in Live, n \in Items(b) \ seen[s],
           NEW m \in Event, m \in Items(b), m < n
    PROVE  m \in prior'[n]
  <1>1. PICK k \in DOMAIN b : b[k] = m
    BY DEF Items
  <1>2. PICK i \in DOMAIN b : b[i] = n
    BY DEF Items
  <1>3. k < i
    <2>1. SUFFICES ASSUME i \leq k
                   PROVE  FALSE
      BY <1>1, <1>2
    <2>2. i = k \/ i < k
      BY <2>1, <1>1, <1>2
    <2>3. n = m \/ n < m
      BY <1>1, <1>2, <2>2 DEF Sorted
    <2> QED
      BY <2>3, EventsAreNumbers
  <1>4. prior'[n] = seen[s] \cup {b[j] : j \in {x \in DOMAIN b :
                                     \E y \in DOMAIN b : x < y /\ b[y] = n}}
    BY DEF LogIn
  <1> QED
    BY <1>1, <1>2, <1>3, <1>4

(* The batch in flight fits. *)
LEMMA BatchFits ==
    ASSUME IInv, OInv, NEW t \in Transports
    PROVE  Fits(up[t].batch)
  <1>1. InStep(up[t])
    BY DEF OInv, Kept
  <1> SUFFICES ASSUME NEW r \in Transports, NEW m \in Live, m \in Items(up[t].batch),
                      via[m] = r, NEW d \in Handed(r), d < m
               PROVE  d \in Done(r) \cup Items(up[t].batch)
    BY <1>1 DEF Fits, InStep
  <1>2. r = t
    BY DEF IInv, Places, Holds
  <1>3. d \in Done(t) \cup Items(up[t].pending) \cup Items(up[t].batch)
    BY <1>2 DEF OInv, Kept, Holds
  <1>4. d \in Event
    BY HandedTyped DEF IInv
  <1>5. d \notin Items(up[t].pending)
    <2>1. d \in Items(up[t].pending) => m < d
      BY <1>1 DEF InStep
    <2> QED
      BY <1>4, <2>1, EventsAreNumbers
  <1> QED
    BY <1>2, <1>3, <1>5
-----------------------------------------------------------------------------
(* The abstract steps *)

LEMMA ProgressMaps ==
    ASSUME \A t \in Transports :
             /\ Handed(t)' = Handed(t)
             /\ Arrived(t) \subseteq Arrived(t)'
             /\ GaveUp(t) \subseteq GaveUp(t)' /\ GaveUp(t)' \subseteq Handed(t)
             /\ \A m \in Live : m \in Arrived(t)' /\ m \notin Arrived(t) =>
                  \A d \in Handed(t) : d < m => d \in Arrived(t)' \cup GaveUp(t)
    PROVE  Delivery!Progress
  <1>1. [t \in Transports |-> Handed(t)]' = [t \in Transports |-> Handed(t)]
    OBVIOUS
  <1>2. \A t \in Transports : Arrived(t)' \subseteq Handed(t)
    BY DEF Arrived
  <1> QED
    BY <1>1, <1>2 DEF Delivery!Progress, Delivery!InTurn, Delivery!Before, Arrived

LEMMA HandMaps ==
    ASSUME NEW t \in Transports, NEW S \in SUBSET Event,
           Handed(t)' = Handed(t) \cup S,
           \A r \in Transports : r # t => Handed(r)' = Handed(r),
           \A r \in Transports : GaveUp(r)' = GaveUp(r),
           NEW K \in SUBSET (S \cap History), Arrived(t)' = Arrived(t) \cup K,
           \A r \in Transports : r # t => Arrived(r)' = Arrived(r),
           \A e \in S, d \in Handed(t) : d < e,
           \A m \in Live, r \in Transports : m \in S => m \notin Handed(r)
    PROVE  Delivery!Hand(t)
  <1> DEFINE H == [r \in Transports |-> Handed(r)]
             A == [r \in Transports |-> Arrived(r)]
             G == [r \in Transports |-> GaveUp(r)]
  <1>1. H' = [H EXCEPT ![t] = @ \cup S]
    OBVIOUS
  <1>2. A' = [A EXCEPT ![t] = @ \cup K]
    OBVIOUS
  <1>3. G' = G
    OBVIOUS
  <1>4. \A e \in S : {d \in H[t] : d < e} = H[t]
    OBVIOUS
  <1>5. \A m \in S \cap Live, r \in Transports : m \notin H[r]
    OBVIOUS
  <1> QED
    BY <1>1, <1>2, <1>3, <1>4, <1>5 DEF Delivery!Hand, Delivery!Before, Arrived, Event
-----------------------------------------------------------------------------
(* Steps that hand nothing to a transport *)

LEMMA StillKeeps ==
    ASSUME IInv, OInv, Gated', via' = via,
           \A t \in Transports : line'[t].owes = line[t].owes,
           \A t \in Transports : Handed(t) # {} => line'[t].session = line[t].session,
           \A t \in Transports :
             /\ GaveUp(t) \subseteq GaveUp(t)'
             /\ GaveUp(t)' \subseteq GaveUp(t) \cup Holds(up[t]),
           \A t \in Transports :
             /\ InStep(up'[t]) /\ Holds(up'[t]) \subseteq Holds(up[t])
             /\ Holds(up[t]) \subseteq Holds(up'[t]) \cup Done(t)',
           \A post \in wire' : post \in wire \/ Fits(post[2]),
           \/ UNCHANGED <<seen, prior>>
           \/ \E s \in Sessions, b \in Seq(Event) :
                /\ LogIn(s, b) /\ Fits(b)
                /\ \A m \in Live : m \in Items(b) =>
                     via[m] # 0 /\ line[via[m]].session = s
    PROVE  OInv' /\ Delivery!Progress
  <1>1. \A t \in Transports : Handed(t)' = Handed(t)
    BY DEF Handed
  <1>2. /\ \A t \in Transports : line[t].session \in Sessions
        /\ TypeOK /\ via \in [Live -> {0} \cup Transports]
    BY DEF IInv, TypeOK, Lines
  <1>3. \A s \in Sessions : seen[s] \subseteq seen'[s]
    <2>1. CASE UNCHANGED <<seen, prior>>
      BY <2>1
    <2>2. ASSUME NEW s \in Sessions, NEW b \in Seq(Event), LogIn(s, b)
          PROVE  \A r \in Sessions : seen[r] \subseteq seen'[r]
      BY <1>2, <2>2, LogFacts
    <2> QED
      BY <2>1, <2>2
  <1>4. \A t \in Transports : Handed(t) # {} =>
          /\ Done(t) \subseteq Done(t)' /\ Arrived(t) \subseteq Arrived(t)'
    <2> SUFFICES ASSUME NEW t \in Transports, Handed(t) # {}
                 PROVE  Done(t) \subseteq Done(t)' /\ Arrived(t) \subseteq Arrived(t)'
      OBVIOUS
    <2>1. seen[line[t].session] \subseteq seen'[line'[t].session]
      BY <1>2, <1>3
    <2> QED
      BY <1>1, <2>1 DEF Done, Arrived
  <1>5. Kept'
    <2> SUFFICES ASSUME NEW t \in Transports
                 PROVE  /\ Holds(up'[t]) \subseteq Handed(t)
                        /\ Handed(t) \subseteq Done(t)' \cup Holds(up'[t])
                        /\ GaveUp(t)' \subseteq Handed(t)
      BY <1>1 DEF Kept
    <2>1. /\ Holds(up[t]) \subseteq Handed(t) /\ GaveUp(t) \subseteq Handed(t)
          /\ Handed(t) \subseteq Done(t) \cup Holds(up[t])
      BY DEF OInv, Kept
    <2> QED
      BY <1>4, <2>1
  <1>6. ASSUME NEW b, Fits(b)
        PROVE  Fits(b)'
    <2> SUFFICES ASSUME NEW t \in Transports, NEW m \in Live, m \in Items(b), via[m] = t,
                        NEW d \in Handed(t), d < m
                 PROVE  d \in Done(t)' \cup Items(b)
      BY <1>1, <1>6 DEF Fits
    <2>1. d \in Done(t) \cup Items(b)
      BY <1>6 DEF Fits
    <2> QED
      BY <1>4, <2>1
  <1>7. Posts'
    <2> SUFFICES ASSUME NEW post \in wire'
                 PROVE  Fits(post[2])'
      BY DEF Posts
    <2> DEFINE b == post[2]
    <2>1. Fits(b)
      BY DEF OInv, Posts
    <2> HIDE DEF b
    <2>2. Fits(b)'
      BY <1>6, <2>1
    <2> QED
      BY <2>2 DEF b
  <1>8. ASSUME NEW t \in Transports, NEW n \in Live, n \in Handed(t),
               n \in seen'[line'[t].session],
               ~(n \in seen[line[t].session] /\ prior'[n] = prior[n])
        PROVE  /\ n \notin seen[line[t].session]
               /\ \A d \in Handed(t) : d < n =>
                    /\ d \in Arrived(t)' \cup GaveUp(t)
                    /\ d \in prior'[n] \cup GaveUp(t)
    <2> DEFINE s == line[t].session
    <2>1. line'[t].session = s /\ s \in Sessions /\ via[n] = t
      BY <1>2, <1>8, HandedTyped
    <2>2. ~UNCHANGED <<seen, prior>>
      BY <1>8, <2>1
    <2>3. PICK r \in Sessions, b \in Seq(Event) :
               /\ LogIn(r, b) /\ Fits(b)
               /\ \A m \in Live : m \in Items(b) => via[m] # 0 /\ line[via[m]].session = r
      BY <2>2
    <2>4. /\ seen'[r] = seen[r] \cup Items(b)
          /\ \A q \in Sessions : q # r => seen'[q] = seen[q]
          /\ \A e \in Live : e \in Items(b) \ seen[r] => seen[r] \subseteq prior'[e]
          /\ \A e \in Live : e \notin Items(b) \ seen[r] => prior'[e] = prior[e]
      BY <1>2, <2>3, LogFacts
    <2>5. n \in Items(b) \ seen[r] /\ r = s
      BY <1>8, <2>1, <2>3, <2>4
    <2> SUFFICES ASSUME NEW d \in Handed(t), d < n
                 PROVE  /\ d \in Arrived(t)' \cup GaveUp(t)
                        /\ d \in prior'[n] \cup GaveUp(t)
      BY <2>5
    <2>6. d \in seen[s] \cup GaveUp(t) \cup Items(b)
      BY <2>1, <2>3, <2>5 DEF Fits, Done
    <2>7. d \in Event
      BY <1>2, HandedTyped
    <2>8. d \in Items(b) => d \in prior'[n]
      BY <1>2, <2>1, <2>3, <2>5, <2>7, LogOrders DEF Fits
    <2>9. d \in Handed(t)' /\ line'[t].session = s
      BY <1>1, <2>1
    <2> QED
      BY <2>4, <2>5, <2>6, <2>8, <2>9 DEF Arrived
  <1>9. OrderOn'
    <2> SUFFICES ASSUME NEW t \in Transports, NEW m \in Live, NEW n \in Live,
                        m < n, via[m] = t, via[n] = t, n \in seen'[line'[t].session]
                 PROVE  m \in prior'[n] \cup GaveUp(t)'
      BY DEF OrderOn
    <2>1. m \in Handed(t) /\ n \in Handed(t)
      BY <1>2, HandedTyped
    <2>2. CASE n \in seen[line[t].session] /\ prior'[n] = prior[n]
      BY <2>2 DEF OInv, OrderOn
    <2>3. CASE ~(n \in seen[line[t].session] /\ prior'[n] = prior[n])
      BY <1>8, <2>1, <2>3
    <2> QED
      BY <2>2, <2>3
  <1>10. Delivery!Progress
    <2>1. \A t \in Transports : Arrived(t) \subseteq Arrived(t)'
      BY <1>4 DEF Arrived
    <2>2. \A t \in Transports : GaveUp(t)' \subseteq Handed(t)
      BY DEF OInv, Kept
    <2>3. ASSUME NEW t \in Transports, NEW m \in Live, m \in Arrived(t)', m \notin Arrived(t),
                 NEW d \in Handed(t), d < m
          PROVE  d \in Arrived(t)' \cup GaveUp(t)
      <3>1. m \in Handed(t) /\ m \in seen'[line'[t].session] /\ m \notin seen[line[t].session]
        BY <1>1, <2>3 DEF Arrived
      <3> QED
        BY <1>8, <2>3, <3>1
    <2> QED
      BY <1>1, <2>1, <2>2, <2>3, ProgressMaps
  <1> QED
    BY <1>5, <1>7, <1>9, <1>10 DEF OInv
-----------------------------------------------------------------------------
(* Steps that hand events to the transport in use *)

LEMMA HandKeeps ==
    ASSUME IInv, OInv, Gated', NEW t \in Transports, transport = t,
           NEW q \in Seq(Event), Sorted(q),
           up' = [up EXCEPT ![t] = Enqueue(@, q)],
           UNCHANGED <<seen, prior, wire, gone>>,
           Handed(t)' = Handed(t) \cup Items(q),
           \A r \in Transports : r # t => Handed(r)' = Handed(r),
           \A d \in Handed(t), e \in Items(q) : d < e,
           \A m \in Live :
              \/ via'[m] = via[m] /\ m \notin Items(q)
              \/ via[m] = 0 /\ via'[m] = t /\ m \in Items(q),
           \A r \in Transports : line'[r].session = line[r].session
    PROVE  OInv' /\ Delivery!Hand(t)
  <1>1. /\ up[t] \in Uploaders(Event) /\ Tidy(up[t]) /\ ~up[t].closed
        /\ up \in [Transports -> Uploaders(Event)] /\ TypeOK
        /\ via \in [Live -> {0} \cup Transports]
        /\ \A r \in Transports : line[r].session \in Sessions
    BY DEF IInv, TypeOK, Uses, Lines
  <1>2. \A r \in Transports : Done(r)' = Done(r) /\ GaveUp(r)' = GaveUp(r)
    BY DEF Done, GaveUp
  <1>3. Items(q) \subseteq Event
    BY ItemsTyped
  <1>4. /\ up'[t] = Enqueue(up[t], q)
        /\ \A r \in Transports : r # t => up'[r] = up[r]
    BY <1>1
  <1>5. Holds(Enqueue(up[t], q)) = Holds(up[t]) \cup Items(q)
    BY <1>1, EnqueueFacts
  <1>6. InStep(Enqueue(up[t], q))
    <2>1. \A x \in Holds(up[t]), y \in Items(q) : x < y
      BY DEF OInv, Kept
    <2> QED
      BY <1>1, <2>1, EventsAreNumbers, EnqueueInStep DEF OInv, Kept
  <1>7. Kept'
    <2> SUFFICES ASSUME NEW r \in Transports
                 PROVE  /\ InStep(up'[r]) /\ Holds(up'[r]) \subseteq Handed(r)'
                        /\ Handed(r)' \subseteq Done(r) \cup Holds(up'[r])
                        /\ GaveUp(r) \subseteq Handed(r)'
      BY <1>2 DEF Kept
    <2>1. CASE r = t
      BY <1>4, <1>5, <1>6, <2>1 DEF OInv, Kept
    <2>2. CASE r # t
      BY <1>4, <2>2 DEF OInv, Kept
    <2> QED
      BY <2>1, <2>2
  <1>8. \A r \in Transports : \A m \in Live :
            (\E s \in Sessions : m \in seen[s]) \/ (\E post \in wire : m \in Items(post[2]))
            => (via'[m] = r => via[m] = r)
    BY DEF IInv, Places
  <1>9. ASSUME NEW m \in Live, NEW n \in Live, via[n] = t, m < n
        PROVE  m \notin Items(q)
    <2>1. n \in Handed(t)
      BY <1>1, <1>9, HandedTyped
    <2>2. m \in Items(q) => n < m
      BY <2>1
    <2> QED
      BY <1>9, <2>2, EventsAreNumbers
  <1>10. Posts'
    <2> SUFFICES ASSUME NEW post \in wire
                 PROVE  Fits(post[2])'
      BY DEF Posts
    <2> SUFFICES ASSUME NEW r \in Transports, NEW m \in Live, m \in Items(post[2]), via'[m] = r,
                        NEW d \in Handed(r)', d < m
                 PROVE  d \in Done(r) \cup Items(post[2])
      BY <1>2 DEF OInv, Posts, Fits
    <2>1. via[m] = r
      BY <1>8
    <2>2. d \in Handed(r)
      <3>1. CASE r # t
        BY <3>1
      <3>2. CASE r = t /\ d \in Items(q)
        <4>1. m \in Handed(t)
          BY <1>1, <2>1, <3>2, HandedTyped
        <4> QED
          BY <1>3, <3>2, <4>1, EventsAreNumbers
      <3> QED
        BY <3>1, <3>2
    <2> QED
      BY <2>1, <2>2 DEF OInv, Posts, Fits
  <1>11. OrderOn'
    <2> SUFFICES ASSUME NEW r \in Transports, NEW m \in Live, NEW n \in Live,
                        m < n, via'[m] = r, via'[n] = r, n \in seen[line[r].session]
                 PROVE  m \in prior[n] \cup GaveUp(r)
      BY <1>2 DEF OrderOn
    <2>1. via[n] = r
      BY <1>1, <1>8
    <2>2. via[m] = r
      BY <1>9, <2>1
    <2> QED
      BY <2>1, <2>2 DEF OInv, OrderOn
  <1>12. Delivery!Hand(t)
    <2> DEFINE s == line[t].session
               K == seen[s] \cap Items(q)
    <2>1. K \in SUBSET (Items(q) \cap History)
      <3>1. \A m \in Live : m \in Items(q) => m \notin seen[s]
        <4>1. \A m \in Live : m \in Items(q) => via[m] = 0
          OBVIOUS
        <4>2. s \in Sessions
          BY <1>1
        <4> QED
          BY <4>1, <4>2 DEF IInv, Places
      <3> QED
        BY <1>3, <3>1 DEF Event
    <2>2. Arrived(t)' = Arrived(t) \cup K
      <3>1. line'[t].session = s
        OBVIOUS
      <3> QED
        BY <3>1 DEF Arrived
    <2>3. \A r \in Transports : r # t => Arrived(r)' = Arrived(r)
      BY DEF Arrived
    <2>4. \A m \in Live, r \in Transports : m \in Items(q) => m \notin Handed(r)
      <3>1. \A m \in Live : m \in Items(q) => via[m] = 0
        OBVIOUS
      <3> QED
        BY <1>1, <3>1, HandedTyped, Numbers
    <2> HIDE DEF K
    <2> QED
      BY <1>2, <1>3, <2>1, <2>2, <2>3, <2>4, HandMaps
  <1> QED
    BY <1>7, <1>10, <1>11, <1>12 DEF OInv

(* The gate's queue, or one message, goes to the transport in use. *)
LEMMA SendHands ==
    ASSUME IInv, OInv, Gated', NEW t \in Transports, transport = t,
           NEW msgs \in Seq(Live), Sorted(msgs), Send(t, msgs),
           \A m \in Live : m \in Items(msgs) => via[m] = 0,
           \A m, n \in Live : via[m] # 0 /\ n \in Items(msgs) => m < n,
           UNCHANGED <<seen, prior, wire, gone>>,
           \A r \in Transports : /\ line'[r].session = line[r].session
                                 /\ line'[r].owes = line[r].owes
    PROVE  OInv' /\ Delivery!Hand(t)
  <1>1. msgs \in Seq(Event) /\ Items(msgs) \subseteq Live
    BY MessagesTyped
  <1>2. up' = [up EXCEPT ![t] = Enqueue(@, msgs)]
    BY DEF Send
  <1>3. \A m \in Live : via'[m] = IF m \in Items(msgs) THEN t ELSE via[m]
    BY DEF Send
  <1>4. Handed(t)' = Handed(t) \cup Items(msgs)
    BY <1>1, <1>3 DEF Handed
  <1>5. \A r \in Transports : r # t => Handed(r)' = Handed(r)
    BY <1>3, Numbers DEF Handed
  <1>6. \A d \in Handed(t), e \in Items(msgs) : d < e
    <2> SUFFICES ASSUME NEW d \in Handed(t), NEW e \in Items(msgs)
                 PROVE  d < e
      OBVIOUS
    <2>1. e \in Live /\ (d \in History \/ (d \in Live /\ via[d] = t))
      BY <1>1, HandedTyped DEF Handed, IInv
    <2> QED
      BY <2>1, EventsAreNumbers, Numbers
  <1>7. \A m \in Live : \/ via'[m] = via[m] /\ m \notin Items(msgs)
                        \/ via[m] = 0 /\ via'[m] = t /\ m \in Items(msgs)
    BY <1>3
  <1> QED
    BY <1>1, <1>2, <1>4, <1>5, <1>6, <1>7, HandKeeps

LEMMA DrainHands ==
    ASSUME IInv, OInv, NEW t \in Transports, transport = t, DrainGate(t),
           UNCHANGED <<seen, prior, wire, gone>>,
           \A r \in Transports : /\ line'[r].session = line[r].session
                                 /\ line'[r].owes = line[r].owes
    PROVE  OInv' /\ Delivery!Hand(t)
  <1>1. /\ gate.queued \in Seq(Live)
        /\ \A m \in Live : m \in Items(gate.queued) => via[m] = 0
    BY QueueFacts DEF IInv
  <1>2. gate'.queued = <<>> /\ Send(t, gate.queued)
    BY DEF DrainGate
  <1>3. Gated'
    BY <1>2, SortedNone, ItemsOfNone DEF Gated
  <1> QED
    BY <1>1, <1>2, <1>3, SendHands DEF OInv, Gated
-----------------------------------------------------------------------------
(* The actions *)

LEMMA InitInOrder == Init => OInv /\ Delivery!Init
  <1> SUFFICES ASSUME Init
               PROVE  OInv /\ Delivery!Init
    OBVIOUS
  <1>1. \A t \in Transports : Handed(t) = {} /\ GaveUp(t) = {} /\ line[t].session = 1
    BY Numbers DEF Init, Handed, NewLine, GaveUp, NoFate
  <1>2. \A t \in Transports : Arrived(t) = {} /\ Holds(up[t]) = {} /\ InStep(up[t])
    <2>1. InStep(NewUploader) /\ Holds(NewUploader) = {}
      BY SortedNone, ItemsOfNone, NewUploaderFacts DEF InStep, NewUploader
    <2> QED
      BY <1>1, <2>1 DEF Arrived, Init
  <1>3. Gated
    BY SortedNone, ItemsOfNone DEF Init, Gated
  <1>4. Kept
    BY <1>1, <1>2 DEF Kept
  <1>5. Posts /\ OrderOn
    BY <1>1, Numbers DEF Init, Posts, OrderOn
  <1>6. Delivery!Init
    <2>1. /\ [t \in Transports |-> Handed(t)] = [t \in Transports |-> {}]
          /\ [t \in Transports |-> Arrived(t)] = [t \in Transports |-> {}]
          /\ [t \in Transports |-> GaveUp(t)] = [t \in Transports |-> {}]
      BY <1>1, <1>2
    <2> QED
      BY <2>1 DEF Delivery!Init, Arrived
  <1> QED
    BY <1>3, <1>4, <1>5, <1>6 DEF OInv

(* Steps of doReconnect() that touch no transport, and stuttering. *)
LEMMA QuietInOrder ==
    ASSUME IInv, OInv, JoinReconnect \/ Registered \/ SwapSession \/ ClearFlushed \/ UNCHANGED vars
    PROVE  OInv' /\ Delivery!Progress
  <1>1. UNCHANGED <<gate, line, up, wire, seen, prior, via, gone>>
    BY DEF JoinReconnect, Registered, SwapSession, ClearFlushed, vars, bridge, server
  <1>2. Gated'
    BY <1>1 DEF OInv, Gated
  <1>3. \A t \in Transports : GaveUp(t)' = GaveUp(t)
    BY <1>1 DEF GaveUp
  <1>4. \A t \in Transports : InStep(up[t])
    BY DEF OInv, Kept
  <1> QED
    BY <1>1, <1>2, <1>3, <1>4, StillKeeps

(* close() on a transport loses nothing: its uploader goes on if it holds any. *)
LEMMA CloseInOrder ==
    ASSUME IInv, OInv, NEW t \in Transports
    PROVE  LET u == IF Drained(up[t]) THEN Closed(up[t]) ELSE up[t] IN
           InStep(u) /\ Holds(u) = Holds(up[t])
  <1>1. up[t] \in Uploaders(Event) /\ Tidy(up[t]) /\ InStep(up[t])
    BY DEF IInv, TypeOK, Uses, OInv, Kept
  <1> QED
    BY <1>1, ClosedFacts, ClosedInStep

LEMMA TakenInOrder ==
    ASSUME IInv, OInv, PermanentClose(transport) \/ LeaseLost \/ EnvironmentLost
    PROVE  OInv' /\ Delivery!Progress
  <1>1. gate'.queued = <<>> /\ UNCHANGED <<wire, seen, prior, via, gone>>
    BY DEF PermanentClose, LeaseLost, EnvironmentLost, DropGate, server
  <1>2. \A t \in Transports :
          /\ InStep(up'[t]) /\ Holds(up'[t]) = Holds(up[t])
          /\ line'[t].session = line[t].session /\ line'[t].owes = line[t].owes
    <2>0. /\ up \in [Transports -> Uploaders(Event)] /\ line \in [Transports -> Lines]
          /\ transport \in {0} \cup Transports
          /\ \A t \in Transports : InStep(up[t])
      BY DEF IInv, TypeOK, OInv, Kept
    <2>1. CASE UNCHANGED <<line, up>>
      BY <2>0, <2>1
    <2>2. CASE transport # 0 /\ CloseLine(transport)
      <3> DEFINE t0 == transport
                 u == IF Drained(up[t0]) THEN Closed(up[t0]) ELSE up[t0]
                 l == [line[t0] EXCEPT !.closing = TRUE]
      <3>1. t0 \in Transports
        BY <2>0, <2>2
      <3>2. up' = [up EXCEPT ![t0] = u] /\ line' = [line EXCEPT ![t0] = l]
        BY <2>2 DEF CloseLine
      <3>3. InStep(u) /\ Holds(u) = Holds(up[t0])
        BY <3>1, CloseInOrder
      <3>4. l.session = line[t0].session /\ l.owes = line[t0].owes
        BY <2>0, <3>1 DEF Lines
      <3> HIDE DEF t0, u, l
      <3> QED
        BY <2>0, <3>1, <3>2, <3>3, <3>4
    <2> QED
      BY <2>1, <2>2 DEF PermanentClose, LeaseLost, EnvironmentLost, CloseCurrent
  <1>3. Gated'
    BY <1>1, SortedNone, ItemsOfNone DEF Gated
  <1>4. \A t \in Transports : GaveUp(t)' = GaveUp(t)
    BY <1>1 DEF GaveUp
  <1> QED
    BY <1>1, <1>2, <1>3, <1>4, StillKeeps

LEMMA WorkInOrder ==
    ASSUME IInv, OInv, Work
    PROVE  OInv' /\ Delivery!Progress
  <1> DEFINE n == made + 1
  <1>1. /\ gate' = [active |-> TRUE, queued |-> gate.queued]
        /\ UNCHANGED <<wire, seen, prior, via, gone>> /\ made < MaxTransports
    BY DEF Work, QueueKept, server
  <1>2. n \in Transports /\ n > made
    BY <1>1 DEF IInv, TypeOK, Transports
  <1>3. /\ line[n] = NewLine /\ transport # n /\ Handed(n) = {}
    BY <1>2 DEF IInv, Unmade, Handed, NewLine
  <1>4. \A t \in Transports :
          /\ InStep(up'[t]) /\ Holds(up'[t]) = Holds(up[t])
          /\ line'[t].owes = line[t].owes
          /\ t # n => line'[t].session = line[t].session
    <2> SUFFICES ASSUME NEW t \in Transports
                 PROVE  /\ InStep(up'[t]) /\ Holds(up'[t]) = Holds(up[t])
                        /\ line'[t].owes = line[t].owes
                        /\ t # n => line'[t].session = line[t].session
      OBVIOUS
    <2>1. /\ line'[t] = (IF t = n THEN [NewLine EXCEPT !.session = session]
                         ELSE IF t = transport THEN [line[t] EXCEPT !.closing = TRUE]
                         ELSE line[t])
          /\ up'[t] = (IF t = transport /\ Drained(up[t]) THEN Closed(up[t]) ELSE up[t])
          /\ line[t] \in Lines /\ InStep(up[t])
      BY DEF Work, IInv, TypeOK, OInv, Kept
    <2>2. InStep(up'[t]) /\ Holds(up'[t]) = Holds(up[t])
      BY <2>1, CloseInOrder
    <2>3. line'[t].owes = line[t].owes /\ (t # n => line'[t].session = line[t].session)
      <3>1. CASE t = n
        BY <1>3, <2>1, <3>1 DEF NewLine
      <3>2. CASE t # n
        BY <2>1, <3>2 DEF Lines
      <3> QED
        BY <3>1, <3>2
    <2> QED
      BY <2>2, <2>3
  <1>5. Gated'
    BY <1>1 DEF OInv, Gated
  <1>6. \A t \in Transports : GaveUp(t)' = GaveUp(t)
    BY <1>1 DEF GaveUp
  <1> HIDE DEF n
  <1>7. \A t \in Transports : Handed(t) # {} => line'[t].session = line[t].session
    BY <1>3, <1>4
  <1> QED
    BY <1>1, <1>4, <1>5, <1>6, <1>7, StillKeeps

LEMMA FlushSorted ==
    ASSUME NEW S \in SUBSET History, NEW q \in InSequence(S)
    PROVE  Sorted(q)
  BY DEF InSequence, Sorted

LEMMA ConnectInOrder ==
    ASSUME IInv, OInv, NEW t \in Transports, Connect(t)
    PROVE  OInv' /\ Delivery!Hand(t)
  <1>1. /\ transport = t /\ ~line[t].connected /\ UNCHANGED <<seen, prior, wire, gone>>
        /\ line[t] \in Lines /\ line \in [Transports -> Lines]
        /\ up \in [Transports -> Uploaders(Event)]
    BY DEF Connect, IsCurrent, server, IInv, TypeOK
  <1>2. CASE Capped = {}
    <2>1. line' = [line EXCEPT ![t].connected = TRUE] /\ DrainGate(t)
      BY <1>2 DEF Connect, OpensAtOnce
    <2>2. \A r \in Transports : line'[r].session = line[r].session /\ line'[r].owes = line[r].owes
      BY <1>1, <2>1 DEF Lines
    <2> QED
      BY <1>1, <2>1, <2>2, DrainHands
  <1>3. CASE Capped # {}
    <2>1. PICK q \in InSequence(Capped) : up' = [up EXCEPT ![t] = Enqueue(@, q)]
      BY <1>3 DEF Connect
    <2>2. /\ line' = [line EXCEPT ![t].connected = TRUE, ![t].owes = Capped,
                                  ![t].wait = "waiting"]
          /\ UNCHANGED <<gate, via>>
      BY <1>3 DEF Connect
    <2>3. Capped \in SUBSET History /\ q \in Seq(Event) /\ Items(q) = Capped /\ Sorted(q)
      <3>1. Capped \in SUBSET History
        BY DEF Capped, Eligible
      <3> QED
        BY <3>1, FlushInSequence, FlushSorted
    <2>4. \A r \in Transports : /\ line'[r].session = line[r].session
                                /\ r # t => line'[r].owes = line[r].owes
      BY <1>1, <2>2 DEF Lines
    <2>5. line'[t].owes = Capped
      BY <1>1, <2>2 DEF Lines
    <2>6. \A m \in Live : via[m] # t /\ m \notin Items(q)
      BY <1>1, <2>3, Numbers DEF IInv, Places, Opened
    <2>7. Handed(t) = {}
      BY <1>1, <2>6 DEF Handed, IInv, Flushing
    <2>8. Handed(t)' = Handed(t) \cup Items(q)
      BY <2>2, <2>3, <2>5, <2>6, <2>7 DEF Handed
    <2>9. \A r \in Transports : r # t => Handed(r)' = Handed(r)
      BY <2>2, <2>4 DEF Handed
    <2>10. Gated'
      BY <2>2 DEF OInv, Gated
    <2>11. \A m \in Live : via'[m] = via[m] /\ m \notin Items(q)
      BY <2>2, <2>6
    <2> QED
      BY <1>1, <2>1, <2>3, <2>4, <2>7, <2>8, <2>9, <2>10, <2>11, HandKeeps
  <1> QED
    BY <1>2, <1>3

LEMMA AfterFlushInOrder ==
    ASSUME IInv, OInv, NEW t \in Transports, AfterFlush(t)
    PROVE  OInv' /\ (Delivery!Progress \/ Delivery!Hand(t))
  <1>1. /\ line' = [line EXCEPT ![t].wait = "over"] /\ UNCHANGED <<seen, prior, wire, gone>>
        /\ line \in [Transports -> Lines] /\ UNCHANGED transport
    BY DEF AfterFlush, server, IInv, TypeOK
  <1>2. \A r \in Transports : line'[r].session = line[r].session /\ line'[r].owes = line[r].owes
    BY <1>1 DEF Lines
  <1>3. CASE transport = t
    <2>1. DrainGate(t)
      BY <1>3 DEF AfterFlush, StillInUse
    <2> QED
      BY <1>1, <1>2, <1>3, <2>1, DrainHands
  <1>4. CASE transport # t
    <2>1. UNCHANGED <<gate, up, via>>
      BY <1>4 DEF AfterFlush, StillInUse
    <2>2. Gated'
      BY <2>1 DEF OInv, Gated
    <2>3. \A r \in Transports : GaveUp(r)' = GaveUp(r) /\ InStep(up[r])
      BY <1>1 DEF GaveUp, OInv, Kept
    <2> QED
      BY <1>1, <1>2, <2>1, <2>2, <2>3, StillKeeps
  <1> QED
    BY <1>3, <1>4

LEMMA WriteInOrder ==
    ASSUME IInv, OInv, WriteMessage
    PROVE  OInv' /\ (Delivery!Progress \/ \E t \in Transports : Delivery!Hand(t))
  <1> DEFINE m == written + 1
  <1>1. m \in Live /\ UNCHANGED <<transport, line, seen, prior, wire, gone>>
    BY DEF WriteMessage, server
  <1>2. /\ gate.queued \in Seq(Live) /\ Items(gate.queued) \subseteq Live
        /\ \A e \in Live : e \in Items(gate.queued) => via[e] = 0 /\ e \leq written
    BY QueueFacts DEF IInv
  <1>3. /\ written \in Nat /\ m > written /\ via[m] = 0
        /\ \A e \in Live : e \leq written => e < m
        /\ \A e \in Live : via[e] # 0 => e < m
    BY <1>1, Numbers DEF IInv, TypeOK, Places
  <1>4. gate \in [active : BOOLEAN, queued : Seq(Live)]
    BY DEF IInv, TypeOK
  <1> HIDE DEF m
  <1>5. CASE ~gate.active /\ transport # 0
    <2> DEFINE msgs == <<m>>
    <2>1. PICK t \in Transports : transport = t
      BY <1>5 DEF IInv, TypeOK
    <2>2. gate' = gate /\ Send(t, msgs)
      BY <1>5, <2>1 DEF WriteMessage, Held, m
    <2>3. msgs \in Seq(Live) /\ Items(msgs) = {m} /\ Sorted(msgs)
      BY <1>1 DEF Items, Sorted
    <2>4. gate.queued = <<>>
      BY <1>5 DEF OInv, Gated
    <2>5. Gated'
      BY <2>2, <2>4, SortedNone, ItemsOfNone DEF Gated
    <2> HIDE DEF msgs
    <2>6. /\ \A e \in Live : e \in Items(msgs) => via[e] = 0
          /\ \A e, f \in Live : via[e] # 0 /\ f \in Items(msgs) => e < f
      BY <1>3, <2>3
    <2>7. Delivery!Hand(t) /\ OInv'
      BY <1>1, <2>1, <2>2, <2>3, <2>5, <2>6, SendHands
    <2> QED
      BY <2>1, <2>7
  <1>6. CASE gate.active \/ transport = 0
    <2>1. UNCHANGED <<up, via>>
      BY <1>4, <1>6 DEF WriteMessage, Held
    <2>2. \/ gate' = gate
          \/ gate.active /\ gate' = [gate EXCEPT !.queued = Append(@, m)]
      BY <1>4, <1>6 DEF WriteMessage, Held, m
    <2>3. Gated'
      <3>1. CASE gate' = gate
        BY <2>1, <3>1 DEF OInv, Gated
      <3>2. CASE gate.active /\ gate' = [gate EXCEPT !.queued = Append(@, m)]
        <4> DEFINE q == Append(gate.queued, m)
        <4>1. gate'.queued = q /\ gate'.active
          BY <1>4, <3>2
        <4>2. Items(q) = Items(gate.queued) \cup {m}
          BY <1>1, <1>2, ItemsOfAppend
        <4>3. Sorted(q)
          <5>1. \A x \in Items(gate.queued) : x < m
            BY <1>2, <1>3
          <5> QED
            BY <1>1, <1>2, <5>1, EventsAreNumbers, SortedAppend DEF OInv, Gated
        <4> HIDE DEF q
        <4> QED
          BY <1>3, <2>1, <4>1, <4>2, <4>3 DEF OInv, Gated
      <3> QED
        BY <2>2, <3>1, <3>2
    <2>4. \A r \in Transports : GaveUp(r)' = GaveUp(r) /\ InStep(up[r])
      BY <1>1 DEF GaveUp, OInv, Kept
    <2> QED
      BY <1>1, <2>1, <2>3, <2>4, StillKeeps
  <1> QED
    BY <1>5, <1>6

(* The drain loop of one uploader moves on. *)
LEMMA TurnInOrder ==
    ASSUME IInv, OInv, NEW t \in Transports,
           NEW u \in Uploaders(Event), Tidy(u), InStep(u),
           Drained(u) => Holds(u) = {}, Holds(u) \subseteq Holds(up[t]),
           SetUploader(t, u), UNCHANGED <<bridge, via>>,
           \/ UNCHANGED <<seen, prior>>
           \/ LogIn(line[t].session, up[t].batch),
           wire' \subseteq wire \cup {<<line[t].session, up[t].batch>>},
           \A r \in Transports : GaveUp(r) \subseteq GaveUp(r)',
           \A r \in Transports : r # t => gone'[r] = gone[r],
           GaveUp(t)' \subseteq GaveUp(t) \cup Items(up[t].batch),
           Holds(up[t]) \subseteq Holds(u) \cup seen'[line[t].session] \cup GaveUp(t)'
    PROVE  OInv' /\ Delivery!Progress
  <1> DEFINE v == IF Drained(u) /\ line[t].closing THEN Closed(u) ELSE u
             s == line[t].session
             b == up[t].batch
  <1>1. /\ up \in [Transports -> Uploaders(Event)] /\ line \in [Transports -> Lines]
        /\ s \in Sessions /\ b \in Seq(Event)
        /\ \A r \in Transports : InStep(up[r])
    BY Shape DEF IInv, TypeOK, Lines, OInv, Kept
  <1>2. InStep(v) /\ Holds(v) = Holds(u)
    BY ClosedFacts, ClosedInStep
  <1>3. up' = [up EXCEPT ![t] = v]
    BY DEF SetUploader
  <1>4. \A r \in Transports : line'[r].session = line[r].session /\ line'[r].owes = line[r].owes
    <2>1. line' = [line EXCEPT ![t].wait =
                      IF Drained(u) /\ @ = "waiting" THEN "resolved" ELSE @]
      BY DEF SetUploader
    <2> QED
      BY <1>1, <2>1 DEF Lines
  <1>5. Fits(b)
    BY BatchFits
  <1>6. \A m \in Live : m \in Items(b) => via[m] # 0 /\ line[via[m]].session = s
    <2>1. \A m \in Live : m \in Items(b) => via[m] = t
      BY DEF IInv, Places, Holds
    <2> QED
      BY <2>1, Numbers
  <1> HIDE DEF v, s, b
  <1>7. up'[t] = v /\ \A r \in Transports : r # t => up'[r] = up[r]
    BY <1>1, <1>3
  <1>8. Gated'
    BY DEF bridge, OInv, Gated
  <1>9. \A r \in Transports :
          /\ GaveUp(r) \subseteq GaveUp(r)'
          /\ GaveUp(r)' \subseteq GaveUp(r) \cup Holds(up[r])
    <2>1. GaveUp(t)' \subseteq GaveUp(t) \cup Holds(up[t])
      BY DEF Holds
    <2>2. \A r \in Transports : r # t => GaveUp(r)' = GaveUp(r)
      BY DEF GaveUp
    <2> QED
      BY <2>1, <2>2
  <1>10. \A r \in Transports :
           /\ InStep(up'[r]) /\ Holds(up'[r]) \subseteq Holds(up[r])
           /\ Holds(up[r]) \subseteq Holds(up'[r]) \cup Done(r)'
    <2>1. Done(t)' = seen'[s] \cup GaveUp(t)'
      BY <1>4 DEF Done, s
    <2> QED
      BY <1>1, <1>2, <1>7, <2>1 DEF s
  <1>11. \A post \in wire' : post \in wire \/ Fits(post[2])
    <2>1. \A post \in wire' : post \in wire \/ post = <<s, b>>
      BY DEF s, b
    <2> QED
      BY <1>5, <2>1
  <1>12. \/ UNCHANGED <<seen, prior>>
         \/ \E q \in Sessions, c \in Seq(Event) :
              /\ LogIn(q, c) /\ Fits(c)
              /\ \A m \in Live : m \in Items(c) => via[m] # 0 /\ line[via[m]].session = q
    <2>1. (UNCHANGED <<seen, prior>>) \/ LogIn(s, b)
      BY DEF s, b
    <2> QED
      BY <1>1, <1>5, <1>6, <2>1 DEF s, b
  <1> QED
    BY <1>4, <1>8, <1>9, <1>10, <1>11, <1>12, StillKeeps

LEMMA AnswerInOrder ==
    ASSUME IInv, OInv, NEW t \in Transports, Answer(t) \/ Wake(t)
    PROVE  OInv' /\ Delivery!Progress
  <1> DEFINE u == up[t]  s == line[t].session
  <1>1. /\ u \in Uploaders(Event) /\ Tidy(u) /\ InStep(u)
        /\ u.batch \in Seq(Event) /\ TypeOK /\ s \in Sessions
    <2>1. up[t] \in Uploaders(Event) /\ line[t] \in Lines /\ Tidy(up[t]) /\ InStep(up[t]) /\ TypeOK
      BY DEF IInv, TypeOK, Uses, OInv, Kept
    <2> QED
      BY <2>1, Shape DEF Lines
  <1>2. UNCHANGED <<bridge, via>>
    BY DEF Answer, Posted, Refused, NotPosted, TimedOut, Wake
  <1>3. /\ Sent(u) \in Uploaders(Event) /\ Tidy(Sent(u)) /\ InStep(Sent(u))
        /\ Drained(Sent(u)) => Holds(Sent(u)) = {}
        /\ Holds(Sent(u)) \subseteq Holds(u)
        /\ Holds(u) \subseteq Holds(Sent(u)) \cup Items(u.batch)
    <2>1. InStep(Sent(u))
      BY <1>1, EventsAreNumbers, SentInStep
    <2> QED
      BY <1>1, <2>1, SentFacts DEF Holds
  <1>4. gone' = gone => /\ \A r \in Transports : GaveUp(r)' = GaveUp(r)
                        /\ \A r \in Transports : r # t => gone'[r] = gone[r]
    BY DEF GaveUp
  <1>5. CASE Posted(t)
    <2>1. SetUploader(t, Sent(u)) /\ LogIn(s, u.batch) /\ wire' = wire /\ gone' = gone
      BY <1>5 DEF Posted
    <2>2. Items(u.batch) \subseteq seen'[s]
      BY <1>1, <2>1, LogFacts
    <2>3. GaveUp(t)' = GaveUp(t)
      BY <1>4, <2>1
    <2> HIDE DEF u, s
    <2> QED
      BY <1>1, <1>2, <1>3, <1>4, <2>1, <2>2, <2>3, TurnInOrder DEF u, s
  <1>6. CASE Refused(t)
    <2>1. /\ SetUploader(t, Sent(u)) /\ UNCHANGED <<seen, prior, wire>>
          /\ gone' = [gone EXCEPT ![t].refused = @ \cup Items(u.batch)]
      BY <1>6 DEF Refused, server
    <2>2. /\ \A r \in Transports : GaveUp(r) \subseteq GaveUp(r)'
          /\ \A r \in Transports : r # t => gone'[r] = gone[r]
          /\ Items(u.batch) \subseteq GaveUp(t)'
          /\ GaveUp(t)' \subseteq GaveUp(t) \cup Items(u.batch)
      BY <1>1, <2>1, GoneGrows
    <2> HIDE DEF u, s
    <2> QED
      BY <1>1, <1>2, <1>3, <2>1, <2>2, TurnInOrder DEF u
  <1>7. CASE NotPosted(t) \/ TimedOut(t)
    <2> DEFINE v == SendFailed(u)
    <2>1. /\ SetUploader(t, v) /\ UNCHANGED <<seen, prior>>
          /\ wire' \subseteq wire \cup {<<s, u.batch>>}
          /\ gone' = IF LastFailure(u)
                     THEN [gone EXCEPT ![t].dropped = @ \cup Items(u.batch)] ELSE gone
      BY <1>7 DEF NotPosted, TimedOut, Fails, server
    <2>2. /\ v \in Uploaders(Event) /\ Tidy(v)
          /\ Drained(v) => Holds(v) = {}
          /\ Holds(v) \subseteq Holds(u)
          /\ ~LastFailure(u) => Holds(v) = Holds(u)
          /\ Holds(u) \subseteq Holds(v) \cup Items(u.batch)
      BY <1>1, FailedFacts
    <2>3. InStep(v)
      <3>1. v = Sent(u) \/ v = Requeued(u)
        BY <1>1, SentFacts DEF SendFailed
      <3> QED
        BY <1>1, <1>3, <3>1, EventsAreNumbers, RequeuedInStep
    <2>4. /\ \A r \in Transports : GaveUp(r) \subseteq GaveUp(r)'
          /\ \A r \in Transports : r # t => gone'[r] = gone[r]
          /\ GaveUp(t)' \subseteq GaveUp(t) \cup Items(u.batch)
          /\ LastFailure(u) => Items(u.batch) \subseteq GaveUp(t)'
      <3>1. CASE LastFailure(u)
        BY <1>1, <2>1, <3>1, GoneGrows
      <3>2. CASE ~LastFailure(u)
        BY <1>4, <2>1, <3>2
      <3> QED
        BY <3>1, <3>2
    <2>5. Holds(u) \subseteq Holds(v) \cup seen'[s] \cup GaveUp(t)'
      BY <2>2, <2>4
    <2> HIDE DEF v, u, s
    <2> QED
      BY <1>1, <1>2, <2>1, <2>2, <2>3, <2>4, <2>5, TurnInOrder DEF u, s
  <1>8. CASE Wake(t)
    <2> DEFINE v == NextTurn(u)
    <2>1. /\ SetUploader(t, v) /\ UNCHANGED <<seen, prior, wire, gone>> /\ u.phase = "sleeping"
      BY <1>8 DEF Wake, server
    <2>2. u.batch = <<>>
      BY <1>1, <2>1 DEF Tidy
    <2>3. /\ v \in Uploaders(Event) /\ Tidy(v) /\ InStep(v)
          /\ Drained(v) => Holds(v) = {}
          /\ Holds(v) = Holds(u)
      <3>1. InStep(v)
        BY <1>1, EventsAreNumbers, NextTurnInStep DEF InStep
      <3> QED
        BY <1>1, <2>2, <3>1, NextTurnFacts, ItemsOfNone DEF Holds
    <2>4. GaveUp(t)' = GaveUp(t)
      BY <1>4, <2>1
    <2> HIDE DEF v, u, s
    <2> QED
      BY <1>1, <1>2, <1>4, <2>1, <2>3, <2>4, TurnInOrder DEF u, s
  <1> QED
    BY <1>5, <1>6, <1>7, <1>8 DEF Answer

LEMMA LateInOrder ==
    ASSUME IInv, OInv, NEW post \in wire, ArrivesLate(post)
    PROVE  OInv' /\ Delivery!Progress
  <1> DEFINE s == post[1]  b == post[2]
  <1>1. s \in Sessions /\ b \in Seq(Event) /\ Fits(b)
    BY DEF IInv, TypeOK, OInv, Posts
  <1>2. LogIn(s, b) /\ wire' \subseteq wire /\ UNCHANGED <<bridge, line, up, via, gone>>
    BY DEF ArrivesLate
  <1>3. \A m \in Live : m \in Items(b) => via[m] # 0 /\ line[via[m]].session = s
    BY DEF IInv, Places
  <1> HIDE DEF s, b
  <1>4. Gated'
    BY <1>2 DEF bridge, OInv, Gated
  <1>5. \A r \in Transports : GaveUp(r)' = GaveUp(r) /\ InStep(up[r])
    BY <1>2 DEF GaveUp, OInv, Kept
  <1>6. \E q \in Sessions, c \in Seq(Event) :
            /\ LogIn(q, c) /\ Fits(c)
            /\ \A m \in Live : m \in Items(c) => via[m] # 0 /\ line[via[m]].session = q
    BY <1>1, <1>2, <1>3
  <1> QED
    BY <1>2, <1>4, <1>5, <1>6, StillKeeps

LEMMA GraceInOrder ==
    ASSUME IInv, OInv, NEW t \in Transports, GraceOver(t)
    PROVE  OInv' /\ Delivery!Progress
  <1> DEFINE v == Closed(up[t])
             more == Items(up[t].pending) \cup Items(up[t].batch)
             f == [gone[t] EXCEPT !.left = @ \cup more]
  <1>1. /\ up[t] \in Uploaders(Event) /\ Tidy(up[t]) /\ gone[t] \in Fates
        /\ up \in [Transports -> Uploaders(Event)] /\ line \in [Transports -> Lines]
        /\ gone \in [Transports -> Fates]
        /\ \A r \in Transports : InStep(up[r])
    BY DEF IInv, TypeOK, Uses, OInv, Kept
  <1>2. up' = [up EXCEPT ![t] = v] /\ UNCHANGED <<bridge, server, via>>
    BY DEF GraceOver
  <1>3. gone' = [gone EXCEPT ![t] = f]
    BY DEF GraceOver
  <1>4. more = Holds(up[t])
    BY DEF Holds
  <1>5. InStep(v) /\ Holds(v) \subseteq Holds(up[t])
    BY <1>1, ClosedFacts, ClosedInStep DEF Holds
  <1>6. /\ f.left = gone[t].left \cup more
        /\ f.dropped = gone[t].dropped /\ f.refused = gone[t].refused
    BY <1>1 DEF Fates
  <1>7. \A r \in Transports : line'[r].session = line[r].session /\ line'[r].owes = line[r].owes
    <2>1. line' = [line EXCEPT ![t].wait = IF @ = "waiting" THEN "resolved" ELSE @]
      BY DEF GraceOver
    <2> QED
      BY <1>1, <2>1 DEF Lines
  <1> HIDE DEF v, f, more
  <1>8. /\ up'[t] = v /\ gone'[t] = f
        /\ \A r \in Transports : r # t => up'[r] = up[r] /\ gone'[r] = gone[r]
    BY <1>1, <1>2, <1>3
  <1>9. GaveUp(t)' = GaveUp(t) \cup Holds(up[t])
    BY <1>4, <1>6, <1>8 DEF GaveUp
  <1>10. \A r \in Transports : r # t => GaveUp(r)' = GaveUp(r)
    BY <1>8 DEF GaveUp
  <1>11. Gated'
    BY <1>2 DEF bridge, OInv, Gated
  <1>12. \A r \in Transports :
           /\ InStep(up'[r]) /\ Holds(up'[r]) \subseteq Holds(up[r])
           /\ Holds(up[r]) \subseteq Holds(up'[r]) \cup Done(r)'
    BY <1>1, <1>5, <1>8, <1>9 DEF Done
  <1> QED
    BY <1>2, <1>7, <1>9, <1>10, <1>11, <1>12, StillKeeps DEF server
-----------------------------------------------------------------------------
LEMMA StepInOrder ==
    ASSUME IInv, OInv, [Next]_vars
    PROVE  OInv' /\ Delivery!Next
  <1>0. Delivery!Progress => Delivery!Next
    BY DEF Delivery!Next
  <1>1. CASE Work
    BY <1>0, <1>1, WorkInOrder
  <1>2. CASE WriteMessage
    BY <1>2, WriteInOrder DEF Delivery!Next
  <1>3. CASE LeaseLost \/ EnvironmentLost
    BY <1>0, <1>3, TakenInOrder
  <1>4. CASE JoinReconnect \/ Registered \/ SwapSession \/ ClearFlushed \/ UNCHANGED vars
    BY <1>0, <1>4, QuietInOrder
  <1>5. ASSUME NEW t \in Transports, Move(t) \/ Connect(t) \/ PermanentClose(t)
        PROVE  OInv' /\ Delivery!Next
    <2>1. CASE Answer(t) \/ Wake(t)
      BY <1>0, <2>1, AnswerInOrder
    <2>2. CASE GraceOver(t)
      BY <1>0, <2>2, GraceInOrder
    <2>3. CASE AfterFlush(t)
      BY <2>3, AfterFlushInOrder DEF Delivery!Next
    <2>4. CASE Connect(t)
      BY <2>4, ConnectInOrder DEF Delivery!Next
    <2>5. CASE PermanentClose(t)
      <3>1. PermanentClose(transport)
        BY <2>5 DEF PermanentClose, IsCurrent
      <3> QED
        BY <1>0, <3>1, TakenInOrder
    <2> QED
      BY <1>5, <2>1, <2>2, <2>3, <2>4, <2>5 DEF Move
  <1>6. ASSUME NEW post \in wire, ArrivesLate(post)
        PROVE  OInv' /\ Delivery!Next
    BY <1>0, <1>6, LateInOrder
  <1> QED
    BY <1>1, <1>2, <1>3, <1>4, <1>5, <1>6 DEF Next

LEMMA InductiveOrder == Spec => [](IInv /\ OInv)
  <1>1. Init => IInv /\ OInv
    BY InitKeeps, InitInOrder
  <1>2. IInv /\ OInv /\ [Next]_vars => (IInv /\ OInv)'
    BY StepKeeps, StepInOrder
  <1> QED
    BY <1>1, <1>2, PTL DEF Spec

(* Of two messages given to one transport the later is logged after the     *)
(* earlier, whatever fails, is repeated, or arrives after its time-out.     *)
THEOREM OrderIsKept == Spec => []InOrder
  <1>1. IInv /\ OInv => InOrder
    <2> SUFFICES ASSUME IInv, OInv, NEW m \in Live, NEW n \in Live, m < n, via[m] # 0,
                        via[m] = via[n], n \in seen[line[via[n]].session]
                 PROVE  m \in prior[n] \cup GaveUp(via[n])
      BY DEF InOrder
    <2>1. via[n] \in Transports
      BY DEF IInv, TypeOK
    <2> QED
      BY <2>1 DEF OInv, OrderOn
  <1> QED
    BY <1>1, InductiveOrder, PTL

(* The uplink, with its gate, its buffers, its POSTs and their failures,    *)
(* implements the ordered delivery of events to sessions.                   *)
THEOREM UplinkDelivers == Spec => DeliversInOrder
  <1>1. Init => Delivery!Init
    BY InitInOrder
  <1>2. IInv /\ OInv /\ [Next]_vars => [Delivery!Next]_(Delivery!delivery)
    BY StepInOrder
  <1> QED
    BY <1>1, <1>2, InductiveOrder, PTL DEF Spec, DeliversInOrder, Delivery!Spec
=============================================================================
