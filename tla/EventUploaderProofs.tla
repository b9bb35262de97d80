------------------------- MODULE EventUploaderProofs -------------------------
(***************************************************************************)
(* What the operations of one uploader keep: the shape of its record, and  *)
(* the events it holds.                                                    *)
(***************************************************************************)
EXTENDS EventUploader, TLAPS

USE UploaderConstants

(* The events an uploader still has to deliver. *)
Holds(u) == Items(u.pending) \cup Items(u.batch)

(* Only a POST in flight carries a batch. *)
Tidy(u) == u.phase # "sending" => u.batch = <<>>

-----------------------------------------------------------------------------
(* Sequences *)

LEMMA ItemsOfNone == Items(<<>>) = {}
  BY DEF Items

LEMMA ItemsTyped ==
    ASSUME NEW S, NEW s \in Seq(S)
    PROVE  Items(s) \subseteq S
  BY DEF Items

LEMMA ItemsOfConcat ==
    ASSUME NEW S, NEW s \in Seq(S), NEW r \in Seq(S)
    PROVE  /\ s \o r \in Seq(S)
           /\ Items(s \o r) = Items(s) \cup Items(r)
  <1>1. Items(s \o r) \subseteq Items(s) \cup Items(r)
    BY DEF Items
  <1>2. Items(s) \subseteq Items(s \o r)
    BY DEF Items
  <1>3. Items(r) \subseteq Items(s \o r)
    <2> SUFFICES ASSUME NEW j \in DOMAIN r
                 PROVE  r[j] \in Items(s \o r)
      BY DEF Items
    <2>1. Len(s) + j \in DOMAIN (s \o r) /\ (s \o r)[Len(s) + j] = r[j]
      OBVIOUS
    <2> QED
      BY <2>1 DEF Items
  <1> QED
    BY <1>1, <1>2, <1>3

LEMMA ItemsOfAppend ==
    ASSUME NEW S, NEW s \in Seq(S), NEW e \in S
    PROVE  /\ Append(s, e) \in Seq(S)
           /\ Items(Append(s, e)) = Items(s) \cup {e}
  <1> DEFINE one == <<e>>
  <1>1. one \in Seq(S) /\ Items(one) = {e}
    BY DEF Items
  <1>2. Append(s, e) = s \o one
    OBVIOUS
  <1> HIDE DEF one
  <1> QED
    BY <1>1, <1>2, ItemsOfConcat

(* A batch and what it leaves are the buffer, cut in two. *)
LEMMA BatchCuts ==
    ASSUME NEW S, NEW s \in Seq(S)
    PROVE  /\ BatchLength(s) \in 0 .. Len(s)
           /\ TakeBatch(s) \in Seq(S) /\ AfterBatch(s) \in Seq(S)
           /\ Len(TakeBatch(s)) = BatchLength(s)
           /\ Len(AfterBatch(s)) = Len(s) - BatchLength(s)
           /\ \A i \in 1 .. BatchLength(s) : TakeBatch(s)[i] = s[i]
           /\ \A i \in 1 .. Len(s) - BatchLength(s) :
                 AfterBatch(s)[i] = s[BatchLength(s) + i]
  <1>1. BatchLength(s) \in 0 .. Len(s)
    BY DEF BatchLength
  <1> DEFINE k == BatchLength(s)
  <1> HIDE DEF k
  <1>2. k \in 0 .. Len(s)
    BY <1>1 DEF k
  <1>3. /\ SubSeq(s, 1, k) \in Seq(S) /\ Len(SubSeq(s, 1, k)) = k
        /\ \A i \in 1 .. k : SubSeq(s, 1, k)[i] = s[i]
    BY <1>2
  <1>4. /\ SubSeq(s, k + 1, Len(s)) \in Seq(S)
        /\ Len(SubSeq(s, k + 1, Len(s))) = Len(s) - k
        /\ \A i \in 1 .. Len(s) - k : SubSeq(s, k + 1, Len(s))[i] = s[k + i]
    BY <1>2
  <1> QED
    BY <1>1, <1>3, <1>4 DEF TakeBatch, AfterBatch, k

LEMMA ItemsOfCut ==
    ASSUME NEW S, NEW s \in Seq(S)
    PROVE  Items(s) = Items(TakeBatch(s)) \cup Items(AfterBatch(s))
  <1> DEFINE k == BatchLength(s)  b == TakeBatch(s)  r == AfterBatch(s)
  <1> HIDE DEF k, b, r
  <1>1. /\ k \in 0 .. Len(s) /\ b \in Seq(S) /\ r \in Seq(S)
        /\ Len(b) = k /\ Len(r) = Len(s) - k
        /\ \A i \in 1 .. k : b[i] = s[i]
        /\ \A i \in 1 .. Len(s) - k : r[i] = s[k + i]
    BY BatchCuts DEF k, b, r
  <1>2. Items(b) \subseteq Items(s)
    BY <1>1 DEF Items
  <1>3. Items(r) \subseteq Items(s)
    <2> SUFFICES ASSUME NEW i \in DOMAIN r
                 PROVE  r[i] \in Items(s)
      BY DEF Items
    <2>1. i \in 1 .. Len(s) - k /\ k + i \in DOMAIN s
      BY <1>1
    <2> QED
      BY <1>1, <2>1 DEF Items
  <1>4. Items(s) \subseteq Items(b) \cup Items(r)
    <2> SUFFICES ASSUME NEW i \in DOMAIN s
                 PROVE  s[i] \in Items(b) \cup Items(r)
      BY DEF Items
    <2>1. CASE i \leq k
      <3>1. i \in 1 .. k /\ i \in DOMAIN b
        BY <1>1, <2>1
      <3> QED
        BY <1>1, <3>1 DEF Items
    <2>2. CASE i > k
      <3>1. i - k \in 1 .. Len(s) - k /\ i - k \in DOMAIN r /\ k + (i - k) = i
        BY <1>1, <2>2
      <3> QED
        BY <1>1, <3>1 DEF Items
    <2> QED
      BY <1>1, <2>1, <2>2
  <1> QED
    BY <1>2, <1>3, <1>4 DEF b, r
-----------------------------------------------------------------------------
(* The operations *)

LEMMA Shape ==
    ASSUME NEW Event, NEW u \in Uploaders(Event)
    PROVE  /\ u.pending \in Seq(Event) /\ u.batch \in Seq(Event)
           /\ u.phase \in {"idle", "sending", "sleeping"}
           /\ u.fails \in Nat /\ u.closed \in BOOLEAN /\ <<>> \in Seq(Event)
  BY DEF Uploaders

LEMMA NewUploaderFacts ==
    ASSUME NEW Event
    PROVE  /\ NewUploader \in Uploaders(Event) /\ Tidy(NewUploader)
           /\ Holds(NewUploader) = {} /\ ~NewUploader.closed
  BY ItemsOfNone DEF NewUploader, Uploaders, Tidy, Holds

(* The drain loop's turn keeps what is buffered, and ends with nothing. *)
LEMMA NextTurnFacts ==
    ASSUME NEW Event, NEW u \in Uploaders(Event)
    PROVE  LET v == NextTurn(u) IN
           /\ v \in Uploaders(Event) /\ Tidy(v) /\ v.closed = u.closed
           /\ Holds(v) = Items(u.pending)
           /\ Drained(v) => Holds(v) = {}
  <1> DEFINE v == NextTurn(u)
  <1>1. /\ TakeBatch(u.pending) \in Seq(Event) /\ AfterBatch(u.pending) \in Seq(Event)
        /\ Items(u.pending) = Items(TakeBatch(u.pending)) \cup Items(AfterBatch(u.pending))
    BY BatchCuts, ItemsOfCut DEF Uploaders
  <1>2. CASE u.pending # <<>> /\ ~u.closed
    <2>1. v = [u EXCEPT !.pending = AfterBatch(u.pending),
                        !.batch = TakeBatch(u.pending), !.phase = "sending"]
      BY <1>2 DEF NextTurn
    <2> HIDE DEF v
    <2>2. v \in Uploaders(Event)
      BY <1>1, <2>1 DEF Uploaders
    <2>3. /\ v.pending = AfterBatch(u.pending) /\ v.batch = TakeBatch(u.pending)
          /\ v.phase = "sending" /\ v.closed = u.closed
      BY <2>1 DEF Uploaders
    <2> QED
      BY <1>1, <2>2, <2>3 DEF v, Tidy, Holds, Drained
  <1>3. CASE ~(u.pending # <<>> /\ ~u.closed)
    <2>1. v = [u EXCEPT !.batch = <<>>, !.phase = "idle", !.fails = 0]
      BY <1>3 DEF NextTurn
    <2> HIDE DEF v
    <2>2. v \in Uploaders(Event)
      BY <2>1, Shape DEF Uploaders
    <2>3. /\ v.pending = u.pending /\ v.batch = <<>> /\ v.phase = "idle"
          /\ v.closed = u.closed
      BY <2>1 DEF Uploaders
    <2> QED
      BY <2>2, <2>3, ItemsOfNone DEF v, Tidy, Holds, Drained
  <1> QED
    BY <1>2, <1>3

LEMMA EnqueueFacts ==
    ASSUME NEW Event, NEW u \in Uploaders(Event), NEW events \in Seq(Event), Tidy(u)
    PROVE  LET v == Enqueue(u, events) IN
           /\ v \in Uploaders(Event) /\ Tidy(v) /\ v.closed = u.closed
           /\ ~u.closed => Holds(v) = Holds(u) \cup Items(events)
           /\ u.closed => v = u
  <1> DEFINE more == [u EXCEPT !.pending = @ \o events]
  <1>0. /\ u.pending \o events \in Seq(Event)
        /\ Items(u.pending \o events) = Items(u.pending) \cup Items(events)
    BY ItemsOfConcat, Shape
  <1>1. /\ more \in Uploaders(Event) /\ Tidy(more) /\ more.closed = u.closed
        /\ more.batch = u.batch
        /\ Items(more.pending) = Items(u.pending) \cup Items(events)
    <2>1. more \in Uploaders(Event)
      BY <1>0 DEF Uploaders
    <2>2. /\ more.pending = u.pending \o events /\ more.batch = u.batch
          /\ more.phase = u.phase /\ more.closed = u.closed
      BY DEF Uploaders
    <2> HIDE DEF more
    <2> QED
      BY <1>0, <2>1, <2>2 DEF Tidy
  <1>2. CASE ~u.closed /\ u.phase = "idle"
    <2>1. Enqueue(u, events) = NextTurn(more)
      BY <1>2 DEF Enqueue
    <2>2. Items(u.batch) = {}
      BY <1>2, ItemsOfNone DEF Tidy
    <2>3. /\ NextTurn(more) \in Uploaders(Event) /\ Tidy(NextTurn(more))
          /\ NextTurn(more).closed = more.closed
          /\ Holds(NextTurn(more)) = Items(more.pending)
      <3> HIDE DEF more
      <3> QED
        BY <1>1, NextTurnFacts
    <2> HIDE DEF more
    <2> QED
      BY <1>1, <1>2, <2>1, <2>2, <2>3 DEF Holds
  <1>3. CASE ~u.closed /\ u.phase # "idle"
    <2>1. Enqueue(u, events) = more
      BY <1>3 DEF Enqueue
    <2> HIDE DEF more
    <2> QED
      BY <1>1, <1>3, <2>1 DEF Holds
  <1>4. CASE u.closed
    BY <1>4 DEF Enqueue
  <1> QED
    BY <1>2, <1>3, <1>4

(* A batch that is done with, delivered or not, is all an uploader loses. *)
LEMMA SentFacts ==
    ASSUME NEW Event, NEW u \in Uploaders(Event)
    PROVE  LET v == Sent(u) IN
           /\ v \in Uploaders(Event) /\ Tidy(v) /\ v.closed = u.closed
           /\ Holds(v) = Items(u.pending) /\ (Drained(v) => Holds(v) = {})
           /\ Dropped(u) = v
  <1> DEFINE w == [u EXCEPT !.batch = <<>>, !.fails = 0]
  <1>1. w \in Uploaders(Event) /\ w.pending = u.pending /\ w.closed = u.closed
    BY Shape DEF Uploaders
  <1>2. Sent(u) = NextTurn(w) /\ Dropped(u) = NextTurn(w)
    BY DEF Sent, Dropped
  <1> HIDE DEF w
  <1> QED
    BY <1>1, <1>2, NextTurnFacts

LEMMA RequeuedFacts ==
    ASSUME NEW Event, NEW u \in Uploaders(Event)
    PROVE  LET v == Requeued(u) IN
           /\ v \in Uploaders(Event) /\ Tidy(v) /\ v.closed = u.closed
           /\ Holds(v) = Holds(u) /\ ~Drained(v)
  <1>1. /\ u.batch \o u.pending \in Seq(Event)
        /\ Items(u.batch \o u.pending) = Items(u.batch) \cup Items(u.pending)
    BY ItemsOfConcat, Shape
  <1>2. /\ Requeued(u).pending = u.batch \o u.pending
        /\ Requeued(u).batch = <<>> /\ Requeued(u).phase = "sleeping"
        /\ Requeued(u).closed = u.closed /\ Requeued(u) \in Uploaders(Event)
    <2> DEFINE p == u.batch \o u.pending  f == u.fails + 1
    <2>1. p \in Seq(Event) /\ f \in Nat /\ <<>> \in Seq(Event)
      BY <1>1, Shape
    <2>2. Requeued(u) = [u EXCEPT !.pending = p, !.batch = <<>>, !.fails = f,
                                  !.phase = "sleeping"]
      BY DEF Requeued
    <2> HIDE DEF p, f
    <2>3. Requeued(u) \in Uploaders(Event)
      BY <2>1, <2>2 DEF Uploaders
    <2>4. /\ Requeued(u).pending = p /\ Requeued(u).batch = <<>>
          /\ Requeued(u).phase = "sleeping" /\ Requeued(u).closed = u.closed
      BY <2>2 DEF Uploaders
    <2> QED
      BY <2>3, <2>4 DEF p
  <1> QED
    BY <1>1, <1>2, ItemsOfNone DEF Tidy, Holds, Drained

LEMMA ClosedFacts ==
    ASSUME NEW Event, NEW u \in Uploaders(Event), Tidy(u)
    PROVE  LET v == Closed(u) IN
           /\ v \in Uploaders(Event) /\ Tidy(v) /\ v.closed
           /\ Holds(v) = Items(u.batch)
           /\ Drained(u) => Holds(v) = Holds(u) /\ Holds(v) = {}
  <1>1. /\ Closed(u) \in Uploaders(Event) /\ Closed(u).closed
        /\ Closed(u).pending = <<>> /\ Closed(u).batch = u.batch
        /\ Closed(u).phase = (IF u.phase = "sleeping" THEN "idle" ELSE u.phase)
    <2> DEFINE ph == IF u.phase = "sleeping" THEN "idle" ELSE u.phase
               f == IF u.phase = "sleeping" THEN 0 ELSE u.fails
    <2>1. ph \in {"idle", "sending", "sleeping"} /\ f \in Nat /\ <<>> \in Seq(Event)
      BY Shape
    <2>2. Closed(u) = [u EXCEPT !.closed = TRUE, !.pending = <<>>, !.phase = ph,
                                !.fails = f]
      BY DEF Closed
    <2> HIDE DEF ph, f
    <2>3. Closed(u) \in Uploaders(Event)
      BY <2>1, <2>2 DEF Uploaders
    <2>4. /\ Closed(u).pending = <<>> /\ Closed(u).batch = u.batch
          /\ Closed(u).phase = ph /\ Closed(u).closed
      BY <2>2 DEF Uploaders
    <2> QED
      BY <2>3, <2>4 DEF ph
  <1> QED
    BY <1>1, ItemsOfNone DEF Tidy, Holds, Drained
-----------------------------------------------------------------------------
(* The order of what an uploader holds *)

Sorted(s) == \A i, j \in DOMAIN s : i < j => s[i] < s[j]

(* The batch in flight and then the buffer are one sorted sequence. *)
InStep(u) ==
    /\ Sorted(u.batch) /\ Sorted(u.pending)
    /\ \A x \in Items(u.batch), y \in Items(u.pending) : x < y

LEMMA SortedNone == Sorted(<<>>)
  BY DEF Sorted

LEMMA SortedConcat ==
    ASSUME NEW S \in SUBSET Nat, NEW s \in Seq(S), NEW r \in Seq(S),
           Sorted(s), Sorted(r), \A x \in Items(s), y \in Items(r) : x < y
    PROVE  Sorted(s \o r)
  <1> SUFFICES ASSUME NEW i \in 1 .. Len(s) + Len(r), NEW j \in 1 .. Len(s) + Len(r), i < j
               PROVE  (s \o r)[i] < (s \o r)[j]
    BY DEF Sorted
  <1>1. CASE j \leq Len(s)
    <2>1. i \in DOMAIN s /\ j \in DOMAIN s
      BY <1>1
    <2> QED
      BY <2>1 DEF Sorted
  <1>2. CASE i > Len(s)
    <2>1. i - Len(s) \in DOMAIN r /\ j - Len(s) \in DOMAIN r /\ i - Len(s) < j - Len(s)
      BY <1>2
    <2>2. (s \o r)[i] = r[i - Len(s)] /\ (s \o r)[j] = r[j - Len(s)]
      BY <1>2
    <2> QED
      BY <2>1, <2>2 DEF Sorted
  <1>3. CASE i \leq Len(s) /\ j > Len(s)
    <2>1. i \in DOMAIN s /\ j - Len(s) \in DOMAIN r
      BY <1>3
    <2>2. (s \o r)[i] = s[i] /\ (s \o r)[j] = r[j - Len(s)]
      BY <1>3
    <2> QED
      BY <2>1, <2>2 DEF Items
  <1> QED
    BY <1>1, <1>2, <1>3

LEMMA SortedAppend ==
    ASSUME NEW S \in SUBSET Nat, NEW s \in Seq(S), NEW e \in S,
           Sorted(s), \A x \in Items(s) : x < e
    PROVE  Sorted(Append(s, e))
  <1> DEFINE one == <<e>>
  <1>1. one \in Seq(S) /\ Items(one) = {e} /\ Sorted(one)
    BY DEF Items, Sorted
  <1>2. Append(s, e) = s \o one
    OBVIOUS
  <1> HIDE DEF one
  <1> QED
    BY <1>1, <1>2, SortedConcat

LEMMA SortedCut ==
    ASSUME NEW S \in SUBSET Nat, NEW s \in Seq(S), Sorted(s)
    PROVE  /\ Sorted(TakeBatch(s)) /\ Sorted(AfterBatch(s))
           /\ \A x \in Items(TakeBatch(s)), y \in Items(AfterBatch(s)) : x < y
  <1> DEFINE k == BatchLength(s)  b == TakeBatch(s)  r == AfterBatch(s)
  <1> HIDE DEF k, b, r
  <1>1. /\ k \in 0 .. Len(s) /\ b \in Seq(S) /\ r \in Seq(S)
        /\ Len(b) = k /\ Len(r) = Len(s) - k
        /\ \A i \in 1 .. k : b[i] = s[i]
        /\ \A i \in 1 .. Len(s) - k : r[i] = s[k + i]
    BY BatchCuts DEF k, b, r
  <1>2. Sorted(b)
    BY <1>1 DEF Sorted
  <1>3. Sorted(r)
    <2> SUFFICES ASSUME NEW i \in DOMAIN r, NEW j \in DOMAIN r, i < j
                 PROVE  r[i] < r[j]
      BY DEF Sorted
    <2>1. i \in 1 .. Len(s) - k /\ j \in 1 .. Len(s) - k
      BY <1>1
    <2>2. k + i \in DOMAIN s /\ k + j \in DOMAIN s /\ k + i < k + j
      BY <1>1, <2>1
    <2> QED
      BY <1>1, <2>1, <2>2 DEF Sorted
  <1>4. ASSUME NEW i \in DOMAIN b, NEW j \in DOMAIN r
        PROVE  b[i] < r[j]
    <2>1. i \in 1 .. k /\ j \in 1 .. Len(s) - k
      BY <1>1
    <2>2. i \in DOMAIN s /\ k + j \in DOMAIN s /\ i < k + j
      BY <1>1, <2>1
    <2> QED
      BY <1>1, <2>1, <2>2 DEF Sorted
  <1> QED
    BY <1>2, <1>3, <1>4 DEF Items, b, r

LEMMA NextTurnInStep ==
    ASSUME NEW Event \in SUBSET Nat, NEW u \in Uploaders(Event), Sorted(u.pending)
    PROVE  InStep(NextTurn(u))
  <1> DEFINE v == NextTurn(u)
  <1>1. u.pending \in Seq(Event)
    BY Shape
  <1>2. CASE u.pending # <<>> /\ ~u.closed
    <2>1. v.pending = AfterBatch(u.pending) /\ v.batch = TakeBatch(u.pending)
      BY <1>2 DEF NextTurn, Uploaders
    <2> HIDE DEF v
    <2> QED
      BY <1>1, <2>1, SortedCut DEF InStep, v
  <1>3. CASE ~(u.pending # <<>> /\ ~u.closed)
    <2>1. v.pending = u.pending /\ v.batch = <<>>
      BY <1>3 DEF NextTurn, Uploaders
    <2> HIDE DEF v
    <2> QED
      BY <2>1, SortedNone, ItemsOfNone DEF InStep, v
  <1> QED
    BY <1>2, <1>3

(* What comes after all that is held keeps an uploader in step. *)
LEMMA EnqueueInStep ==
    ASSUME NEW Event \in SUBSET Nat, NEW u \in Uploaders(Event), Tidy(u), InStep(u),
           NEW events \in Seq(Event), Sorted(events),
           \A x \in Holds(u), y \in Items(events) : x < y
    PROVE  InStep(Enqueue(u, events))
  <1> DEFINE p == u.pending \o events
             more == [u EXCEPT !.pending = p]
  <1>1. /\ u.pending \in Seq(Event) /\ u.batch \in Seq(Event)
        /\ p \in Seq(Event) /\ Items(p) = Items(u.pending) \cup Items(events)
    BY Shape, ItemsOfConcat
  <1>2. Sorted(p)
    BY <1>1, SortedConcat DEF InStep, Holds
  <1>3. Enqueue(u, events) = IF u.closed THEN u
                             ELSE IF u.phase = "idle" THEN NextTurn(more) ELSE more
    BY DEF Enqueue
  <1> HIDE DEF p
  <1>4. more \in Uploaders(Event) /\ more.pending = p /\ more.batch = u.batch
    BY <1>1 DEF Uploaders
  <1> HIDE DEF more
  <1>5. InStep(more)
    BY <1>1, <1>2, <1>4 DEF InStep, Holds
  <1>6. InStep(NextTurn(more))
    BY <1>2, <1>4, NextTurnInStep
  <1> QED
    BY <1>3, <1>5, <1>6

LEMMA SentInStep ==
    ASSUME NEW Event \in SUBSET Nat, NEW u \in Uploaders(Event), InStep(u)
    PROVE  InStep(Sent(u))
  <1> DEFINE w == [u EXCEPT !.batch = <<>>, !.fails = 0]
  <1>1. w \in Uploaders(Event) /\ w.pending = u.pending
    BY Shape DEF Uploaders
  <1>2. Sent(u) = NextTurn(w)
    BY DEF Sent
  <1> HIDE DEF w
  <1> QED
    BY <1>1, <1>2, NextTurnInStep DEF InStep

LEMMA RequeuedInStep ==
    ASSUME NEW Event \in SUBSET Nat, NEW u \in Uploaders(Event), InStep(u)
    PROVE  InStep(Requeued(u))
  <1> DEFINE p == u.batch \o u.pending
  <1>1. Sorted(p)
    BY Shape, SortedConcat DEF InStep
  <1>2. Requeued(u).pending = p /\ Requeued(u).batch = <<>>
    BY DEF Requeued, Uploaders
  <1> HIDE DEF p
  <1> QED
    BY <1>1, <1>2, SortedNone, ItemsOfNone DEF InStep

LEMMA ClosedInStep ==
    ASSUME NEW Event, NEW u \in Uploaders(Event), InStep(u)
    PROVE  InStep(Closed(u))
  <1>1. Closed(u).pending = <<>> /\ Closed(u).batch = u.batch
    BY DEF Closed, Uploaders
  <1> QED
    BY <1>1, SortedNone, ItemsOfNone DEF InStep
=============================================================================
