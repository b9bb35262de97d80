----------------------------- MODULE EventUploader -----------------------------
(***************************************************************************)
(* SerialBatchEventUploader (src/src/cli/transports/                       *)
(* SerialBatchEventUploader.ts): an ordered buffer emptied by one drain    *)
(* loop, one POST at a time.  An uploader is a record and every operator   *)
(* below is what the class does between two awaits, which JavaScript runs  *)
(* without interruption: the drain loop is at rest ("idle"), awaiting its  *)
(* POST ("sending") or in its back-off ("sleeping").                       *)
(*                                                                         *)
(* The buffer's limit (maxQueueSize, 100000 for the transport modelled)    *)
(* only bounds memory and is left out, with the callers it would block;    *)
(* so are the length of the back-off and the byte limit of a batch, which  *)
(* that transport does not set.                                            *)
(***************************************************************************)
EXTENDS Naturals, Sequences

CONSTANTS
    MaxBatchSize,           \* the most events of one POST
    MaxConsecutiveFailures  \* failures after which a batch is given up

ASSUME UploaderConstants ==
    /\ MaxBatchSize \in Nat \ {0}
    /\ MaxConsecutiveFailures \in Nat \ {0}

(* What is in a sequence. *)
Items(s) == {s[i] : i \in DOMAIN s}

Uploaders(Event) ==
    [ pending : Seq(Event),   \* this.pending
      batch   : Seq(Event),   \* what the POST in flight carries
      phase   : {"idle", "sending", "sleeping"},
      fails   : Nat,          \* consecutive failures of this drain
      closed  : BOOLEAN ]

NewUploader ==
    [ pending |-> <<>>, batch |-> <<>>, phase |-> "idle", fails |-> 0,
      closed |-> FALSE ]

(* pending.splice(0, maxBatchSize), and what it leaves. *)
BatchLength(s) == IF Len(s) < MaxBatchSize THEN Len(s) ELSE MaxBatchSize
TakeBatch(s)   == SubSeq(s, 1, BatchLength(s))
AfterBatch(s)  == SubSeq(s, BatchLength(s) + 1, Len(s))

(* The head of the drain loop: the next batch goes out, or the loop ends. *)
NextTurn(u) ==
    IF u.pending # <<>> /\ ~u.closed
    THEN [u EXCEPT !.pending = AfterBatch(u.pending),
                   !.batch = TakeBatch(u.pending), !.phase = "sending"]
    ELSE [u EXCEPT !.batch = <<>>, !.phase = "idle", !.fails = 0]

(* enqueue(): a closed uploader takes nothing; an idle one starts to drain. *)
Enqueue(u, events) ==
    LET more == [u EXCEPT !.pending = @ \o events]
    IN  IF u.closed THEN u
        ELSE IF u.phase = "idle" THEN NextTurn(more) ELSE more

(* send() returned. *)
Sent(u) == NextTurn([u EXCEPT !.batch = <<>>, !.fails = 0])

(* send() threw once too often: the batch is dropped. *)
LastFailure(u) == u.fails + 1 >= MaxConsecutiveFailures
Dropped(u)     == NextTurn([u EXCEPT !.batch = <<>>, !.fails = 0])

(* send() threw: the batch goes back before what has come in meanwhile. *)
\* mutant: the batch goes to the end
RequeuedBehind(u) ==
    [u EXCEPT !.pending = @ \o u.batch, !.batch = <<>>, !.fails = @ + 1,
              !.phase = "sleeping"]
\* mutant: failures are not counted
RequeuedUncounted(u) ==
    [u EXCEPT !.pending = u.batch \o @, !.batch = <<>>, !.phase = "sleeping"]
Requeued(u) ==
    [u EXCEPT !.pending = u.batch \o @, !.batch = <<>>, !.fails = @ + 1,
              !.phase = "sleeping"]

SendFailed(u) == IF LastFailure(u) THEN Dropped(u) ELSE Requeued(u)

(* close(): what is buffered is discarded and a back-off ends at once. *)
Closed(u) ==
    [u EXCEPT !.closed = TRUE, !.pending = <<>>,
              !.phase = IF @ = "sleeping" THEN "idle" ELSE @,
              !.fails = IF u.phase = "sleeping" THEN 0 ELSE @]

(* When a flush() returns: nothing buffered and no drain, or closed. *)
Drained(u) == u.pending = <<>> /\ u.phase = "idle"
=============================================================================
