------------------------------ MODULE Batcher ------------------------------
(***************************************************************************)
(* The Batcher of engine.go: collectors send events into a buffered        *)
(* channel, one goroutine gathers them into a batch and hands the batch to *)
(* an EventIndexer when it is full or when its timer has expired.          *)
(*                                                                         *)
(* Three actors interleave: the collectors (SendEvent, Handoff), the       *)
(* goroutine of Start (Receive, Timeout, IndexOK, IndexErr, Notify), and   *)
(* the runtime's timer (TimerFires).  Events are abstracted to their       *)
(* position in the channel's send order.  The wrapping of an input.Event   *)
(* into an Event changes no field and is left out, and so are the counters. *)
(*                                                                         *)
(* The timer is a Go timer of go 1.13 (go.mod): its channel holds one tick *)
(* and neither Stop nor Reset takes a tick out of it.                      *)
(***************************************************************************)
EXTENDS Integers, Sequences

CONSTANTS Size,             \* batch size (NewBatcher's sz)
          MaxPending,       \* capacity of the channel (NewBatcher's max), 0 if
                            \* it has no buffer
          NumEvents,        \* bound: events the collectors send
          MaxIndexErrors    \* bound: calls of Index that return an error

ASSUME BatcherAssumption ==
  /\ Size \in Nat \ {0}
  /\ MaxPending \in Nat
  /\ NumEvents \in Nat
  /\ MaxIndexErrors \in Nat

VARIABLES
  sent,      \* events the collectors have put into the channel so far
  c,         \* the channel b.c
  batch,     \* the goroutine's batch
  timer,     \* "running" or "stopped"
  ticks,     \* ticks in timer.C, a channel of capacity one
  pc,        \* where the goroutine is: at its select, in Index, or in the
             \* send on errChan
  indexed,   \* history: events of the calls of Index that succeeded
  errs       \* history: calls of Index that failed

vars == <<sent, c, batch, timer, ticks, pc, indexed, errs>>

(* NewBatcher and the first lines of Start: an empty batch, a stopped timer. *)
Init ==
  /\ sent = 0
  /\ c = << >>
  /\ batch = << >>
  /\ timer = "stopped"
  /\ ticks = 0
  /\ pc = "select"
  /\ indexed = << >>
  /\ errs = 0

(* Deviations from the code, one per plausible bug.  They are part of no   *)
(* specification: each one shows that a property of this module can fail.  *)

(* The channel takes one event more than its capacity. *)
SendEventOverCapacity ==
  /\ sent < NumEvents
  /\ Len(c) <= MaxPending
  /\ sent' = sent + 1
  /\ c' = Append(c, sent + 1)
  /\ UNCHANGED <<batch, timer, ticks, pc, indexed, errs>>

(* The timer is reset for the second event of a batch, not the first. *)
TimerAfterSecond(newBatch) == IF Len(newBatch) = 2 THEN "running" ELSE timer

(* A failed batch is thrown away. *)
IndexErrDropsBatch ==
  /\ pc = "index"
  /\ errs < MaxIndexErrors
  /\ errs' = errs + 1
  /\ batch' = << >>
  /\ pc' = "select"
  /\ UNCHANGED <<sent, c, timer, ticks, indexed>>

(* send() forgets to replace the batch it has indexed. *)
NotifyKeepsBatch ==
  /\ pc = "notify"
  /\ pc' = "select"
  /\ UNCHANGED <<sent, c, batch, timer, ticks, indexed, errs>>

-----------------------------------------------------------------------------
(* A collector sends on C(); the send blocks while the channel is full. *)
SendEvent ==
  /\ sent < NumEvents
  /\ Len(c) < MaxPending
  /\ sent' = sent + 1
  /\ c' = Append(c, sent + 1)
  /\ UNCHANGED <<batch, timer, ticks, pc, indexed, errs>>

(* The timer of a non-empty batch expires and leaves its tick in timer.C. *)
TimerFires ==
  /\ timer = "running"
  /\ timer' = "stopped"
  /\ ticks' = 1
  /\ UNCHANGED <<sent, c, batch, pc, indexed, errs>>

(* timer.Reset for the first event of a batch. *)
TimerAfterAppend(newBatch) == IF Len(newBatch) = 1 THEN "running" ELSE timer

(* timer.Stop and the call of send() for a full batch.  A timer that runs  *)
(* when Stop is called may have expired just before it.                    *)
FullBatch(newBatch) ==
  /\ timer' = "stopped"
  /\ \/ ticks' = ticks
     \/ TimerAfterAppend(newBatch) = "running" /\ ticks' = 1
  /\ pc' = "index"

(* The select's first case, with the event it has received. *)
Take(event) ==
  /\ pc = "select"
  /\ batch' = Append(batch, event)
  /\ \/ /\ Len(batch') = Size
        /\ FullBatch(batch')
     \/ /\ Len(batch') # Size
        /\ timer' = TimerAfterAppend(batch')
        /\ UNCHANGED <<ticks, pc>>

Receive ==
  /\ c # << >>
  /\ c' = Tail(c)
  /\ Take(Head(c))
  /\ UNCHANGED <<sent, indexed, errs>>

(* A collector's send meets the goroutine waiting at its select: the event *)
(* goes from hand to hand.  Without a buffer there is no other way.        *)
Handoff ==
  /\ sent < NumEvents
  /\ c = << >>
  /\ sent' = sent + 1
  /\ Take(sent + 1)
  /\ UNCHANGED <<c, indexed, errs>>

(* The select's second case: receive the tick and call send(). *)
Timeout ==
  /\ pc = "select"
  /\ ticks = 1
  /\ ticks' = 0
  /\ pc' = "index"
  /\ UNCHANGED <<sent, c, batch, timer, indexed, errs>>

(* send(): Index returned nil; what follows is the send on errChan. *)
IndexOK ==
  /\ pc = "index"
  /\ indexed' = indexed \o batch
  /\ pc' = "notify"
  /\ UNCHANGED <<sent, c, batch, timer, ticks, errs>>

(* send(): Index returned an error; send returns at once and the batch and *)
(* the timer stay as they are.                                             *)
IndexErr ==
  /\ pc = "index"
  /\ errs < MaxIndexErrors
  /\ errs' = errs + 1
  /\ pc' = "select"
  /\ UNCHANGED <<sent, c, batch, timer, ticks, indexed>>

(* The nil error is received by drainLog (main.go), which never stops      *)
(* receiving, and only then is the batch replaced by an empty one.  With a *)
(* nil errChan the step is just the replacement.                           *)
Notify ==
  /\ pc = "notify"
  /\ batch' = << >>
  /\ pc' = "select"
  /\ UNCHANGED <<sent, c, timer, ticks, indexed, errs>>

(* The bounded run is over: everything was sent and the goroutine waits.   *)
Quiescent ==
  /\ sent = NumEvents
  /\ pc = "select"
  /\ c = << >>
  /\ timer = "stopped"
  /\ ticks = 0

Idle == Quiescent /\ UNCHANGED vars

Goroutine == Receive \/ Timeout \/ IndexOK \/ IndexErr \/ Notify

Next == SendEvent \/ Handoff \/ TimerFires \/ Goroutine \/ Idle

(* The goroutine keeps being scheduled, Index and drainLog return, and a   *)
(* running timer expires.  Collectors owe nothing.                         *)
Fairness == WF_vars(Goroutine) /\ WF_vars(TimerFires)

Spec == Init /\ [][Next]_vars /\ Fairness

-----------------------------------------------------------------------------
TypeOK ==
  /\ sent \in 0..NumEvents
  /\ c \in Seq(1..NumEvents)
  /\ Len(c) <= MaxPending
  /\ batch \in Seq(1..NumEvents)
  /\ timer \in {"running", "stopped"}
  /\ ticks \in 0..1
  /\ pc \in {"select", "index", "notify"}
  /\ indexed \in Seq(1..NumEvents)
  /\ errs \in 0..MaxIndexErrors

(* The part of the goroutine's batch that the indexer does not have yet:   *)
(* during the send on errChan the old batch has already been indexed.      *)
Unindexed == IF pc = "notify" THEN << >> ELSE batch

(* An accepted event is never lost, duplicated or reordered between the    *)
(* channel, the batch and the indexer, whatever the timer does and even    *)
(* when Index fails and its batch is kept for a later call.                *)
ExactlyOnceInOrder ==
  indexed \o Unindexed \o c = [i \in 1..sent |-> i]

(* As long as Index has not failed, a batch that waits at the select is    *)
(* not full and its timer is running or its tick is waiting, so its events *)
(* cannot be stranded (the Reset at length 1 and the Stop at length size). *)
WaitingBatchIsTimed ==
  (errs = 0 /\ pc = "select" /\ batch # << >>)
     => (Len(batch) < Size /\ (timer = "running" \/ ticks = 1))

(* As long as Index has not failed, the events accepted and not indexed    *)
(* are at most a full channel and a full batch.  The documents promise     *)
(* less: engine.go 38, "a maximum number of unprocessed Events it will     *)
(* keep pending", engine.go 49, "a maximum outstanding count of max", and  *)
(* the flag -maxpending, "Maximum pending index events".  MaxPending       *)
(* bounds the channel alone; the batch, also while it is being indexed, is *)
(* outside it.                                                             *)
OutstandingBound ==
  errs = 0 => sent - Len(indexed) <= MaxPending + Size

(* Every event a collector got into the channel is indexed eventually,     *)
(* unless a call of Index fails.                                           *)
EventuallyIndexed ==
  \A k \in 1..NumEvents :
     (sent >= k) ~> (Len(indexed) >= k \/ errs > 0)

(* The abstract promise, and the state the batcher implements it with.     *)
Delivery == INSTANCE OrderedDelivery WITH accepted <- sent,
                                          delivered <- indexed

(* The batcher delivers in the order of acceptance and never twice.        *)
DeliversInOrder == Delivery!ODSpec
=============================================================================
