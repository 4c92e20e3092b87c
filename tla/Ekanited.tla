------------------------------ MODULE Ekanited ------------------------------
(***************************************************************************)
(* The process ekanited (cmd/ekanited/main.go) through starts, shutdowns   *)
(* and deaths: the order in which main starts its parts, the collectors'   *)
(* sequence number, the Batcher between collectors and engine, the IDs of  *)
(* documents (event.go), and Engine.Close at the signal, while everything  *)
(* else goes on until main returns.                                        *)
(*                                                                         *)
(* The engine is reduced to what this needs: documents are written one by  *)
(* one (the finest split its shards allow), an equal ID replaces a         *)
(* document, Engine.Index returns nil whatever happens, and a write may    *)
(* fail at any time and is then dropped.  Reading the clock, drawing a     *)
(* sequence number and sending the event is one step here and two in       *)
(* Collector.                                                              *)
(***************************************************************************)
EXTENDS Batcher, FiniteSets, Functions

CONSTANTS Timestamps,     \* per message, the timestamps it may carry; they
                          \* are before 1970 if negative
          NoTimestamp,    \* a message whose timestamp cannot be parsed
          IndexDuration,  \* an index covers that many units of time
          WordSize,       \* 2^64, the range of the words of a DocID
          Downtimes,      \* by how much the clock moves between two runs
          MaxStops,       \* bound: ends of the process
          MaxDropped      \* bound: writes that fail and no Close is running

ASSUME EkanitedAssumption ==
  /\ Timestamps \in [1..NumEvents -> SUBSET (Int \cup {NoTimestamp})]
  /\ IndexDuration \in Nat \ {0} /\ WordSize \in Nat \ {0}
  /\ Downtimes \subseteq Int /\ {MaxStops, MaxDropped} \subseteq Nat

VARIABLES
  phase,           \* the part main starts next, "signal" when it waits for
                   \* one, "closing", or "down"
  now,             \* the wall clock
  sequenceNumber,  \* the collectors' counter
  evs,             \* the accepted events: reference time and sequence number
  handled,         \* events of the batch whose write is over
  stored,          \* the documents: a function from IDs to events
  written,         \* history: events that were written
  dropped,         \* history: events whose write failed before the signal
  signalled,       \* history: events accepted before the signal
  stops,           \* history: per end, events accepted before it was set
                   \* off and before it was complete
  setBack          \* history: was the clock ever set back?

process == <<phase, signalled, stops>>
clock == <<now, setBack>>
eventData == <<sequenceNumber, evs>>
store == <<handled, stored, written, dropped>>
evars == <<vars, process, clock, eventData, store>>

(* What main starts, in this order. *)
After == [diag |-> "engine", engine |-> "query", query |-> "http",
          http |-> "batcher", batcher |-> "tcp", tcp |-> "udp", udp |-> "signal"]

BatcherRuns == phase \in {"tcp", "udp", "signal", "closing"}
CollectorsRun == phase \in {"udp", "signal", "closing"}

EInit ==
  /\ Init
  /\ phase = "down" /\ signalled = 0 /\ stops = << >>
  /\ now = 0 /\ setBack = FALSE
  /\ sequenceNumber = 0 /\ evs = << >>
  /\ handled = {} /\ stored = << >> /\ written = {} /\ dropped = {}

-----------------------------------------------------------------------------
(* Deviations from the code, one per plausible bug, part of no             *)
(* specification.                                                          *)

(* The sequence number starts at zero in every process. *)
FirstSequenceZero(t) == 0

(* Times are truncated towards 1970. *)
IndexOfTowardsZero(k) ==
  LET r == evs[k].ref
  IN  IF r < 0 THEN r + ((-r) % IndexDuration) ELSE r - (r % IndexDuration)

(* Engine.Index does not wait for its goroutines. *)
IndexWithoutWait == IndexOK /\ handled' = {} /\ UNCHANGED <<stored, written, dropped>>

-----------------------------------------------------------------------------
(* The process is started and package input sets its counter to the clock, *)
(* which has moved on since the last run or was set back.  (Within a run   *)
(* only the reception times would notice.)                                 *)
FirstSequence(t) == t

Start ==
  /\ phase = "down"
  /\ phase' = "diag"
  /\ \E dt \in Downtimes :
       /\ now + dt >= 0
       /\ now' = now + dt
       /\ setBack' = (setBack \/ dt < 0)
  /\ sequenceNumber' = FirstSequence(now')
  /\ UNCHANGED <<vars, signalled, stops, evs, store>>

(* main starts its next part. *)
StartPart ==
  /\ phase \in DOMAIN After
  /\ phase' = After[phase]
  /\ UNCHANGED <<vars, signalled, stops, clock, eventData, store>>

(* The process ends: what the batcher holds is gone. *)
End(from) ==
  /\ Len(stops) < MaxStops
  /\ phase' = "down"
  /\ stops' = Append(stops, [from |-> from, to |-> sent])
  /\ c' = << >> /\ batch' = << >> /\ timer' = "stopped" /\ ticks' = 0
  /\ pc' = "select"
  /\ handled' = {}
  /\ UNCHANGED <<sent, indexed, errs, signalled, clock, eventData, stored, written, dropped>>

(* log.Fatalf because a part cannot be started, or a kill: no Close. *)
Die == phase \notin {"down", "closing"} /\ End(sent)

(* waitForSignals returns and Engine.Close begins. *)
Signal ==
  /\ phase = "signal"
  /\ Len(stops) < MaxStops
  /\ phase' = "closing"
  /\ signalled' = sent
  /\ UNCHANGED <<vars, stops, clock, eventData, store>>

(* Engine.Close and main return, or the process is killed before. *)
Exit == phase = "closing" /\ End(signalled)

-----------------------------------------------------------------------------
(* Event.ReferenceTime: the parsed timestamp, else the reception time. *)
ReferenceTime(ts) == IF ts = NoTimestamp THEN now + 1 ELSE ts

(* A collector stamps an event and sends it to the batcher.  The clock     *)
(* moves from event to event: they are more than a nanosecond apart.       *)
Collect ==
  /\ CollectorsRun
  /\ SendEvent \/ Handoff
  /\ sequenceNumber' = sequenceNumber + 1
  /\ now' = now + 1
  /\ \E ts \in Timestamps[sent + 1] :
        evs' = Append(evs, [ref |-> ReferenceTime(ts), seq |-> sequenceNumber + 1])
  /\ UNCHANGED <<process, setBack, store>>

(* Event.ID: two numbers of 64 bits, converted to unsigned ones.           *)
ID(k) == <<evs[k].ref % WordSize, evs[k].seq % WordSize>>

(* DocIDs.Less. *)
Less(x, y) == IF x[1] = y[1] THEN x[2] < y[2] ELSE x[1] < y[1]

(* createIndexForReferenceTime truncates to a multiple of the duration.    *)
IndexOf(k) == evs[k].ref - (evs[k].ref % IndexDuration)

(* A document of the batch is written, or its shard returns an error, of   *)
(* bleve or because Close or the retention has closed its index, which     *)
(* Index.Index and Engine.Index drop.                                      *)
Write(k) ==
  /\ pc = "index"
  /\ k \in Range(batch) \ handled
  /\ handled' = handled \cup {k}
  /\ \/ /\ stored' = [id \in DOMAIN stored \cup {ID(k)} |->
                        IF id = ID(k) THEN k ELSE stored[id]]
        /\ written' = written \cup {k}
        /\ UNCHANGED dropped
     \/ /\ phase = "closing"
        /\ UNCHANGED <<stored, written, dropped>>
     \/ /\ phase # "closing"
        /\ Cardinality(dropped) < MaxDropped
        /\ dropped' = dropped \cup {k}
        /\ UNCHANGED <<stored, written>>
  /\ UNCHANGED <<vars, process, clock, eventData>>

(* Engine.Index returns when every write is over. *)
IndexReturns ==
  /\ Range(batch) \subseteq handled
  /\ IndexOK
  /\ handled' = {}
  /\ UNCHANGED <<stored, written, dropped>>

BatcherStep ==
  /\ BatcherRuns
  /\ \/ (Receive \/ Timeout \/ Notify) /\ UNCHANGED store
     \/ IndexReturns
  /\ UNCHANGED <<process, clock, eventData>>

Expire == TimerFires /\ UNCHANGED <<process, clock, eventData, store>>

(* Nothing to do until a message or a signal comes. *)
Waiting ==
  /\ phase = "signal" /\ pc = "select" /\ c = << >>
  /\ timer = "stopped" /\ ticks = 0
  /\ UNCHANGED evars

Writes == \E k \in 1..NumEvents : Write(k)

ENext ==
  \/ Start \/ StartPart \/ Die \/ Signal \/ Exit
  \/ Collect \/ Writes \/ BatcherStep \/ Expire
  \/ Waiting

(* The batcher's goroutine and the writes of a batch make progress, a      *)
(* running timer expires and Close returns.  Nobody owes a start, an event *)
(* or an end.                                                              *)
ESpec ==
  /\ EInit /\ [][ENext]_evars
  /\ WF_evars(BatcherStep) /\ WF_evars(Writes) /\ WF_evars(Expire) /\ WF_evars(Exit)

-----------------------------------------------------------------------------
(* The events an end of the process may cost: those the batcher can hold   *)
(* when it is set off, and those accepted after that.                      *)
Exposed ==
  {k \in 1..NumEvents : \E i \in DOMAIN stops :
      /\ stops[i].from - (MaxPending + Size) < k
      /\ k <= stops[i].to}

(* An accepted event that was not written is still in the batcher, or the  *)
(* write of this very event failed, or it was among the last of a run of   *)
(* the process: its end costs no more than a full channel and a full       *)
(* batch, and what came in after the signal.  While Close is running,      *)
(* events that were accepted after the signal or were in the batcher at    *)
(* the signal may be gone already.                                         *)
LossIsRecent ==
  \A k \in 1..sent :
     \/ k \in written \cup dropped \cup Exposed \cup Range(Unindexed) \cup Range(c)
     \/ phase = "closing" /\ k > signalled - (MaxPending + Size)

(* Unless the clock was set back, an event that was written is never       *)
(* replaced by another one: no two events have one ID, even if they have   *)
(* one reference time and different processes gave them their numbers.     *)
StoredKept ==
  ~setBack => \A k \in written : stored[ID(k)] = k

(* Within an index, the order of the IDs is the order of the reference     *)
(* times and, among equal ones, of reception, also before 1970, where the  *)
(* unsigned words of the IDs are large: 1970 begins with a new index.      *)
IDOrder ==
  \A j, k \in written :
     IndexOf(j) = IndexOf(k) =>
        (Less(ID(j), ID(k)) <=> \/ evs[j].ref < evs[k].ref
                                \/ evs[j].ref = evs[k].ref /\ evs[j].seq < evs[k].seq)

(* An event that a collector got into the batcher is written in the end,   *)
(* unless its own write fails or an end of the process overtakes it.       *)
EventuallyStored ==
  \A k \in 1..NumEvents : (sent >= k) ~> (k \in written \cup dropped \cup Exposed)
=============================================================================
