--------------------------- MODULE EkanitedProofs ---------------------------
(***************************************************************************)
(* What ekanited keeps through any number of starts, shutdowns and deaths, *)
(* for every batch size, channel capacity and number of events, and for    *)
(* every timestamp that UnixNano can represent.                            *)
(***************************************************************************)
EXTENDS Ekanited, BatcherProofs

Phases == {"diag", "engine", "query", "http", "batcher", "tcp", "udp",
           "signal", "closing", "down"}

Event == [ref : Int, seq : Nat]

(* Types; package input's counter never leaves the clock it started from. *)
Typed ==
  /\ sent \in 0..NumEvents
  /\ c \in Seq(1..NumEvents) /\ Len(c) <= MaxPending
  /\ batch \in Seq(1..NumEvents)
  /\ pc \in {"select", "index", "notify"}
  /\ phase \in Phases
  /\ signalled \in 0..sent
  /\ stops \in Seq([from : Nat, to : Nat])
  /\ now \in Nat /\ sequenceNumber = now /\ setBack \in BOOLEAN
  /\ evs \in Seq(Event) /\ Len(evs) = sent
  /\ handled \subseteq 1..sent /\ written \subseteq 1..sent /\ dropped \subseteq 1..sent

(* The batcher holds the events accepted last, no more than fit into a     *)
(* full channel and a full batch.                                          *)
Held ==
  /\ Len(batch) <= Size
  /\ pc = "select" => Len(batch) < Size
  /\ Len(Unindexed) + Len(c) <= sent
  /\ Numbered(Unindexed, sent - Len(c) - Len(Unindexed))
  /\ Numbered(c, sent - Len(c))

(* An event that an index may have dropped because Close has closed it. *)
Closed(k) == phase = "closing" /\ k > signalled - (MaxPending + Size)

(* Every accepted event is held, stored or excused, and so is every event  *)
(* of the batch whose write is over.                                       *)
Accounted ==
  /\ LossIsRecent
  /\ \A k \in handled : k \in written \cup dropped \/ Closed(k)

(* Later events have larger numbers, unless the clock was set back. *)
Drawn ==
  ~setBack =>
    /\ \A k \in 1..sent : evs[k].seq <= now
    /\ \A j, k \in 1..sent : j < k => evs[j].seq < evs[k].seq

LossInv == Typed /\ Held /\ Accounted

(* The clock is within the range of the IDs' words. *)
ClockFits == now < WordSize

(* The numbers of the events are within the range of the IDs' words. *)
NumbersFit == \A k \in 1..sent : evs[k].seq < WordSize

(* Every written event is stored under its ID. *)
Kept ==
  ~setBack => \A k \in written : ID(k) \in DOMAIN stored /\ stored[ID(k)] = k

KeptInv == LossInv /\ Drawn /\ NumbersFit /\ Kept

(* The reference times are within the range of UnixNano. *)
TimesFit ==
  \A k \in 1..sent : -WordSize <= evs[k].ref /\ evs[k].ref < WordSize

USE BatcherAssumption

-----------------------------------------------------------------------------
(* The steps of ekanited that do not end the process, one by one. *)
LEMMA StepCases ==
  ASSUME [ENext]_evars
  PROVE  \/ Start \/ StartPart \/ Signal \/ Collect
         \/ \E k \in 1..NumEvents : Write(k)
         \/ BatcherStep /\ (Receive \/ Timeout \/ Notify) /\ UNCHANGED store
         \/ BatcherStep /\ IndexReturns
         \/ Expire
         \/ UNCHANGED evars
         \/ \E from \in {sent, signalled} :
               /\ End(from)
               /\ phase = "closing" => from = signalled
BY DEF ENext, Die, Exit, Writes, BatcherStep, Waiting

(* Nothing is anywhere at the beginning. *)
LEMMA InitLoss == EInit => LossInv
<1> SUFFICES ASSUME EInit PROVE LossInv
  OBVIOUS
<1>1. Unindexed = << >> /\ c = << >> /\ batch = << >> /\ sent = 0
  BY DEF EInit, Init, Unindexed
<1>2. Typed
  <2>1. c \in Seq(1..NumEvents) /\ batch \in Seq(1..NumEvents) /\ Len(c) = 0
    BY <1>1
  <2>2. evs \in Seq(Event) /\ stops \in Seq([from : Nat, to : Nat]) /\ Len(evs) = 0
    BY DEF EInit
  <2> QED
    <3>1. Len(c) <= MaxPending /\ signalled \in 0..sent /\ sent \in 0..NumEvents
      BY <1>1, <2>1 DEF EInit
    <3>2. handled \subseteq 1..sent /\ written \subseteq 1..sent /\ dropped \subseteq 1..sent
      BY DEF EInit
    <3> QED
      BY <2>1, <2>2, <3>1, <3>2, <1>1 DEF EInit, Init, Typed, Phases
<1>3. Held
  <2>1. Len(c) = 0 /\ Len(batch) = 0 /\ Len(Unindexed) = 0
    BY <1>1
  <2> QED
    BY <1>1, <2>1 DEF Held, Numbered
<1>4. Accounted
  BY <1>1 DEF EInit, Accounted, LossIsRecent
<1> QED
  BY <1>2, <1>3, <1>4 DEF LossInv

(* The batcher holds sequences of events. *)
LEMMA HeldTypes ==
  ASSUME LossInv
  PROVE  /\ batch \in Seq(Nat) /\ c \in Seq(Nat) /\ Unindexed \in Seq(Nat)
         /\ sent \in Nat
<1>1. /\ batch \in Seq(1..NumEvents) /\ c \in Seq(1..NumEvents)
      /\ sent \in 0..NumEvents
  BY DEF LossInv, Typed
<1>2. batch \in Seq(Nat) /\ c \in Seq(Nat) /\ << >> \in Seq(Nat)
  BY <1>1
<1> QED
  BY <1>1, <1>2 DEF Unindexed

(* An event the batcher holds is one of the last ones. *)
LEMMA HeldIsRecent ==
  ASSUME LossInv, NEW k \in Range(Unindexed) \cup Range(c)
  PROVE  k \in 1..sent /\ k > sent - (MaxPending + Size)
<1>1. /\ Unindexed \in Seq(Nat) /\ c \in Seq(Nat) /\ sent \in Nat
      /\ Len(Unindexed) <= Size /\ Len(c) <= MaxPending
      /\ Len(Unindexed) + Len(c) <= sent
  <2>1. Len(Unindexed) <= Size
    <3>1. CASE pc = "notify"
      BY <3>1 DEF Unindexed
    <3>2. CASE pc # "notify"
      BY <3>2 DEF Unindexed, LossInv, Held
    <3> QED
      BY <3>1, <3>2
  <2> QED
    BY <2>1, HeldTypes DEF LossInv, Typed, Held
<1>0. Len(Unindexed) \in Nat /\ Len(c) \in Nat
  BY <1>1
<1>2. CASE k \in Range(c)
  <2>1. PICK i \in 1..Len(c) : k = c[i]
    BY <1>1, <1>2 DEF Range
  <2>2. k = sent - Len(c) + i
    BY <2>1 DEF LossInv, Held, Numbered
  <2> QED
    BY <1>0, <1>1, <2>1, <2>2
<1>3. CASE k \in Range(Unindexed)
  <2>1. PICK i \in 1..Len(Unindexed) : k = Unindexed[i]
    BY <1>1, <1>3 DEF Range
  <2>2. k = sent - Len(c) - Len(Unindexed) + i
    BY <2>1 DEF LossInv, Held, Numbered
  <2> QED
    BY <1>0, <1>1, <2>1, <2>2
<1> QED
  BY <1>2, <1>3

(* Every step keeps the types. *)
LEMMA TypedStep == LossInv /\ [ENext]_evars => Typed'
<1> SUFFICES ASSUME LossInv, [ENext]_evars PROVE Typed'
  OBVIOUS
<1> USE DEF LossInv, Typed, Phases
<1>1. CASE Start
  BY <1>1, EkanitedAssumption DEF Start, FirstSequence, vars, store
<1>2. CASE StartPart
  BY <1>2 DEF StartPart, After, vars, store, clock, eventData
<1>3. CASE Signal
  BY <1>3 DEF Signal, vars, store, clock, eventData
<1>4. CASE Collect
  <2>1. PICK ts \in Timestamps[sent + 1] :
          evs' = Append(evs, [ref |-> ReferenceTime(ts), seq |-> sequenceNumber + 1])
    BY <1>4 DEF Collect
  <2>2. ReferenceTime(ts) \in Int
    BY <1>4, <2>1, EkanitedAssumption DEF Collect, SendEvent, Handoff, ReferenceTime
  <2>3. evs' \in Seq(Event) /\ Len(evs') = sent + 1
    BY <2>1, <2>2 DEF Event
  <2>4. sent + 1 \in 1..NumEvents /\ sent' = sent + 1
    BY <1>4 DEF Collect, SendEvent, Handoff
  <2>5. c' \in Seq(1..NumEvents) /\ Len(c') <= MaxPending
    <3>1. CASE c' = c
      BY <3>1
    <3>2. CASE c' = Append(c, sent + 1) /\ Len(c) < MaxPending
      <4>1. Len(c') = Len(c) + 1
        BY <3>2
      <4> QED
        BY <2>4, <3>2, <4>1
    <3> QED
      BY <1>4, <3>1, <3>2 DEF Collect, SendEvent, Handoff
  <2>6. batch' \in Seq(1..NumEvents)
    <3>1. batch' = batch \/ batch' = Append(batch, sent + 1)
      BY <1>4 DEF Collect, SendEvent, Handoff, Take
    <3>2. batch \in Seq(1..NumEvents)
      OBVIOUS
    <3>3. Append(batch, sent + 1) \in Seq(1..NumEvents)
      BY <2>4, <3>2
    <3> QED
      BY <3>1, <3>2, <3>3
  <2>7. pc' \in {"select", "index", "notify"}
    BY <1>4 DEF Collect, SendEvent, Handoff, Take, FullBatch
  <2> QED
    BY <1>4, <2>3, <2>4, <2>5, <2>6, <2>7 DEF Collect, process, store
<1>5. ASSUME NEW k \in 1..NumEvents, Write(k) PROVE Typed'
  <2>1. k \in 1..sent
    <3>1. k \in Range(Unindexed)
      BY <1>5 DEF Write, Unindexed
    <3> QED
      BY <3>1, HeldIsRecent
  <2> QED
    BY <1>5, <2>1 DEF Write, vars, process, clock, eventData
<1>6. CASE BatcherStep /\ (Receive \/ Timeout \/ Notify) /\ UNCHANGED store
  <2>1. c' \in Seq(1..NumEvents) /\ Len(c') <= MaxPending
    <3>1. CASE c' = Tail(c) /\ c # << >>
      <4>1. Len(c') = Len(c) - 1
        BY <3>1
      <4> QED
        BY <3>1, <4>1
    <3>2. CASE c' = c
      BY <3>2
    <3> QED
      BY <1>6, <3>1, <3>2 DEF Receive, Take, Timeout, Notify
  <2>2. batch' \in Seq(1..NumEvents)
    <3>1. CASE c # << >> /\ batch' = Append(batch, Head(c))
      <4>1. Head(c) \in 1..NumEvents
        BY <3>1
      <4> QED
        BY <3>1, <4>1
    <3>2. CASE batch' = batch
      BY <3>2
    <3>3. CASE batch' = << >>
      BY <3>3
    <3> QED
      BY <1>6, <3>1, <3>2, <3>3 DEF Receive, Take, Timeout, Notify
  <2>3. UNCHANGED sent /\ pc' \in {"select", "index", "notify"}
    BY <1>6 DEF Receive, Take, FullBatch, Timeout, Notify
  <2> QED
    BY <1>6, <2>1, <2>2, <2>3 DEF BatcherStep, process, clock, eventData, store
<1>7. CASE BatcherStep /\ IndexReturns
  BY <1>7 DEF BatcherStep, IndexReturns, IndexOK, process, clock, eventData
<1>8. CASE Expire
  BY <1>8 DEF Expire, TimerFires, process, clock, eventData, store
<1>9. CASE UNCHANGED evars
  BY <1>9 DEF evars, vars, process, clock, eventData, store
<1>10. ASSUME NEW from \in {sent, signalled}, End(from) PROVE Typed'
  <2>1. c' = << >> /\ batch' = << >> /\ handled' = {} /\ pc' = "select" /\ phase' = "down"
        /\ UNCHANGED <<sent, signalled, now, setBack, sequenceNumber, evs, written, dropped>>
        /\ stops' = Append(stops, [from |-> from, to |-> sent])
    BY <1>10 DEF End, clock, eventData
  <2>2. stops' \in Seq([from : Nat, to : Nat])
    <3>1. [from |-> from, to |-> sent] \in [from : Nat, to : Nat]
      OBVIOUS
    <3> QED
      BY <2>1, <3>1
  <2>3. c' \in Seq(1..NumEvents) /\ Len(c') <= MaxPending /\ batch' \in Seq(1..NumEvents)
    BY <2>1
  <2> QED
    BY <2>1, <2>2, <2>3
<1> QED
  BY <1>1, <1>2, <1>3, <1>4, <1>5, <1>6, <1>7, <1>8, <1>9, <1>10, StepCases

(* Every step keeps the last events in the batcher. *)
LEMMA HeldStep == LossInv /\ [ENext]_evars => Held'
<1> SUFFICES ASSUME LossInv, [ENext]_evars PROVE Held'
  OBVIOUS
<1>0. /\ batch \in Seq(Nat) /\ c \in Seq(Nat) /\ Unindexed \in Seq(Nat)
      /\ sent \in Nat
  BY HeldTypes
<1> USE DEF LossInv, Held
<1>1. CASE Start \/ StartPart \/ Signal \/ (\E k \in 1..NumEvents : Write(k))
           \/ Expire \/ UNCHANGED evars
  <2>1. UNCHANGED <<sent, c, batch, pc, Unindexed>>
    BY <1>1 DEF Start, StartPart, Signal, Write, Expire, TimerFires, evars, vars, Unindexed
  <2> QED
    BY <2>1
<1>2. CASE Collect
  <2>1. CASE SendEvent
    <3>1. UNCHANGED <<batch, pc, Unindexed>>
      BY <2>1 DEF SendEvent, Unindexed
    <3>2. sent' = sent + 1 /\ c' = Append(c, sent + 1)
      BY <2>1 DEF SendEvent
    <3>3. Len(c') = Len(c) + 1 /\ sent' - Len(c') = sent - Len(c)
      BY <1>0, <3>2
    <3>4. Numbered(c', sent - Len(c))
      <4>1. sent - Len(c) \in Nat /\ (sent - Len(c)) + Len(c) + 1 = sent + 1
        BY <1>0
      <4> QED
        BY <1>0, <3>2, <4>1, NumberedAppend
    <3> QED
      BY <1>0, <3>1, <3>2, <3>3, <3>4
  <2>2. CASE Handoff
    <3>1. /\ c = << >> /\ UNCHANGED c /\ sent' = sent + 1 /\ pc = "select"
          /\ batch' = Append(batch, sent + 1)
          /\ Unindexed = batch /\ Unindexed' = batch'
      BY <2>2 DEF Handoff, Take, FullBatch, Unindexed
    <3>2. Len(c) = 0 /\ Len(c') = 0 /\ Len(batch') = Len(batch) + 1 /\ Len(batch) \in Nat
      BY <1>0, <3>1
    <3> DEFINE k == sent - Len(batch)
    <3>3. k \in Nat /\ k + Len(batch) + 1 = sent + 1
      BY <1>0, <3>1, <3>2
    <3>4. Numbered(batch, k)
      BY <1>0, <3>1, <3>2
    <3>5. Numbered(batch', k)
      BY <1>0, <3>1, <3>3, <3>4, NumberedAppend
    <3>6. Len(batch') <= Size /\ (pc' = "select" => Len(batch') < Size)
      <4>1. Len(batch) < Size
        BY <3>1
      <4>2. Len(batch') = Size \/ (pc' = "select" /\ Len(batch') # Size)
        BY <2>2 DEF Handoff, Take
      <4>3. Len(batch') = Size => pc' = "index"
        BY <2>2 DEF Handoff, Take, FullBatch
      <4> QED
        BY <3>2, <4>1, <4>2, <4>3
    <3>7. Numbered(c', sent' - Len(c'))
      BY <3>2 DEF Numbered
    <3>8. sent' - Len(c') - Len(Unindexed') = k /\ Len(Unindexed') + Len(c') <= sent'
      BY <1>0, <3>1, <3>2
    <3> QED
      BY <3>1, <3>5, <3>6, <3>7, <3>8
  <2> QED
    BY <1>2, <2>1, <2>2 DEF Collect
<1>3. CASE BatcherStep /\ (Receive \/ Timeout \/ Notify) /\ UNCHANGED store
  <2>1. CASE Receive
    <3>1. /\ c # << >> /\ c' = Tail(c) /\ batch' = Append(batch, Head(c))
          /\ Unindexed = batch /\ Unindexed' = batch'
          /\ UNCHANGED sent /\ pc = "select"
      BY <2>1 DEF Receive, Take, FullBatch, Unindexed
    <3>2. Len(c') = Len(c) - 1 /\ Len(batch') = Len(batch) + 1 /\ Len(c) > 0
      BY <1>0, <3>1
    <3> DEFINE k == sent - Len(c)
    <3>3. k \in Nat /\ k - Len(batch) \in Nat
      BY <1>0, <3>1
    <3>4. Head(c) = k + 1 /\ Numbered(c', k + 1)
      BY <1>0, <3>1, <3>3, NumberedTail
    <3>5. Numbered(batch', k - Len(batch))
      <4>1. Head(c) = (k - Len(batch)) + Len(batch) + 1
        BY <1>0, <3>3, <3>4
      <4> QED
        BY <1>0, <3>1, <3>3, <4>1, NumberedAppend
    <3>6. Len(batch') <= Size /\ (pc' = "select" => Len(batch') < Size)
      <4>1. Len(batch) \in Nat /\ Len(batch) < Size
        BY <1>0, <3>1
      <4>2. Len(batch') = Size \/ (pc' = "select" /\ Len(batch') # Size)
        BY <2>1 DEF Receive, Take
      <4>3. Len(batch') = Size => pc' = "index"
        BY <2>1 DEF Receive, Take, FullBatch
      <4> QED
        BY <3>2, <4>1, <4>2, <4>3
    <3>7. sent' - Len(c') = k + 1 /\ sent' - Len(c') - Len(batch') = k - Len(batch)
      BY <1>0, <3>1, <3>2
    <3> QED
      BY <1>0, <3>1, <3>2, <3>4, <3>5, <3>6, <3>7
  <2>2. CASE Timeout
    BY <2>2 DEF Timeout, Unindexed
  <2>3. CASE Notify
    <3>1. Unindexed = << >> /\ Unindexed' = << >> /\ batch' = << >> /\ UNCHANGED <<sent, c>>
      BY <2>3 DEF Notify, Unindexed
    <3>2. Len(batch') = 0
      BY <3>1
    <3> QED
      BY <3>1, <3>2
  <2> QED
    BY <1>3, <2>1, <2>2, <2>3
<1>4. CASE BatcherStep /\ IndexReturns
  <2>1. Unindexed' = << >> /\ UNCHANGED <<sent, c, batch>> /\ pc' = "notify"
    BY <1>4 DEF IndexReturns, IndexOK, Unindexed
  <2> QED
    BY <1>0, <2>1 DEF Numbered
<1>5. ASSUME NEW from \in {sent, signalled}, End(from) PROVE Held'
  <2>1. c' = << >> /\ batch' = << >> /\ Unindexed' = << >> /\ UNCHANGED sent
    BY <1>5 DEF End, Unindexed
  <2>2. Len(c') = 0 /\ Len(batch') = 0 /\ Len(Unindexed') = 0
    BY <2>1
  <2> QED
    BY <1>0, <2>1, <2>2 DEF Numbered
<1> QED
  BY <1>1, <1>2, <1>3, <1>4, <1>5, StepCases

(* What is in a sequence that has grown. *)
LEMMA RangeAppend ==
  ASSUME NEW s \in Seq(Nat), NEW e \in Nat
  PROVE  Range(Append(s, e)) = Range(s) \cup {e}
<1> DEFINE t == Append(s, e)
<1>1. /\ \A i \in 1..Len(s) : t[i] = s[i]
      /\ t[Len(s) + 1] = e
      /\ DOMAIN t = 1..(Len(s) + 1) /\ DOMAIN s = 1..Len(s) /\ Len(s) \in Nat
  OBVIOUS
<1> HIDE DEF t
<1>2. \A x \in Range(s) \cup {e} : x \in Range(t)
  BY <1>1 DEF Range
<1>3. \A x \in Range(t) : x \in Range(s) \cup {e}
  BY <1>1 DEF Range
<1> QED
  BY <1>2, <1>3 DEF t

(* Every step accounts for every accepted event. *)
LEMMA AccountedStep == LossInv /\ [ENext]_evars => Accounted'
<1> SUFFICES ASSUME LossInv, [ENext]_evars PROVE Accounted'
  OBVIOUS
<1>0. /\ batch \in Seq(Nat) /\ c \in Seq(Nat) /\ Unindexed \in Seq(Nat)
      /\ sent \in Nat /\ signalled \in Nat /\ signalled <= sent
      /\ handled \subseteq 1..sent
  BY HeldTypes DEF LossInv, Typed
<1> DEFINE Fine == /\ \A k \in 1..sent :
                        \/ k \in written \cup dropped \cup Exposed \cup Range(Unindexed) \cup Range(c)
                        \/ Closed(k)
                   /\ \A k \in handled : k \in written \cup dropped \/ Closed(k)
<1>a. Fine
  BY DEF LossInv, Accounted, LossIsRecent, Closed
<1> SUFFICES Fine'
  BY DEF Accounted, LossIsRecent, Closed
<1>1. CASE Start \/ StartPart \/ Expire \/ UNCHANGED evars
  <2>1. UNCHANGED <<sent, c, Unindexed, written, dropped, handled, stops, signalled>>
    BY <1>1 DEF Start, StartPart, Expire, TimerFires, evars, vars, process, store, Unindexed
  <2>2. phase = "closing" => phase' = "closing"
    BY <1>1 DEF Start, StartPart, After, Expire, evars, process
  <2>3. Exposed' = Exposed /\ Range(Unindexed)' = Range(Unindexed) /\ Range(c)' = Range(c)
    BY <2>1 DEF Exposed
  <2>4. \A k : Closed(k) => Closed(k)'
    BY <2>1, <2>2 DEF Closed
  <2> QED
    BY <1>a, <2>1, <2>3, <2>4
<1>2. CASE Signal
  <2>1. UNCHANGED <<sent, c, Unindexed, written, dropped, handled, stops>> /\ phase # "closing"
    BY <1>2 DEF Signal, vars, store, Unindexed
  <2>2. Exposed' = Exposed /\ Range(Unindexed)' = Range(Unindexed) /\ Range(c)' = Range(c)
    BY <2>1 DEF Exposed
  <2>3. \A k : ~Closed(k)
    BY <2>1 DEF Closed
  <2> QED
    BY <1>a, <2>1, <2>2, <2>3
<1>3. CASE Collect
  <2>1. /\ sent' = sent + 1
        /\ UNCHANGED <<written, dropped, handled, stops, signalled, phase>>
    BY <1>3 DEF Collect, SendEvent, Handoff, process, store
  <2>2. \/ c' = Append(c, sent + 1) /\ UNCHANGED Unindexed
        \/ Unindexed' = Append(Unindexed, sent + 1) /\ UNCHANGED c
    BY <1>3 DEF Collect, SendEvent, Handoff, Take, FullBatch, Unindexed
  <2>3. Range(Unindexed)' \cup Range(c)' = Range(Unindexed) \cup Range(c) \cup {sent + 1}
    <3>1. Range(Append(c, sent + 1)) = Range(c) \cup {sent + 1}
      BY <1>0, RangeAppend
    <3>2. Range(Append(Unindexed, sent + 1)) = Range(Unindexed) \cup {sent + 1}
      BY <1>0, RangeAppend
    <3> QED
      BY <2>2, <3>1, <3>2
  <2>4. Exposed' = Exposed
    BY <2>1 DEF Exposed
  <2>5. \A k : Closed(k)' <=> Closed(k)
    BY <2>1 DEF Closed
  <2>6. \A k \in 1..sent' : k \in 1..sent \/ k = sent + 1
    BY <1>0, <2>1
  <2> QED
    BY <1>a, <2>1, <2>3, <2>4, <2>5, <2>6
<1>4. ASSUME NEW k \in 1..NumEvents, Write(k) PROVE Fine'
  <2>1. /\ UNCHANGED <<sent, c, Unindexed, stops, signalled, phase>>
        /\ handled' = handled \cup {k}
        /\ k \in Range(Unindexed)
        /\ \/ written' = written \cup {k} /\ dropped' = dropped
           \/ written' = written /\ dropped' = dropped /\ phase = "closing"
           \/ written' = written /\ dropped' = dropped \cup {k}
    BY <1>4 DEF Write, vars, process, Unindexed
  <2>2. Exposed' = Exposed /\ Range(Unindexed)' = Range(Unindexed) /\ Range(c)' = Range(c)
    BY <2>1 DEF Exposed
  <2>3. \A j : Closed(j)' <=> Closed(j)
    BY <2>1 DEF Closed
  <2>4. phase = "closing" => Closed(k)
    <3>1. k > sent - (MaxPending + Size)
      BY <2>1, HeldIsRecent
    <3> QED
      BY <1>0, <3>1 DEF Closed
  <2> QED
    BY <1>a, <2>1, <2>2, <2>3, <2>4
<1>5. CASE BatcherStep /\ (Receive \/ Timeout \/ Notify) /\ UNCHANGED store
  <2>1. UNCHANGED <<sent, written, dropped, handled, stops, signalled, phase>>
    BY <1>5 DEF BatcherStep, Receive, Take, Timeout, Notify, process, store
  <2>2. Exposed' = Exposed
    BY <2>1 DEF Exposed
  <2>3. \A k : Closed(k)' <=> Closed(k)
    BY <2>1 DEF Closed
  <2>4. Range(Unindexed)' \cup Range(c)' = Range(Unindexed) \cup Range(c)
    <3>1. CASE Receive
      <4>1. /\ c # << >> /\ c' = Tail(c) /\ batch' = Append(batch, Head(c))
            /\ Unindexed = batch /\ Unindexed' = batch'
        BY <3>1 DEF Receive, Take, FullBatch, Unindexed
      <4>2. /\ Len(c) \in Nat \ {0} /\ Len(c') = Len(c) - 1 /\ Head(c) = c[1]
            /\ \A i \in 1..(Len(c) - 1) : c'[i] = c[i + 1]
            /\ DOMAIN c = 1..Len(c) /\ DOMAIN c' = 1..(Len(c) - 1)
        BY <1>0, <4>1
      <4>3. /\ Len(batch) \in Nat /\ DOMAIN batch = 1..Len(batch)
            /\ DOMAIN batch' = 1..(Len(batch) + 1)
            /\ \A i \in 1..Len(batch) : batch'[i] = batch[i]
            /\ batch'[Len(batch) + 1] = Head(c)
        BY <1>0, <4>1, <4>2
      <4>4. \A x \in Range(c') : x \in Range(c)
        BY <4>2 DEF Range
      <4>5. \A x \in Range(batch') : x \in Range(batch) \cup Range(c)
        BY <4>2, <4>3 DEF Range
      <4>6. \A x \in Range(batch) : x \in Range(batch')
        BY <4>3 DEF Range
      <4>7. ASSUME NEW x \in Range(c) PROVE x \in Range(batch') \cup Range(c')
        <5>1. PICK i \in 1..Len(c) : x = c[i]
          BY <4>2 DEF Range
        <5>2. CASE i = 1
          BY <4>2, <4>3, <5>1, <5>2 DEF Range
        <5>3. CASE i # 1
          <6>1. i - 1 \in 1..(Len(c) - 1) /\ x = c'[i - 1]
            BY <4>2, <5>1, <5>3
          <6> QED
            BY <4>2, <6>1 DEF Range
        <5> QED
          BY <5>2, <5>3
      <4> QED
        BY <4>1, <4>4, <4>5, <4>6, <4>7
    <3>2. CASE Timeout
      BY <3>2 DEF Timeout, Unindexed
    <3>3. CASE Notify
      BY <3>3 DEF Notify, Unindexed
    <3> QED
      BY <1>5, <3>1, <3>2, <3>3
  <2> QED
    BY <1>a, <2>1, <2>2, <2>3, <2>4
<1>6. CASE BatcherStep /\ IndexReturns
  <2>1. /\ UNCHANGED <<sent, c, written, dropped, stops, signalled, phase>>
        /\ handled' = {} /\ Unindexed = batch /\ Range(batch) \subseteq handled
    BY <1>6 DEF BatcherStep, IndexReturns, IndexOK, process, Unindexed
  <2>2. Exposed' = Exposed /\ Range(c)' = Range(c)
    BY <2>1 DEF Exposed
  <2>3. \A k : Closed(k)' <=> Closed(k)
    BY <2>1 DEF Closed
  <2> QED
    BY <1>a, <2>1, <2>2, <2>3
<1>7. ASSUME NEW from \in {sent, signalled}, End(from),
             phase = "closing" => from = signalled
      PROVE  Fine'
  <2>1. /\ UNCHANGED <<sent, written, dropped>> /\ handled' = {}
        /\ stops' = Append(stops, [from |-> from, to |-> sent])
    BY <1>7 DEF End
  <2>2. stops \in Seq([from : Nat, to : Nat])
    BY DEF LossInv, Typed
  <2> DEFINE n == Len(stops) + 1
  <2>3. /\ n \in DOMAIN stops' /\ stops'[n].from = from /\ stops'[n].to = sent
        /\ \A i \in DOMAIN stops : i \in DOMAIN stops' /\ stops'[i] = stops[i]
    <3> DEFINE e == [from |-> from, to |-> sent]
    <3>1. e.from = from /\ e.to = sent
      OBVIOUS
    <3>2. stops' = Append(stops, e)
      BY <2>1
    <3> HIDE DEF e
    <3>3. /\ n \in DOMAIN stops' /\ stops'[n] = e
          /\ \A i \in DOMAIN stops : i \in DOMAIN stops' /\ stops'[i] = stops[i]
      BY ONLY <2>2, <3>2
    <3> QED
      BY ONLY <3>1, <3>3
  <2> HIDE DEF n
  <2>4. Exposed \subseteq Exposed'
    BY <2>3 DEF Exposed
  <2>5. \A k \in 1..sent : k > from - (MaxPending + Size) => k \in Exposed'
    <3>1. \A k \in 1..sent : k \in 1..NumEvents /\ k <= sent
      BY DEF LossInv, Typed
    <3>2. from \in Nat
      BY <1>0
    <3>3. \A k \in 1..sent : k > from - (MaxPending + Size) => from - (MaxPending + Size) < k
      BY <3>2
    <3> QED
      BY <2>3, <3>1, <3>3 DEF Exposed
  <2>6. \A k \in 1..sent : Closed(k) => k \in Exposed'
    BY <1>7, <2>5 DEF Closed
  <2>7. \A k \in Range(Unindexed) \cup Range(c) : k \in Exposed'
    <3> SUFFICES ASSUME NEW k \in Range(Unindexed) \cup Range(c) PROVE k \in Exposed'
      OBVIOUS
    <3>1. k \in 1..sent /\ k > sent - (MaxPending + Size)
      BY HeldIsRecent
    <3>2. k > from - (MaxPending + Size)
      BY <1>0, <3>1
    <3> QED
      BY <2>5, <3>1, <3>2
  <2> QED
    BY <1>a, <2>1, <2>4, <2>6, <2>7
<1> QED
  BY <1>1, <1>2, <1>3, <1>4, <1>5, <1>6, <1>7, StepCases

(* The part of the invariant that says where events are. *)
THEOREM LossInvariance == ESpec => []LossInv
<1>1. LossInv /\ [ENext]_evars => LossInv'
  BY TypedStep, HeldStep, AccountedStep DEF LossInv
<1> QED
  BY InitLoss, <1>1, PTL DEF ESpec

(* An end of the process, whatever sets it off, costs no more than a full  *)
(* channel, a full batch and what came in after the signal; without one,   *)
(* no accepted event is lost but those whose own write failed.             *)
THEOREM LossBounded == ESpec => []LossIsRecent
<1>1. LossInv => LossIsRecent
  BY DEF LossInv, Accounted
<1> QED
  BY LossInvariance, <1>1, PTL

-----------------------------------------------------------------------------
(* Division with remainder, for a divisor that is not a numeral. *)
LEMMA Remainder ==
  ASSUME NEW x \in Int, NEW d \in Nat \ {0}
  PROVE  /\ x \div d \in Int
         /\ x % d \in 0..(d - 1)
         /\ x = d * (x \div d) + (x % d)
BY Z3

(* The unsigned words of an ID: a number that fits is kept, a negative one *)
(* becomes large.                                                          *)
LEMMA Word ==
  ASSUME NEW x \in Int, -WordSize <= x, x < WordSize
  PROVE  x % WordSize = IF x < 0 THEN x + WordSize ELSE x
<1> DEFINE q == x \div WordSize
           r == x % WordSize
<1>1. WordSize \in Nat \ {0}
  BY EkanitedAssumption
<1>2. q \in Int /\ r \in 0..(WordSize - 1) /\ x = WordSize * q + r
  BY <1>1, Remainder
<1> HIDE DEF q, r
<1>3. q >= 1 => WordSize * q >= WordSize
  BY <1>1, <1>2, Z3
<1>4. q <= -2 => WordSize * q <= -2 * WordSize
  BY <1>1, <1>2, Z3
<1>5. q \in {-1, 0}
  BY <1>1, <1>2, <1>3, <1>4
<1>6. q = 0 => x = r
  BY <1>1, <1>2
<1>7. q = -1 => x = r - WordSize
  BY <1>1, <1>2
<1> QED
  BY <1>1, <1>2, <1>5, <1>6, <1>7 DEF r

(* What a step does to the clock and the events. *)
LEMMA EventsStep ==
  ASSUME LossInv, [ENext]_evars
  PROVE  \/ UNCHANGED <<sent, evs, now, setBack>>
         \/ /\ UNCHANGED <<sent, evs>>
            /\ setBack => setBack'
            /\ ~setBack' => now <= now'
         \/ /\ sent' = sent + 1 /\ now' = now + 1 /\ UNCHANGED setBack
            /\ \E ts \in Timestamps[sent + 1] :
                 evs' = Append(evs, [ref |-> ReferenceTime(ts), seq |-> now + 1])
            /\ sent + 1 \in 1..NumEvents
<1>1. CASE Start
  <2>1. PICK dt \in Downtimes : now' = now + dt /\ setBack' = (setBack \/ dt < 0)
    BY <1>1 DEF Start
  <2>2. now \in Nat /\ dt \in Int /\ setBack \in BOOLEAN
    BY EkanitedAssumption DEF LossInv, Typed
  <2>3. dt < 0 \/ now <= now'
    BY <2>1, <2>2
  <2>4. (setBack => setBack') /\ (dt < 0 => setBack')
    BY <2>1, <2>2, Zenon
  <2>5. UNCHANGED <<sent, evs>>
    BY <1>1 DEF Start, vars
  <2> QED
    BY <2>3, <2>4, <2>5
<1>2. CASE Collect
  BY <1>2 DEF Collect, SendEvent, Handoff, LossInv, Typed
<1>3. CASE StartPart \/ Signal \/ Expire \/ UNCHANGED evars
           \/ \E k \in 1..NumEvents : Write(k)
  BY <1>3 DEF StartPart, Signal, Expire, TimerFires, Write, evars, vars, clock, eventData
<1>4. CASE BatcherStep
  BY <1>4 DEF BatcherStep, Receive, Take, Timeout, Notify, IndexReturns, IndexOK, clock, eventData
<1>5. ASSUME NEW from \in {sent, signalled}, End(from)
      PROVE  UNCHANGED <<sent, evs, now, setBack>>
  BY <1>5 DEF End, clock, eventData
<1> QED
  BY <1>1, <1>2, <1>3, <1>4, <1>5, StepCases

(* The event a collector appends, among those before it. *)
LEMMA Appended ==
  ASSUME LossInv, sent' = sent + 1, NEW e \in Event, evs' = Append(evs, e)
  PROVE  /\ \A k \in 1..sent : evs'[k] = evs[k]
         /\ evs'[sent + 1] = e
         /\ \A k \in 1..sent' : k \in 1..sent \/ k = sent + 1
BY DEF LossInv, Typed

(* Collect makes an event. *)
LEMMA CollectedEvent ==
  ASSUME LossInv, sent + 1 \in 1..NumEvents, NEW ts \in Timestamps[sent + 1]
  PROVE  [ref |-> ReferenceTime(ts), seq |-> now + 1] \in Event
<1>1. ReferenceTime(ts) \in Int
  BY EkanitedAssumption DEF ReferenceTime, LossInv, Typed
<1> QED
  BY <1>1 DEF Event, LossInv, Typed

(* Sequence numbers grow with the clock and stay within it. *)
LEMMA DrawnStep == LossInv /\ Drawn /\ [ENext]_evars => Drawn'
<1> SUFFICES ASSUME LossInv, Drawn, [ENext]_evars PROVE Drawn'
  OBVIOUS
<1>0. now \in Nat /\ now' \in Nat /\ sent \in Nat /\ \A k \in 1..sent : evs[k].seq \in Nat
  <2>1. Typed'
    BY TypedStep
  <2>2. \A k \in 1..sent : evs[k] \in Event
    BY DEF LossInv, Typed
  <2> QED
    BY <2>1, <2>2 DEF LossInv, Typed, Event
<1>1. CASE UNCHANGED <<sent, evs, now, setBack>>
  BY <1>1 DEF Drawn
<1>2. CASE UNCHANGED <<sent, evs>> /\ (setBack => setBack') /\ (~setBack' => now <= now')
  BY <1>0, <1>2 DEF Drawn
<1>3. CASE /\ sent' = sent + 1 /\ now' = now + 1 /\ UNCHANGED setBack
           /\ \E ts \in Timestamps[sent + 1] :
                evs' = Append(evs, [ref |-> ReferenceTime(ts), seq |-> now + 1])
           /\ sent + 1 \in 1..NumEvents
  <2>1. PICK ts \in Timestamps[sent + 1] :
          evs' = Append(evs, [ref |-> ReferenceTime(ts), seq |-> now + 1])
    BY <1>3
  <2> DEFINE e == [ref |-> ReferenceTime(ts), seq |-> now + 1]
  <2>2. e \in Event /\ e.seq = now + 1
    BY <1>3, CollectedEvent
  <2> HIDE DEF e
  <2>3. /\ \A k \in 1..sent : evs'[k] = evs[k]
        /\ evs'[sent + 1] = e
        /\ \A k \in 1..sent' : k \in 1..sent \/ k = sent + 1
    BY <1>3, <2>1, <2>2, Appended DEF e
  <2>4. SUFFICES ASSUME ~setBack' PROVE /\ \A k \in 1..sent' : evs'[k].seq <= now'
                                        /\ \A j, k \in 1..sent' : j < k => evs'[j].seq < evs'[k].seq
    BY DEF Drawn
  <2>5. \A k \in 1..sent : evs'[k].seq <= now
    BY <1>3, <2>3, <2>4 DEF Drawn
  <2>6. \A k \in 1..sent' : evs'[k].seq <= now'
    BY <1>0, <1>3, <2>2, <2>3, <2>5
  <2>7. ASSUME NEW j \in 1..sent', NEW k \in 1..sent', j < k PROVE evs'[j].seq < evs'[k].seq
    <3>1. j \in 1..sent
      BY <1>0, <1>3, <2>7
    <3>2. CASE k \in 1..sent
      BY <1>3, <2>3, <2>4, <2>7, <3>1, <3>2 DEF Drawn
    <3>3. CASE k = sent + 1
      BY <1>0, <2>2, <2>3, <2>5, <3>1, <3>3
    <3> QED
      BY <2>3, <3>2, <3>3
  <2> QED
    BY <2>6, <2>7
<1> QED
  BY <1>1, <1>2, <1>3, EventsStep

(* They fit into the words of the IDs as long as the clock does. *)
LEMMA NumbersFitStep ==
  LossInv /\ NumbersFit /\ ClockFits' /\ [ENext]_evars => NumbersFit'
<1> SUFFICES ASSUME LossInv, NumbersFit, ClockFits', [ENext]_evars PROVE NumbersFit'
  OBVIOUS
<1>1. CASE UNCHANGED <<sent, evs>>
  BY <1>1 DEF NumbersFit
<1>2. CASE /\ sent' = sent + 1 /\ now' = now + 1 /\ UNCHANGED setBack
           /\ \E ts \in Timestamps[sent + 1] :
                evs' = Append(evs, [ref |-> ReferenceTime(ts), seq |-> now + 1])
           /\ sent + 1 \in 1..NumEvents
  <2>1. PICK ts \in Timestamps[sent + 1] :
          evs' = Append(evs, [ref |-> ReferenceTime(ts), seq |-> now + 1])
    BY <1>2
  <2> DEFINE e == [ref |-> ReferenceTime(ts), seq |-> now + 1]
  <2>2. e \in Event /\ e.seq = now'
    BY <1>2, CollectedEvent
  <2> HIDE DEF e
  <2>3. /\ \A k \in 1..sent : evs'[k] = evs[k]
        /\ evs'[sent + 1] = e
        /\ \A k \in 1..sent' : k \in 1..sent \/ k = sent + 1
    BY <1>2, <2>1, <2>2, Appended DEF e
  <2> QED
    BY <2>2, <2>3 DEF NumbersFit, ClockFits
<1> QED
  BY <1>1, <1>2, EventsStep

(* Different events have different IDs, unless the clock was set back. *)
LEMMA DifferentIDs ==
  ASSUME LossInv, Drawn, NumbersFit, ~setBack,
         NEW j \in 1..sent, NEW k \in 1..sent, ID(j) = ID(k)
  PROVE  j = k
<1>1. evs[j] \in Event /\ evs[k] \in Event
  BY DEF LossInv, Typed
<1>2. /\ evs[j].seq \in Nat /\ evs[j].seq < WordSize
      /\ evs[k].seq \in Nat /\ evs[k].seq < WordSize
      /\ WordSize \in Nat
  BY <1>1, EkanitedAssumption DEF Event, NumbersFit
<1>3. evs[j].seq % WordSize = evs[j].seq
  BY <1>2, Word
<1>4. evs[k].seq % WordSize = evs[k].seq
  BY <1>2, Word
<1>5. evs[j].seq = evs[k].seq
  BY <1>3, <1>4 DEF ID
<1>6. ~(evs[j].seq < evs[k].seq) /\ ~(evs[k].seq < evs[j].seq)
  BY <1>2, <1>5
<1>7. ~(j < k) /\ ~(k < j)
  BY <1>6 DEF Drawn
<1> QED
  BY <1>7

(* A write replaces no other event. *)
LEMMA KeptStep == KeptInv /\ [ENext]_evars => Kept'
<1> SUFFICES ASSUME KeptInv, [ENext]_evars, ~setBack'
             PROVE  \A k \in written' : ID(k)' \in DOMAIN stored' /\ stored'[ID(k)'] = k
  BY DEF Kept
<1>0. LossInv /\ Drawn /\ NumbersFit /\ written \subseteq 1..sent
  BY DEF KeptInv, LossInv, Typed
<1>1. ~setBack
  BY <1>0, EventsStep
<1>2. \A k \in written : ID(k) \in DOMAIN stored /\ stored[ID(k)] = k
  BY <1>1 DEF KeptInv, Kept
<1>3. \A k \in 1..sent : ID(k)' = ID(k)
  <2>1. CASE UNCHANGED evs
    BY <2>1 DEF ID
  <2>2. CASE /\ sent' = sent + 1 /\ sent + 1 \in 1..NumEvents
             /\ \E ts \in Timestamps[sent + 1] :
                  evs' = Append(evs, [ref |-> ReferenceTime(ts), seq |-> now + 1])
    <3>1. PICK ts \in Timestamps[sent + 1] :
            evs' = Append(evs, [ref |-> ReferenceTime(ts), seq |-> now + 1])
      BY <2>2
    <3>2. \A k \in 1..sent : evs'[k] = evs[k]
      BY <1>0, <2>2, <3>1, CollectedEvent, Appended
    <3> QED
      BY <3>2 DEF ID
  <2> QED
    BY <1>0, <2>1, <2>2, EventsStep
<1>4. CASE UNCHANGED <<stored, written>>
  BY <1>0, <1>2, <1>3, <1>4
<1>5. ASSUME NEW k \in 1..NumEvents, Write(k)
      PROVE  \A j \in written' : ID(j)' \in DOMAIN stored' /\ stored'[ID(j)'] = j
  <2>1. k \in 1..sent
    <3>1. k \in Range(Unindexed)
      BY <1>5 DEF Write, Unindexed
    <3> QED
      BY <1>0, <3>1, HeldIsRecent
  <2>2. CASE UNCHANGED <<stored, written>>
    BY <1>4, <2>2
  <2>3. CASE /\ stored' = [id \in DOMAIN stored \cup {ID(k)} |->
                             IF id = ID(k) THEN k ELSE stored[id]]
             /\ written' = written \cup {k}
    <3>1. ASSUME NEW j \in written' PROVE ID(j) \in DOMAIN stored' /\ stored'[ID(j)] = j
      <4>1. j \in 1..sent
        BY <1>0, <2>1, <2>3
      <4>2. CASE j = k
        BY <2>3, <4>2
      <4>3. CASE j # k
        <5>1. ID(j) # ID(k)
          BY <1>0, <1>1, <2>1, <4>1, <4>3, DifferentIDs
        <5> QED
          BY <1>2, <2>3, <4>3, <5>1
      <4> QED
        BY <4>2, <4>3
    <3> QED
      BY <1>0, <1>3, <2>1, <2>3, <3>1
  <2> QED
    BY <1>5, <2>2, <2>3 DEF Write
<1> QED
  <2>1. UNCHANGED <<stored, written>> \/ \E k \in 1..NumEvents : Write(k)
    BY StepCases DEF Start, StartPart, Signal, Collect, BatcherStep, IndexReturns, Expire,
                     End, evars, store
  <2> QED
    BY <1>4, <1>5, <2>1

(* The whole invariant, as long as the clock fits into a word. *)
THEOREM KeptInvariance == ESpec /\ []ClockFits => []KeptInv
<1>1. EInit => KeptInv
  BY InitLoss DEF KeptInv, Drawn, NumbersFit, Kept, EInit, Init
<1>2. KeptInv /\ ClockFits' /\ [ENext]_evars => KeptInv'
  <2>1. LossInv /\ [ENext]_evars => LossInv'
    BY TypedStep, HeldStep, AccountedStep DEF LossInv
  <2> QED
    BY <2>1, DrawnStep, NumbersFitStep, KeptStep DEF KeptInv
<1> QED
  BY <1>1, <1>2, PTL DEF ESpec

(* No event replaces another one, across restarts and whatever timestamps  *)
(* the messages carry, as long as the clock is not set back and fits into  *)
(* 64 bits of nanoseconds.                                                 *)
THEOREM NothingReplaced == ESpec /\ []ClockFits => []StoredKept
<1>1. KeptInv => StoredKept
  BY DEF KeptInv, Kept, StoredKept
<1> QED
  BY KeptInvariance, <1>1, PTL

-----------------------------------------------------------------------------
(* The timestamps of messages that UnixNano can represent. *)
TimestampsFit ==
  \A k \in 1..NumEvents : \A ts \in Timestamps[k] :
     ts = NoTimestamp \/ (-WordSize <= ts /\ ts < WordSize)

(* 1970 begins with a new index: events of one index are on one side of it. *)
LEMMA OneSide ==
  ASSUME LossInv, NEW j \in 1..sent, NEW k \in 1..sent, IndexOf(j) = IndexOf(k)
  PROVE  evs[j].ref < 0 <=> evs[k].ref < 0
<1>1. IndexDuration \in Nat \ {0} /\ evs[j].ref \in Int /\ evs[k].ref \in Int
  <2>1. evs[j] \in Event /\ evs[k] \in Event
    BY DEF LossInv, Typed
  <2> QED
    BY <2>1, EkanitedAssumption DEF Event
<1>2. ASSUME NEW x \in Int PROVE x < 0 <=> x - (x % IndexDuration) < 0
  <2> DEFINE q == x \div IndexDuration
             r == x % IndexDuration
  <2>1. q \in Int /\ r \in 0..(IndexDuration - 1) /\ x = IndexDuration * q + r
    BY <1>1, Remainder
  <2> HIDE DEF q, r
  <2>2. q >= 0 => IndexDuration * q >= 0
    BY <1>1, <2>1, Z3
  <2>3. q <= -1 => IndexDuration * q <= -IndexDuration
    BY <1>1, <2>1, Z3
  <2>4. x < 0 <=> x - r < 0
    BY <1>1, <2>1, <2>2, <2>3
  <2> QED
    BY <2>4 DEF r
<1> QED
  BY <1>1, <1>2 DEF IndexOf

(* The order of the IDs of two events of an index. *)
LEMMA IDsOrdered ==
  ASSUME LossInv, NumbersFit, TimesFit,
         NEW j \in 1..sent, NEW k \in 1..sent, IndexOf(j) = IndexOf(k)
  PROVE  Less(ID(j), ID(k)) <=> \/ evs[j].ref < evs[k].ref
                                \/ evs[j].ref = evs[k].ref /\ evs[j].seq < evs[k].seq
<1>1. evs[j] \in Event /\ evs[k] \in Event /\ WordSize \in Nat
  BY EkanitedAssumption DEF LossInv, Typed
<1> DEFINE r == evs[j].ref
           s == evs[k].ref
           m == evs[j].seq
           n == evs[k].seq
<1>2. /\ r \in Int /\ s \in Int /\ m \in Nat /\ n \in Nat
      /\ -WordSize <= r /\ r < WordSize /\ -WordSize <= s /\ s < WordSize
      /\ m < WordSize /\ n < WordSize
      /\ r < 0 <=> s < 0
  BY <1>1, OneSide DEF Event, NumbersFit, TimesFit
<1>3. ID(j) = <<r % WordSize, m % WordSize>> /\ ID(k) = <<s % WordSize, n % WordSize>>
  BY DEF ID
<1> HIDE DEF r, s, m, n
<1>4. m % WordSize = m /\ n % WordSize = n
  BY <1>1, <1>2, Word
<1>5. /\ r % WordSize = IF r < 0 THEN r + WordSize ELSE r
      /\ s % WordSize = IF s < 0 THEN s + WordSize ELSE s
  BY <1>2, Word
<1>6. Less(ID(j), ID(k)) <=> IF r % WordSize = s % WordSize
                               THEN m < n ELSE r % WordSize < s % WordSize
  BY <1>3, <1>4 DEF Less
<1>7. (r % WordSize = s % WordSize <=> r = s) /\ (r % WordSize < s % WordSize <=> r < s)
  BY <1>1, <1>2, <1>5
<1>8. Less(ID(j), ID(k)) <=> (r < s \/ (r = s /\ m < n))
  BY <1>2, <1>6, <1>7
<1> QED
  BY <1>8 DEF r, s, m, n

(* Reference times stay within the range of UnixNano. *)
LEMMA TimesFitStep ==
  ASSUME TimestampsFit, LossInv, TimesFit, ClockFits', [ENext]_evars
  PROVE  TimesFit'
<1>1. CASE UNCHANGED <<sent, evs>>
  BY <1>1 DEF TimesFit
<1>2. CASE /\ sent' = sent + 1 /\ now' = now + 1 /\ UNCHANGED setBack
           /\ \E ts \in Timestamps[sent + 1] :
                evs' = Append(evs, [ref |-> ReferenceTime(ts), seq |-> now + 1])
           /\ sent + 1 \in 1..NumEvents
  <2>1. PICK ts \in Timestamps[sent + 1] :
          evs' = Append(evs, [ref |-> ReferenceTime(ts), seq |-> now + 1])
    BY <1>2
  <2> DEFINE e == [ref |-> ReferenceTime(ts), seq |-> now + 1]
  <2>2. e \in Event /\ e.ref = ReferenceTime(ts)
    BY <1>2, CollectedEvent
  <2>3. -WordSize <= ReferenceTime(ts) /\ ReferenceTime(ts) < WordSize
    BY <1>2, EkanitedAssumption DEF TimestampsFit, ReferenceTime, ClockFits, LossInv, Typed
  <2> HIDE DEF e
  <2>4. /\ \A k \in 1..sent : evs'[k] = evs[k]
        /\ evs'[sent + 1] = e
        /\ \A k \in 1..sent' : k \in 1..sent \/ k = sent + 1
    BY <1>2, <2>1, <2>2, Appended DEF e
  <2> QED
    BY <2>2, <2>3, <2>4 DEF TimesFit
<1> QED
  BY <1>1, <1>2, EventsStep

(* Within an index the IDs sort as the reference times and, among equal    *)
(* ones, as the events came in, before and after 1970, for every clock and *)
(* every timestamp that UnixNano can represent.                            *)
THEOREM IDsSortByTime ==
  ASSUME TimestampsFit
  PROVE  ESpec /\ []ClockFits => []IDOrder
<1>1. EInit => TimesFit
  BY DEF EInit, Init, TimesFit
<1>2. KeptInv /\ TimesFit /\ ClockFits' /\ [ENext]_evars => TimesFit'
  BY TimesFitStep DEF KeptInv
<1>3. KeptInv /\ TimesFit => IDOrder
  BY IDsOrdered DEF KeptInv, LossInv, Typed, IDOrder
<1> QED
  BY KeptInvariance, <1>1, <1>2, <1>3, PTL DEF ESpec
=============================================================================
