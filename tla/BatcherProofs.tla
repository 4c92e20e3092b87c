--------------------------- MODULE BatcherProofs ---------------------------
(***************************************************************************)
(* Safety of the batcher for every batch size, channel capacity, number of *)
(* events and number of failed calls of Index.                             *)
(***************************************************************************)
EXTENDS Batcher, TLAPS

(* s holds the consecutive events that follow event k. *)
Numbered(s, k) == \A i \in 1..Len(s) : s[i] = k + i

(* Where the events are: the indexer has the first ones, the goroutine's   *)
(* batch the next ones, the channel the last ones.                         *)
Placed ==
  /\ sent = Len(indexed) + Len(Unindexed) + Len(c)
  /\ Numbered(indexed, 0)
  /\ Numbered(Unindexed, Len(indexed))
  /\ Numbered(c, Len(indexed) + Len(Unindexed))

(* Until the first failed Index: the batch never grows past Size, it is    *)
(* full only while it is being sent, and a waiting batch has a timer.      *)
Timed ==
  errs = 0 =>
    /\ Len(batch) <= Size
    /\ pc = "select" => Len(batch) < Size
    /\ (pc = "select" /\ batch # << >>) => (timer = "running" \/ ticks = 1)

IInv == TypeOK /\ Placed /\ Timed

USE BatcherAssumption

(* Appending the next event keeps a sequence consecutive. *)
LEMMA NumberedAppend ==
  ASSUME NEW s \in Seq(Nat), NEW k \in Nat, Numbered(s, k)
  PROVE  Numbered(Append(s, k + Len(s) + 1), k)
BY DEF Numbered

(* Receiving from a consecutive sequence yields the event after k. *)
LEMMA NumberedTail ==
  ASSUME NEW s \in Seq(Nat), s # << >>, NEW k \in Nat, Numbered(s, k)
  PROVE  Head(s) = k + 1 /\ Numbered(Tail(s), k + 1)
<1>1. Len(Tail(s)) = Len(s) - 1 /\ Len(s) \in Nat \ {0}
  OBVIOUS
<1>2. \A i \in 1..Len(s) - 1 : Tail(s)[i] = s[i + 1]
  OBVIOUS
<1>3. Head(s) = k + 1
  BY <1>1 DEF Numbered
<1> QED
  BY <1>1, <1>2, <1>3 DEF Numbered

(* Two consecutive sequences, the second starting where the first ends. *)
LEMMA NumberedConcat ==
  ASSUME NEW s \in Seq(Nat), NEW t \in Seq(Nat), NEW k \in Nat,
         Numbered(s, k), Numbered(t, k + Len(s))
  PROVE  Numbered(s \o t, k)
<1>1. Len(s \o t) = Len(s) + Len(t)
  OBVIOUS
<1>2. ASSUME NEW i \in 1..Len(s) + Len(t) PROVE (s \o t)[i] = k + i
  <2>1. (s \o t)[i] = IF i <= Len(s) THEN s[i] ELSE t[i - Len(s)]
    OBVIOUS
  <2>2. CASE i <= Len(s)
    BY <2>1, <2>2 DEF Numbered
  <2>3. CASE i > Len(s)
    <3>1. i - Len(s) \in 1..Len(t)
      BY <2>3
    <3>2. t[i - Len(s)] = k + Len(s) + (i - Len(s))
      BY <3>1 DEF Numbered
    <3> QED
      BY <2>1, <2>3, <3>2
  <2> QED
    BY <2>2, <2>3
<1> QED
  BY <1>1, <1>2 DEF Numbered

(* A sequence of n events that starts with the first one. *)
LEMMA NumberedIsFirst ==
  ASSUME NEW s \in Seq(Nat), Numbered(s, 0)
  PROVE  s = [i \in 1..Len(s) |-> i]
<1>1. \A i \in 1..Len(s) : s[i] = i
  BY DEF Numbered
<1> QED
  BY <1>1

(* The initial state has nothing anywhere. *)
LEMMA InitIInv == Init => IInv
<1> SUFFICES ASSUME Init PROVE IInv
  OBVIOUS
<1>1. TypeOK
  BY DEF Init, TypeOK
<1>2. Unindexed = << >>
  BY DEF Init, Unindexed
<1>3. Placed
  BY <1>2 DEF Init, Placed, Numbered
<1>4. Timed
  BY DEF Init, Timed
<1> QED
  BY <1>1, <1>3, <1>4 DEF IInv

(* Every step keeps the types, among them the capacity of the channel. *)
LEMMA TypeStep == IInv /\ [Next]_vars => TypeOK'
<1> SUFFICES ASSUME IInv, [Next]_vars PROVE TypeOK'
  OBVIOUS
<1> USE DEF IInv, TypeOK
<1>1. CASE SendEvent
  BY <1>1 DEF SendEvent
<1>9. CASE Handoff
  <2>1. /\ sent < NumEvents /\ sent' = sent + 1 /\ batch' = Append(batch, sent + 1)
        /\ UNCHANGED <<c, indexed, errs>>
    BY <1>9 DEF Handoff, Take
  <2>2. sent' \in 0..NumEvents /\ batch' \in Seq(1..NumEvents)
    BY <2>1
  <2>3. timer' \in {"running", "stopped"} /\ ticks' \in 0..1
    BY <1>9 DEF Handoff, Take, FullBatch, TimerAfterAppend
  <2>4. pc' \in {"select", "index", "notify"}
    BY <1>9 DEF Handoff, Take, FullBatch
  <2> QED
    BY <2>1, <2>2, <2>3, <2>4
<1>2. CASE TimerFires
  BY <1>2 DEF TimerFires
<1>3. CASE Receive
  <2>1. /\ c \in Seq(1..NumEvents) /\ c # << >>
        /\ c' = Tail(c) /\ batch' = Append(batch, Head(c))
        /\ UNCHANGED <<sent, indexed, errs>>
    BY <1>3 DEF Receive, Take
  <2>2. /\ c' \in Seq(1..NumEvents) /\ Len(c') <= MaxPending
        /\ batch' \in Seq(1..NumEvents)
    BY <2>1
  <2>3. timer' \in {"running", "stopped"} /\ ticks' \in 0..1
    BY <1>3 DEF Receive, Take, FullBatch, TimerAfterAppend
  <2>4. pc' \in {"select", "index", "notify"}
    BY <1>3 DEF Receive, Take, FullBatch
  <2> QED
    BY <2>1, <2>2, <2>3, <2>4
<1>4. CASE Timeout
  BY <1>4 DEF Timeout
<1>5. CASE IndexOK
  BY <1>5 DEF IndexOK
<1>6. CASE IndexErr
  BY <1>6 DEF IndexErr
<1>7. CASE Notify
  BY <1>7 DEF Notify
<1>8. CASE Idle \/ UNCHANGED vars
  BY <1>8 DEF Idle, vars
<1> QED
  BY <1>1, <1>2, <1>3, <1>4, <1>5, <1>6, <1>7, <1>8, <1>9 DEF Next, Goroutine

(* Every step keeps every event at its place. *)
LEMMA PlacedStep == IInv /\ [Next]_vars => Placed'
<1> SUFFICES ASSUME IInv, [Next]_vars PROVE Placed'
  OBVIOUS
<1>0. /\ indexed \in Seq(Nat) /\ Unindexed \in Seq(Nat) /\ c \in Seq(Nat)
      /\ batch \in Seq(Nat)
  BY DEF IInv, TypeOK, Unindexed
<1> USE DEF IInv, Placed
<1>1. CASE SendEvent
  <2>1. UNCHANGED <<indexed, Unindexed>>
    BY <1>1 DEF SendEvent, Unindexed
  <2>2. sent' = sent + 1 /\ c' = Append(c, sent + 1)
    BY <1>1 DEF SendEvent
  <2>3. Numbered(c', Len(indexed) + Len(Unindexed))
    BY <1>0, <2>2, NumberedAppend
  <2> QED
    BY <1>0, <2>1, <2>2, <2>3
<1>5. CASE Handoff
  <2>1. /\ c = << >> /\ batch' = Append(batch, sent + 1) /\ sent' = sent + 1
        /\ Unindexed = batch /\ Unindexed' = batch' /\ UNCHANGED <<c, indexed>>
    BY <1>5 DEF Handoff, Take, FullBatch, Unindexed
  <2>2. Len(c) = 0 /\ Len(batch') = Len(batch) + 1 /\ sent = Len(indexed) + Len(batch)
    BY <1>0, <2>1
  <2>3. Numbered(batch', Len(indexed))
    BY <1>0, <2>1, <2>2, NumberedAppend
  <2>4. Numbered(c', Len(indexed') + Len(Unindexed'))
    BY <2>1, <2>2 DEF Numbered
  <2> QED
    BY <1>0, <2>1, <2>2, <2>3, <2>4
<1>2. CASE Receive
  <2>1. /\ c # << >> /\ c' = Tail(c) /\ batch' = Append(batch, Head(c))
        /\ Unindexed = batch /\ Unindexed' = batch'
        /\ UNCHANGED <<sent, indexed>>
    BY <1>2 DEF Receive, Take, FullBatch, Unindexed
  <2>2. Len(c') = Len(c) - 1 /\ Len(batch') = Len(batch) + 1
    BY <1>0, <2>1
  <2>3. /\ Head(c) = Len(indexed) + Len(batch) + 1
        /\ Numbered(c', Len(indexed) + Len(batch) + 1)
    BY <1>0, <2>1, NumberedTail
  <2>4. Numbered(batch', Len(indexed))
    BY <1>0, <2>1, <2>3, NumberedAppend
  <2> QED
    BY <1>0, <2>1, <2>2, <2>3, <2>4
<1>3. CASE IndexOK
  <2>1. /\ indexed' = indexed \o batch /\ Unindexed = batch
        /\ Unindexed' = << >> /\ UNCHANGED <<sent, c>>
    BY <1>3 DEF IndexOK, Unindexed
  <2>2. Len(indexed') = Len(indexed) + Len(batch)
    BY <1>0, <2>1
  <2>3. Numbered(indexed', 0)
    BY <1>0, <2>1, NumberedConcat
  <2>4. Numbered(Unindexed', Len(indexed'))
    BY <2>1 DEF Numbered
  <2> QED
    BY <1>0, <2>1, <2>2, <2>3, <2>4
<1>4. CASE TimerFires \/ Timeout \/ IndexErr \/ Notify \/ Idle
           \/ UNCHANGED vars
  <2>1. UNCHANGED <<sent, c, indexed, Unindexed>>
    BY <1>4 DEF TimerFires, Timeout, IndexErr, Notify, Idle, vars, Unindexed
  <2> QED
    BY <2>1
<1> QED
  BY <1>1, <1>2, <1>3, <1>4, <1>5 DEF Next, Goroutine

(* Every step keeps the batch timed until Index fails. *)
LEMMA TimedStep == IInv /\ [Next]_vars => Timed'
<1> SUFFICES ASSUME IInv, [Next]_vars PROVE Timed'
  OBVIOUS
<1> USE DEF IInv, TypeOK, Timed
<1>1. CASE SendEvent
  BY <1>1 DEF SendEvent
<1>9. CASE Handoff
  BY <1>9 DEF Handoff, Take, FullBatch, TimerAfterAppend
<1>2. CASE TimerFires
  BY <1>2 DEF TimerFires
<1>3. CASE Receive
  BY <1>3 DEF Receive, Take, FullBatch, TimerAfterAppend
<1>4. CASE Timeout
  BY <1>4 DEF Timeout
<1>5. CASE IndexOK
  BY <1>5 DEF IndexOK
<1>6. CASE IndexErr
  BY <1>6 DEF IndexErr
<1>7. CASE Notify
  BY <1>7 DEF Notify
<1>8. CASE Idle \/ UNCHANGED vars
  BY <1>8 DEF Idle, vars
<1> QED
  BY <1>1, <1>2, <1>3, <1>4, <1>5, <1>6, <1>7, <1>8, <1>9 DEF Next, Goroutine

(* The inductive invariant of the batcher holds in every reachable state. *)
THEOREM BatcherInvariant == Spec => []IInv
<1>1. IInv /\ [Next]_vars => IInv'
  BY TypeStep, PlacedStep, TimedStep DEF IInv
<1> QED
  BY InitIInv, <1>1, PTL DEF Spec

(* The channel never holds more than its capacity and every component of   *)
(* the state keeps its type, for every batch size and channel capacity.    *)
THEOREM BatcherTypeOK == Spec => []TypeOK
<1>1. IInv => TypeOK
  BY DEF IInv
<1> QED
  BY BatcherInvariant, <1>1, PTL

(* Placed says the same as the concatenation the model checker evaluates. *)
LEMMA PlacedIsExactlyOnce == IInv => ExactlyOnceInOrder
<1> SUFFICES ASSUME IInv PROVE ExactlyOnceInOrder
  OBVIOUS
<1> DEFINE u == Unindexed
           p == indexed \o u
<1>1. indexed \in Seq(Nat) /\ u \in Seq(Nat) /\ c \in Seq(Nat)
  BY DEF IInv, TypeOK, Unindexed
<1>2. /\ Numbered(indexed, 0) /\ Numbered(u, Len(indexed))
      /\ Numbered(c, Len(indexed) + Len(u))
      /\ sent = Len(indexed) + Len(u) + Len(c)
  BY DEF IInv, Placed
<1> HIDE DEF u
<1>3. p \in Seq(Nat) /\ Len(p) = Len(indexed) + Len(u)
  BY <1>1
<1>4. Numbered(p, 0)
  BY <1>1, <1>2, NumberedConcat
<1> HIDE DEF p
<1>5. p \o c \in Seq(Nat) /\ Len(p \o c) = sent
  BY <1>1, <1>2, <1>3
<1>6. Numbered(p \o c, 0)
  <2>1. Numbered(c, 0 + Len(p))
    BY <1>1, <1>2, <1>3
  <2> QED
    BY <1>1, <1>3, <1>4, <2>1, NumberedConcat
<1>7. p \o c = [i \in 1..Len(p \o c) |-> i]
  BY <1>5, <1>6, NumberedIsFirst
<1> QED
  BY <1>5, <1>7 DEF ExactlyOnceInOrder, u, p

(* No accepted event is lost, duplicated or reordered on its way to the    *)
(* indexer, however many calls of Index fail (send() of engine.go).        *)
THEOREM BatcherExactlyOnce == Spec => []ExactlyOnceInOrder
BY BatcherInvariant, PlacedIsExactlyOnce, PTL

(* Until Index fails, events waiting in the batch have a running timer or  *)
(* a waiting tick: the Stop of a full batch never strands the next one.    *)
THEOREM BatcherTimed == Spec => []WaitingBatchIsTimed
<1>1. IInv => WaitingBatchIsTimed
  BY DEF IInv, Timed, WaitingBatchIsTimed
<1> QED
  BY BatcherInvariant, <1>1, PTL

(* Until Index fails, back pressure bounds the outstanding events by the   *)
(* channel's capacity and one batch.                                       *)
THEOREM BatcherBound == Spec => []OutstandingBound
<1>1. IInv => OutstandingBound
  BY DEF IInv, TypeOK, Placed, Timed, Unindexed, OutstandingBound
<1> QED
  BY BatcherInvariant, <1>1, PTL

(* The batcher implements ordered delivery: indexing a batch delivers the  *)
(* oldest outstanding events, a send accepts one, every other step of the  *)
(* goroutine and of the timer is invisible.                                *)
THEOREM BatcherRefinement == Spec => DeliversInOrder
<1>1. Init => Delivery!ODInit
  BY DEF Init, Delivery!ODInit
<1>2. IInv /\ IInv' /\ [Next]_vars => [Delivery!ODNext]_(Delivery!ODVars)
  <2> SUFFICES ASSUME IInv, IInv', [Next]_vars
               PROVE  [Delivery!ODNext]_(Delivery!ODVars)
    OBVIOUS
  <2>1. CASE SendEvent \/ Handoff
    BY <2>1 DEF SendEvent, Handoff, Delivery!ODNext, Delivery!Accept
  <2>2. CASE IndexOK
    <3>1. UNCHANGED sent /\ indexed' \in Seq(1..NumEvents)
      BY <2>2 DEF IndexOK, IInv, TypeOK
    <3>2. /\ Len(indexed') = Len(indexed) + Len(batch)
          /\ Len(indexed) \in Nat /\ Len(batch) \in Nat
      BY <2>2 DEF IndexOK, IInv, TypeOK
    <3>3. Len(indexed') \in Len(indexed)..sent
      <4>1. Unindexed = batch /\ Len(c) \in Nat /\ sent \in Nat
        BY <2>2 DEF IndexOK, IInv, TypeOK, Unindexed
      <4>2. sent = Len(indexed) + Len(batch) + Len(c)
        BY <4>1 DEF IInv, Placed
      <4> QED
        BY <3>2, <4>1, <4>2
    <3>4. indexed' \in Seq(Nat) /\ Numbered(indexed', 0)
      <4>1. Placed'
        BY DEF IInv
      <4> QED
        BY <3>1, <4>1 DEF Placed, Numbered
    <3>5. indexed' = Delivery!FirstEvents(Len(indexed'))
      BY <3>4, NumberedIsFirst DEF Delivery!FirstEvents
    <3> QED
      BY <3>1, <3>3, <3>5 DEF Delivery!ODNext, Delivery!Deliver
  <2>3. CASE TimerFires \/ Receive \/ Timeout \/ IndexErr \/ Notify
             \/ Idle \/ UNCHANGED vars
    BY <2>3 DEF TimerFires, Receive, Timeout, IndexErr, Notify, Idle, vars,
                Delivery!ODVars
  <2> QED
    BY <2>1, <2>2, <2>3 DEF Next, Goroutine
<1> QED
  BY BatcherInvariant, <1>1, <1>2, PTL DEF Spec, DeliversInOrder, Delivery!ODSpec
=============================================================================
