---------------------------- MODULE EngineProofs ----------------------------
(***************************************************************************)
(* Safety of the engine for every set of events and callers, every index   *)
(* duration and retention period, and any number of restarts and faults.   *)
(***************************************************************************)
EXTENDS Engine, TLAPS

(* The range of an index created by the engine starts at a multiple of the *)
(* index duration and is one duration long.                                *)
Aligned(x) ==
  /\ Truncate(x.startTime) = x.startTime
  /\ x.endTime = x.startTime + IndexDuration

InWriteSection(cl) == ipc[cl] \in {"recheck", "sort", "unlock"}
HasIndex(cl) == ipc[cl] \in {"sort", "unlock", "relock"}
HasEvent(cl) == ipc[cl] \in {"upgrade", "recheck", "sort", "unlock", "relock"}

(* The read-write lock is what the callers and retention believe it is. *)
Locked ==
  /\ \A cl \in Callers : cl \in rlock <=> ipc[cl] = "route"
  /\ wlock # "none" => rlock = {}
  /\ \A cl \in Callers : InWriteSection(cl) => wlock = "index"
  /\ \A a, b \in Callers : InWriteSection(a) /\ InWriteSection(b) => a = b
  /\ ~Running => wlock = "none" /\ \A cl \in Callers : ipc[cl] = "idle"

(* The ranges of the slice and of the disk are aligned, those of the slice *)
(* are distinct, and ordered unless they are being sorted.                 *)
Sorted ==
  /\ \A d \in dirs : Aligned(d)
  /\ unopened \subseteq dirs
  /\ mode # "opening" => unopened = {}
  /\ mode = "down" => indexes = << >>
  /\ \A k \in 1..Len(indexes) : Aligned(indexes[k])
  /\ \A j, k \in 1..Len(indexes) :
       j # k => indexes[j].startTime # indexes[k].startTime
  /\ (\A cl \in Callers : ipc[cl] # "sort") =>
       \A j, k \in 1..Len(indexes) :
          j < k => indexes[k].endTime <= indexes[j].startTime
  /\ \A d \in unopened, k \in 1..Len(indexes) :
       indexes[k].startTime # d.startTime

(* Retention has kept everything so far, or all that is left has expired.  *)
Filtered ==
  /\ wlock # "retention" => rpos = 1 /\ rkept = 0
  /\ rkept # rpos - 1 =>
       \A k \in (rkept + 1)..Len(indexes) : Expired(indexes[k], now)

(* Positions of the slice that retention has not deleted. *)
Live(k) == k \in 1..Len(indexes) /\ (k <= rkept \/ k >= rpos)

(* What is open is in the slice, and unless the engine is being closed     *)
(* what is in the slice is open.                                           *)
Opened ==
  /\ \A x \in open : \E k \in 1..Len(indexes) : Live(k) /\ indexes[k] = x
  /\ mode # "closing" =>
       \A k \in 1..Len(indexes) : Live(k) => indexes[k] \in open

(* An index a caller is about to write to is right for the event, and it   *)
(* is open or nothing in it needs to be kept.                              *)
Usable(x, ev) ==
  /\ Aligned(x)
  /\ Contains(x, RefTime[ev])
  /\ x \in open \/ Expired(x, now) \/ mode = "closing"

RoutedCaller(cl) ==
  /\ HasEvent(cl) => todo[cl] # << >>
  /\ HasIndex(cl) => /\ index[cl] \in IndexObject
                     /\ Usable(index[cl], Head(todo[cl]))
  /\ \A p \in sub[cl] : Usable(p[1], p[2])

Routed == \A cl \in Callers : RoutedCaller(cl)

(* Nothing more has to be done for an event. *)
Settled(ev) ==
  \/ ev \in excused
  \/ <<PathOf(ev), ev>> \in stored
  \/ Outlived(PathOf(ev))

(* The event is still to be routed or to be written. *)
Pending(cl, ev) ==
  \/ \E k \in 1..Len(todo[cl]) : todo[cl][k] = ev
  \/ \E p \in sub[cl] : p[2] = ev

(* Every event of a call is pending or settled. *)
Accounted ==
  /\ \A ev \in acked : Settled(ev)
  /\ \A cl \in Callers : \A ev \in called[cl] : Pending(cl, ev) \/ Settled(ev)

IInv == TypeOK /\ Locked /\ Sorted /\ Filtered /\ Opened /\ Routed /\ Accounted

USE EngineAssumption

-----------------------------------------------------------------------------
(* Truncate rounds down to a multiple of the duration. *)
LEMMA TruncateBounds ==
  ASSUME NEW t \in Nat
  PROVE  /\ Truncate(t) \in Nat
         /\ Truncate(t) <= t
         /\ t < Truncate(t) + IndexDuration
BY Z3 DEF Truncate

(* Two multiples of the duration are equal or a duration apart. *)
LEMMA TruncateApart ==
  ASSUME NEW t \in Nat, NEW u \in Nat, Truncate(t) < Truncate(u)
  PROVE  Truncate(t) + IndexDuration <= Truncate(u)
<1> DEFINE D == IndexDuration
           q == t \div D
           r == u \div D
<1>1. q \in Nat /\ r \in Nat /\ D \in Nat \ {0}
  BY Z3
<1>2. Truncate(t) = q * D /\ Truncate(u) = r * D
  BY DEF Truncate
<1> HIDE DEF q, r, D
<1>3. q < r
  <2> SUFFICES ASSUME r <= q PROVE FALSE
    BY <1>1
  <2>1. r * D <= q * D
    BY <1>1, Z3
  <2> QED
    BY <1>1, <1>2, <2>1
<1>4. (q + 1) * D <= r * D
  BY <1>1, <1>3, Z3
<1>5. (q + 1) * D = q * D + D
  BY <1>1, Z3
<1> QED
  BY <1>1, <1>2, <1>4, <1>5 DEF D

(* A multiple of the duration is its own truncation. *)
LEMMA TruncateFixed ==
  ASSUME NEW t \in Nat
  PROVE  Truncate(Truncate(t)) = Truncate(t)
<1> DEFINE u == Truncate(t)
<1>1. u \in Nat
  BY TruncateBounds
<1>2. /\ Truncate(u) \in Nat /\ Truncate(u) <= u
      /\ u < Truncate(u) + IndexDuration
  BY <1>1, TruncateBounds
<1>3. ~(Truncate(u) < u)
  <2> SUFFICES ASSUME Truncate(u) < u PROVE FALSE
    OBVIOUS
  <2>1. Truncate(u) + IndexDuration <= Truncate(t)
    BY <1>1, TruncateApart
  <2> QED
    BY <1>1, <1>2, <2>1
<1> QED
  BY <1>1, <1>2, <1>3

(* Aligned ranges with different starts are disjoint. *)
LEMMA AlignedApart ==
  ASSUME NEW x, NEW y, x.startTime \in Nat, y.startTime \in Nat,
         Aligned(x), Aligned(y), x.startTime < y.startTime
  PROVE  x.endTime <= y.startTime
BY TruncateApart DEF Aligned

(* The aligned range that contains t starts at its truncation. *)
LEMMA AlignedContains ==
  ASSUME NEW x, x.startTime \in Nat, Aligned(x), NEW t \in Nat
  PROVE  Contains(x, t) <=> x.startTime = Truncate(t)
<1>1. /\ Truncate(t) \in Nat /\ Truncate(t) <= t
      /\ t < Truncate(t) + IndexDuration
  BY TruncateBounds
<1>2. x.startTime < Truncate(t) => x.startTime + IndexDuration <= Truncate(t)
  BY TruncateApart DEF Aligned
<1>3. Truncate(t) < x.startTime => Truncate(t) + IndexDuration <= x.startTime
  BY TruncateApart DEF Aligned
<1> QED
  BY <1>1, <1>2, <1>3 DEF Aligned, Contains

(* A slice of aligned ranges, latest first. *)
Descending(s) ==
  /\ \A k \in 1..Len(s) : Aligned(s[k])
  /\ \A j, k \in 1..Len(s) : j < k => s[k].endTime <= s[j].startTime

(* Moving a new index to its insertion point adds it to the slice. *)
LEMMA InsertAtElements ==
  ASSUME NEW s \in Seq(IndexObject), NEW x \in IndexObject,
         NEW p \in 1..(Len(s) + 1)
  PROVE  /\ InsertAt(s, x, p) \in Seq(IndexObject)
         /\ Len(InsertAt(s, x, p)) = Len(s) + 1
         /\ \A k \in 1..(Len(s) + 1) :
              InsertAt(s, x, p)[k] = IF k < p THEN s[k]
                                     ELSE IF k = p THEN x ELSE s[k - 1]
<1> DEFINE t == InsertAt(s, x, p)
           n == Len(s) + 1
<1>1. n \in Nat /\ n = Len(s) + 1
  OBVIOUS
<1>2. ASSUME NEW k \in 1..n
      PROVE  (IF k < p THEN s[k] ELSE IF k = p THEN x ELSE s[k - 1])
                \in IndexObject
  <2>1. CASE k < p
    BY <2>1
  <2>2. CASE k = p
    BY <2>2
  <2>3. CASE k > p
    <3>1. k - 1 \in 1..Len(s)
      BY <2>3
    <3> QED
      BY <2>3, <3>1
  <2> QED
    BY <2>1, <2>2, <2>3
<1>3. t \in [1..n -> IndexObject]
  BY <1>2 DEF InsertAt
<1>4. t \in Seq(IndexObject) /\ Len(t) = n
  BY <1>1, <1>3
<1> QED
  BY <1>1, <1>4 DEF InsertAt

(* An insertion keeps the slice ordered. *)
LEMMA InsertAtDescending ==
  ASSUME NEW s \in Seq(IndexObject), NEW x \in IndexObject, NEW p,
         Descending(s), Aligned(x), IsInsertionPoint(s, x, p),
         \A k \in 1..Len(s) : s[k].startTime # x.startTime
  PROVE  Descending(InsertAt(s, x, p))
<1> DEFINE t == InsertAt(s, x, p)
<1>0. p \in 1..(Len(s) + 1)
  BY DEF IsInsertionPoint
<1>1. /\ t \in Seq(IndexObject) /\ Len(t) = Len(s) + 1
      /\ \A k \in 1..(Len(s) + 1) :
           t[k] = IF k < p THEN s[k] ELSE IF k = p THEN x ELSE s[k - 1]
  BY <1>0, InsertAtElements
<1> HIDE DEF t
<1>2. \A k \in 1..Len(s) : s[k] \in IndexObject
  OBVIOUS
<1>3. ASSUME NEW k \in p..Len(s) PROVE s[k].endTime <= x.startTime
  <2>1. k \in 1..Len(s) /\ Less(x, s[k])
    BY <1>0 DEF IsInsertionPoint
  <2>2. s[k].startTime < x.startTime
    BY <1>2, <2>1 DEF Less, Aligned, Descending, IndexObject
  <2> QED
    BY <1>2, <2>1, <2>2, AlignedApart DEF Descending, IndexObject
<1>4. ASSUME NEW k \in 1..(p - 1) PROVE x.endTime <= s[k].startTime
  <2>1. p - 1 \in 1..Len(s) /\ ~Less(x, s[p - 1])
    BY <1>0 DEF IsInsertionPoint
  <2>2. x.startTime < s[p - 1].startTime
    BY <1>2, <2>1 DEF Less, IndexObject
  <2>3. x.endTime <= s[p - 1].startTime
    BY <1>2, <2>1, <2>2, AlignedApart DEF Descending, IndexObject
  <2>4. CASE k = p - 1
    BY <2>3, <2>4
  <2>5. CASE k < p - 1
    <3>3. k \in 1..Len(s)
      BY <1>0
    <3>1. s[p - 1].endTime <= s[k].startTime
      <4>1. p - 1 \in 1..Len(s) /\ k < p - 1
        BY <2>1, <2>5
      <4>2. \A a, b \in 1..Len(s) : a < b => s[b].endTime <= s[a].startTime
        BY DEF Descending
      <4> QED
        BY ONLY <3>3, <4>1, <4>2
    <3>4. /\ s[k].startTime \in Nat /\ x.endTime \in Nat
          /\ s[p - 1].startTime \in Nat /\ s[p - 1].endTime \in Nat
      <4>1. s[k] \in IndexObject /\ s[p - 1] \in IndexObject
        BY <1>2, <2>1, <3>3
      <4> QED
        BY <4>1 DEF IndexObject
    <3>2. s[p - 1].startTime <= s[p - 1].endTime
      <4>1. Aligned(s[p - 1])
        BY <2>1 DEF Descending
      <4>2. s[p - 1].endTime = s[p - 1].startTime + IndexDuration
        BY <4>1 DEF Aligned
      <4> QED
        BY <3>4, <4>2
    <3> QED
      BY <2>3, <3>1, <3>2, <3>4
  <2> QED
    BY <1>0, <2>4, <2>5
<1>5. ASSUME NEW k \in 1..(Len(s) + 1) PROVE Aligned(t[k])
  <2>1. CASE k < p
    <3>1. k \in 1..Len(s) /\ t[k] = s[k]
      BY <1>0, <1>1, <2>1
    <3> QED
      BY <3>1 DEF Descending
  <2>2. CASE k = p
    <3>1. t[k] = x
      BY <1>0, <1>1, <2>2
    <3> QED
      BY <3>1
  <2>3. CASE k > p
    <3>1. k \in 1..(Len(s) + 1) /\ Len(s) \in Nat
      BY <1>1
    <3>2. k - 1 \in 1..Len(s) /\ t[k] = s[k - 1]
      BY <1>0, <1>1, <2>3, <3>1
    <3> QED
      BY <3>2 DEF Descending
  <2> QED
    BY <1>0, <1>1, <2>1, <2>2, <2>3
<1>6. ASSUME NEW j \in 1..Len(t), NEW k \in 1..Len(t), j < k
      PROVE  t[k].endTime <= t[j].startTime
  <2>1. CASE k < p
    <3>1. t[j] = s[j] /\ t[k] = s[k] /\ j \in 1..Len(s) /\ k \in 1..Len(s)
      BY <1>0, <1>1, <1>6, <2>1
    <3> QED
      BY <1>6, <3>1 DEF Descending
  <2>2. CASE k = p
    <3>1. t[j] = s[j] /\ t[k] = x /\ j \in 1..(p - 1)
      BY <1>0, <1>1, <1>6, <2>2
    <3> QED
      BY <1>4, <3>1
  <2>3. CASE k > p /\ j < p
    <3>1. t[j] = s[j] /\ t[k] = s[k - 1] /\ j \in 1..Len(s)
          /\ k - 1 \in 1..Len(s) /\ j < k - 1
      BY <1>0, <1>1, <1>6, <2>3
    <3> QED
      BY <3>1 DEF Descending
  <2>4. CASE k > p /\ j = p
    <3>1. t[j] = x /\ t[k] = s[k - 1] /\ k - 1 \in p..Len(s)
      BY <1>0, <1>1, <1>6, <2>4
    <3> QED
      BY <1>3, <3>1
  <2>5. CASE k > p /\ j > p
    <3>1. t[j] = s[j - 1] /\ t[k] = s[k - 1] /\ j - 1 \in 1..Len(s)
          /\ k - 1 \in 1..Len(s) /\ j - 1 < k - 1
      BY <1>0, <1>1, <1>6, <2>5
    <3> QED
      BY <3>1 DEF Descending
  <2> QED
    BY <1>0, <1>1, <2>1, <2>2, <2>3, <2>4, <2>5
<1> QED
  BY <1>1, <1>5, <1>6 DEF Descending, t

-----------------------------------------------------------------------------
(* The invariant holds before the first start. *)
LEMMA InitIInv == Init => IInv
<1> SUFFICES ASSUME Init PROVE IInv
  OBVIOUS
<1> USE DEF Init
<1>1. TypeOK
  <2>1. NoIndex \in IndexObject \cup {NoIndex}
    OBVIOUS
  <2> QED
    BY <2>1 DEF TypeOK, CallStates
<1>2. Locked
  BY DEF Locked, InWriteSection, Running
<1>3. Sorted
  BY DEF Sorted
<1>4. Filtered
  BY DEF Filtered
<1>5. Opened
  BY DEF Opened
<1>6. Routed
  BY DEF Routed, RoutedCaller, HasEvent, HasIndex
<1>7. Accounted
  BY DEF Accounted
<1> QED
  BY <1>1, <1>2, <1>3, <1>4, <1>5, <1>6, <1>7 DEF IInv

(* The event a caller is creating an index for. *)
LEMMA CallerEvent ==
  ASSUME IInv, NEW cl \in Callers, HasEvent(cl)
  PROVE  /\ todo[cl] \in Seq(Events) /\ todo[cl] # << >>
         /\ Head(todo[cl]) \in Events
         /\ RefTime[Head(todo[cl])] \in Nat
<1>1. todo[cl] \in Seq(Events) /\ todo[cl] # << >>
  BY DEF IInv, TypeOK, Routed, RoutedCaller
<1>2. Head(todo[cl]) \in Events
  BY <1>1
<1> QED
  BY <1>1, <1>2

(* createIndex's search for an index with the same start time finds none:  *)
(* the new index is aligned, contains its event, and its start is new.     *)
LEMMA CreatedIndex ==
  ASSUME IInv, NEW cl \in Callers, CreateIndex(cl),
         NEW t, t = RefTime[Head(todo[cl])],
         NEW x, x = NewIndexObject(StartFor(t), Truncate(t) + IndexDuration,
                                   nextId)
  PROVE  /\ x \in IndexObject
         /\ x.startTime = Truncate(t)
         /\ Aligned(x)
         /\ Contains(x, t)
         /\ DirOf(x) \in Dir /\ Aligned(DirOf(x))
         /\ \A k \in 1..Len(indexes) : indexes[k].startTime # x.startTime
<1>1. t \in Nat
  <2>1. HasEvent(cl)
    BY DEF CreateIndex, NewIndexDirs, HasEvent
  <2> QED
    BY <2>1, CallerEvent
<1>2. \A k \in 1..Len(indexes) : /\ indexes[k] \in IndexObject
                                 /\ Aligned(indexes[k])
                                 /\ ~Contains(indexes[k], t)
  BY DEF IInv, TypeOK, Sorted, CreateIndex, NewIndexDirs,
    NoIndexForReferenceTime
<1>3. \A k \in 1..Len(indexes) : indexes[k].startTime # Truncate(t)
  BY <1>1, <1>2, AlignedContains DEF IndexObject
<1>4. StartFor(t) = Truncate(t)
  BY <1>3 DEF StartFor
<1>5. Truncate(t) \in Nat /\ Truncate(Truncate(t)) = Truncate(t)
  BY <1>1, TruncateBounds, TruncateFixed
<1>6. nextId \in Nat
  BY DEF IInv, TypeOK
<1>7. x = [startTime |-> Truncate(t), endTime |-> Truncate(t) + IndexDuration,
           id |-> nextId]
  BY <1>4 DEF NewIndexObject
<1>8. x \in IndexObject /\ x.startTime = Truncate(t)
      /\ x.endTime = Truncate(t) + IndexDuration
  BY <1>5, <1>6, <1>7 DEF IndexObject
<1>9. Aligned(x)
  BY <1>5, <1>8 DEF Aligned
<1>10. Contains(x, t)
  BY <1>1, <1>5, <1>8, <1>9, AlignedContains
<1>11. DirOf(x) \in Dir /\ Aligned(DirOf(x))
  BY <1>5, <1>8 DEF DirOf, Dir, Aligned
<1> QED
  BY <1>3, <1>8, <1>9, <1>10, <1>11

(* A swap keeps the elements of the slice. *)
LEMMA SwapElements ==
  ASSUME NEW s \in Seq(IndexObject), NEW u \in 1..Len(s), NEW v \in 1..Len(s)
  PROVE  /\ Swap(s, u, v) \in Seq(IndexObject)
         /\ Len(Swap(s, u, v)) = Len(s)
         /\ \A k \in 1..Len(s) :
              Swap(s, u, v)[k] = IF k = u THEN s[v]
                                 ELSE IF k = v THEN s[u] ELSE s[k]
<1> DEFINE t == Swap(s, u, v)
           n == Len(s)
<1>1. n \in Nat
  OBVIOUS
<1>2. \A k \in 1..n : s[k] \in IndexObject
  OBVIOUS
<1>3. t \in [1..n -> IndexObject]
  BY <1>2 DEF Swap
<1> HIDE DEF t, n
<1>4. t \in Seq(IndexObject) /\ Len(t) = n
  BY <1>1, <1>3
<1> QED
  BY <1>4 DEF Swap, t, n

(* Two slices of the same indexes, and no start more often than before. *)
DistinctStarts(s) ==
  \A j, k \in 1..Len(s) : j # k => s[j].startTime # s[k].startTime

Rearranged(s, t) ==
  /\ Len(t) = Len(s)
  /\ \A k \in 1..Len(s) : \E j \in 1..Len(s) : t[k] = s[j]
  /\ \A j \in 1..Len(s) : \E k \in 1..Len(s) : t[k] = s[j]
  /\ DistinctStarts(s) => DistinctStarts(t)

(* A swap rearranges the slice. *)
LEMMA SwapMembers ==
  ASSUME NEW s \in Seq(IndexObject), NEW u \in 1..Len(s), NEW v \in 1..Len(s)
  PROVE  Rearranged(s, Swap(s, u, v))
<1> DEFINE t == Swap(s, u, v)
           n == Len(s)
<1>1. /\ Len(t) = n
      /\ \A k \in 1..n :
           t[k] = IF k = u THEN s[v] ELSE IF k = v THEN s[u] ELSE s[k]
  <2>1. Len(t) = n
    BY SwapElements
  <2>2. ASSUME NEW k \in 1..n
        PROVE  t[k] = IF k = u THEN s[v] ELSE IF k = v THEN s[u] ELSE s[k]
    BY <2>2 DEF Swap
  <2> QED
    BY <2>1, <2>2
<1>2. u \in 1..n /\ v \in 1..n
  OBVIOUS
<1> HIDE DEF t, n
<1>3. \A k \in 1..n : \E j \in 1..n : t[k] = s[j]
  BY <1>1, <1>2
<1>4. \A j \in 1..n : \E k \in 1..n : t[k] = s[j]
  <2> SUFFICES ASSUME NEW j \in 1..n PROVE \E k \in 1..n : t[k] = s[j]
    OBVIOUS
  <2>1. CASE j = u
    BY <1>1, <1>2, <2>1
  <2>2. CASE j = v
    BY <1>1, <1>2, <2>2
  <2>3. CASE j # u /\ j # v
    BY <1>1, <2>3
  <2> QED
    BY <2>1, <2>2, <2>3
<1>5. ASSUME DistinctStarts(s), NEW j \in 1..n, NEW k \in 1..n, j # k
      PROVE  t[j].startTime # t[k].startTime
  <2> USE DEF DistinctStarts, n
  <2>1. CASE j = u
    BY <1>1, <1>2, <1>5, <2>1
  <2>2. CASE j = v
    BY <1>1, <1>2, <1>5, <2>2
  <2>3. CASE j # u /\ j # v
    BY <1>1, <1>2, <1>5, <2>3
  <2> QED
    BY <2>1, <2>2, <2>3
<1> QED
  BY <1>1, <1>3, <1>4, <1>5 DEF Rearranged, DistinctStarts, t, n

(* Every step keeps the types. *)
LEMMA TypeStep == IInv /\ [Next]_vars => TypeOK'
<1> SUFFICES ASSUME IInv, [Next]_vars PROVE TypeOK'
  OBVIOUS
<1>0. TypeOK
  BY DEF IInv
<1> USE DEF clockVars, diskVars, indexVars, mainVars, lockVars, callVars,
            retVars, histVars
<1>1. CASE Tick
  BY <1>1, <1>0 DEF Tick, TypeOK, CallStates
<1>2. CASE OpenStart
  BY <1>2, <1>0 DEF OpenStart, TypeOK, CallStates
<1>3. CASE OpenNext
  <2>1. PICK d \in unopened, p \in 1..(Len(indexes) + 1) :
          /\ indexes' = InsertAt(indexes,
                          NewIndexObject(d.startTime, d.endTime, nextId), p)
          /\ open' = open \cup {NewIndexObject(d.startTime, d.endTime, nextId)}
          /\ unopened' = unopened \ {d}
    BY <1>3 DEF OpenNext, OpenIndex
  <2>2. NewIndexObject(d.startTime, d.endTime, nextId) \in IndexObject
    BY <1>0 DEF TypeOK, Dir, NewIndexObject, IndexObject
  <2>3. indexes' \in Seq(IndexObject) /\ Len(indexes') = Len(indexes) + 1
    BY <1>0, <2>1, <2>2, InsertAtElements DEF TypeOK
  <2>4. /\ rpos' \in 1..(Len(indexes') + 1) /\ rkept' \in 0..(rpos' - 1)
        /\ open' \subseteq IndexObject /\ unopened' \subseteq Dir
        /\ nextId' \in Nat
    BY <1>0, <1>3, <2>1, <2>2, <2>3 DEF TypeOK, OpenNext, OpenIndex
  <2> QED
    BY <1>0, <1>3, <2>3, <2>4 DEF TypeOK, OpenNext, OpenIndex
<1>4. CASE OpenEnd
  BY <1>4, <1>0 DEF OpenEnd, TypeOK, CallStates
<1>5. CASE CloseStart
  BY <1>5, <1>0 DEF CloseStart, TypeOK, CallStates
<1>6. CASE CloseNext
  BY <1>6, <1>0 DEF CloseNext, TypeOK, CallStates
<1>7. CASE RetentionStart
  BY <1>7, <1>0 DEF RetentionStart, TypeOK, CallStates
<1>8. CASE RetentionKeep
  <2>0. /\ indexes \in Seq(IndexObject) /\ Len(indexes) \in Nat
        /\ rpos \in Nat \ {0} /\ rkept \in Nat /\ rkept <= rpos - 1
        /\ rpos <= Len(indexes)
    <3>1. indexes \in Seq(IndexObject) /\ rpos <= Len(indexes)
      BY <1>0, <1>8 DEF TypeOK, RetentionKeep
    <3>2. Len(indexes) \in Nat
      BY <3>1
    <3>3. rpos \in 1..(Len(indexes) + 1) /\ rkept \in 0..(rpos - 1)
      BY <1>0 DEF TypeOK
    <3> QED
      BY <3>1, <3>2, <3>3
  <2>1. rkept + 1 \in 1..Len(indexes) /\ rpos \in 1..Len(indexes)
    BY <2>0
  <2>2. indexes[rpos] \in IndexObject
    BY <2>0, <2>1
  <2>3. indexes' \in Seq(IndexObject) /\ Len(indexes') = Len(indexes)
    BY <1>8, <2>0, <2>1, <2>2 DEF RetentionKeep
  <2>4. rpos' = rpos + 1 /\ rkept' = rkept + 1
    BY <1>8 DEF RetentionKeep
  <2>5. rpos' \in 1..(Len(indexes') + 1) /\ rkept' \in 0..(rpos' - 1)
    BY <2>0, <2>3, <2>4
  <2> QED
    BY <1>0, <1>8, <2>3, <2>5 DEF TypeOK, RetentionKeep
<1>9. CASE RetentionDelete
  BY <1>9, <1>0 DEF RetentionDelete, DeleteIndex, TypeOK, CallStates
<1>10. CASE RetentionEnd
  BY <1>10, <1>0 DEF RetentionEnd, TypeOK, CallStates
<1>11. ASSUME NEW cl \in Callers, IndexCall(cl)
      PROVE  TypeOK'
  <2>0. PICK n \in 1..MaxBatch : \E s \in [1..n -> Events \ taken] :
          /\ todo' = [todo EXCEPT ![cl] = s]
          /\ called' = [called EXCEPT ![cl] = {s[k] : k \in 1..n}]
          /\ taken' = taken \cup {s[k] : k \in 1..n}
    BY <1>11 DEF IndexCall
  <2>1. PICK s \in [1..n -> Events \ taken] :
          /\ todo' = [todo EXCEPT ![cl] = s]
          /\ called' = [called EXCEPT ![cl] = {s[k] : k \in 1..n}]
          /\ taken' = taken \cup {s[k] : k \in 1..n}
    BY <2>0
  <2>a. n \in Nat /\ s \in [1..n -> Events]
    OBVIOUS
  <2>b. s \in Seq(Events)
    BY <2>a
  <2>c. \A k \in 1..n : s[k] \in Events
    BY <2>a
  <2>2. s \in Seq(Events) /\ {s[k] : k \in 1..n} \subseteq Events
    BY <2>b, <2>c
  <2>3. /\ todo' \in [Callers -> Seq(Events)] /\ taken' \subseteq Events
        /\ called' \in [Callers -> SUBSET Events]
    BY <1>0, <2>1, <2>2 DEF TypeOK
  <2>4. ipc' \in [Callers -> CallStates] /\ rlock' \subseteq Callers
    BY <1>0, <1>11 DEF TypeOK, IndexCall, CallStates
  <2> QED
    BY <1>0, <1>11, <2>3, <2>4 DEF TypeOK, IndexCall
<1>12. ASSUME NEW cl \in Callers, RouteFound(cl)
      PROVE  TypeOK'
  <2>1. PICK k \in 1..Len(indexes) :
          sub' = [sub EXCEPT ![cl] = @ \cup {<<indexes[k], Head(todo[cl])>>}]
    BY <1>12 DEF RouteFound
  <2>2. todo[cl] \in Seq(Events) /\ todo[cl] # << >>
    BY <1>0, <1>12 DEF TypeOK, RouteFound
  <2>3. Head(todo[cl]) \in Events /\ Tail(todo[cl]) \in Seq(Events)
    BY <2>2
  <2>4. indexes[k] \in IndexObject
    BY <1>0 DEF TypeOK
  <2>5. sub' \in [Callers -> SUBSET (IndexObject \X Events)]
    BY <1>0, <2>1, <2>3, <2>4 DEF TypeOK
  <2>6. todo' \in [Callers -> Seq(Events)]
    BY <1>0, <1>12, <2>3 DEF TypeOK, RouteFound
  <2> QED
    BY <1>0, <1>12, <2>5, <2>6 DEF TypeOK, RouteFound
<1>13. ASSUME NEW cl \in Callers, RouteMissing(cl)
      PROVE  TypeOK'
  BY <1>13, <1>0 DEF RouteMissing, TypeOK, CallStates
<1>14. ASSUME NEW cl \in Callers, UpgradeLock(cl)
      PROVE  TypeOK'
  BY <1>14, <1>0 DEF UpgradeLock, TypeOK, CallStates
<1>15. ASSUME NEW cl \in Callers, RecheckFound(cl)
      PROVE  TypeOK'
  BY <1>15, <1>0 DEF RecheckFound, TypeOK, CallStates
<1>16. ASSUME NEW cl \in Callers, CreateIndex(cl)
      PROVE  TypeOK'
  <2> DEFINE t == RefTime[Head(todo[cl])]
             x == NewIndexObject(StartFor(t), Truncate(t) + IndexDuration,
                                 nextId)
  <2>1. x \in IndexObject /\ DirOf(x) \in Dir
    BY <1>16, CreatedIndex
  <2>2. /\ dirs' = {d \in dirs : d.startTime # x.startTime} \cup {DirOf(x)}
        /\ open' = open \cup {x}
        /\ indexes' = Append(indexes, x)
        /\ index' = [index EXCEPT ![cl] = x]
    BY <1>16 DEF CreateIndex, NewIndexDirs
  <2> HIDE DEF x
  <2>3. /\ indexes' \in Seq(IndexObject) /\ Len(indexes') = Len(indexes) + 1
        /\ dirs' \subseteq Dir /\ open' \subseteq IndexObject
        /\ index' \in [Callers -> IndexObject \cup {NoIndex}]
    BY <1>0, <2>1, <2>2 DEF TypeOK
  <2>4. rpos' \in 1..(Len(indexes') + 1) /\ rkept' \in 0..(rpos' - 1)
    BY <1>0, <1>16, <2>3 DEF TypeOK, CreateIndex, NewIndexDirs
  <2>5. ipc' \in [Callers -> CallStates] /\ nextId' \in Nat
    BY <1>0, <1>16 DEF TypeOK, CreateIndex, NewIndexDirs, CallStates
  <2> QED
    BY <1>0, <1>16, <2>3, <2>4, <2>5 DEF TypeOK, CreateIndex, NewIndexDirs
<1>17. ASSUME NEW cl \in Callers, SortSwap(cl) \/ SortEnd(cl)
      PROVE  TypeOK'
  <2>1. indexes' \in Seq(IndexObject) /\ Len(indexes') = Len(indexes)
    <3>1. CASE SortSwap(cl)
      <4>1. PICK u \in 1..Len(indexes), v \in 1..Len(indexes) :
              indexes' = Swap(indexes, u, v)
        BY <3>1 DEF SortSwap
      <4>2. indexes \in Seq(IndexObject)
        BY <1>0 DEF TypeOK
      <4> QED
        BY <4>1, <4>2, SwapElements
    <3>2. CASE SortEnd(cl)
      BY <1>0, <3>2 DEF SortEnd, TypeOK
    <3> QED
      BY <1>17, <3>1, <3>2
  <2>2. ipc' \in [Callers -> CallStates]
    BY <1>0, <1>17 DEF TypeOK, SortSwap, SortEnd, CallStates
  <2>3. /\ UNCHANGED <<clockVars, diskVars, open, nextId, mainVars, lockVars,
                       retVars, histVars>>
        /\ todo' = todo /\ sub' = sub /\ index' = index /\ called' = called
    BY <1>17 DEF SortSwap, SortEnd
  <2>4. rpos' \in 1..(Len(indexes') + 1) /\ rkept' \in 0..(rpos' - 1)
    BY <1>0, <2>1, <2>3 DEF TypeOK
  <2> QED
    BY <1>0, <2>1, <2>2, <2>3, <2>4 DEF TypeOK
<1>18. ASSUME NEW cl \in Callers, Unlock(cl)
      PROVE  TypeOK'
  BY <1>18, <1>0 DEF Unlock, TypeOK, CallStates
<1>19. ASSUME NEW cl \in Callers, Relock(cl)
      PROVE  TypeOK'
  <2>1. HasEvent(cl) /\ HasIndex(cl)
    BY <1>19 DEF Relock, HasEvent, HasIndex
  <2>2. Head(todo[cl]) \in Events /\ Tail(todo[cl]) \in Seq(Events)
    BY <2>1, CallerEvent
  <2>3. index[cl] \in IndexObject
    BY <2>1 DEF IInv, Routed, RoutedCaller
  <2>4. sub' \in [Callers -> SUBSET (IndexObject \X Events)]
    BY <1>0, <1>19, <2>2, <2>3 DEF TypeOK, Relock
  <2>5. todo' \in [Callers -> Seq(Events)]
    BY <1>0, <1>19, <2>2 DEF TypeOK, Relock
  <2>6. ipc' \in [Callers -> CallStates] /\ rlock' \subseteq Callers
    BY <1>0, <1>19 DEF TypeOK, Relock, CallStates
  <2> QED
    BY <1>0, <1>19, <2>4, <2>5, <2>6 DEF TypeOK, Relock
<1>20. ASSUME NEW cl \in Callers, WriteShard(cl)
      PROVE  TypeOK'
  <2>1. PICK x \in {p[1] : p \in sub[cl]}, s \in 0..(NumShards - 1) :
          LET b == ShardBatch(sub[cl], x, s)
          IN  /\ sub' = [sub EXCEPT ![cl] = @ \ b]
              /\ \/ /\ stored' = stored \cup
                                  {<<x.startTime, e>> : e \in EventsOf(b)}
                    /\ UNCHANGED <<excused, faults>>
                 \/ /\ faults < MaxFaults /\ faults' = faults + 1
                    /\ excused' = excused \cup EventsOf(b)
                    /\ UNCHANGED stored
                 \/ /\ excused' = IF mode = "closing"
                                  THEN excused \cup EventsOf(b) ELSE excused
                    /\ UNCHANGED <<stored, faults>>
    BY <1>20 DEF WriteShard, ShardIndex
  <2> DEFINE b == ShardBatch(sub[cl], x, s)
  <2>2. sub[cl] \subseteq IndexObject \X Events /\ b \subseteq sub[cl]
    BY <1>0 DEF TypeOK, ShardBatch
  <2>3. x.startTime \in Nat /\ EventsOf(b) \subseteq Events
    BY <2>2 DEF EventsOf, IndexObject
  <2> HIDE DEF b
  <2>4. sub' \in [Callers -> SUBSET (IndexObject \X Events)]
    BY <1>0, <2>1 DEF TypeOK, b
  <2>5. /\ stored' \subseteq Nat \X Events /\ excused' \subseteq Events
        /\ faults' \in 0..MaxFaults
    BY <1>0, <2>1, <2>3 DEF TypeOK, b
  <2> QED
    BY <1>0, <1>20, <2>4, <2>5 DEF TypeOK, WriteShard, ShardIndex
<1>21. ASSUME NEW cl \in Callers, IndexReturn(cl)
      PROVE  TypeOK'
  BY <1>21, <1>0 DEF IndexReturn, TypeOK, CallStates
<1>22. CASE CloseEnd \/ Crash
  <2>1. /\ NoProcess /\ mode' = "down"
        /\ UNCHANGED <<now, dirs, stored, restarts, taken, acked, excused,
                       faults>>
    BY <1>22 DEF CloseEnd, Crash
  <2> QED
    BY <1>0, <2>1 DEF NoProcess, TypeOK, CallStates
<1>23. CASE Finished \/ UNCHANGED vars
  BY <1>0, <1>23 DEF Finished, vars, TypeOK
<1> QED
  BY <1>1, <1>2, <1>3, <1>4, <1>5, <1>6, <1>7, <1>8, <1>9, <1>10, <1>11,
     <1>12, <1>13, <1>14, <1>15, <1>16, <1>17, <1>18, <1>19, <1>20, <1>21,
     <1>22, <1>23
     DEF Next, IndexStep, LockStep, RetentionStep, OpenStep, CloseStep
(* Every step keeps the lock discipline. *)
LEMMA LockedStep == IInv /\ [Next]_vars => Locked'
<1> SUFFICES ASSUME IInv, [Next]_vars PROVE Locked'
  OBVIOUS
<1>0. TypeOK /\ Locked
  BY DEF IInv
<1> USE DEF clockVars, diskVars, indexVars, mainVars, lockVars, callVars,
            retVars, histVars
<1>1. CASE Tick
  BY <1>1, <1>0 DEF Tick, Locked, InWriteSection, Running, TypeOK
<1>2. CASE OpenStart
  BY <1>2, <1>0 DEF OpenStart, Locked, InWriteSection, Running, TypeOK
<1>3. CASE OpenNext
  BY <1>3, <1>0 DEF OpenNext, OpenIndex, Locked, InWriteSection, Running,
    TypeOK
<1>4. CASE OpenEnd
  BY <1>4, <1>0 DEF OpenEnd, Locked, InWriteSection, Running, TypeOK
<1>5. CASE CloseStart
  BY <1>5, <1>0 DEF CloseStart, Locked, InWriteSection, Running, TypeOK
<1>6. CASE CloseNext
  BY <1>6, <1>0 DEF CloseNext, Locked, InWriteSection, Running, TypeOK
<1>7. CASE RetentionStart
  BY <1>7, <1>0 DEF RetentionStart, Locked, InWriteSection, Running, TypeOK
<1>8. CASE RetentionKeep
  BY <1>8, <1>0 DEF RetentionKeep, Locked, InWriteSection, Running, TypeOK
<1>9. CASE RetentionDelete
  BY <1>9, <1>0 DEF RetentionDelete, DeleteIndex, Locked, InWriteSection,
    Running, TypeOK
<1>10. CASE RetentionEnd
  BY <1>10, <1>0 DEF RetentionEnd, Locked, InWriteSection, Running, TypeOK
<1>11. ASSUME NEW cl \in Callers, IndexCall(cl)
      PROVE  Locked'
  BY <1>11, <1>0 DEF IndexCall, Locked, InWriteSection, Running, TypeOK
<1>12. ASSUME NEW cl \in Callers, RouteFound(cl)
      PROVE  Locked'
  BY <1>12, <1>0 DEF RouteFound, Locked, InWriteSection, Running, TypeOK
<1>13. ASSUME NEW cl \in Callers, RouteMissing(cl)
      PROVE  Locked'
  BY <1>13, <1>0 DEF RouteMissing, Locked, InWriteSection, Running, TypeOK
<1>14. ASSUME NEW cl \in Callers, UpgradeLock(cl)
      PROVE  Locked'
  BY <1>14, <1>0 DEF UpgradeLock, Locked, InWriteSection, Running, TypeOK
<1>15. ASSUME NEW cl \in Callers, RecheckFound(cl)
      PROVE  Locked'
  BY <1>15, <1>0 DEF RecheckFound, Locked, InWriteSection, Running, TypeOK
<1>16. ASSUME NEW cl \in Callers, CreateIndex(cl)
      PROVE  Locked'
  BY <1>16, <1>0 DEF CreateIndex, NewIndexDirs, Locked, InWriteSection,
    Running, TypeOK
<1>17. ASSUME NEW cl \in Callers, SortSwap(cl) \/ SortEnd(cl)
      PROVE  Locked'
  BY <1>17, <1>0 DEF SortSwap, SortEnd, Locked, InWriteSection, Running, TypeOK
<1>18. ASSUME NEW cl \in Callers, Unlock(cl)
      PROVE  Locked'
  BY <1>18, <1>0 DEF Unlock, Locked, InWriteSection, Running, TypeOK
<1>19. ASSUME NEW cl \in Callers, Relock(cl)
      PROVE  Locked'
  BY <1>19, <1>0 DEF Relock, Locked, InWriteSection, Running, TypeOK
<1>20. ASSUME NEW cl \in Callers, WriteShard(cl)
      PROVE  Locked'
  BY <1>20, <1>0 DEF WriteShard, ShardIndex, Locked, InWriteSection, Running,
    TypeOK
<1>21. ASSUME NEW cl \in Callers, IndexReturn(cl)
      PROVE  Locked'
  BY <1>21, <1>0 DEF IndexReturn, Locked, InWriteSection, Running, TypeOK
<1>22. CASE CloseEnd \/ Crash
  BY <1>22, <1>0 DEF CloseEnd, Crash, NoProcess, Locked,
     InWriteSection, Running, TypeOK
<1>23. CASE Finished \/ UNCHANGED vars
  BY <1>23, <1>0 DEF Finished, vars, Locked, InWriteSection, Running, TypeOK
<1> QED
  BY <1>1, <1>2, <1>3, <1>4, <1>5, <1>6, <1>7, <1>8, <1>9, <1>10, <1>11,
     <1>12, <1>13, <1>14, <1>15, <1>16, <1>17, <1>18, <1>19, <1>20,
     <1>21, <1>22, <1>23
     DEF Next, IndexStep, LockStep, RetentionStep, OpenStep, CloseStep

(* What the insertion leaves in the slice. *)
LEMMA InsertAtMembers ==
  ASSUME NEW s \in Seq(IndexObject), NEW x \in IndexObject,
         NEW p \in 1..(Len(s) + 1)
  PROVE  LET t == InsertAt(s, x, p) IN
         /\ \A k \in 1..Len(t) : t[k] = x \/ \E j \in 1..Len(s) : t[k] = s[j]
         /\ \E k \in 1..Len(t) : t[k] = x
         /\ \A j \in 1..Len(s) : \E k \in 1..Len(t) : t[k] = s[j]
<1> DEFINE t == InsertAt(s, x, p)
           n == Len(s)
<1>1. /\ n \in Nat /\ Len(t) = n + 1
      /\ \A k \in 1..(n + 1) :
           t[k] = IF k < p THEN s[k] ELSE IF k = p THEN x ELSE s[k - 1]
  <2>1. n \in Nat
    OBVIOUS
  <2>2. Len(t) = n + 1
    BY InsertAtElements
  <2>3. ASSUME NEW k \in 1..(n + 1)
        PROVE  t[k] = IF k < p THEN s[k] ELSE IF k = p THEN x ELSE s[k - 1]
    BY <2>3 DEF InsertAt
  <2> QED
    BY <2>1, <2>2, <2>3
<1> HIDE DEF t, n
<1>2. p \in 1..(n + 1)
  BY DEF n
<1>3. ASSUME NEW k \in 1..(n + 1)
      PROVE  t[k] = x \/ \E j \in 1..n : t[k] = s[j]
  <2>1. CASE k < p
    BY <1>1, <1>2, <2>1
  <2>2. CASE k = p
    BY <1>1, <1>2, <2>2
  <2>3. CASE k > p
    <3>1. k - 1 \in 1..n /\ t[k] = s[k - 1]
      BY <1>1, <1>2, <2>3
    <3> QED
      BY <3>1
  <2> QED
    BY <1>1, <1>2, <2>1, <2>2, <2>3
<1>4. t[p] = x
  BY <1>1, <1>2
<1>5. ASSUME NEW j \in 1..n PROVE \E k \in 1..(n + 1) : t[k] = s[j]
  <2>1. CASE j < p
    <3>1. j \in 1..(n + 1) /\ t[j] = s[j]
      BY <1>1, <1>2, <2>1
    <3> QED
      BY <3>1
  <2>2. CASE j >= p
    <3>1. j + 1 \in 1..(n + 1) /\ t[j + 1] = s[j]
      BY <1>1, <1>2, <2>2
    <3> QED
      BY <3>1
  <2> QED
    BY <1>1, <1>2, <2>1, <2>2
<1> QED
  BY <1>1, <1>2, <1>3, <1>4, <1>5 DEF t, n

(* An ordered slice has no two indexes with the same start. *)
LEMMA DescendingDistinct ==
  ASSUME NEW s \in Seq(IndexObject), Descending(s)
  PROVE  \A j, k \in 1..Len(s) : j # k => s[j].startTime # s[k].startTime
<1>1. ASSUME NEW j \in 1..Len(s), NEW k \in 1..Len(s), j < k
      PROVE  s[j].startTime # s[k].startTime
  <2>1. s[j] \in IndexObject /\ s[k] \in IndexObject
    OBVIOUS
  <2>2. /\ s[k].endTime = s[k].startTime + IndexDuration
        /\ s[k].endTime <= s[j].startTime
    BY <1>1 DEF Descending, Aligned
  <2> QED
    BY <2>1, <2>2 DEF IndexObject
<1>2. ASSUME NEW j \in 1..Len(s), NEW k \in 1..Len(s), j # k
      PROVE  s[j].startTime # s[k].startTime
  <2>1. j < k \/ k < j
    BY <1>2
  <2> QED
    BY <1>1, <2>1
<1> QED
  BY <1>2

(* The filter never moves an index: all it has seen before one that it     *)
(* keeps, it has kept.                                                     *)
LEMMA KeepMovesNothing ==
  ASSUME TypeOK, Filtered, RetentionKeep
  PROVE  rkept = rpos - 1 /\ indexes' = indexes
<1>1. indexes \in Seq(IndexObject) /\ rpos <= Len(indexes)
      /\ ~Expired(indexes[rpos], now)
  BY DEF TypeOK, RetentionKeep
<1>2. Len(indexes) \in Nat
  BY <1>1
<1>3. rpos \in 1..Len(indexes) /\ rkept \in 0..(rpos - 1)
  BY <1>1, <1>2 DEF TypeOK
<1>4. rkept = rpos - 1
  <2> SUFFICES ASSUME rkept # rpos - 1 PROVE FALSE
    OBVIOUS
  <2>1. rpos \in (rkept + 1)..Len(indexes)
    BY <1>2, <1>3
  <2> QED
    BY <1>1, <2>1 DEF Filtered
<1>5. indexes' = [indexes EXCEPT ![rpos] = indexes[rpos]]
  <2>1. rkept + 1 = rpos
    BY <1>3, <1>4
  <2> QED
    BY <2>1 DEF RetentionKeep
<1> QED
  BY <1>1, <1>3, <1>4, <1>5

(* The end of the filter cuts the slice off after what was kept. *)
LEMMA EndTruncates ==
  ASSUME TypeOK, RetentionEnd
  PROVE  /\ rkept \in 0..Len(indexes)
         /\ indexes' \in Seq(IndexObject) /\ Len(indexes') = rkept
         /\ \A k \in 1..rkept :
              indexes'[k] = indexes[k] /\ k \in 1..Len(indexes)
<1>1. indexes \in Seq(IndexObject) /\ indexes' = SubSeq(indexes, 1, rkept)
  BY DEF TypeOK, RetentionEnd
<1>2. Len(indexes) \in Nat
  BY <1>1
<1>3. rpos \in 1..(Len(indexes) + 1) /\ rkept \in 0..(rpos - 1)
  BY DEF TypeOK
<1>4. rkept \in 0..Len(indexes)
  BY <1>2, <1>3
<1>5. indexes' = [k \in 1..rkept |-> indexes[k]]
  BY <1>1, <1>4
<1>6. \A k \in 1..rkept : k \in 1..Len(indexes) /\ indexes[k] \in IndexObject
  BY <1>1, <1>2, <1>4
<1>7. indexes' \in [1..rkept -> IndexObject] /\ rkept \in Nat
  BY <1>4, <1>5, <1>6
<1>8. indexes' \in Seq(IndexObject) /\ Len(indexes') = rkept
  BY <1>7
<1> QED
  BY <1>4, <1>5, <1>6, <1>8

(* Every step keeps the filter's state: once it deletes an index, all that *)
(* come after it are older and have expired too.                           *)
LEMMA FilteredStep == IInv /\ [Next]_vars => Filtered'
<1> SUFFICES ASSUME IInv, [Next]_vars PROVE Filtered'
  OBVIOUS
<1>0. TypeOK /\ Locked /\ Sorted /\ Filtered
  BY DEF IInv
<1> USE DEF clockVars, diskVars, indexVars, mainVars, lockVars, callVars,
            retVars, histVars
<1>1. CASE Tick
  <2>1. /\ now \in Nat /\ now' = now + 1 /\ wlock' = wlock
        /\ indexes' = indexes /\ rpos' = rpos /\ rkept' = rkept
        /\ indexes \in Seq(IndexObject) /\ rkept \in Nat
    BY <1>1, <1>0 DEF Tick, TypeOK
  <2>2. ASSUME NEW k \in (rkept + 1)..Len(indexes), Expired(indexes[k], now)
        PROVE  Expired(indexes[k], now')
    <3>1. k \in 1..Len(indexes)
      BY <2>1
    <3>a. indexes[k] \in IndexObject
      BY <2>1, <3>1
    <3>2. indexes[k].endTime \in Nat
      BY <3>a DEF IndexObject
    <3> QED
      BY <2>1, <2>2, <3>2 DEF Expired
  <2> QED
    BY <1>0, <2>1, <2>2 DEF Filtered
<1>2. CASE OpenStart
  BY <1>2, <1>0 DEF OpenStart, Filtered, TypeOK
<1>3. CASE OpenNext
  BY <1>3, <1>0 DEF OpenNext, OpenIndex, Filtered, Locked, Running
<1>4. CASE OpenEnd
  BY <1>4, <1>0 DEF OpenEnd, Filtered, TypeOK
<1>5. CASE CloseStart
  BY <1>5, <1>0 DEF CloseStart, Filtered, TypeOK
<1>6. CASE CloseNext
  BY <1>6, <1>0 DEF CloseNext, Filtered, TypeOK
<1>7. CASE RetentionStart
  BY <1>7, <1>0 DEF RetentionStart, Filtered, TypeOK
<1>8. CASE RetentionKeep
  <2>1. rkept = rpos - 1 /\ indexes' = indexes
    BY <1>8, <1>0, KeepMovesNothing
  <2> QED
    BY <1>8, <1>0, <2>1 DEF RetentionKeep, Filtered, TypeOK
<1>9. CASE RetentionDelete
  <2>1. /\ indexes \in Seq(IndexObject) /\ Len(indexes) \in Nat
        /\ rpos \in 1..Len(indexes) /\ rkept \in 0..(rpos - 1)
        /\ indexes' = indexes /\ now' = now /\ wlock' = wlock
        /\ rpos' = rpos + 1 /\ rkept' = rkept
        /\ wlock = "retention" /\ Expired(indexes[rpos], now)
    <3>1. indexes \in Seq(IndexObject) /\ rpos <= Len(indexes)
      BY <1>9, <1>0 DEF TypeOK, RetentionDelete, DeleteIndex
    <3>2. Len(indexes) \in Nat
      BY <3>1
    <3> QED
      BY <1>9, <1>0, <3>1, <3>2 DEF TypeOK, RetentionDelete, DeleteIndex
  <2>2. \A j, k \in 1..Len(indexes) :
          j < k => indexes[k].endTime <= indexes[j].startTime
    BY <1>9, <1>0 DEF RetentionDelete, DeleteIndex, Locked, InWriteSection,
      Sorted
  <2>3. ASSUME NEW k \in (rkept + 1)..Len(indexes)
        PROVE  Expired(indexes[k], now)
    <3>1. CASE rkept # rpos - 1
      BY <1>0, <3>1 DEF Filtered
    <3>2. CASE k = rpos
      BY <2>1, <3>2
    <3>3. CASE rkept = rpos - 1 /\ k > rpos
      <4>1. k \in 1..Len(indexes)
        BY <2>1
      <4>2. indexes[k] \in IndexObject /\ indexes[rpos] \in IndexObject
        BY <2>1, <4>1
      <4>3. indexes[k].endTime <= indexes[rpos].startTime
        BY <2>1, <2>2, <3>3, <4>1
      <4>4. indexes[rpos].startTime <= indexes[rpos].endTime
        BY <1>0, <2>1, <4>2 DEF Sorted, Aligned, IndexObject
      <4>5. now \in Nat
        BY <1>0 DEF TypeOK
      <4>6. /\ indexes[k].endTime \in Nat /\ indexes[rpos].startTime \in Nat
            /\ indexes[rpos].endTime \in Nat
        BY <4>2 DEF IndexObject
      <4>7. indexes[rpos].endTime + RetentionPeriod < now
        BY <2>1 DEF Expired
      <4>8. indexes[k].endTime + RetentionPeriod < now
        <5>1. indexes[k].endTime <= indexes[rpos].endTime
          BY <4>3, <4>4, <4>6
        <5> QED
          BY <4>5, <4>6, <4>7, <5>1
      <4> QED
        BY <4>8 DEF Expired
    <3> QED
      BY <2>1, <3>1, <3>2, <3>3
  <2> QED
    BY <2>1, <2>3 DEF Filtered
<1>10. CASE RetentionEnd
  BY <1>10, <1>0 DEF RetentionEnd, Filtered
<1>11. ASSUME NEW cl \in Callers, IndexCall(cl)
      PROVE  Filtered'
  BY <1>11, <1>0 DEF IndexCall, Filtered, TypeOK
<1>12. ASSUME NEW cl \in Callers, RouteFound(cl)
      PROVE  Filtered'
  BY <1>12, <1>0 DEF RouteFound, Filtered, TypeOK
<1>13. ASSUME NEW cl \in Callers, RouteMissing(cl)
      PROVE  Filtered'
  BY <1>13, <1>0 DEF RouteMissing, Filtered, TypeOK
<1>14. ASSUME NEW cl \in Callers, UpgradeLock(cl)
      PROVE  Filtered'
  BY <1>14, <1>0 DEF UpgradeLock, Filtered, TypeOK
<1>15. ASSUME NEW cl \in Callers, RecheckFound(cl)
      PROVE  Filtered'
  BY <1>15, <1>0 DEF RecheckFound, Filtered, TypeOK
<1>16. ASSUME NEW cl \in Callers, CreateIndex(cl)
      PROVE  Filtered'
  BY <1>16, <1>0 DEF CreateIndex, NewIndexDirs, Filtered, Locked,
    InWriteSection
<1>17. ASSUME NEW cl \in Callers, SortSwap(cl) \/ SortEnd(cl)
      PROVE  Filtered'
  BY <1>17, <1>0 DEF SortSwap, SortEnd, Filtered, Locked, InWriteSection
<1>18. ASSUME NEW cl \in Callers, Unlock(cl)
      PROVE  Filtered'
  BY <1>18, <1>0 DEF Unlock, Filtered, Locked, InWriteSection
<1>19. ASSUME NEW cl \in Callers, Relock(cl)
      PROVE  Filtered'
  BY <1>19, <1>0 DEF Relock, Filtered, TypeOK
<1>20. ASSUME NEW cl \in Callers, WriteShard(cl)
      PROVE  Filtered'
  BY <1>20, <1>0 DEF WriteShard, ShardIndex, Filtered, TypeOK
<1>21. ASSUME NEW cl \in Callers, IndexReturn(cl)
      PROVE  Filtered'
  BY <1>21, <1>0 DEF IndexReturn, Filtered, TypeOK
<1>22. CASE CloseEnd \/ Crash
  BY <1>22, <1>0 DEF CloseEnd, Crash, NoProcess, Filtered, TypeOK
<1>23. CASE Finished \/ UNCHANGED vars
  BY <1>23, <1>0 DEF Finished, vars, Filtered, TypeOK
<1> QED
  BY <1>1, <1>2, <1>3, <1>4, <1>5, <1>6, <1>7, <1>8, <1>9, <1>10, <1>11,
     <1>12, <1>13, <1>14, <1>15, <1>16, <1>17, <1>18, <1>19, <1>20,
     <1>21, <1>22, <1>23
     DEF Next, IndexStep, LockStep, RetentionStep, OpenStep, CloseStep

(* When no caller is about to sort, the slice is ordered. *)
LEMMA SliceDescending ==
  ASSUME Sorted, \A cl \in Callers : ipc[cl] # "sort"
  PROVE  Descending(indexes)
BY DEF Sorted, Descending

(* An ordered slice with the disk of before is Sorted. *)
LEMMA DescendingSorted ==
  ASSUME TypeOK', Descending(indexes'),
         \A d \in dirs' : Aligned(d),
         unopened' \subseteq dirs',
         mode' # "down",
         mode' # "opening" => unopened' = {},
         \A cl \in Callers : ipc'[cl] # "sort",
         \A d \in unopened' : \A k \in 1..Len(indexes') :
            indexes'[k].startTime # d.startTime
  PROVE  Sorted'
<1>1. indexes' \in Seq(IndexObject)
  BY DEF TypeOK
<1>2. \A j, k \in 1..Len(indexes') :
        j # k => indexes'[j].startTime # indexes'[k].startTime
  BY <1>1, DescendingDistinct
<1> QED
  BY <1>2 DEF Sorted, Descending

(* Every step keeps the order of the slice. *)
LEMMA SortedStep == IInv /\ [Next]_vars => Sorted'
<1> SUFFICES ASSUME IInv, [Next]_vars PROVE Sorted'
  OBVIOUS
<1>0. TypeOK /\ Locked /\ Sorted /\ Filtered
  BY DEF IInv
<1> USE DEF clockVars, diskVars, indexVars, mainVars, lockVars, callVars,
            retVars, histVars
<1>t. TypeOK'
  BY TypeStep
<1>1. CASE Tick
  BY <1>1, <1>0 DEF Tick, Sorted, Locked, Running, InWriteSection,
     TypeOK
<1>2. CASE OpenStart
  BY <1>2, <1>0 DEF OpenStart, Sorted, Locked, Running, InWriteSection,
     TypeOK
<1>3. CASE OpenNext
  <2>1. PICK d \in unopened, p \in 1..(Len(indexes) + 1) :
          LET x == NewIndexObject(d.startTime, d.endTime, nextId) IN
          /\ IsInsertionPoint(indexes, x, p)
          /\ indexes' = InsertAt(indexes, x, p)
          /\ unopened' = unopened \ {d}
    BY <1>3 DEF OpenNext, OpenIndex
  <2> DEFINE x == NewIndexObject(d.startTime, d.endTime, nextId)
  <2>2. d \in Dir /\ d \in dirs /\ Aligned(d) /\ nextId \in Nat
    BY <1>0 DEF TypeOK, Sorted
  <2>3. /\ x \in IndexObject /\ x.startTime = d.startTime /\ Aligned(x)
    BY <2>2 DEF NewIndexObject, IndexObject, Dir, Aligned
  <2>4. /\ IsInsertionPoint(indexes, x, p)
        /\ indexes' = InsertAt(indexes, x, p)
        /\ unopened' = unopened \ {d}
    BY <2>1
  <2>5. indexes \in Seq(IndexObject)
    BY <1>0 DEF TypeOK
  <2>6. /\ mode = "opening" /\ mode' = mode /\ ipc' = ipc /\ dirs' = dirs
        /\ \A cl \in Callers : ipc[cl] # "sort"
    BY <1>3, <1>0 DEF OpenNext, OpenIndex, Locked, Running
  <2>7. Descending(indexes)
    BY <1>0, <2>6, SliceDescending
  <2> HIDE DEF x
  <2>8. \A k \in 1..Len(indexes) : indexes[k].startTime # x.startTime
    BY <1>0, <2>3 DEF Sorted
  <2>9. Descending(indexes')
    BY <2>3, <2>4, <2>5, <2>7, <2>8, InsertAtDescending
  <2>10. \A k \in 1..Len(indexes') :
           \/ indexes'[k] = x
           \/ \E j \in 1..Len(indexes) : indexes'[k] = indexes[j]
    BY <2>3, <2>4, <2>5, InsertAtMembers
  <2>11. ASSUME NEW e \in unopened' PROVE e.startTime # x.startTime
    <3>1. e \in Dir /\ Aligned(e) /\ e # d
      BY <1>0, <2>4 DEF TypeOK, Sorted
    <3> QED
      BY <2>2, <2>3, <3>1 DEF Dir, Aligned
  <2>12. ASSUME NEW e \in unopened', NEW k \in 1..Len(indexes')
         PROVE  indexes'[k].startTime # e.startTime
    <3>1. CASE indexes'[k] = x
      BY <2>11, <3>1
    <3>2. CASE \E j \in 1..Len(indexes) : indexes'[k] = indexes[j]
      BY <1>0, <2>4, <3>2 DEF Sorted
    <3> QED
      BY <2>10, <3>1, <3>2
  <2>13. unopened' \subseteq dirs' /\ \A e \in dirs' : Aligned(e)
    BY <1>0, <2>4, <2>6 DEF Sorted
  <2> QED
    BY <1>t, <2>6, <2>9, <2>12, <2>13, DescendingSorted
<1>4. CASE OpenEnd
  BY <1>4, <1>0 DEF OpenEnd, Sorted, Locked, Running, InWriteSection,
     TypeOK
<1>5. CASE CloseStart
  BY <1>5, <1>0 DEF CloseStart, Sorted, Locked, Running, InWriteSection,
     TypeOK
<1>6. CASE CloseNext
  BY <1>6, <1>0 DEF CloseNext, Sorted, Locked, Running, InWriteSection,
     TypeOK
<1>7. CASE RetentionStart
  BY <1>7, <1>0 DEF RetentionStart, Sorted, Locked, Running, InWriteSection,
     TypeOK
<1>8. CASE RetentionKeep
  <2>1. indexes' = indexes
    BY <1>8, <1>0, KeepMovesNothing
  <2> QED
    BY <1>8, <1>0, <2>1 DEF RetentionKeep, Sorted
<1>9. CASE RetentionDelete
  <2>1. /\ dirs' \subseteq dirs /\ indexes' = indexes /\ ipc' = ipc
        /\ mode' = mode /\ unopened' = {} /\ unopened = {}
    BY <1>9, <1>0 DEF RetentionDelete, DeleteIndex, Sorted, Running
  <2> QED
    BY <1>0, <2>1 DEF Sorted
<1>10. CASE RetentionEnd
  <2>1. /\ rkept \in 0..Len(indexes) /\ Len(indexes') = rkept
        /\ \A k \in 1..rkept :
             indexes'[k] = indexes[k] /\ k \in 1..Len(indexes)
    BY <1>10, <1>0, EndTruncates
  <2>2. /\ mode' = mode /\ ipc' = ipc /\ dirs' = dirs
        /\ unopened' = {} /\ mode' # "down"
        /\ \A cl \in Callers : ipc[cl] # "sort"
    BY <1>10, <1>0 DEF RetentionEnd, Locked, InWriteSection, Sorted, Running
  <2>3. Descending(indexes)
    BY <1>0, <2>2, SliceDescending
  <2>4. Descending(indexes')
    BY <2>1, <2>3 DEF Descending
  <2>5. \A d \in dirs' : Aligned(d)
    BY <1>0, <2>2 DEF Sorted
  <2> QED
    BY <1>t, <2>2, <2>4, <2>5, DescendingSorted
<1>11. ASSUME NEW cl \in Callers, IndexCall(cl)
      PROVE  Sorted'
  <2>1. /\ dirs' = dirs /\ indexes' = indexes
        /\ unopened' = unopened /\ mode' = mode
    BY <1>11 DEF IndexCall
  <2>2. \A c \in Callers : (ipc'[c] = "sort") <=> (ipc[c] = "sort")
    BY <1>11, <1>0 DEF IndexCall, TypeOK
  <2> QED
    BY <1>0, <2>1, <2>2 DEF Sorted
<1>12. ASSUME NEW cl \in Callers, RouteFound(cl)
      PROVE  Sorted'
  BY <1>12, <1>0 DEF RouteFound, Sorted, Locked, Running, InWriteSection,
     TypeOK
<1>13. ASSUME NEW cl \in Callers, RouteMissing(cl)
      PROVE  Sorted'
  <2>1. /\ dirs' = dirs /\ indexes' = indexes
        /\ unopened' = unopened /\ mode' = mode
    BY <1>13 DEF RouteMissing
  <2>2. \A c \in Callers : (ipc'[c] = "sort") <=> (ipc[c] = "sort")
    BY <1>13, <1>0 DEF RouteMissing, TypeOK
  <2> QED
    BY <1>0, <2>1, <2>2 DEF Sorted
<1>14. ASSUME NEW cl \in Callers, UpgradeLock(cl)
      PROVE  Sorted'
  BY <1>14, <1>0 DEF UpgradeLock, Sorted, Locked, Running, InWriteSection,
     TypeOK
<1>15. ASSUME NEW cl \in Callers, RecheckFound(cl)
      PROVE  Sorted'
  BY <1>15, <1>0 DEF RecheckFound, Sorted, Locked, Running, InWriteSection,
     TypeOK
<1>16. ASSUME NEW cl \in Callers, CreateIndex(cl)
      PROVE  Sorted'
  <2> DEFINE t == RefTime[Head(todo[cl])]
             x == NewIndexObject(StartFor(t), Truncate(t) + IndexDuration,
                                 nextId)
             n == Len(indexes)
  <2>1. /\ x \in IndexObject /\ Aligned(x) /\ Aligned(DirOf(x))
        /\ \A k \in 1..n : indexes[k].startTime # x.startTime
    BY <1>16, CreatedIndex
  <2>2. /\ dirs' = {d \in dirs : d.startTime # x.startTime} \cup {DirOf(x)}
        /\ indexes' = Append(indexes, x)
        /\ ipc' = [ipc EXCEPT ![cl] = "sort"]
        /\ unopened' = unopened /\ mode' = mode /\ Running
        /\ ipc[cl] = "recheck"
    BY <1>16 DEF CreateIndex, NewIndexDirs
  <2>3. /\ ipc'[cl] = "sort" /\ unopened = {}
        /\ \A c \in Callers : ipc[c] # "sort"
    BY <1>0, <2>2 DEF TypeOK, Locked, InWriteSection, Sorted, Running
  <2> HIDE DEF x
  <2>4. /\ indexes \in Seq(IndexObject) /\ n \in Nat
        /\ Len(indexes') = n + 1 /\ indexes'[n + 1] = x
        /\ \A k \in 1..n : indexes'[k] = indexes[k]
    <3>1. indexes \in Seq(IndexObject)
      BY <1>0 DEF TypeOK
    <3> QED
      BY <2>1, <2>2, <3>1
  <2>5. Descending(indexes)
    BY <1>0, <2>3, SliceDescending
  <2>6. \A j, k \in 1..n : j # k => indexes[j].startTime # indexes[k].startTime
    BY <1>0 DEF Sorted
  <2> HIDE DEF n
  <2>7. n = Len(indexes)
    BY DEF n
  <2>8. \A d \in dirs' : Aligned(d)
    BY <1>0, <2>1, <2>2 DEF Sorted
  <2>9. \A k \in 1..Len(indexes') : Aligned(indexes'[k])
    BY <2>1, <2>4, <2>5, <2>7 DEF Descending
  <2>10. \A j, k \in 1..Len(indexes') :
           j # k => indexes'[j].startTime # indexes'[k].startTime
    BY <2>1, <2>4, <2>6
  <2> QED
    BY <2>2, <2>3, <2>8, <2>9, <2>10 DEF Sorted, Running
<1>17. ASSUME NEW cl \in Callers, SortSwap(cl) \/ SortEnd(cl)
      PROVE  Sorted'
  <2> DEFINE n == Len(indexes)
  <2>1. /\ indexes \in Seq(IndexObject) /\ n \in Nat
        /\ \A k \in 1..n : indexes[k] \in IndexObject
    <3>1. indexes \in Seq(IndexObject)
      BY <1>0 DEF TypeOK
    <3> QED
      BY <3>1
  <2>2. /\ \A k \in 1..n : Aligned(indexes[k])
        /\ \A j, k \in 1..n :
             j # k => indexes[j].startTime # indexes[k].startTime
    BY <1>0 DEF Sorted
  <2>3. /\ ipc[cl] = "sort" /\ unopened' = unopened /\ unopened = {}
        /\ mode' = mode /\ Running /\ dirs' = dirs
    BY <1>0, <1>17 DEF SortSwap, SortEnd, Sorted, Running
  <2>4. CASE SortSwap(cl)
    <3>1. PICK u \in 1..n, v \in 1..n : indexes' = Swap(indexes, u, v)
      BY <2>4 DEF SortSwap
    <3>2. ipc' = ipc
      BY <2>4 DEF SortSwap
    <3>3. Rearranged(indexes, indexes')
      <4>1. Rearranged(indexes, Swap(indexes, u, v))
        BY <2>1, SwapMembers
      <4> QED
        BY <3>1, <4>1
    <3>4. /\ Len(indexes') = n
          /\ \A k \in 1..n : \E j \in 1..n : indexes'[k] = indexes[j]
          /\ \A j, k \in 1..n :
               j # k => indexes'[j].startTime # indexes'[k].startTime
      BY <2>2, <3>3 DEF Rearranged, DistinctStarts
    <3> HIDE DEF n
    <3>5. \A k \in 1..Len(indexes') : Aligned(indexes'[k])
      BY <2>2, <3>4
    <3> QED
      BY <1>0, <2>3, <3>2, <3>4, <3>5 DEF Sorted, Running
  <2>5. CASE SortEnd(cl)
    <3>1. indexes' = indexes /\ IsSorted(indexes)
          /\ ipc' = [ipc EXCEPT ![cl] = "unlock"]
      BY <2>5 DEF SortEnd
    <3> HIDE DEF n
    <3>2. ASSUME NEW j \in 1..n, NEW k \in 1..n, j < k
          PROVE  indexes[k].endTime <= indexes[j].startTime
      <4>1. ~Less(indexes[k], indexes[j])
        BY <3>1, <3>2 DEF IsSorted, n
      <4>2. indexes[k].startTime # indexes[j].startTime
        BY <2>1, <2>2, <3>2
      <4>3. indexes[k].startTime < indexes[j].startTime
        BY <2>1, <4>1, <4>2 DEF Less, IndexObject
      <4> QED
        BY <2>1, <2>2, <4>3, AlignedApart DEF IndexObject
    <3>3. Descending(indexes')
      BY <2>2, <3>1, <3>2 DEF Descending, n
    <3>4. /\ unopened' = {} /\ mode' # "down" /\ \A d \in dirs' : Aligned(d)
          /\ \A c \in Callers : ipc'[c] # "sort"
      BY <1>0, <2>3, <3>1 DEF TypeOK, Locked, InWriteSection, Sorted, Running
    <3> QED
      BY <1>t, <2>3, <3>3, <3>4, DescendingSorted
  <2> QED
    BY <1>17, <2>4, <2>5
<1>18. ASSUME NEW cl \in Callers, Unlock(cl)
      PROVE  Sorted'
  BY <1>18, <1>0 DEF Unlock, Sorted, Locked, Running, InWriteSection,
     TypeOK
<1>19. ASSUME NEW cl \in Callers, Relock(cl)
      PROVE  Sorted'
  BY <1>19, <1>0 DEF Relock, Sorted, Locked, Running, InWriteSection,
     TypeOK
<1>20. ASSUME NEW cl \in Callers, WriteShard(cl)
      PROVE  Sorted'
  <2>1. /\ dirs' = dirs /\ indexes' = indexes
        /\ unopened' = unopened /\ mode' = mode
    BY <1>20 DEF WriteShard, ShardIndex
  <2>2. \A c \in Callers : (ipc'[c] = "sort") <=> (ipc[c] = "sort")
    BY <1>20, <1>0 DEF WriteShard, ShardIndex, TypeOK
  <2> QED
    BY <1>0, <2>1, <2>2 DEF Sorted
<1>21. ASSUME NEW cl \in Callers, IndexReturn(cl)
      PROVE  Sorted'
  BY <1>21, <1>0 DEF IndexReturn, Sorted, Locked, Running, InWriteSection,
     TypeOK
<1>22. CASE CloseEnd \/ Crash
  BY <1>22, <1>0 DEF CloseEnd, Crash, NoProcess, Sorted
<1>23. CASE Finished \/ UNCHANGED vars
  BY <1>23, <1>0 DEF Finished, vars, Sorted
<1> QED
  BY <1>1, <1>2, <1>3, <1>4, <1>5, <1>6, <1>7, <1>8, <1>9, <1>10, <1>11,
     <1>12, <1>13, <1>14, <1>15, <1>16, <1>17, <1>18, <1>19, <1>20,
     <1>21, <1>22, <1>23
     DEF Next, IndexStep, LockStep, RetentionStep, OpenStep, CloseStep

(* While retention does not filter, the whole slice is live. *)
LEMMA AllLive ==
  ASSUME TypeOK, Filtered, wlock # "retention"
  PROVE  \A k \in 1..Len(indexes) : Live(k)
BY DEF TypeOK, Filtered, Live

(* Integers leave no gap. *)
LEMMA Below == ASSUME NEW a \in Int, NEW b \in Int PROVE a <= b - 1 \/ a >= b
OBVIOUS

(* The same of a state in which the filter has kept all it has seen. *)
LEMMA OpenedWhole ==
  ASSUME TypeOK', rkept' = rpos' - 1,
         \A x \in open' : \E k \in 1..Len(indexes') : indexes'[k] = x,
         mode' # "closing" => \A k \in 1..Len(indexes') : indexes'[k] \in open'
  PROVE  Opened'
<1>1. rpos' \in 1..(Len(indexes') + 1)
  BY DEF TypeOK
<1>2. ASSUME NEW k \in 1..Len(indexes') PROVE Live(k)'
  <2>0. k \in Int /\ rpos' \in Int /\ rkept' \in Int /\ rkept' = rpos' - 1
    BY <1>1
  <2>1. k <= rkept' \/ k >= rpos'
    BY <2>0, Below
  <2> QED
    BY <2>1 DEF Live
<1> QED
  BY <1>2 DEF Opened

(* Every step keeps the open indexes and the live slice equal. *)
LEMMA OpenedStep == IInv /\ [Next]_vars => Opened'
<1> SUFFICES ASSUME IInv, [Next]_vars PROVE Opened'
  OBVIOUS
<1>0. TypeOK /\ Locked /\ Sorted /\ Filtered /\ Opened
  BY DEF IInv
<1> USE DEF clockVars, diskVars, indexVars, mainVars, lockVars, callVars,
            retVars, histVars
<1>t. TypeOK'
  BY TypeStep
<1>1. CASE Tick
  BY <1>1, <1>0 DEF Tick, Opened, Live
<1>2. CASE OpenStart
  BY <1>2, <1>0 DEF OpenStart, Opened, Live
<1>3. CASE OpenNext
  <2>1. PICK d \in unopened, p \in 1..(Len(indexes) + 1) :
          LET x == NewIndexObject(d.startTime, d.endTime, nextId) IN
          indexes' = InsertAt(indexes, x, p) /\ open' = open \cup {x}
    BY <1>3 DEF OpenNext, OpenIndex
  <2> DEFINE x == NewIndexObject(d.startTime, d.endTime, nextId)
  <2>2. d \in Dir /\ nextId \in Nat /\ indexes \in Seq(IndexObject)
    BY <1>0 DEF TypeOK
  <2>3. x \in IndexObject
    BY <2>2 DEF NewIndexObject, IndexObject, Dir
  <2>4. indexes' = InsertAt(indexes, x, p) /\ open' = open \cup {x}
    BY <2>1
  <2> HIDE DEF x
  <2>5. /\ \A k \in 1..Len(indexes') :
             \/ indexes'[k] = x
             \/ \E j \in 1..Len(indexes) : indexes'[k] = indexes[j]
        /\ \E k \in 1..Len(indexes') : indexes'[k] = x
        /\ \A j \in 1..Len(indexes) :
             \E k \in 1..Len(indexes') : indexes'[k] = indexes[j]
    <3>1. LET t == InsertAt(indexes, x, p) IN
          /\ \A k \in 1..Len(t) :
               t[k] = x \/ \E j \in 1..Len(indexes) : t[k] = indexes[j]
          /\ \E k \in 1..Len(t) : t[k] = x
          /\ \A j \in 1..Len(indexes) : \E k \in 1..Len(t) : t[k] = indexes[j]
      BY <2>2, <2>3, InsertAtMembers
    <3> QED
      BY <2>4, <3>1
  <2>6. /\ mode = "opening" /\ wlock = "none" /\ rpos = 1 /\ rkept = 0
        /\ rpos' = rpos /\ rkept' = rkept
    BY <1>3, <1>0 DEF OpenNext, OpenIndex, Locked, Running, Filtered
  <2>7. \A k \in 1..Len(indexes) : indexes[k] \in open
    BY <1>0, <2>6, AllLive DEF Opened
  <2>8. \A y \in open : \E k \in 1..Len(indexes) : indexes[k] = y
    BY <1>0 DEF Opened
  <2>9. ASSUME NEW y \in open'
        PROVE  \E k \in 1..Len(indexes') : indexes'[k] = y
    <3>1. CASE y = x
      BY <2>5, <3>1
    <3>2. CASE y \in open
      <4>1. PICK j \in 1..Len(indexes) : indexes[j] = y
        BY <2>8, <3>2
      <4> QED
        BY <2>5, <4>1
    <3> QED
      BY <2>4, <3>1, <3>2
  <2>10. \A k \in 1..Len(indexes') : indexes'[k] \in open'
    BY <2>4, <2>5, <2>7
  <2> QED
    BY <1>t, <2>6, <2>9, <2>10, OpenedWhole
<1>4. CASE OpenEnd
  BY <1>4, <1>0 DEF OpenEnd, Opened, Live
<1>5. CASE CloseStart
  BY <1>5, <1>0 DEF CloseStart, Opened, Live
<1>6. CASE CloseNext
  <2>1. /\ open' \subseteq open /\ mode' = "closing" /\ indexes' = indexes
        /\ rpos' = rpos /\ rkept' = rkept
    BY <1>6 DEF CloseNext
  <2> QED
    BY <1>0, <2>1 DEF Opened, Live
<1>7. CASE RetentionStart
  <2>1. /\ wlock = "none" /\ rpos' = 1 /\ rkept' = 0 /\ rpos = 1 /\ rkept = 0
        /\ indexes' = indexes /\ open' = open /\ mode' = mode
    BY <1>7, <1>0 DEF RetentionStart, Filtered
  <2> QED
    BY <1>0, <2>1 DEF Opened, Live
<1>8. CASE RetentionKeep
  <2>1. rkept = rpos - 1 /\ indexes' = indexes
    BY <1>8, <1>0, KeepMovesNothing
  <2>2. /\ rpos' = rpos + 1 /\ rkept' = rkept + 1
        /\ open' = open /\ mode' = mode
        /\ rpos \in Nat /\ rkept \in Nat
    BY <1>8, <1>0 DEF RetentionKeep, TypeOK
  <2>3. \A k \in 1..Len(indexes) : Live(k)
    BY <2>1, <2>2 DEF Live
  <2>4. rkept' = rpos' - 1
    BY <2>1, <2>2
  <2>5. /\ \A x \in open' : \E k \in 1..Len(indexes') : indexes'[k] = x
        /\ mode' # "closing" =>
             \A k \in 1..Len(indexes') : indexes'[k] \in open'
    BY <1>0, <2>1, <2>2, <2>3 DEF Opened
  <2> QED
    BY <1>t, <2>4, <2>5, OpenedWhole
<1>9. CASE RetentionDelete
  <2>1. /\ open' = open \ {indexes[rpos]} /\ rpos' = rpos + 1 /\ rkept' = rkept
        /\ indexes' = indexes /\ mode' = mode
        /\ rpos <= Len(indexes)
    BY <1>9 DEF RetentionDelete, DeleteIndex
  <2>2. rpos \in Nat /\ rpos > 0 /\ rkept \in Nat /\ rkept < rpos
        /\ indexes \in Seq(IndexObject)
    BY <1>0 DEF TypeOK
  <2>3. rpos \in 1..Len(indexes)
    BY <2>1, <2>2
  <2>4. ASSUME NEW k \in 1..Len(indexes)
        PROVE  Live(k)' <=> Live(k) /\ k # rpos
    BY <2>1, <2>2, <2>3 DEF Live
  <2>5. ASSUME NEW x \in open'
        PROVE  \E k \in 1..Len(indexes) : Live(k)' /\ indexes[k] = x
    <3>1. x \in open /\ x # indexes[rpos]
      BY <2>1
    <3>2. PICK k \in 1..Len(indexes) : Live(k) /\ indexes[k] = x
      BY <1>0, <3>1 DEF Opened
    <3> QED
      BY <2>4, <3>1, <3>2
  <2>6. ASSUME NEW k \in 1..Len(indexes), mode # "closing", Live(k)'
        PROVE  indexes[k] \in open'
    <3>1. Live(k) /\ k # rpos
      BY <2>4, <2>6
    <3>2. indexes[k] \in open
      BY <1>0, <2>6, <3>1 DEF Opened
    <3>3. indexes[k] # indexes[rpos]
      BY <1>0, <2>3, <3>1 DEF Sorted
    <3> QED
      BY <2>1, <3>2, <3>3
  <2> QED
    BY <2>1, <2>5, <2>6 DEF Opened
<1>10. CASE RetentionEnd
  <2>1. /\ rkept \in 0..Len(indexes) /\ Len(indexes') = rkept
        /\ \A k \in 1..rkept :
             indexes'[k] = indexes[k] /\ k \in 1..Len(indexes)
    BY <1>10, <1>0, EndTruncates
  <2>2. /\ open' = open /\ mode' = mode /\ rpos' = 1 /\ rkept' = 0
        /\ rpos > Len(indexes)
    BY <1>10 DEF RetentionEnd
  <2>3. rpos \in Nat /\ Len(indexes) \in Nat
    BY <1>0 DEF TypeOK
  <2>4. \A k \in 1..Len(indexes) : Live(k) <=> k <= rkept
    BY <2>1, <2>2, <2>3 DEF Live
  <2>5. ASSUME NEW x \in open'
        PROVE  \E k \in 1..Len(indexes') : indexes'[k] = x
    <3>1. PICK k \in 1..Len(indexes) : Live(k) /\ indexes[k] = x
      BY <1>0, <2>2 DEF Opened
    <3>2. k \in 1..rkept
      BY <2>1, <2>4, <3>1
    <3> QED
      BY <2>1, <3>1, <3>2
  <2>6. mode' # "closing" => \A k \in 1..Len(indexes') : indexes'[k] \in open'
    BY <1>0, <2>1, <2>2, <2>4 DEF Opened
  <2>7. rkept' = rpos' - 1
    BY <2>2
  <2> QED
    BY <1>t, <2>5, <2>6, <2>7, OpenedWhole
<1>11. ASSUME NEW cl \in Callers, IndexCall(cl)
      PROVE  Opened'
  BY <1>11, <1>0 DEF IndexCall, Opened, Live
<1>12. ASSUME NEW cl \in Callers, RouteFound(cl)
      PROVE  Opened'
  BY <1>12, <1>0 DEF RouteFound, Opened, Live
<1>13. ASSUME NEW cl \in Callers, RouteMissing(cl)
      PROVE  Opened'
  BY <1>13, <1>0 DEF RouteMissing, Opened, Live
<1>14. ASSUME NEW cl \in Callers, UpgradeLock(cl)
      PROVE  Opened'
  BY <1>14, <1>0 DEF UpgradeLock, Opened, Live
<1>15. ASSUME NEW cl \in Callers, RecheckFound(cl)
      PROVE  Opened'
  BY <1>15, <1>0 DEF RecheckFound, Opened, Live
<1>16. ASSUME NEW cl \in Callers, CreateIndex(cl)
      PROVE  Opened'
  <2> DEFINE t == RefTime[Head(todo[cl])]
             x == NewIndexObject(StartFor(t), Truncate(t) + IndexDuration,
                                 nextId)
             n == Len(indexes)
  <2>1. x \in IndexObject
    BY <1>16, CreatedIndex
  <2>2. /\ indexes' = Append(indexes, x) /\ open' = open \cup {x}
        /\ ipc[cl] = "recheck" /\ mode' = mode
        /\ rpos' = rpos /\ rkept' = rkept
    BY <1>16 DEF CreateIndex, NewIndexDirs
  <2> HIDE DEF x
  <2>3. /\ n \in Nat /\ Len(indexes') = n + 1 /\ indexes'[n + 1] = x
        /\ \A k \in 1..n : indexes'[k] = indexes[k]
    <3>1. indexes \in Seq(IndexObject)
      BY <1>0 DEF TypeOK
    <3> QED
      BY <2>1, <2>2, <3>1
  <2>4. wlock = "index" /\ rpos = 1 /\ rkept = 0
    BY <1>0, <2>2 DEF Locked, InWriteSection, Filtered
  <2>5. \A y \in open : \E k \in 1..n : indexes[k] = y
    BY <1>0 DEF Opened
  <2>6. mode # "closing" => \A k \in 1..n : indexes[k] \in open
    BY <1>0, <2>4, AllLive DEF Opened
  <2> HIDE DEF n
  <2>7. \A y \in open' : \E k \in 1..Len(indexes') : indexes'[k] = y
    BY <2>2, <2>3, <2>5
  <2>8. mode' # "closing" => \A k \in 1..Len(indexes') : indexes'[k] \in open'
    BY <2>2, <2>3, <2>6
  <2>9. rkept' = rpos' - 1
    BY <2>2, <2>4
  <2> QED
    BY <1>t, <2>7, <2>8, <2>9, OpenedWhole
<1>17. ASSUME NEW cl \in Callers, SortSwap(cl) \/ SortEnd(cl)
      PROVE  Opened'
  <2> DEFINE n == Len(indexes)
  <2>1. indexes \in Seq(IndexObject)
    BY <1>0 DEF TypeOK
  <2>2. /\ ipc[cl] = "sort" /\ mode' = mode /\ rpos' = rpos /\ rkept' = rkept
        /\ open' = open
    BY <1>17 DEF SortSwap, SortEnd
  <2>3. wlock = "index" /\ rpos = 1 /\ rkept = 0
    BY <1>0, <2>2 DEF Locked, InWriteSection, Filtered
  <2>4. \A y \in open : \E k \in 1..n : indexes[k] = y
    BY <1>0 DEF Opened
  <2>5. mode # "closing" => \A k \in 1..n : indexes[k] \in open
    BY <1>0, <2>3, AllLive DEF Opened
  <2>6. /\ Len(indexes') = n
        /\ \A k \in 1..n : \E j \in 1..n : indexes'[k] = indexes[j]
        /\ \A j \in 1..n : \E k \in 1..n : indexes'[k] = indexes[j]
    <3>1. CASE SortSwap(cl)
      <4>1. PICK u \in 1..n, v \in 1..n : indexes' = Swap(indexes, u, v)
        BY <3>1 DEF SortSwap
      <4>2. Rearranged(indexes, Swap(indexes, u, v))
        BY <2>1, SwapMembers
      <4> QED
        BY <4>1, <4>2 DEF Rearranged
    <3>2. CASE SortEnd(cl)
      BY <3>2 DEF SortEnd
    <3> QED
      BY <1>17, <3>1, <3>2
  <2> HIDE DEF n
  <2>7. ASSUME NEW y \in open'
        PROVE  \E k \in 1..Len(indexes') : indexes'[k] = y
    <3>1. PICK j \in 1..n : indexes[j] = y
      BY <2>2, <2>4
    <3>2. PICK k \in 1..n : indexes'[k] = indexes[j]
      BY <2>6
    <3> QED
      BY <2>6, <3>1, <3>2
  <2>8. mode' # "closing" => \A k \in 1..Len(indexes') : indexes'[k] \in open'
    BY <2>2, <2>5, <2>6
  <2>9. rkept' = rpos' - 1
    BY <2>2, <2>3
  <2> QED
    BY <1>t, <2>7, <2>8, <2>9, OpenedWhole
<1>18. ASSUME NEW cl \in Callers, Unlock(cl)
      PROVE  Opened'
  BY <1>18, <1>0 DEF Unlock, Opened, Live
<1>19. ASSUME NEW cl \in Callers, Relock(cl)
      PROVE  Opened'
  BY <1>19, <1>0 DEF Relock, Opened, Live
<1>20. ASSUME NEW cl \in Callers, WriteShard(cl)
      PROVE  Opened'
  BY <1>20, <1>0 DEF WriteShard, ShardIndex, Opened, Live
<1>21. ASSUME NEW cl \in Callers, IndexReturn(cl)
      PROVE  Opened'
  BY <1>21, <1>0 DEF IndexReturn, Opened, Live
<1>22. CASE CloseEnd \/ Crash
  BY <1>22 DEF CloseEnd, Crash, NoProcess, Opened, Live
<1>23. CASE Finished \/ UNCHANGED vars
  BY <1>23, <1>0 DEF Finished, vars, Opened, Live
<1> QED
  BY <1>1, <1>2, <1>3, <1>4, <1>5, <1>6, <1>7, <1>8, <1>9, <1>10, <1>11,
     <1>12, <1>13, <1>14, <1>15, <1>16, <1>17, <1>18, <1>19, <1>20,
     <1>21, <1>22, <1>23
     DEF Next, IndexStep, LockStep, RetentionStep, OpenStep, CloseStep

(* The process survives the step. *)
GoesOn == mode' # "down" \/ mode' = mode

(* What the clock, the shards and the mode of the process do in a step of  *)
(* a process that goes on: an index is only closed when it has expired or  *)
(* the engine is being closed.                                             *)
LEMMA IndexStaysUsable ==
  ASSUME IInv, [Next]_vars, GoesOn, NEW x \in open
  PROVE  x \in open' \/ Expired(x, now) \/ mode' = "closing"
<1> USE DEF clockVars, diskVars, indexVars, mainVars, lockVars, callVars,
            retVars, histVars
<1>1. CASE Tick \/ OpenStart \/ OpenStep \/ CloseStart \/ CloseStep \/ Crash
  BY <1>1 DEF Tick, OpenStart, OpenStep, OpenNext, OpenIndex, OpenEnd,
    CloseStart,
       CloseStep, CloseNext, CloseEnd, Crash, GoesOn
<1>2. CASE RetentionStart \/ RetentionKeep \/ RetentionDelete \/ RetentionEnd
  BY <1>2 DEF RetentionStart, RetentionKeep, RetentionDelete, DeleteIndex,
    RetentionEnd,
       GoesOn
<1>3. CASE Finished \/ UNCHANGED vars
  BY <1>3 DEF Finished, vars, GoesOn
<1>4. ASSUME NEW cl \in Callers,
         IndexCall(cl) \/ RouteFound(cl) \/ RouteMissing(cl) \/
         UpgradeLock(cl) \/ RecheckFound(cl) \/ CreateIndex(cl) \/
         SortSwap(cl) \/ SortEnd(cl) \/ Unlock(cl) \/ Relock(cl) \/ WriteShard(cl) \/
         IndexReturn(cl)
      PROVE  x \in open' \/ Expired(x, now) \/ mode' = "closing"
  BY <1>4 DEF IndexCall, RouteFound, RouteMissing, UpgradeLock, RecheckFound,
       CreateIndex, NewIndexDirs, SortSwap, SortEnd, Unlock, Relock, WriteShard,
         ShardIndex, IndexReturn,
       GoesOn
<1> QED
  BY <1>1, <1>2, <1>3, <1>4
     DEF Next, IndexStep, LockStep, RetentionStep, OpenStep, CloseStep

(* The clock does not run backwards. *)
LEMMA ClockStep ==
  ASSUME IInv, [Next]_vars
  PROVE  now \in Nat /\ now' \in Nat /\ now <= now'
<1>0. now \in Nat
  BY DEF IInv, TypeOK
<1> USE DEF clockVars, diskVars, indexVars, mainVars, lockVars, callVars,
            retVars, histVars
<1>a. now' = now \/ now' = now + 1
  <2>1. CASE Tick \/ OpenStart \/ OpenStep \/ CloseStart \/ CloseStep \/ Crash
    BY <2>1 DEF Tick, OpenStart, OpenStep, OpenNext, OpenIndex, OpenEnd,
      CloseStart,
         CloseStep, CloseNext, CloseEnd, Crash
  <2>2. CASE RetentionStart \/ RetentionKeep \/ RetentionDelete \/ RetentionEnd
    BY <2>2 DEF RetentionStart, RetentionKeep, RetentionDelete, DeleteIndex,
      RetentionEnd
  <2>3. CASE Finished \/ UNCHANGED vars
    BY <2>3 DEF Finished, vars
  <2>4. ASSUME NEW cl \in Callers,
           IndexCall(cl) \/ RouteFound(cl) \/ RouteMissing(cl) \/
           UpgradeLock(cl) \/ RecheckFound(cl) \/ CreateIndex(cl) \/
           SortSwap(cl) \/ SortEnd(cl) \/ Unlock(cl) \/ Relock(cl) \/ WriteShard(cl) \/
           IndexReturn(cl)
        PROVE  now' = now \/ now' = now + 1
    BY <2>4 DEF IndexCall, RouteFound, RouteMissing, UpgradeLock,
         RecheckFound, CreateIndex, NewIndexDirs, SortSwap, SortEnd, Unlock, Relock,
           WriteShard, ShardIndex,
         IndexReturn
  <2> QED
    BY <2>1, <2>2, <2>3, <2>4
       DEF Next, IndexStep, LockStep, RetentionStep, OpenStep, CloseStep
<1> QED
  BY <1>0, <1>a

(* An engine that is being closed is closed. *)
LEMMA ClosingStep ==
  ASSUME IInv, [Next]_vars, mode = "closing", GoesOn
  PROVE  mode' = "closing"
<1> USE DEF clockVars, diskVars, indexVars, mainVars, lockVars, callVars,
            retVars, histVars
<1>1. CASE Tick \/ OpenStart \/ OpenStep \/ CloseStart \/ CloseStep \/ Crash
  BY <1>1 DEF Tick, OpenStart, OpenStep, OpenNext, OpenIndex, OpenEnd,
    CloseStart,
       CloseStep, CloseNext, CloseEnd, Crash, GoesOn
<1>2. CASE RetentionStart \/ RetentionKeep \/ RetentionDelete \/ RetentionEnd
  BY <1>2 DEF RetentionStart, RetentionKeep, RetentionDelete, DeleteIndex,
    RetentionEnd,
       GoesOn
<1>3. CASE Finished \/ UNCHANGED vars
  BY <1>3 DEF Finished, vars, GoesOn
<1>4. ASSUME NEW cl \in Callers,
         IndexCall(cl) \/ RouteFound(cl) \/ RouteMissing(cl) \/
         UpgradeLock(cl) \/ RecheckFound(cl) \/ CreateIndex(cl) \/
         SortSwap(cl) \/ SortEnd(cl) \/ Unlock(cl) \/ Relock(cl) \/ WriteShard(cl) \/
         IndexReturn(cl)
      PROVE  mode' = "closing"
  BY <1>4 DEF IndexCall, RouteFound, RouteMissing, UpgradeLock, RecheckFound,
       CreateIndex, NewIndexDirs, SortSwap, SortEnd, Unlock, Relock, WriteShard,
         ShardIndex, IndexReturn,
       GoesOn
<1> QED
  BY <1>1, <1>2, <1>3, <1>4
     DEF Next, IndexStep, LockStep, RetentionStep, OpenStep, CloseStep

(* A usable index stays usable. *)
LEMMA UsableStep ==
  ASSUME IInv, [Next]_vars, GoesOn,
         NEW x \in IndexObject, NEW ev, Usable(x, ev)
  PROVE  Usable(x, ev)'
<1>1. now \in Nat /\ now' \in Nat /\ now <= now' /\ x.endTime \in Nat
  BY ClockStep DEF IndexObject
<1>2. Expired(x, now) => Expired(x, now')
  BY <1>1 DEF Expired
<1>3. x \in open => x \in open' \/ Expired(x, now) \/ mode' = "closing"
  BY IndexStaysUsable
<1>4. mode = "closing" => mode' = "closing"
  BY ClosingStep
<1> QED
  BY <1>2, <1>3, <1>4 DEF Usable

(* A caller's indexes stay usable while it does not choose another one.    *)
LEMMA CallerKeeps ==
  ASSUME IInv, [Next]_vars, GoesOn, NEW cl \in Callers,
         HasEvent(cl)' => todo[cl] # << >> /\ todo'[cl] = todo[cl],
         HasIndex(cl)' => HasIndex(cl) /\ index'[cl] = index[cl],
         sub'[cl] \subseteq sub[cl]
  PROVE  RoutedCaller(cl)'
<1>1. RoutedCaller(cl) /\ TypeOK
  BY DEF IInv, Routed
<1>2. ASSUME NEW p \in sub'[cl] PROVE Usable(p[1], p[2])'
  <2>1. p \in IndexObject \X Events /\ Usable(p[1], p[2])
    BY <1>1 DEF TypeOK, RoutedCaller
  <2> QED
    BY <2>1, UsableStep
<1>3. ASSUME HasIndex(cl)'
      PROVE  index'[cl] \in IndexObject /\ Usable(index[cl], Head(todo[cl]))'
  <2> DEFINE x == index[cl]
             ev == Head(todo[cl])
  <2>1. HasEvent(cl)'
    BY <1>3 DEF HasEvent, HasIndex
  <2>2. x \in IndexObject /\ Usable(x, ev) /\ index'[cl] = x
    BY <1>1, <1>3 DEF RoutedCaller
  <2>3. todo'[cl] = todo[cl]
    BY <2>1
  <2>4. PICK y, e : y = x /\ e = ev
    OBVIOUS
  <2>5. Usable(y, e)'
    BY <2>2, <2>4, UsableStep
  <2>6. index'[cl] = y /\ Head(todo'[cl]) = e
    BY <2>2, <2>3, <2>4
  <2> QED
    BY <2>2, <2>5, <2>6 DEF Usable
<1> QED
  BY <1>2, <1>3 DEF RoutedCaller

(* The same of all callers, when none of them moves. *)
LEMMA CallersIdle ==
  ASSUME IInv, [Next]_vars, GoesOn,
         UNCHANGED <<ipc, todo, sub, index>>
  PROVE  Routed'
<1> SUFFICES ASSUME NEW cl \in Callers PROVE RoutedCaller(cl)'
  BY DEF Routed
<1>1. RoutedCaller(cl)
  BY DEF IInv, Routed
<1>2. HasEvent(cl)' => todo[cl] # << >>
  BY <1>1 DEF RoutedCaller, HasEvent
<1>3. HasIndex(cl)' => HasIndex(cl)
  BY DEF HasIndex
<1> QED
  BY <1>2, <1>3, CallerKeeps

(* A caller that does not move. *)
LEMMA OtherCaller ==
  ASSUME IInv, [Next]_vars, GoesOn, NEW cl \in Callers,
         ipc'[cl] = ipc[cl], todo'[cl] = todo[cl], sub'[cl] = sub[cl],
         index'[cl] = index[cl]
  PROVE  RoutedCaller(cl)'
<1>1. RoutedCaller(cl)
  BY DEF IInv, Routed
<1>2. HasEvent(cl)' => todo[cl] # << >>
  BY <1>1 DEF RoutedCaller, HasEvent
<1>3. HasIndex(cl)' => HasIndex(cl)
  BY DEF HasIndex
<1> QED
  BY <1>2, <1>3, CallerKeeps

(* A step of one caller leaves the others alone. *)
LEMMA CallerFrame ==
  ASSUME TypeOK, NEW cl \in Callers,
         IndexCall(cl) \/ IndexStep(cl) \/ LockStep(cl)
  PROVE  /\ GoesOn
         /\ \A c \in Callers \ {cl} :
              /\ ipc'[c] = ipc[c] /\ todo'[c] = todo[c] /\ sub'[c] = sub[c]
              /\ index'[c] = index[c] /\ called'[c] = called[c]
<1> USE DEF clockVars, diskVars, indexVars, mainVars, lockVars, callVars,
            retVars, histVars
<1>1. CASE IndexCall(cl)
  BY <1>1 DEF IndexCall, TypeOK, Running, GoesOn
<1>2. CASE RouteFound(cl)
  BY <1>2 DEF RouteFound, TypeOK, Running, GoesOn
<1>3. CASE RouteMissing(cl)
  BY <1>3 DEF RouteMissing, TypeOK, Running, GoesOn
<1>4. CASE UpgradeLock(cl)
  BY <1>4 DEF UpgradeLock, TypeOK, Running, GoesOn
<1>5. CASE RecheckFound(cl)
  BY <1>5 DEF RecheckFound, TypeOK, Running, GoesOn
<1>6. CASE CreateIndex(cl)
  BY <1>6 DEF CreateIndex, NewIndexDirs, TypeOK, Running, GoesOn
<1>7. CASE SortSwap(cl) \/ SortEnd(cl)
  BY <1>7 DEF SortSwap, SortEnd, TypeOK, Running, GoesOn
<1>8. CASE Unlock(cl)
  BY <1>8 DEF Unlock, TypeOK, Running, GoesOn
<1>9. CASE Relock(cl)
  BY <1>9 DEF Relock, TypeOK, Running, GoesOn
<1>10. CASE WriteShard(cl)
  BY <1>10 DEF WriteShard, ShardIndex, TypeOK, Running, GoesOn
<1>11. CASE IndexReturn(cl)
  BY <1>11 DEF IndexReturn, TypeOK, Running, GoesOn
<1> QED
  BY <1>1, <1>2, <1>3, <1>4, <1>5, <1>6, <1>7, <1>8, <1>9, <1>10, <1>11
     DEF IndexStep, LockStep

(* The other callers' indexes stay usable. *)
LEMMA OthersRouted ==
  ASSUME IInv, [Next]_vars, NEW cl \in Callers,
         IndexCall(cl) \/ IndexStep(cl) \/ LockStep(cl)
  PROVE  GoesOn /\ \A c \in Callers \ {cl} : RoutedCaller(c)'
<1>1. TypeOK
  BY DEF IInv
<1>2. /\ GoesOn
      /\ \A c \in Callers \ {cl} :
           /\ ipc'[c] = ipc[c] /\ todo'[c] = todo[c] /\ sub'[c] = sub[c]
           /\ index'[c] = index[c]
  BY <1>1, CallerFrame
<1> QED
  BY <1>2, OtherCaller

(* An index that a caller finds is usable: while a caller holds either     *)
(* lock, retention is not at work.                                         *)
LEMMA FoundUsable ==
  ASSUME IInv, NEW cl \in Callers, ipc[cl] \in {"route", "recheck"}, Running,
         NEW ev \in Events, NEW k \in 1..Len(indexes),
         IsIndexForReferenceTime(k, RefTime[ev])
  PROVE  indexes[k] \in IndexObject /\ Usable(indexes[k], ev)
<1>1. TypeOK /\ Locked /\ Sorted /\ Filtered /\ Opened
  BY DEF IInv
<1>2. wlock # "retention"
  BY <1>1 DEF Locked, InWriteSection
<1>3. Live(k)
  BY <1>1, <1>2, AllLive
<1>4. indexes[k] \in open \/ mode = "closing"
  BY <1>1, <1>3 DEF Opened
<1>5. indexes[k] \in IndexObject /\ Aligned(indexes[k])
  BY <1>1 DEF TypeOK, Sorted
<1> QED
  BY <1>4, <1>5 DEF Usable, IsIndexForReferenceTime

(* Every step keeps the callers' indexes usable. *)
LEMMA RoutedStep == IInv /\ [Next]_vars => Routed'
<1> SUFFICES ASSUME IInv, [Next]_vars PROVE Routed'
  OBVIOUS
<1>0. TypeOK
  BY DEF IInv
<1> USE DEF clockVars, diskVars, indexVars, mainVars, lockVars, callVars,
            retVars, histVars
<1>1. CASE Tick
  <2>1. GoesOn /\ UNCHANGED <<ipc, todo, sub, index>>
    BY <1>1 DEF Tick, Running, GoesOn
  <2> QED
    BY <2>1, CallersIdle
<1>2. CASE OpenStart
  <2>1. GoesOn /\ UNCHANGED <<ipc, todo, sub, index>>
    BY <1>2 DEF OpenStart, Running, GoesOn
  <2> QED
    BY <2>1, CallersIdle
<1>3. CASE OpenNext
  <2>1. GoesOn /\ UNCHANGED <<ipc, todo, sub, index>>
    BY <1>3 DEF OpenNext, OpenIndex, Running, GoesOn
  <2> QED
    BY <2>1, CallersIdle
<1>4. CASE OpenEnd
  <2>1. GoesOn /\ UNCHANGED <<ipc, todo, sub, index>>
    BY <1>4 DEF OpenEnd, Running, GoesOn
  <2> QED
    BY <2>1, CallersIdle
<1>5. CASE CloseStart
  <2>1. GoesOn /\ UNCHANGED <<ipc, todo, sub, index>>
    BY <1>5 DEF CloseStart, Running, GoesOn
  <2> QED
    BY <2>1, CallersIdle
<1>6. CASE CloseNext
  <2>1. GoesOn /\ UNCHANGED <<ipc, todo, sub, index>>
    BY <1>6 DEF CloseNext, Running, GoesOn
  <2> QED
    BY <2>1, CallersIdle
<1>7. CASE RetentionStart
  <2>1. GoesOn /\ UNCHANGED <<ipc, todo, sub, index>>
    BY <1>7 DEF RetentionStart, Running, GoesOn
  <2> QED
    BY <2>1, CallersIdle
<1>8. CASE RetentionKeep
  <2>1. GoesOn /\ UNCHANGED <<ipc, todo, sub, index>>
    BY <1>8 DEF RetentionKeep, Running, GoesOn
  <2> QED
    BY <2>1, CallersIdle
<1>9. CASE RetentionDelete
  <2>1. GoesOn /\ UNCHANGED <<ipc, todo, sub, index>>
    BY <1>9 DEF RetentionDelete, DeleteIndex, Running, GoesOn
  <2> QED
    BY <2>1, CallersIdle
<1>10. CASE RetentionEnd
  <2>1. GoesOn /\ UNCHANGED <<ipc, todo, sub, index>>
    BY <1>10 DEF RetentionEnd, Running, GoesOn
  <2> QED
    BY <2>1, CallersIdle
<1>11. ASSUME NEW cl \in Callers, IndexCall(cl)
      PROVE  Routed'
  <2>1. GoesOn /\ \A c \in Callers \ {cl} : RoutedCaller(c)'
    BY <1>11, OthersRouted DEF IndexStep, LockStep
  <2>3. RoutedCaller(cl)
    BY DEF IInv, Routed
  <2>4. HasEvent(cl)' => todo[cl] # << >> /\ todo'[cl] = todo[cl]
    BY <1>11, <1>0, <2>3 DEF IndexCall, TypeOK, HasEvent, RoutedCaller
  <2>5. HasIndex(cl)' => HasIndex(cl) /\ index'[cl] = index[cl]
    BY <1>11, <1>0 DEF IndexCall, TypeOK, HasIndex
  <2>6. sub'[cl] \subseteq sub[cl]
    BY <1>11, <1>0 DEF IndexCall, TypeOK
  <2>7. RoutedCaller(cl)'
    BY <2>1, <2>4, <2>5, <2>6, CallerKeeps
  <2> QED
    BY <2>1, <2>7 DEF Routed
<1>12. ASSUME NEW cl \in Callers, RouteFound(cl)
      PROVE  Routed'
  <2>1. GoesOn /\ \A c \in Callers \ {cl} : RoutedCaller(c)'
    BY <1>12, OthersRouted DEF IndexStep, LockStep
  <2>3. /\ Head(todo[cl]) \in Events
        /\ Running /\ ipc[cl] = "route"
    BY <1>12, <1>0 DEF RouteFound, TypeOK
  <2>a. PICK k \in 1..Len(indexes) :
          /\ IsIndexForReferenceTime(k, RefTime[Head(todo[cl])])
          /\ sub' = [sub EXCEPT ![cl] = @ \cup {<<indexes[k], Head(todo[cl])>>}]
    BY <1>12 DEF RouteFound
  <2>b. PICK x, ev : x = indexes[k] /\ ev = Head(todo[cl])
    OBVIOUS
  <2>4. /\ x = indexes[k] /\ ev = Head(todo[cl]) /\ ev \in Events
        /\ IsIndexForReferenceTime(k, RefTime[ev])
        /\ sub' = [sub EXCEPT ![cl] = @ \cup {<<x, ev>>}]
    BY <2>3, <2>a, <2>b
  <2>5. Usable(x, ev)'
    <3>1. x \in IndexObject /\ Usable(x, ev)
      BY <2>3, <2>4, FoundUsable
    <3> QED
      BY <2>1, <3>1, UsableStep
  <2>6. sub'[cl] = sub[cl] \cup {<<x, ev>>}
    BY <1>0, <2>4 DEF TypeOK
  <2>7. ASSUME NEW q \in sub'[cl] PROVE Usable(q[1], q[2])'
    <3>1. CASE q = <<x, ev>>
      BY <2>5, <3>1
    <3>2. CASE q \in sub[cl]
      <4>1. q \in IndexObject \X Events /\ Usable(q[1], q[2])
        BY <1>0, <3>2 DEF TypeOK, IInv, Routed, RoutedCaller
      <4> QED
        BY <2>1, <4>1, UsableStep
    <3> QED
      BY <2>6, <3>1, <3>2
  <2>8. ~HasEvent(cl)' /\ ~HasIndex(cl)'
    BY <1>12, <1>0 DEF RouteFound, TypeOK, HasEvent, HasIndex
  <2>9. RoutedCaller(cl)'
    BY <2>7, <2>8 DEF RoutedCaller
  <2> QED
    BY <2>1, <2>9 DEF Routed
<1>13. ASSUME NEW cl \in Callers, RouteMissing(cl)
      PROVE  Routed'
  <2>1. GoesOn /\ \A c \in Callers \ {cl} : RoutedCaller(c)'
    BY <1>13, OthersRouted DEF IndexStep, LockStep
  <2>3. RoutedCaller(cl)
    BY DEF IInv, Routed
  <2>4. HasEvent(cl)' => todo[cl] # << >> /\ todo'[cl] = todo[cl]
    BY <1>13, <1>0, <2>3 DEF RouteMissing, TypeOK, HasEvent, RoutedCaller
  <2>5. HasIndex(cl)' => HasIndex(cl) /\ index'[cl] = index[cl]
    BY <1>13, <1>0 DEF RouteMissing, TypeOK, HasIndex
  <2>6. sub'[cl] \subseteq sub[cl]
    BY <1>13, <1>0 DEF RouteMissing, TypeOK
  <2>7. RoutedCaller(cl)'
    BY <2>1, <2>4, <2>5, <2>6, CallerKeeps
  <2> QED
    BY <2>1, <2>7 DEF Routed
<1>14. ASSUME NEW cl \in Callers, UpgradeLock(cl)
      PROVE  Routed'
  <2>1. GoesOn /\ \A c \in Callers \ {cl} : RoutedCaller(c)'
    BY <1>14, OthersRouted DEF IndexStep, LockStep
  <2>3. RoutedCaller(cl)
    BY DEF IInv, Routed
  <2>4. HasEvent(cl)' => todo[cl] # << >> /\ todo'[cl] = todo[cl]
    BY <1>14, <1>0, <2>3 DEF UpgradeLock, TypeOK, HasEvent, RoutedCaller
  <2>5. HasIndex(cl)' => HasIndex(cl) /\ index'[cl] = index[cl]
    BY <1>14, <1>0 DEF UpgradeLock, TypeOK, HasIndex
  <2>6. sub'[cl] \subseteq sub[cl]
    BY <1>14, <1>0 DEF UpgradeLock, TypeOK
  <2>7. RoutedCaller(cl)'
    BY <2>1, <2>4, <2>5, <2>6, CallerKeeps
  <2> QED
    BY <2>1, <2>7 DEF Routed
<1>15. ASSUME NEW cl \in Callers, RecheckFound(cl)
      PROVE  Routed'
  <2>1. GoesOn /\ \A c \in Callers \ {cl} : RoutedCaller(c)'
    BY <1>15, OthersRouted DEF IndexStep, LockStep
  <2>3. /\ Running /\ ipc[cl] = "recheck" /\ HasEvent(cl)
    BY <1>15 DEF RecheckFound, HasEvent
  <2>a. PICK k \in 1..Len(indexes) :
          /\ IsIndexForReferenceTime(k, RefTime[Head(todo[cl])])
          /\ index' = [index EXCEPT ![cl] = indexes[k]]
    BY <1>15 DEF RecheckFound
  <2>b. PICK x, ev : x = indexes[k] /\ ev = Head(todo[cl])
    OBVIOUS
  <2>c. Head(todo[cl]) \in Events
    BY <2>3, CallerEvent
  <2>4. /\ x = indexes[k] /\ ev = Head(todo[cl]) /\ ev \in Events
        /\ IsIndexForReferenceTime(k, RefTime[ev])
        /\ index' = [index EXCEPT ![cl] = x]
    BY <2>a, <2>b, <2>c
  <2>5. x \in IndexObject /\ Usable(x, ev)'
    <3>1. ev \in Events
      BY <2>4
    <3>2. x \in IndexObject /\ Usable(x, ev)
      BY <2>3, <2>4, <3>1, FoundUsable
    <3> QED
      BY <2>1, <3>2, UsableStep
  <2>6. ASSUME NEW q \in sub'[cl] PROVE Usable(q[1], q[2])'
    <3>1. q \in IndexObject \X Events /\ Usable(q[1], q[2])
      BY <1>15, <1>0 DEF RecheckFound, TypeOK, IInv, Routed, RoutedCaller
    <3> QED
      BY <2>1, <3>1, UsableStep
  <2>7. /\ index'[cl] = x /\ todo'[cl] = todo[cl] /\ todo[cl] # << >>
        /\ Head(todo'[cl]) = ev
    <3>1. HasEvent(cl)
      BY <1>15 DEF RecheckFound, HasEvent
    <3>2. todo[cl] # << >>
      BY <3>1, CallerEvent
    <3> QED
      BY <1>15, <1>0, <2>4, <3>2 DEF RecheckFound, TypeOK
  <2>8. Usable(index[cl], Head(todo[cl]))' /\ index'[cl] \in IndexObject
    BY <2>5, <2>7 DEF Usable
  <2>9. RoutedCaller(cl)'
    BY <2>6, <2>7, <2>8 DEF RoutedCaller
  <2> QED
    BY <2>1, <2>9 DEF Routed
<1>16. ASSUME NEW cl \in Callers, CreateIndex(cl)
      PROVE  Routed'
  <2>1. GoesOn /\ \A c \in Callers \ {cl} : RoutedCaller(c)'
    BY <1>16, OthersRouted DEF IndexStep, LockStep
  <2>3. PICK ev, x : /\ ev = Head(todo[cl])
                    /\ x = NewIndexObject(StartFor(RefTime[ev]),
                             Truncate(RefTime[ev]) + IndexDuration, nextId)
    OBVIOUS
  <2>4. /\ index' = [index EXCEPT ![cl] = x] /\ open' = open \cup {x}
        /\ ev = Head(todo[cl])
    BY <1>16, <2>3 DEF CreateIndex, NewIndexDirs
  <2>5. x \in IndexObject /\ Usable(x, ev)'
    <3>1. x \in IndexObject /\ Aligned(x) /\ Contains(x, RefTime[ev])
      BY <1>16, <2>3, CreatedIndex
    <3> QED
      BY <2>4, <3>1 DEF Usable
  <2>6. ASSUME NEW q \in sub'[cl] PROVE Usable(q[1], q[2])'
    <3>1. q \in IndexObject \X Events /\ Usable(q[1], q[2])
      BY <1>16, <1>0 DEF CreateIndex, NewIndexDirs, TypeOK, IInv, Routed,
        RoutedCaller
    <3> QED
      BY <2>1, <3>1, UsableStep
  <2>7. /\ index'[cl] = x /\ todo'[cl] = todo[cl] /\ todo[cl] # << >>
        /\ Head(todo'[cl]) = ev
    <3>1. HasEvent(cl)
      BY <1>16 DEF CreateIndex, NewIndexDirs, HasEvent
    <3>2. todo[cl] # << >>
      BY <3>1, CallerEvent
    <3> QED
      BY <1>16, <1>0, <2>4, <3>2 DEF CreateIndex, NewIndexDirs, TypeOK
  <2>8. Usable(index[cl], Head(todo[cl]))' /\ index'[cl] \in IndexObject
    BY <2>5, <2>7 DEF Usable
  <2>9. RoutedCaller(cl)'
    BY <2>6, <2>7, <2>8 DEF RoutedCaller
  <2> QED
    BY <2>1, <2>9 DEF Routed
<1>17. ASSUME NEW cl \in Callers, SortSwap(cl) \/ SortEnd(cl)
      PROVE  Routed'
  <2>1. GoesOn /\ \A c \in Callers \ {cl} : RoutedCaller(c)'
    BY <1>17, OthersRouted DEF IndexStep, LockStep
  <2>3. RoutedCaller(cl)
    BY DEF IInv, Routed
  <2>4. HasEvent(cl)' => todo[cl] # << >> /\ todo'[cl] = todo[cl]
    BY <1>17, <1>0, <2>3 DEF SortSwap, SortEnd, TypeOK, HasEvent, RoutedCaller
  <2>5. HasIndex(cl)' => HasIndex(cl) /\ index'[cl] = index[cl]
    BY <1>17, <1>0 DEF SortSwap, SortEnd, TypeOK, HasIndex
  <2>6. sub'[cl] \subseteq sub[cl]
    BY <1>17, <1>0 DEF SortSwap, SortEnd, TypeOK
  <2>7. RoutedCaller(cl)'
    BY <2>1, <2>4, <2>5, <2>6, CallerKeeps
  <2> QED
    BY <2>1, <2>7 DEF Routed
<1>18. ASSUME NEW cl \in Callers, Unlock(cl)
      PROVE  Routed'
  <2>1. GoesOn /\ \A c \in Callers \ {cl} : RoutedCaller(c)'
    BY <1>18, OthersRouted DEF IndexStep, LockStep
  <2>3. RoutedCaller(cl)
    BY DEF IInv, Routed
  <2>4. HasEvent(cl)' => todo[cl] # << >> /\ todo'[cl] = todo[cl]
    BY <1>18, <1>0, <2>3 DEF Unlock, TypeOK, HasEvent, RoutedCaller
  <2>5. HasIndex(cl)' => HasIndex(cl) /\ index'[cl] = index[cl]
    BY <1>18, <1>0 DEF Unlock, TypeOK, HasIndex
  <2>6. sub'[cl] \subseteq sub[cl]
    BY <1>18, <1>0 DEF Unlock, TypeOK
  <2>7. RoutedCaller(cl)'
    BY <2>1, <2>4, <2>5, <2>6, CallerKeeps
  <2> QED
    BY <2>1, <2>7 DEF Routed
<1>19. ASSUME NEW cl \in Callers, Relock(cl)
      PROVE  Routed'
  <2>1. GoesOn /\ \A c \in Callers \ {cl} : RoutedCaller(c)'
    BY <1>19, OthersRouted DEF IndexStep, LockStep
  <2>3. PICK x, ev : x = index[cl] /\ ev = Head(todo[cl])
    OBVIOUS
  <2>4. HasIndex(cl)
    BY <1>19 DEF Relock, HasIndex
  <2>5. Usable(x, ev)'
    <3>1. x \in IndexObject /\ Usable(x, ev)
      BY <2>3, <2>4 DEF IInv, Routed, RoutedCaller
    <3> QED
      BY <2>1, <3>1, UsableStep
  <2>6. sub'[cl] = sub[cl] \cup {<<x, ev>>}
    BY <1>19, <1>0, <2>3 DEF Relock, TypeOK
  <2>7. ASSUME NEW q \in sub'[cl] PROVE Usable(q[1], q[2])'
    <3>1. CASE q = <<x, ev>>
      BY <2>5, <3>1
    <3>2. CASE q \in sub[cl]
      <4>1. q \in IndexObject \X Events /\ Usable(q[1], q[2])
        BY <1>0, <3>2 DEF TypeOK, IInv, Routed, RoutedCaller
      <4> QED
        BY <2>1, <4>1, UsableStep
    <3> QED
      BY <2>6, <3>1, <3>2
  <2>8. ~HasEvent(cl)' /\ ~HasIndex(cl)'
    BY <1>19, <1>0 DEF Relock, TypeOK, HasEvent, HasIndex
  <2>9. RoutedCaller(cl)'
    BY <2>7, <2>8 DEF RoutedCaller
  <2> QED
    BY <2>1, <2>9 DEF Routed
<1>20. ASSUME NEW cl \in Callers, WriteShard(cl)
      PROVE  Routed'
  <2>1. GoesOn /\ \A c \in Callers \ {cl} : RoutedCaller(c)'
    BY <1>20, OthersRouted DEF IndexStep, LockStep
  <2>3. RoutedCaller(cl)
    BY DEF IInv, Routed
  <2>4. HasEvent(cl)' => todo[cl] # << >> /\ todo'[cl] = todo[cl]
    BY <1>20, <1>0, <2>3 DEF WriteShard, ShardIndex, TypeOK, HasEvent,
      RoutedCaller
  <2>5. HasIndex(cl)' => HasIndex(cl) /\ index'[cl] = index[cl]
    BY <1>20, <1>0 DEF WriteShard, ShardIndex, TypeOK, HasIndex
  <2>6. sub'[cl] \subseteq sub[cl]
    BY <1>20, <1>0 DEF WriteShard, ShardIndex, TypeOK
  <2>7. RoutedCaller(cl)'
    BY <2>1, <2>4, <2>5, <2>6, CallerKeeps
  <2> QED
    BY <2>1, <2>7 DEF Routed
<1>21. ASSUME NEW cl \in Callers, IndexReturn(cl)
      PROVE  Routed'
  <2>1. GoesOn /\ \A c \in Callers \ {cl} : RoutedCaller(c)'
    BY <1>21, OthersRouted DEF IndexStep, LockStep
  <2>3. RoutedCaller(cl)
    BY DEF IInv, Routed
  <2>4. HasEvent(cl)' => todo[cl] # << >> /\ todo'[cl] = todo[cl]
    BY <1>21, <1>0, <2>3 DEF IndexReturn, TypeOK, HasEvent, RoutedCaller
  <2>5. HasIndex(cl)' => HasIndex(cl) /\ index'[cl] = index[cl]
    BY <1>21, <1>0 DEF IndexReturn, TypeOK, HasIndex
  <2>6. sub'[cl] \subseteq sub[cl]
    BY <1>21, <1>0 DEF IndexReturn, TypeOK
  <2>7. RoutedCaller(cl)'
    BY <2>1, <2>4, <2>5, <2>6, CallerKeeps
  <2> QED
    BY <2>1, <2>7 DEF Routed
<1>22. CASE CloseEnd \/ Crash
  <2>1. NoProcess
    BY <1>22 DEF CloseEnd, Crash
  <2> QED
    BY <2>1 DEF NoProcess, Routed, RoutedCaller, HasEvent, HasIndex
<1>23. CASE Finished \/ UNCHANGED vars
  <2>1. UNCHANGED <<ipc, todo, sub, index, open, now, mode>>
    BY <1>23 DEF Finished, vars
  <2>2. Routed
    BY DEF IInv
  <2> QED
    BY <2>1, <2>2 DEF Routed, RoutedCaller, HasEvent, HasIndex, Usable
<1> QED
  BY <1>1, <1>2, <1>3, <1>4, <1>5, <1>6, <1>7, <1>8, <1>9, <1>10, <1>11,
     <1>12, <1>13, <1>14, <1>15, <1>16, <1>17, <1>18, <1>19, <1>20,
     <1>21, <1>22, <1>23
     DEF Next, IndexStep, LockStep, RetentionStep, OpenStep, CloseStep

(* The document q stays on disk or has outlived the retention period. *)
Remains(q) == q \in stored' \/ Outlived(q[1])

(* What is on disk stays there until its range has outlived the retention  *)
(* period.                                                                 *)
LEMMA StoredStep ==
  ASSUME IInv, [Next]_vars, NEW q \in stored
  PROVE  Remains(q)
<1>0. TypeOK /\ Sorted
  BY DEF IInv
<1> USE DEF clockVars, diskVars, indexVars, mainVars, lockVars, callVars,
            retVars, histVars
<1>1. CASE Tick \/ OpenStart \/ OpenStep \/ CloseStart \/ CloseStep \/ Crash
  BY <1>1 DEF Tick, OpenStart, OpenStep, OpenNext, OpenIndex, OpenEnd,
    CloseStart,
       CloseStep, CloseNext, CloseEnd, Crash, Remains
<1>2. CASE RetentionStart \/ RetentionKeep \/ RetentionEnd
  BY <1>2 DEF RetentionStart, RetentionKeep, RetentionEnd, Remains
<1>3. CASE Finished \/ UNCHANGED vars
  BY <1>3 DEF Finished, vars, Remains
<1>4. ASSUME NEW cl \in Callers,
         IndexCall(cl) \/ RouteFound(cl) \/ RouteMissing(cl) \/
         UpgradeLock(cl) \/ RecheckFound(cl) \/ CreateIndex(cl) \/
         SortSwap(cl) \/ SortEnd(cl) \/ Unlock(cl) \/ Relock(cl) \/ IndexReturn(cl)
      PROVE  Remains(q)
  BY <1>4 DEF IndexCall, RouteFound, RouteMissing, UpgradeLock, RecheckFound,
       CreateIndex, NewIndexDirs, SortSwap, SortEnd, Unlock, Relock, IndexReturn,
         Remains
<1>5. CASE RetentionDelete
  <2>1. /\ rpos <= Len(indexes)
        /\ Expired(indexes[rpos], now)
        /\ \A r \in stored : r \notin stored' => r[1] = indexes[rpos].startTime
    BY <1>5 DEF RetentionDelete, DeleteIndex
  <2>2. rpos \in 1..Len(indexes) /\ indexes \in Seq(IndexObject)
    BY <1>0, <2>1 DEF TypeOK
  <2>3. indexes[rpos] \in IndexObject /\ Aligned(indexes[rpos])
    BY <1>0, <2>2 DEF Sorted
  <2>4. Outlived(indexes[rpos].startTime)
    BY <2>1, <2>3 DEF Outlived, Expired, Aligned
  <2> QED
    BY <2>1, <2>4 DEF Remains
<1>6. ASSUME NEW cl \in Callers, WriteShard(cl)
      PROVE  Remains(q)
  <2>1. stored \subseteq stored'
    BY <1>6 DEF WriteShard, ShardIndex
  <2> QED
    BY <2>1 DEF Remains
<1> QED
  BY <1>1, <1>2, <1>3, <1>4, <1>5, <1>6
     DEF Next, IndexStep, LockStep, RetentionStep, OpenStep, CloseStep

(* What is excused stays excused. *)
LEMMA ExcusedStep ==
  ASSUME IInv, [Next]_vars
  PROVE  excused \subseteq excused'
<1> USE DEF clockVars, diskVars, indexVars, mainVars, lockVars, callVars,
            retVars, histVars
<1>1. CASE Tick \/ OpenStart \/ OpenStep \/ CloseStart \/ CloseStep \/ Crash
  BY <1>1 DEF Tick, OpenStart, OpenStep, OpenNext, OpenIndex, OpenEnd,
    CloseStart,
       CloseStep, CloseNext, CloseEnd, Crash
<1>2. CASE RetentionStart \/ RetentionKeep \/ RetentionDelete \/ RetentionEnd
  BY <1>2 DEF RetentionStart, RetentionKeep, RetentionDelete, DeleteIndex,
    RetentionEnd
<1>3. CASE Finished \/ UNCHANGED vars
  BY <1>3 DEF Finished, vars
<1>4. ASSUME NEW cl \in Callers,
         IndexCall(cl) \/ RouteFound(cl) \/ RouteMissing(cl) \/
         UpgradeLock(cl) \/ RecheckFound(cl) \/ CreateIndex(cl) \/
         SortSwap(cl) \/ SortEnd(cl) \/ Unlock(cl) \/ Relock(cl) \/ WriteShard(cl) \/
         IndexReturn(cl)
      PROVE  excused \subseteq excused'
  BY <1>4 DEF IndexCall, RouteFound, RouteMissing, UpgradeLock, RecheckFound,
       CreateIndex, NewIndexDirs, SortSwap, SortEnd, Unlock, Relock, WriteShard,
         ShardIndex, IndexReturn
<1> QED
  BY <1>1, <1>2, <1>3, <1>4
     DEF Next, IndexStep, LockStep, RetentionStep, OpenStep, CloseStep

(* What is settled stays settled. *)
LEMMA SettledStep ==
  ASSUME IInv, [Next]_vars, NEW ev \in Events, Settled(ev)
  PROVE  Settled(ev)'
<1> DEFINE P == PathOf(ev)
<1>1. now \in Nat /\ now' \in Nat /\ now <= now'
  BY ClockStep
<1>2. P \in Nat
  <2>1. RefTime[ev] \in Nat /\ P = Truncate(RefTime[ev])
    BY DEF PathOf, Truncate
  <2> QED
    BY <2>1, TruncateBounds
<1>3. Outlived(P) => Outlived(P)'
  <2> HIDE DEF P
  <2>1. P + IndexDuration + RetentionPeriod \in Nat
    BY <1>2
  <2> QED
    BY <1>1, <2>1 DEF Outlived
<1>4. CASE ev \in excused
  BY <1>4, ExcusedStep DEF Settled
<1>5. CASE <<P, ev>> \in stored
  <2>1. Remains(<<P, ev>>)
    BY <1>5, StoredStep
  <2>2. <<P, ev>> \in stored' \/ Outlived(P)
    BY <2>1 DEF Remains
  <2> QED
    BY <1>3, <2>2 DEF Settled, PathOf, Outlived
<1>6. CASE Outlived(P)
  BY <1>3, <1>6 DEF Settled, PathOf, Outlived
<1> QED
  BY <1>4, <1>5, <1>6 DEF Settled

(* No call loses an event that neither leaves its todo and sub nor is      *)
(* settled.                                                                *)
LEMMA AccountedKept ==
  ASSUME IInv, [Next]_vars, acked' = acked,
         \A c \in Callers : \A ev \in called'[c] :
            \/ Pending(c, ev)'
            \/ ev \in called[c] /\ (Pending(c, ev) => Settled(ev)')
  PROVE  Accounted'
<1>1. TypeOK /\ Accounted
  BY DEF IInv
<1>2. ASSUME NEW ev \in acked' PROVE Settled(ev)'
  <2>1. ev \in Events /\ Settled(ev)
    BY <1>1 DEF TypeOK, Accounted
  <2> QED
    BY <2>1, SettledStep
<1>3. ASSUME NEW c \in Callers, NEW ev \in called'[c]
      PROVE  Pending(c, ev)' \/ Settled(ev)'
  <2>1. CASE ev \in called[c] /\ Pending(c, ev) /\ Settled(ev)'
    BY <2>1
  <2>2. CASE ev \in called[c] /\ ~Pending(c, ev)
    <3>1. ev \in Events /\ Settled(ev)
      BY <1>1, <2>2 DEF TypeOK, Accounted
    <3> QED
      BY <3>1, SettledStep
  <2> QED
    BY <2>1, <2>2
<1> QED
  BY <1>2, <1>3 DEF Accounted

(* Writing an event to a usable index settles it, whatever happens.        *)
LEMMA UsableSettles ==
  ASSUME IInv, NEW x \in IndexObject, NEW ev \in Events, Usable(x, ev),
         x \notin open, mode # "closing"
  PROVE  Outlived(PathOf(ev))
<1>1. x.startTime = PathOf(ev) /\ x.startTime \in Nat
  <2>1. RefTime[ev] \in Nat /\ x.startTime \in Nat
    BY DEF IndexObject
  <2> QED
    BY <2>1, AlignedContains DEF Usable, PathOf, Truncate
<1> QED
  BY <1>1 DEF Usable, Expired, Outlived, Aligned

(* Every step keeps the account. *)
LEMMA AccountedStep == IInv /\ [Next]_vars => Accounted'
<1> SUFFICES ASSUME IInv, [Next]_vars PROVE Accounted'
  OBVIOUS
<1>0. TypeOK
  BY DEF IInv
<1> USE DEF clockVars, diskVars, indexVars, mainVars, lockVars, callVars,
            retVars, histVars
<1>k. ASSUME acked' = acked, UNCHANGED <<todo, sub, called>>
      PROVE  Accounted'
  <2>1. \A c \in Callers : \A ev \in called'[c] :
          Pending(c, ev)' \/ (ev \in called[c] /\ ~Pending(c, ev))
    BY <1>k DEF Pending
  <2> QED
    BY <1>k, <2>1, AccountedKept
<1>1. CASE Tick
  <2>1. acked' = acked /\ UNCHANGED <<todo, sub, called>>
    BY <1>1 DEF Tick
  <2> QED
    BY <1>k, <2>1
<1>2. CASE OpenStart
  <2>1. acked' = acked /\ UNCHANGED <<todo, sub, called>>
    BY <1>2 DEF OpenStart
  <2> QED
    BY <1>k, <2>1
<1>3. CASE OpenNext
  <2>1. acked' = acked /\ UNCHANGED <<todo, sub, called>>
    BY <1>3 DEF OpenNext, OpenIndex
  <2> QED
    BY <1>k, <2>1
<1>4. CASE OpenEnd
  <2>1. acked' = acked /\ UNCHANGED <<todo, sub, called>>
    BY <1>4 DEF OpenEnd
  <2> QED
    BY <1>k, <2>1
<1>5. CASE CloseStart
  <2>1. acked' = acked /\ UNCHANGED <<todo, sub, called>>
    BY <1>5 DEF CloseStart
  <2> QED
    BY <1>k, <2>1
<1>6. CASE CloseNext
  <2>1. acked' = acked /\ UNCHANGED <<todo, sub, called>>
    BY <1>6 DEF CloseNext
  <2> QED
    BY <1>k, <2>1
<1>7. CASE RetentionStart
  <2>1. acked' = acked /\ UNCHANGED <<todo, sub, called>>
    BY <1>7 DEF RetentionStart
  <2> QED
    BY <1>k, <2>1
<1>8. CASE RetentionKeep
  <2>1. acked' = acked /\ UNCHANGED <<todo, sub, called>>
    BY <1>8 DEF RetentionKeep
  <2> QED
    BY <1>k, <2>1
<1>9. CASE RetentionDelete
  <2>1. acked' = acked /\ UNCHANGED <<todo, sub, called>>
    BY <1>9 DEF RetentionDelete, DeleteIndex
  <2> QED
    BY <1>k, <2>1
<1>10. CASE RetentionEnd
  <2>1. acked' = acked /\ UNCHANGED <<todo, sub, called>>
    BY <1>10 DEF RetentionEnd
  <2> QED
    BY <1>k, <2>1
<1>11. ASSUME NEW cl \in Callers, IndexCall(cl)
      PROVE  Accounted'
  <2>0. PICK n \in 1..MaxBatch : \E s \in [1..n -> Events \ taken] :
          /\ todo' = [todo EXCEPT ![cl] = s]
          /\ called' = [called EXCEPT ![cl] = {s[k] : k \in 1..n}]
    BY <1>11 DEF IndexCall
  <2>1. PICK s \in [1..n -> Events \ taken] :
          /\ todo' = [todo EXCEPT ![cl] = s]
          /\ called' = [called EXCEPT ![cl] = {s[k] : k \in 1..n}]
    BY <2>0
  <2>2. acked' = acked /\ sub' = sub
    BY <1>11 DEF IndexCall
  <2>3. /\ todo'[cl] = s /\ called'[cl] = {s[k] : k \in 1..n}
        /\ \A c \in Callers \ {cl} :
             todo'[c] = todo[c] /\ called'[c] = called[c]
    BY <1>0, <2>1 DEF TypeOK
  <2>4. Len(s) = n
    <3>1. n \in Nat /\ s \in [1..n -> Events]
      OBVIOUS
    <3> QED
      BY <3>1
  <2>5. ASSUME NEW e \in called'[cl] PROVE Pending(cl, e)'
    BY <2>3, <2>4 DEF Pending
  <2>6. ASSUME NEW c \in Callers \ {cl}, NEW e
        PROVE  Pending(c, e) = Pending(c, e)'
    BY <2>2, <2>3 DEF Pending
  <2>7. \A c \in Callers : \A e \in called'[c] :
           \/ Pending(c, e)'
           \/ e \in called[c] /\ (Pending(c, e) => Settled(e)')
    BY <2>3, <2>5, <2>6
  <2> QED
    BY <2>2, <2>7, AccountedKept
<1>12. ASSUME NEW cl \in Callers, RouteFound(cl)
      PROVE  Accounted'
  <2>1. PICK x, ev : /\ ev = Head(todo[cl])
                    /\ sub' = [sub EXCEPT ![cl] = @ \cup {<<x, ev>>}]
    BY <1>12 DEF RouteFound
  <2>2. todo[cl] \in Seq(Events) /\ todo[cl] # << >>
    BY <1>12, <1>0 DEF RouteFound, TypeOK, IInv, Routed, RoutedCaller, HasEvent
  <2>3. /\ acked' = acked /\ called' = called
        /\ todo' = [todo EXCEPT ![cl] = Tail(todo[cl])]
    BY <1>12 DEF RouteFound
  <2>4. todo'[cl] = Tail(todo[cl]) /\ sub'[cl] = sub[cl] \cup {<<x, ev>>}
    BY <1>0, <2>1, <2>3 DEF TypeOK
  <2>5. ASSUME NEW e, Pending(cl, e) PROVE Pending(cl, e)'
    <3>1. CASE \E p \in sub[cl] : p[2] = e
      BY <2>4, <3>1 DEF Pending
    <3>2. CASE \E k \in 1..Len(todo[cl]) : todo[cl][k] = e
      <4>1. PICK k \in 1..Len(todo[cl]) : todo[cl][k] = e
        BY <3>2
      <4>2. CASE k = 1
        <5>1. e = ev
          BY <2>1, <2>2, <4>1, <4>2
        <5>2. <<x, ev>> \in sub'[cl] /\ <<x, ev>>[2] = e
          BY <2>4, <5>1
        <5> QED
          BY <5>2 DEF Pending
      <4>3. CASE k # 1
        <5>1. /\ k - 1 \in 1..Len(Tail(todo[cl]))
              /\ Tail(todo[cl])[k - 1] = todo[cl][k]
          BY <2>2, <4>1, <4>3
        <5> QED
          BY <2>4, <4>1, <5>1 DEF Pending
      <4> QED
        BY <4>2, <4>3
    <3> QED
      BY <2>5, <3>1, <3>2 DEF Pending
  <2>6. ASSUME NEW c \in Callers \ {cl}, NEW e
        PROVE  Pending(c, e) = Pending(c, e)'
    <3>1. todo'[c] = todo[c] /\ sub'[c] = sub[c]
      BY <1>12, <1>0, CallerFrame DEF IndexStep, LockStep
    <3> QED
      BY <3>1 DEF Pending
  <2>7. \A c \in Callers : \A e \in called'[c] :
           \/ Pending(c, e)'
           \/ e \in called[c] /\ (Pending(c, e) => Settled(e)')
    BY <2>3, <2>5, <2>6
  <2> QED
    BY <2>3, <2>7, AccountedKept
<1>13. ASSUME NEW cl \in Callers, RouteMissing(cl)
      PROVE  Accounted'
  <2>1. acked' = acked /\ UNCHANGED <<todo, sub, called>>
    BY <1>13 DEF RouteMissing
  <2> QED
    BY <1>k, <2>1
<1>14. ASSUME NEW cl \in Callers, UpgradeLock(cl)
      PROVE  Accounted'
  <2>1. acked' = acked /\ UNCHANGED <<todo, sub, called>>
    BY <1>14 DEF UpgradeLock
  <2> QED
    BY <1>k, <2>1
<1>15. ASSUME NEW cl \in Callers, RecheckFound(cl)
      PROVE  Accounted'
  <2>1. acked' = acked /\ UNCHANGED <<todo, sub, called>>
    BY <1>15 DEF RecheckFound
  <2> QED
    BY <1>k, <2>1
<1>16. ASSUME NEW cl \in Callers, CreateIndex(cl)
      PROVE  Accounted'
  <2>1. acked' = acked /\ UNCHANGED <<todo, sub, called>>
    BY <1>16 DEF CreateIndex, NewIndexDirs
  <2> QED
    BY <1>k, <2>1
<1>17. ASSUME NEW cl \in Callers, SortSwap(cl) \/ SortEnd(cl)
      PROVE  Accounted'
  <2>1. acked' = acked /\ UNCHANGED <<todo, sub, called>>
    BY <1>17 DEF SortSwap, SortEnd
  <2> QED
    BY <1>k, <2>1
<1>18. ASSUME NEW cl \in Callers, Unlock(cl)
      PROVE  Accounted'
  <2>1. acked' = acked /\ UNCHANGED <<todo, sub, called>>
    BY <1>18 DEF Unlock
  <2> QED
    BY <1>k, <2>1
<1>19. ASSUME NEW cl \in Callers, Relock(cl)
      PROVE  Accounted'
  <2>1. PICK x, ev : /\ ev = Head(todo[cl])
                    /\ sub' = [sub EXCEPT ![cl] = @ \cup {<<x, ev>>}]
    BY <1>19 DEF Relock
  <2>2. todo[cl] \in Seq(Events) /\ todo[cl] # << >>
    BY <1>19, <1>0 DEF Relock, TypeOK, IInv, Routed, RoutedCaller, HasEvent
  <2>3. /\ acked' = acked /\ called' = called
        /\ todo' = [todo EXCEPT ![cl] = Tail(todo[cl])]
    BY <1>19 DEF Relock
  <2>4. todo'[cl] = Tail(todo[cl]) /\ sub'[cl] = sub[cl] \cup {<<x, ev>>}
    BY <1>0, <2>1, <2>3 DEF TypeOK
  <2>5. ASSUME NEW e, Pending(cl, e) PROVE Pending(cl, e)'
    <3>1. CASE \E p \in sub[cl] : p[2] = e
      BY <2>4, <3>1 DEF Pending
    <3>2. CASE \E k \in 1..Len(todo[cl]) : todo[cl][k] = e
      <4>1. PICK k \in 1..Len(todo[cl]) : todo[cl][k] = e
        BY <3>2
      <4>2. CASE k = 1
        <5>1. e = ev
          BY <2>1, <2>2, <4>1, <4>2
        <5>2. <<x, ev>> \in sub'[cl] /\ <<x, ev>>[2] = e
          BY <2>4, <5>1
        <5> QED
          BY <5>2 DEF Pending
      <4>3. CASE k # 1
        <5>1. /\ k - 1 \in 1..Len(Tail(todo[cl]))
              /\ Tail(todo[cl])[k - 1] = todo[cl][k]
          BY <2>2, <4>1, <4>3
        <5> QED
          BY <2>4, <4>1, <5>1 DEF Pending
      <4> QED
        BY <4>2, <4>3
    <3> QED
      BY <2>5, <3>1, <3>2 DEF Pending
  <2>6. ASSUME NEW c \in Callers \ {cl}, NEW e
        PROVE  Pending(c, e) = Pending(c, e)'
    <3>1. todo'[c] = todo[c] /\ sub'[c] = sub[c]
      BY <1>19, <1>0, CallerFrame DEF IndexStep, LockStep
    <3> QED
      BY <3>1 DEF Pending
  <2>7. \A c \in Callers : \A e \in called'[c] :
           \/ Pending(c, e)'
           \/ e \in called[c] /\ (Pending(c, e) => Settled(e)')
    BY <2>3, <2>5, <2>6
  <2> QED
    BY <2>3, <2>7, AccountedKept
<1>20. ASSUME NEW cl \in Callers, WriteShard(cl)
      PROVE  Accounted'
  <2>1. PICK x \in {p[1] : p \in sub[cl]}, s \in 0..(NumShards - 1) :
          LET b == ShardBatch(sub[cl], x, s)
          IN  /\ sub' = [sub EXCEPT ![cl] = @ \ b]
              /\ \/ stored' = stored
                             \cup {<<x.startTime, e>> : e \in EventsOf(b)}
                 \/ excused' = excused \cup EventsOf(b)
                 \/ x \notin open /\ mode # "closing"
    BY <1>20 DEF WriteShard, ShardIndex
  <2> DEFINE b == ShardBatch(sub[cl], x, s)
  <2>2. /\ sub' = [sub EXCEPT ![cl] = @ \ b]
        /\ \/ stored' = stored \cup {<<x.startTime, e>> : e \in EventsOf(b)}
           \/ excused' = excused \cup EventsOf(b)
           \/ x \notin open /\ mode # "closing"
    BY <2>1
  <2>3. ASSUME NEW p \in b
        PROVE  p \in sub[cl] /\ p[1] = x /\ p[2] \in EventsOf(b)
    BY <2>3 DEF ShardBatch, EventsOf
  <2> HIDE DEF b
  <2>4. acked' = acked /\ called' = called /\ todo' = todo /\ now' = now
    BY <1>20 DEF WriteShard, ShardIndex
  <2>5. ASSUME NEW p \in b PROVE Settled(p[2])'
    <3>1. p \in sub[cl] /\ p[1] = x /\ p[2] \in EventsOf(b)
      BY <2>3
    <3>2. x \in IndexObject /\ p[2] \in Events /\ Usable(x, p[2])
      <4>1. p \in IndexObject \X Events
        BY <1>0, <3>1 DEF TypeOK
      <4>2. Usable(p[1], p[2])
        BY <3>1 DEF IInv, Routed, RoutedCaller
      <4> QED
        BY <3>1, <4>1, <4>2
    <3>3. x.startTime = PathOf(p[2])
      <4>1. RefTime[p[2]] \in Nat /\ x.startTime \in Nat
        BY <3>2 DEF IndexObject
      <4> QED
        BY <3>2, <4>1, AlignedContains DEF Usable, PathOf, Truncate
    <3>4. CASE stored' = stored \cup {<<x.startTime, e>> : e \in EventsOf(b)}
      <4>1. <<PathOf(p[2]), p[2]>> \in stored'
        BY <3>1, <3>3, <3>4
      <4> QED
        BY <4>1 DEF Settled, PathOf
    <3>5. CASE excused' = excused \cup EventsOf(b)
      BY <3>1, <3>5 DEF Settled
    <3>6. CASE x \notin open /\ mode # "closing"
      <4>1. Outlived(PathOf(p[2]))
        BY <3>2, <3>6, UsableSettles
      <4> QED
        BY <2>4, <4>1 DEF Settled, Outlived, PathOf
    <3> QED
      BY <2>2, <3>4, <3>5, <3>6
  <2>6. ASSUME NEW e, Pending(cl, e) PROVE Pending(cl, e)' \/ Settled(e)'
    <3>1. CASE \E k \in 1..Len(todo[cl]) : todo[cl][k] = e
      BY <2>4, <3>1 DEF Pending
    <3>2. CASE \E p \in sub[cl] : p[2] = e
      <4>1. PICK p \in sub[cl] : p[2] = e
        BY <3>2
      <4>2. CASE p \in b
        BY <2>5, <4>1, <4>2
      <4>3. CASE p \notin b
        <5>1. p \in sub'[cl]
          BY <1>0, <2>2, <4>3 DEF TypeOK
        <5> QED
          BY <4>1, <5>1 DEF Pending
      <4> QED
        BY <4>2, <4>3
    <3> QED
      BY <2>6, <3>1, <3>2 DEF Pending
  <2>7. ASSUME NEW c \in Callers \ {cl}, NEW e
        PROVE  Pending(c, e) = Pending(c, e)'
    <3>1. sub'[c] = sub[c]
      BY <1>0, <2>2 DEF TypeOK
    <3> QED
      BY <2>4, <3>1 DEF Pending
  <2>8. \A c \in Callers : \A e \in called'[c] :
           \/ Pending(c, e)'
           \/ e \in called[c] /\ (Pending(c, e) => Settled(e)')
    BY <2>4, <2>6, <2>7
  <2> QED
    BY <2>4, <2>8, AccountedKept
<1>21. ASSUME NEW cl \in Callers, IndexReturn(cl)
      PROVE  Accounted'
  <2>1. /\ todo[cl] = << >> /\ sub[cl] = {}
        /\ acked' = acked \cup called[cl]
        /\ called' = [called EXCEPT ![cl] = {}]
        /\ todo' = todo /\ sub' = sub
    BY <1>21 DEF IndexReturn
  <2>2. Accounted
    BY DEF IInv
  <2>3. ASSUME NEW ev \in acked' PROVE Settled(ev)'
    <3>1. ev \in Events
      BY <1>0, <2>1 DEF TypeOK
    <3>2. ~Pending(cl, ev)
      BY <2>1 DEF Pending
    <3>3. Settled(ev)
      BY <2>1, <2>2, <3>2 DEF Accounted
    <3> QED
      BY <3>1, <3>3, SettledStep
  <2>4. ASSUME NEW c \in Callers, NEW ev \in called'[c]
        PROVE  Pending(c, ev)' \/ Settled(ev)'
    <3>1. c # cl /\ ev \in called[c]
      BY <1>0, <2>1 DEF TypeOK
    <3>2. ev \in Events
      BY <1>0, <3>1 DEF TypeOK
    <3>3. CASE Pending(c, ev)
      BY <2>1, <3>3 DEF Pending
    <3>4. CASE Settled(ev)
      BY <3>2, <3>4, SettledStep
    <3> QED
      BY <2>2, <3>1, <3>3, <3>4 DEF Accounted
  <2> QED
    BY <2>3, <2>4 DEF Accounted
<1>22. CASE CloseEnd \/ Crash
  <2>1. acked' = acked /\ called' = [c \in Callers |-> {}]
    BY <1>22 DEF CloseEnd, Crash, NoProcess
  <2> QED
    BY <2>1, AccountedKept
<1>23. CASE Finished \/ UNCHANGED vars
  <2>1. acked' = acked /\ UNCHANGED <<todo, sub, called>>
    BY <1>23 DEF Finished, vars
  <2> QED
    BY <1>k, <2>1
<1> QED
  BY <1>1, <1>2, <1>3, <1>4, <1>5, <1>6, <1>7, <1>8, <1>9, <1>10, <1>11,
     <1>12, <1>13, <1>14, <1>15, <1>16, <1>17, <1>18, <1>19, <1>20,
     <1>21, <1>22, <1>23
     DEF Next, IndexStep, LockStep, RetentionStep, OpenStep, CloseStep

-----------------------------------------------------------------------------
(* The invariant is inductive. *)
THEOREM EngineInvariant == Spec => []IInv
<1>1. IInv /\ [Next]_vars => IInv'
  BY TypeStep, LockedStep, SortedStep, FilteredStep, OpenedStep, RoutedStep,
     AccountedStep DEF IInv
<1> QED
  BY InitIInv, <1>1, PTL DEF Spec

(* Types, for every value of the constants. *)
THEOREM EngineTypeOK == Spec => []TypeOK
<1>1. IInv => TypeOK
  BY DEF IInv
<1> QED
  BY <1>1, EngineInvariant, PTL

(* The slice of indexes is ordered and its ranges are disjoint. *)
THEOREM EngineIndexesOrdered == Spec => []IndexesOrdered
<1>1. IInv => IndexesOrdered
  BY DEF IInv, Sorted, IndexesOrdered
<1> QED
  BY <1>1, EngineInvariant, PTL

(* No two open Index objects share a directory. *)
THEOREM EngineOneOpenIndexPerPath == Spec => []OneOpenIndexPerPath
<1>1. ASSUME IInv PROVE OneOpenIndexPerPath
  <2>1. Opened /\ Sorted
    BY <1>1 DEF IInv
  <2> SUFFICES ASSUME NEW x \in open, NEW y \in open, x.startTime = y.startTime
               PROVE  x = y
    BY DEF OneOpenIndexPerPath
  <2>2. PICK j \in 1..Len(indexes) : indexes[j] = x
    BY <2>1 DEF Opened
  <2>3. PICK k \in 1..Len(indexes) : indexes[k] = y
    BY <2>1 DEF Opened
  <2>4. j = k
    BY <2>1, <2>2, <2>3 DEF Sorted
  <2> QED
    BY <2>2, <2>3, <2>4
<1> QED
  BY <1>1, EngineInvariant, PTL

(* What Index has acknowledged is on disk until it may be deleted. *)
THEOREM EngineAckedRetained == Spec => []AckedRetained
<1>1. IInv => AckedRetained
  BY DEF IInv, Accounted, Settled, AckedRetained
<1> QED
  BY <1>1, EngineInvariant, PTL

(* Retention only ever cuts the slice off at its end. *)
THEOREM EngineRetentionOnlyTruncates == Spec => RetentionOnlyTruncates
<1> DEFINE A == wlock = "retention" =>
                  \A k \in 1..Len(indexes') : indexes'[k] = indexes[k]
<1>1. ASSUME IInv, [Next]_vars PROVE [A]_vars
  <2> SUFFICES ASSUME wlock = "retention"
               PROVE  \A k \in 1..Len(indexes') : indexes'[k] = indexes[k]
    OBVIOUS
  <2>0. TypeOK /\ Locked /\ Sorted /\ Filtered
    BY <1>1 DEF IInv
  <2> USE DEF clockVars, diskVars, indexVars, mainVars, lockVars, callVars,
              retVars, histVars
  <2>1. CASE Tick \/ OpenStart \/ OpenEnd \/ CloseStart \/ CloseStep \/ Crash
    BY <2>1 DEF Tick, OpenStart, OpenEnd, CloseStart, CloseStep, CloseNext,
         CloseEnd, Crash, NoProcess
  <2>2. CASE RetentionStart \/ RetentionDelete
    BY <2>2 DEF RetentionStart, RetentionDelete, DeleteIndex
  <2>3. CASE Finished \/ UNCHANGED vars
    BY <2>3 DEF Finished, vars
  <2>4. ASSUME NEW cl \in Callers,
           IndexCall(cl) \/ RouteFound(cl) \/ RouteMissing(cl) \/
           UpgradeLock(cl) \/ RecheckFound(cl) \/ Unlock(cl) \/ Relock(cl)
           \/ WriteShard(cl) \/ IndexReturn(cl)
        PROVE  \A k \in 1..Len(indexes') : indexes'[k] = indexes[k]
    BY <2>4 DEF IndexCall, RouteFound, RouteMissing, UpgradeLock,
         RecheckFound, Unlock, Relock, WriteShard, ShardIndex, IndexReturn
  <2>5. CASE OpenNext
    BY <2>5, <2>0 DEF OpenNext, OpenIndex, Locked, Running
  <2>6. CASE RetentionKeep
    BY <2>6, <2>0, KeepMovesNothing
  <2>7. CASE RetentionEnd
    BY <2>7, <2>0, EndTruncates
  <2>8. ASSUME NEW cl \in Callers, CreateIndex(cl)
        PROVE  \A k \in 1..Len(indexes') : indexes'[k] = indexes[k]
    BY <2>8, <2>0 DEF CreateIndex, NewIndexDirs, Locked, InWriteSection
  <2>9. ASSUME NEW cl \in Callers, SortSwap(cl) \/ SortEnd(cl)
        PROVE  \A k \in 1..Len(indexes') : indexes'[k] = indexes[k]
    BY <2>9, <2>0 DEF SortSwap, SortEnd, Locked, InWriteSection
  <2> QED
    BY <1>1, <2>1, <2>2, <2>3, <2>4, <2>5, <2>6, <2>7, <2>8, <2>9
       DEF Next, IndexStep, LockStep, RetentionStep, OpenStep, CloseStep
<1> QED
  BY <1>1, EngineInvariant, PTL DEF Spec, RetentionOnlyTruncates
=============================================================================
