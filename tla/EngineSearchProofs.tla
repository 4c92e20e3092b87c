------------------------- MODULE EngineSearchProofs -------------------------
(***************************************************************************)
(* Safety of a search beside the engine, for every set of events, limit on *)
(* hits, index duration and retention period, and any number of callers,   *)
(* restarts and faults.                                                    *)
(***************************************************************************)
EXTENDS EngineSearch, EngineProofs, FiniteSetTheorems

(* createIndex has appended an index and sorts the slice. *)
Sorting == \E cl \in Callers : ipc[cl] = "sort"

(* Documents are in the directories of their times. *)
Filed == \A q \in stored : q[1] = PathOf(q[2])

USE EngineAssumption, SearchAssumption

-----------------------------------------------------------------------------
(* What is on disk.                                                        *)

(* The engine's own invariant. *)
LEMMA EngineKeeps == IInv /\ [Next]_vars => IInv'
  BY TypeStep, LockedStep, SortedStep, FilteredStep, OpenedStep, RoutedStep,
     AccountedStep DEF IInv

(* A caller that is about to write, or to sort, excludes the others. *)
LEMMA OneAtATime ==
  ASSUME Locked, NEW cl \in Callers, NEW o \in Callers
  PROVE  /\ ipc[cl] = "sort" => ipc[o] # "route" /\ wlock = "index"
         /\ ipc[cl] = "recheck" => ipc[o] # "sort" /\ wlock = "index"
         /\ (ipc[cl] = "sort" /\ ipc[o] = "sort") => cl = o
<1>1. ipc[cl] = "sort" => ipc[o] # "route" /\ wlock = "index"
  BY DEF Locked, InWriteSection
<1>2. ipc[cl] = "recheck" => ipc[o] # "sort" /\ wlock = "index"
  <2> SUFFICES ASSUME ipc[cl] = "recheck" PROVE ipc[o] # "sort" /\ wlock = "index"
    OBVIOUS
  <2>1. InWriteSection(cl) /\ wlock = "index"
    BY DEF Locked, InWriteSection
  <2>2. ipc[o] = "sort" => InWriteSection(o)
    BY DEF InWriteSection
  <2> QED
    BY <2>1, <2>2 DEF Locked
<1>3. (ipc[cl] = "sort" /\ ipc[o] = "sort") => cl = o
  BY DEF Locked, InWriteSection
<1> QED
  BY <1>1, <1>2, <1>3

(* The steps of a caller that touch neither the disk nor the slice. *)
QuietCall(cl) ==
  \/ IndexCall(cl) \/ RouteFound(cl) \/ RouteMissing(cl) \/ UpgradeLock(cl)
  \/ RecheckFound(cl) \/ Unlock(cl) \/ Relock(cl) \/ IndexReturn(cl)

(* They leave all that a search depends on as it was. *)
LEMMA QuietCallIs ==
  ASSUME IInv, NEW cl \in Callers, QuietCall(cl)
  PROVE  /\ UNCHANGED <<dirs, stored, indexes, open, mode, unopened, faults, rpos, rkept>>
         /\ Running
         /\ Sorting' <=> Sorting
<1> USE DEF clockVars, diskVars, indexVars, mainVars, lockVars, callVars,
            retVars, histVars
<1>1. /\ UNCHANGED <<dirs, stored, indexes, open, mode, unopened, faults, rpos, rkept>>
      /\ Running
  BY DEF QuietCall, IndexCall, RouteFound, RouteMissing, UpgradeLock, RecheckFound, Unlock,
         Relock, IndexReturn
<1>2. ipc \in [Callers -> CallStates]
  BY DEF IInv, TypeOK
<1>3. /\ ipc[cl] # "sort"
      /\ ipc' = ipc \/ \E v \in CallStates \ {"sort"} : ipc' = [ipc EXCEPT ![cl] = v]
  BY <1>2 DEF QuietCall, IndexCall, RouteFound, RouteMissing, UpgradeLock, RecheckFound, Unlock,
         Relock, IndexReturn, CallStates
<1>4. \A o \in Callers : ipc'[o] = "sort" <=> ipc[o] = "sort"
  BY <1>2, <1>3
<1> QED
  BY <1>1, <1>4 DEF Sorting

(* The steps, as far as the disk, the slice and the sort are concerned. *)
LEMMA StepKinds ==
  ASSUME IInv, [Next]_vars
  PROVE  \/ /\ UNCHANGED <<dirs, stored, indexes, open, mode, unopened, faults, rpos, rkept>>
            /\ Sorting' <=> Sorting
         \/ OpenStart \/ OpenNext \/ OpenEnd \/ CloseStart \/ CloseNext \/ CloseEnd \/ Crash
         \/ \E cl \in Callers : CreateIndex(cl) \/ SortSwap(cl) \/ SortEnd(cl) \/ WriteShard(cl)
         \/ RetentionStart \/ RetentionKeep \/ RetentionDelete \/ RetentionEnd
<1> USE DEF clockVars, diskVars, indexVars, mainVars, lockVars, callVars,
            retVars, histVars
<1>1. CASE Tick \/ Finished \/ UNCHANGED vars
  BY <1>1 DEF Tick, Finished, vars, Sorting
<1>2. ASSUME NEW cl \in Callers, QuietCall(cl)
      PROVE  /\ UNCHANGED <<dirs, stored, indexes, open, mode, unopened, faults, rpos, rkept>>
             /\ Sorting' <=> Sorting
  BY <1>2, QuietCallIs
<1> QED
  BY <1>1, <1>2 DEF Next, IndexStep, LockStep, RetentionStep, OpenStep, CloseStep, QuietCall

(* Every step leaves documents where they belong. *)
LEMMA FiledStep == IInv /\ Filed /\ [Next]_vars => Filed'
<1> SUFFICES ASSUME IInv, Filed, [Next]_vars PROVE Filed'
  OBVIOUS
<1> USE DEF clockVars, diskVars, indexVars, mainVars, lockVars, callVars,
            retVars, histVars
<1>1. SUFFICES \A q \in stored' : q \in stored \/ q[1] = PathOf(q[2])
  BY DEF Filed, PathOf
<1>2. CASE stored' = stored
  BY <1>2
<1>3. CASE RetentionDelete
  BY <1>3 DEF RetentionDelete, DeleteIndex
<1>4. ASSUME NEW cl \in Callers, WriteShard(cl)
      PROVE  \A q \in stored' : q \in stored \/ q[1] = PathOf(q[2])
  <2>1. PICK x \in {p[1] : p \in sub[cl]}, s \in 0..(NumShards - 1) :
          stored' = stored \/ stored' = stored \cup ShardIndex(x, ShardBatch(sub[cl], x, s))
    BY <1>4 DEF WriteShard
  <2> SUFFICES ASSUME NEW q \in ShardIndex(x, ShardBatch(sub[cl], x, s))
               PROVE  q[1] = PathOf(q[2])
    BY <2>1
  <2>2. PICK p \in sub[cl] : p[1] = x /\ q = <<x.startTime, p[2]>>
    BY DEF ShardIndex, ShardBatch, EventsOf
  <2>3. sub[cl] \in SUBSET (IndexObject \X Events) /\ Usable(p[1], p[2])
    BY DEF IInv, TypeOK, Routed, RoutedCaller
  <2>4. x \in IndexObject /\ p[2] \in Events /\ Aligned(x) /\ Contains(x, RefTime[p[2]])
    BY <2>2, <2>3 DEF Usable
  <2>5. x.startTime \in Nat /\ RefTime[p[2]] \in Nat
    BY <2>4 DEF IndexObject
  <2>6. x.startTime = Truncate(RefTime[p[2]])
    BY <2>4, <2>5, AlignedContains
  <2> QED
    BY <2>2, <2>6 DEF Truncate, PathOf
<1>5. CASE OpenStart \/ OpenNext \/ OpenEnd \/ CloseStart \/ CloseNext \/ CloseEnd \/ Crash
  <2>1. stored' = stored
    BY <1>5 DEF OpenStart, OpenNext, OpenEnd, CloseStart, CloseNext, CloseEnd, Crash
  <2> QED
    BY <2>1
<1>6. CASE RetentionStart \/ RetentionKeep \/ RetentionEnd
  <2>1. stored' = stored
    BY <1>6 DEF RetentionStart, RetentionKeep, RetentionEnd
  <2> QED
    BY <2>1
<1>7. ASSUME NEW cl \in Callers, CreateIndex(cl) \/ SortSwap(cl) \/ SortEnd(cl)
      PROVE  stored' = stored
  BY <1>7 DEF CreateIndex, SortSwap, SortEnd
<1> QED
  BY <1>2, <1>3, <1>4, <1>5, <1>6, <1>7, StepKinds

-----------------------------------------------------------------------------
(* The search beside the engine.                                           *)

SearchTyped ==
  /\ spc \in {"idle", "begin", "load", "search", "docs", "done"}
  /\ i \in Int
  /\ ids \in Seq(Events)
  /\ out \in Seq(Events \cup {NoDocument})
  /\ steady \in {"yes", "gone", "come"}
  /\ ~Running => spc = "idle"
  /\ spc \in {"idle", "begin"} => out = << >>

(* A step of the search leaves the engine alone, or kills it. *)
LEMMA SearchOnlyReads ==
  ASSUME SearchTyped, [SNext]_allVars
  PROVE  [Next]_vars
<1>1. CASE SearchPanic
  <2>1. mode # "down"
    BY <1>1 DEF SearchPanic, SearchTyped, Running
  <2> QED
    BY <1>1, <2>1 DEF SearchPanic, Next, Crash
<1>2. CASE SearchStart \/ SearchBegin \/ SearchLoad \/ SearchIndex \/ SearchClosedIndex
           \/ SearchDocument \/ SearchDocumentFails \/ SearchNext \/ SearchEnd \/ UNCHANGED allVars
  <2>1. vars' = vars
    BY <1>2 DEF SearchStart, SearchBegin, SearchLoad, SearchIndex, SearchClosedIndex,
           SearchDocument, SearchDocumentFails, SearchNext, SearchEnd, allVars
  <2> QED
    BY <2>1
<1>3. CASE EngineStep
  BY <1>3 DEF EngineStep
<1> QED
  BY <1>1, <1>2, <1>3 DEF SNext, SearchStep

(* A slice that is not being sorted runs from the latest to the earliest.  *)
LEMMA SliceIs ==
  ASSUME IInv
  PROVE  /\ indexes \in Seq(IndexObject) /\ Len(indexes) \in Nat
         /\ \A k \in 1..Len(indexes) : indexes[k].startTime \in Nat
         /\ ~Sorting => \A j, k \in 1..Len(indexes) :
                           j < k => indexes[k].startTime < indexes[j].startTime
<1>1. TypeOK /\ Sorted
  BY DEF IInv
<1>2. indexes \in Seq(IndexObject)
  BY <1>1 DEF TypeOK
<1>3. Len(indexes) \in Nat
  BY <1>2
<1>4. ASSUME NEW k \in 1..Len(indexes) PROVE indexes[k].startTime \in Nat
  <2>1. indexes[k] \in IndexObject
    BY <1>2
  <2> QED
    BY <2>1 DEF IndexObject
<1>5. ASSUME ~Sorting, NEW j \in 1..Len(indexes), NEW k \in 1..Len(indexes), j < k
      PROVE  indexes[k].startTime < indexes[j].startTime
  <2>1. /\ indexes[k].endTime <= indexes[j].startTime
        /\ indexes[k].endTime = indexes[k].startTime + IndexDuration
    BY <1>1, <1>5 DEF Sorted, Sorting, Aligned
  <2> QED
    BY <1>4, <2>1
<1> QED
  BY <1>2, <1>3, <1>4, <1>5

(* A step that adds no index to a sorted slice at most shortens it. *)
Shortened ==
  /\ ~Sorting'
  /\ \A k \in 1..Len(indexes') : k \in 1..Len(indexes) /\ indexes'[k] = indexes[k]

(* Every step of a running engine that goes on either adds an index or at  *)
(* most shortens the slice: enforceRetention's filter moves no index.      *)
LEMMA SliceStep ==
  ASSUME IInv, [Next]_vars, Running, mode' # "down", ~Sorting,
         ~(Len(indexes') > Len(indexes))
  PROVE  Shortened
<1> USE DEF clockVars, diskVars, indexVars, mainVars, lockVars, callVars,
            retVars, histVars
<1>0. TypeOK /\ Locked /\ Sorted /\ Filtered
  BY DEF IInv
<1>t. indexes \in Seq(IndexObject) /\ Len(indexes) \in Nat
  BY SliceIs
<1>1. ASSUME indexes' = indexes, Sorting' <=> Sorting PROVE Shortened
  BY <1>1 DEF Shortened
<1>2. CASE OpenStart \/ OpenNext \/ OpenEnd \/ CloseEnd \/ Crash
  BY <1>2 DEF OpenStart, OpenNext, OpenEnd, CloseEnd, Crash, Running
<1>3. CASE CloseStart \/ CloseNext
  <2>1. UNCHANGED <<indexes, ipc>>
    BY <1>3 DEF CloseStart, CloseNext
  <2> QED
    BY <1>1, <2>1 DEF Sorting
<1>4. ASSUME NEW cl \in Callers, CreateIndex(cl) PROVE FALSE
  <2> DEFINE t == RefTime[Head(todo[cl])]
             x == NewIndexObject(StartFor(t), Truncate(t) + IndexDuration, nextId)
  <2>1. indexes' = Append(indexes, x)
    BY <1>4 DEF CreateIndex
  <2> HIDE DEF x
  <2>2. Len(indexes') = Len(indexes) + 1
    BY <1>t, <2>1
  <2> QED
    BY <1>t, <2>2
<1>5. ASSUME NEW cl \in Callers, SortSwap(cl) \/ SortEnd(cl) PROVE FALSE
  BY <1>5 DEF SortSwap, SortEnd, Sorting
<1>6. ASSUME NEW cl \in Callers, WriteShard(cl) PROVE Shortened
  <2>1. UNCHANGED <<indexes, ipc>>
    BY <1>6 DEF WriteShard
  <2> QED
    BY <1>1, <2>1 DEF Sorting
<1>7. CASE RetentionStart \/ RetentionDelete
  <2>1. UNCHANGED <<indexes, ipc>>
    BY <1>7 DEF RetentionStart, RetentionDelete
  <2> QED
    BY <1>1, <2>1 DEF Sorting
<1>8. CASE RetentionKeep
  <2>1. indexes' = indexes /\ ipc' = ipc
    BY <1>0, <1>8, KeepMovesNothing DEF RetentionKeep
  <2> QED
    BY <1>1, <2>1 DEF Sorting
<1>9. CASE RetentionEnd
  <2>1. ipc' = ipc
    BY <1>9 DEF RetentionEnd
  <2>2. ~Sorting'
    BY <2>1 DEF Sorting
  <2>3. /\ Len(indexes') = rkept
        /\ \A k \in 1..rkept : indexes'[k] = indexes[k] /\ k \in 1..Len(indexes)
    BY <1>0, <1>9, EndTruncates
  <2> QED
    BY <2>2, <2>3 DEF Shortened
<1> QED
  BY <1>1, <1>2, <1>3, <1>4, <1>5, <1>6, <1>7, <1>8, <1>9, StepKinds

(* Paths are in the order of the times. *)
LEMMA PathsOrdered ==
  ASSUME NEW a \in Events, NEW b \in Events
  PROVE  /\ RefTime[a] \in Nat /\ PathOf(a) \in Nat
         /\ PathOf(a) < PathOf(b) => RefTime[a] < RefTime[b]
<1>1. RefTime[a] \in Nat /\ RefTime[b] \in Nat
  OBVIOUS
<1>2. PathOf(a) = Truncate(RefTime[a]) /\ PathOf(b) = Truncate(RefTime[b])
  BY DEF PathOf, Truncate
<1>3. /\ Truncate(RefTime[a]) \in Nat /\ Truncate(RefTime[b]) \in Nat
      /\ RefTime[a] < Truncate(RefTime[a]) + IndexDuration /\ Truncate(RefTime[b]) <= RefTime[b]
  BY <1>1, TruncateBounds
<1>4. Truncate(RefTime[a]) < Truncate(RefTime[b])
        => Truncate(RefTime[a]) + IndexDuration <= Truncate(RefTime[b])
  BY <1>1, TruncateApart
<1> QED
  BY <1>1, <1>2, <1>3, <1>4

(* The hits are documents of the index, in the order of their IDs; and     *)
(* they are all of them, unless there are as many as the limit allows.     *)
Increasing(s) == \A j, k \in 1..Len(s) : j < k => IDLess(s[j], s[k])

(* A choice of n documents of an index has n of them, in the order of IDs. *)
LEMMA OrderedIs ==
  ASSUME NEW docs \in SUBSET Events, NEW n \in Nat, NEW s \in Ordered(docs, n)
  PROVE  /\ s \in Seq(Events) /\ Len(s) = n
         /\ \A k \in 1..n : s[k] \in docs
         /\ Increasing(s)
<1>1. s \in [1..n -> docs] /\ \A j, k \in 1..n : j < k => IDLess(s[j], s[k])
  BY DEF Ordered
<1>2. s \in Seq(Events) /\ Len(s) = n
  <2>1. s \in [1..n -> Events]
    BY <1>1
  <2> QED
    BY <2>1
<1>3. \A k \in 1..n : s[k] \in docs
  BY <1>1
<1> QED
  BY <1>1, <1>2, <1>3 DEF Increasing

(* Index.Search returns documents of its index, in the order of their IDs; *)
(* all of them, or as many as maxSearchHitSize allows.                     *)
LEMMA HitsAre ==
  ASSUME NEW path, NEW s \in Hits(path)
  PROVE  /\ s \in Seq(Events)
         /\ \A k \in 1..Len(s) : s[k] \in DocsOf(path)
         /\ Increasing(s)
         /\ IsFiniteSet(DocsOf(path)) /\ Cardinality(DocsOf(path)) \in Nat
         /\ Len(s) = Cardinality(DocsOf(path)) \/ Len(s) >= MaxHits
<1>1. DocsOf(path) \in SUBSET Events
  BY DEF DocsOf
<1>2. IsFiniteSet(DocsOf(path))
  BY <1>1, FS_Subset
<1>3. Cardinality(DocsOf(path)) \in Nat
  BY <1>2, FS_CardinalityType
<1> DEFINE n == IF Cardinality(DocsOf(path)) < MaxHits THEN Cardinality(DocsOf(path)) ELSE MaxHits
<1>4. n \in Nat /\ s \in Ordered(DocsOf(path), n)
  BY <1>3 DEF Hits
<1>5. n = Cardinality(DocsOf(path)) \/ n >= MaxHits
  BY <1>3
<1> HIDE DEF n
<1>6. /\ s \in Seq(Events) /\ Len(s) = n
      /\ \A k \in 1..n : s[k] \in DocsOf(path)
      /\ Increasing(s)
  BY <1>1, <1>4, OrderedIs
<1> QED
  BY <1>2, <1>3, <1>5, <1>6

(* The steps of the search itself, but for its end with the process. *)
SearchMove ==
  \/ SearchStart \/ SearchBegin \/ SearchLoad \/ SearchIndex \/ SearchClosedIndex
  \/ SearchDocument \/ SearchDocumentFails \/ SearchNext \/ SearchEnd

(* The steps, as far as the search is concerned. *)
LEMMA SearchKinds ==
  ASSUME [SNext]_allVars
  PROVE  \/ UNCHANGED allVars
         \/ SearchMove /\ UNCHANGED vars
         \/ mode' = "down" /\ NoSearch
         \/ /\ Next /\ mode' # "down"
            /\ UNCHANGED <<spc, i, loaded, ids, out, before>>
            /\ steady' = Steadiness
<1>1. CASE SearchMove
  <2>1. vars' = vars
    BY <1>1 DEF SearchMove, SearchStart, SearchBegin, SearchLoad, SearchIndex, SearchClosedIndex,
           SearchDocument, SearchDocumentFails, SearchNext, SearchEnd
  <2> QED
    BY <1>1, <2>1
<1>2. CASE SearchPanic
  BY <1>2 DEF SearchPanic
<1>3. CASE EngineStep
  BY <1>3 DEF EngineStep
<1> QED
  BY <1>1, <1>2, <1>3 DEF SNext, SearchStep, SearchMove

(* Every step keeps the types of the search's variables. *)
LEMMA SearchTypedStep == TypeOK /\ SearchTyped /\ [SNext]_allVars => SearchTyped'
<1> SUFFICES ASSUME TypeOK, SearchTyped, [SNext]_allVars PROVE SearchTyped'
  OBVIOUS
<1>1. CASE UNCHANGED allVars
  BY <1>1 DEF allVars, searchVars, SearchTyped, vars, mainVars, Running
<1>2. CASE mode' = "down" /\ NoSearch
  BY <1>2 DEF NoSearch, SearchTyped, Running
<1>3. CASE /\ Next /\ mode' # "down"
           /\ UNCHANGED <<spc, i, loaded, ids, out, before>>
           /\ steady' = Steadiness
  <2>1. steady' \in {"yes", "gone", "come"}
    BY <1>3 DEF Steadiness, SearchTyped
  <2>2. ~Running' => spc = "idle"
    <3>1. ~Running' => ~Running
      <4>1. CASE Running /\ ~(CloseEnd \/ Crash)
        <5>1. mode' = mode \/ mode' = "closing"
          BY <1>3, <4>1 DEF Next, IndexStep, LockStep, RetentionStep, OpenStep, CloseStep,
            Tick, OpenStart, OpenNext, OpenEnd, CloseStart, CloseNext, IndexCall,
            RouteFound, RouteMissing, UpgradeLock, RecheckFound, CreateIndex, SortSwap, SortEnd, Unlock,
            Relock, WriteShard, IndexReturn, RetentionStart, RetentionKeep, RetentionDelete,
            RetentionEnd, Finished, vars, mainVars, Running
        <5> QED
          BY <4>1, <5>1 DEF Running
      <4> QED
        BY <1>3, <4>1 DEF CloseEnd, Crash
    <3> QED
      BY <3>1 DEF SearchTyped
  <2> QED
    BY <1>3, <2>1, <2>2 DEF SearchTyped
<1>4. CASE SearchMove /\ UNCHANGED vars
  <2>0. Running' <=> Running
    BY <1>4 DEF vars, mainVars, Running
  <2>1. CASE SearchStart \/ SearchBegin \/ SearchLoad \/ SearchEnd \/ SearchNext
    <3>1. Running /\ UNCHANGED <<ids, out>> /\ steady' \in {"yes", steady}
      BY <2>1 DEF SearchStart, SearchBegin, SearchLoad, SearchEnd, SearchNext, SearchTyped
    <3>i. Len(indexes) \in Nat
      BY DEF TypeOK
    <3>2. i' \in Int
      BY <2>1, <3>i DEF SearchStart, SearchBegin, SearchLoad, SearchEnd, SearchNext, SearchTyped
    <3>3. /\ spc' \in {"begin", "load", "search", "done"}
          /\ spc' = "begin" => spc = "idle"
      BY <2>1 DEF SearchStart, SearchBegin, SearchLoad, SearchEnd, SearchNext
    <3> QED
      BY <2>0, <3>1, <3>2, <3>3 DEF SearchTyped
  <2>2. CASE SearchIndex
    <3>1. ids' \in Seq(Events)
      BY <2>2, HitsAre DEF SearchIndex
    <3> QED
      BY <2>0, <2>2, <3>1 DEF SearchIndex, SearchTyped
  <2>3. CASE SearchClosedIndex \/ SearchDocumentFails
    <3>1. << >> \in Seq(Events)
      OBVIOUS
    <3>2. /\ spc \in {"search", "docs"} /\ spc' \in {"done", "docs"} /\ ids' = << >>
          /\ UNCHANGED <<i, out, steady>>
      BY <2>3 DEF SearchClosedIndex, SearchDocumentFails
    <3> QED
      BY <2>0, <3>1, <3>2 DEF SearchTyped
  <2>4. CASE SearchDocument
    <3>1. ids \in Seq(Events) /\ ids # << >> /\ out \in Seq(Events \cup {NoDocument})
      BY <2>4 DEF SearchDocument, SearchTyped
    <3>2. Tail(ids) \in Seq(Events) /\ Head(ids) \in Events
      BY <3>1
    <3>3. out' \in Seq(Events \cup {NoDocument}) /\ ids' \in Seq(Events)
      BY <2>4, <3>1, <3>2 DEF SearchDocument
    <3> QED
      BY <2>0, <2>4, <3>3 DEF SearchDocument, SearchTyped
  <2> QED
    BY <1>4, <2>1, <2>2, <2>3, <2>4 DEF SearchMove
<1> QED
  BY <1>1, <1>2, <1>3, <1>4, SearchKinds

-----------------------------------------------------------------------------
(* Order of the results.                                                   *)

(* The directory of an event is earlier than the indexes the search has    *)
(* yet to see, including the one at its position or not.                   *)
At(ev) == \A k \in 1..Len(indexes) : k <= i => PathOf(ev) < indexes[k].startTime
Behind(ev) == \A k \in 1..Len(indexes) : k < i => PathOf(ev) < indexes[k].startTime

(* The search has sent nothing that is later than what is to come. *)
Ahead ==
  /\ ~Sorting
  /\ spc \in {"load", "search"} => \A ev \in Sent : At(ev)
  /\ spc = "docs" =>
       /\ Increasing(ids)
       /\ \A ev \in Sent : /\ Behind(ev)
                           /\ At(ev) \/ \A j \in 1..Len(ids) : IDLess(ev, ids[j])

OrderInv == (spc # "idle" /\ steady # "come") => Ahead

(* What was sent, empty results aside, are events. *)
LEMMA SentAreEvents == SearchTyped => Sent \subseteq Events
<1> SUFFICES ASSUME SearchTyped, NEW k \in 1..Len(out), out[k] # NoDocument PROVE out[k] \in Events
  BY DEF Sent
<1>1. out \in Seq(Events \cup {NoDocument})
  BY DEF SearchTyped
<1> QED
  BY <1>1

(* The engine's steps keep the search ahead. *)
LEMMA OrderEngineStep ==
  ASSUME IInv, SearchTyped, OrderInv, Next, mode' # "down",
         UNCHANGED <<spc, i, ids, out>>, steady' = Steadiness
  PROVE  OrderInv'
<1> SUFFICES ASSUME spc' # "idle", steady' # "come" PROVE Ahead'
  BY DEF OrderInv
<1>s. Sent' = Sent
  BY DEF Sent
<1>1. steady # "come" /\ ~(Len(indexes') > Len(indexes))
  BY DEF Steadiness
<1>2. Ahead
  BY <1>1 DEF OrderInv
<1>3. Running
  BY DEF SearchTyped
<1>4. Shortened
  BY <1>1, <1>2, <1>3, SliceStep DEF Ahead
<1>5. ASSUME NEW ev \in Sent
      PROVE  (At(ev) => At(ev)') /\ (Behind(ev) => Behind(ev)')
  BY <1>4 DEF At, Behind, PathOf, Shortened
<1>6. spc' \in {"load", "search"} => \A ev \in Sent' : At(ev)'
  BY <1>2, <1>s, <1>5 DEF Ahead
<1>7. spc' = "docs" =>
       /\ Increasing(ids')
       /\ \A ev \in Sent' : /\ Behind(ev)'
                            /\ At(ev)' \/ \A j \in 1..Len(ids') : IDLess(ev, ids'[j])
  BY <1>2, <1>s, <1>5 DEF Ahead
<1> QED
  BY <1>4, <1>6, <1>7 DEF Ahead, Shortened, Increasing, IDLess

(* What the search sends is later than all it has sent. *)
LEMMA SendsInOrder ==
  ASSUME IInv, Filed, SearchTyped, Ahead, SearchDocument,
         Head(ids) \in DocsOf(indexes[i].startTime)
  PROVE  /\ i \in 1..Len(indexes) /\ PathOf(Head(ids)) = indexes[i].startTime
         /\ \A ev \in Sent : IDLess(ev, Head(ids))
<1>1. /\ spc = "docs" /\ ids \in Seq(Events) /\ ids # << >>
  BY DEF SearchDocument, SearchTyped
<1>2. /\ Head(ids) \in Events /\ <<indexes[i].startTime, Head(ids)>> \in stored
      /\ Head(ids) = ids[1] /\ 1 \in 1..Len(ids)
  BY <1>1 DEF DocsOf
<1>3. PathOf(Head(ids)) = indexes[i].startTime
  BY <1>2 DEF Filed
<1>4. i \in 1..Len(indexes)
  BY DEF SearchDocument
<1>5. ASSUME NEW ev \in Sent PROVE IDLess(ev, Head(ids))
  <2>1. CASE At(ev)
    <3>1. i <= i
      BY <1>4 DEF IInv, TypeOK
    <3>2. PathOf(ev) < PathOf(Head(ids))
      BY <1>3, <1>4, <2>1, <3>1 DEF At
    <3>3. ev \in Events
      BY SentAreEvents
    <3>4. RefTime[ev] < RefTime[Head(ids)]
      BY <1>2, <3>2, <3>3, PathsOrdered
    <3> QED
      BY <3>4 DEF IDLess
  <2>2. CASE \A j \in 1..Len(ids) : IDLess(ev, ids[j])
    BY <1>2, <2>2
  <2> QED
    BY <1>1, <2>1, <2>2 DEF Ahead
<1> QED
  BY <1>3, <1>4, <1>5

(* The search's own steps keep it ahead. *)
LEMMA OrderSearchStep ==
  ASSUME IInv, Filed, SearchTyped, OrderInv, SearchMove, UNCHANGED vars
  PROVE  OrderInv'
<1> SUFFICES ASSUME spc' # "idle", steady' # "come" PROVE Ahead'
  BY DEF OrderInv
<1>v. UNCHANGED <<indexes, ipc, stored, mode>> /\ (Sorting' <=> Sorting)
  <2>1. UNCHANGED <<indexes, ipc, stored, mode>>
    BY DEF vars, indexVars, callVars, diskVars, mainVars
  <2> QED
    BY <2>1 DEF Sorting
<1>a. \A ev : i' = i => (At(ev)' <=> At(ev)) /\ (Behind(ev)' <=> Behind(ev))
  BY <1>v DEF At, Behind, PathOf
<1>1. CASE SearchStart \/ SearchBegin
  <2>1. out = << >> /\ out' = out
    BY <1>1 DEF SearchStart, SearchBegin, SearchTyped
  <2>2. Sent' = {}
    BY <2>1 DEF Sent
  <2>3. spc' \in {"begin", "load"}
    BY <1>1 DEF SearchStart, SearchBegin
  <2>4. ~Sorting'
    <3>1. CASE SearchStart
      BY <1>v, <3>1 DEF SearchStart, IInv, Locked, InWriteSection, Sorting
    <3>2. CASE SearchBegin
      BY <1>v, <3>2 DEF SearchBegin, OrderInv, Ahead
    <3> QED
      BY <1>1, <3>1, <3>2
  <2> QED
    BY <2>2, <2>3, <2>4 DEF Ahead
<1>2. CASE SearchMove /\ ~(SearchStart \/ SearchBegin)
  <2>0. steady' = steady /\ spc # "idle"
    BY <1>2 DEF SearchMove, SearchLoad, SearchIndex, SearchClosedIndex,
           SearchDocument, SearchDocumentFails, SearchNext, SearchEnd
  <2>h. Ahead
    BY <2>0 DEF OrderInv
  <2>c. ~Sorting'
    BY <1>v, <2>h DEF Ahead
  <2>i. i \in Int /\ Len(indexes) \in Nat
    BY SliceIs DEF SearchTyped
  <2>1. CASE SearchLoad \/ SearchEnd
    <3>1. UNCHANGED <<i, out>> /\ spc = "load" /\ spc' \in {"search", "done"}
      BY <2>1 DEF SearchLoad, SearchEnd
    <3>2. Sent' = Sent
      BY <3>1 DEF Sent
    <3> QED
      BY <1>a, <1>v, <2>0, <2>c, <2>h, <3>1, <3>2 DEF Ahead
  <2>2. CASE SearchIndex \/ SearchClosedIndex
    <3>1. UNCHANGED <<i, out>> /\ spc = "search" /\ spc' \in {"docs", "done"}
      BY <2>2 DEF SearchIndex, SearchClosedIndex
    <3>2. Sent' = Sent
      BY <3>1 DEF Sent
    <3>3. Increasing(ids')
      <4>1. CASE SearchIndex
        BY <4>1, HitsAre DEF SearchIndex
      <4>2. CASE SearchClosedIndex
        <5>1. ids' = << >> /\ Len(ids') = 0
          BY <4>2 DEF SearchClosedIndex
        <5> QED
          BY <5>1 DEF Increasing
      <4> QED
        BY <2>2, <4>1, <4>2
    <3>4. \A ev \in Sent : At(ev) /\ Behind(ev)
      <4>1. \A ev \in Sent : At(ev)
        BY <2>h, <3>1 DEF Ahead
      <4>2. \A k \in 1..Len(indexes) : k < i => k <= i
        BY <2>i
      <4> QED
        BY <4>1, <4>2 DEF At, Behind
    <3>5. spc' = "docs" =>
         /\ Increasing(ids')
         /\ \A ev \in Sent' : /\ Behind(ev)'
                              /\ At(ev)' \/ \A j \in 1..Len(ids') : IDLess(ev, ids'[j])
      BY <1>a, <3>1, <3>2, <3>3, <3>4
    <3> QED
      BY <1>v, <2>0, <2>c, <2>h, <3>1, <3>2, <3>5 DEF Ahead, Increasing, IDLess
  <2>3. CASE SearchDocumentFails
    <3>1. UNCHANGED <<i, out, spc>> /\ spc = "docs" /\ ids' = << >> /\ Len(ids') = 0
      BY <2>3 DEF SearchDocumentFails
    <3>2. Sent' = Sent
      BY <3>1 DEF Sent
    <3>3. Increasing(ids')
      BY <3>1 DEF Increasing
    <3>5. spc' = "docs" =>
         /\ Increasing(ids')
         /\ \A ev \in Sent' : /\ Behind(ev)'
                              /\ At(ev)' \/ \A j \in 1..Len(ids') : IDLess(ev, ids'[j])
      BY <1>a, <2>h, <3>1, <3>2, <3>3 DEF Ahead
    <3> QED
      BY <1>v, <2>0, <2>c, <2>h, <3>1, <3>2, <3>5 DEF Ahead, Increasing, IDLess
  <2>4. CASE SearchNext
    <3>1. out' = out /\ i' = i - 1 /\ spc = "docs" /\ spc' = "load"
      BY <2>4 DEF SearchNext
    <3>2. Sent' = Sent
      BY <3>1 DEF Sent
    <3>3. ASSUME NEW ev \in Sent' PROVE At(ev)'
      <4>1. Behind(ev)
        BY <2>h, <3>1, <3>2 DEF Ahead
      <4>2. \A k \in 1..Len(indexes) : k <= i - 1 => k < i
        BY <2>i
      <4> QED
        BY <1>v, <3>1, <4>1, <4>2 DEF At, Behind, PathOf
    <3> QED
      BY <2>c, <3>1, <3>2, <3>3 DEF Ahead
  <2>5. CASE SearchDocument
    <3> DEFINE ev0 == IF Head(ids) \in DocsOf(indexes[i].startTime) THEN Head(ids) ELSE NoDocument
    <3>1. /\ UNCHANGED <<i, spc>> /\ spc = "docs" /\ ids # << >> /\ ids' = Tail(ids)
          /\ out' = Append(out, ev0) /\ ids \in Seq(Events) /\ out \in Seq(Events \cup {NoDocument})
      BY <2>5 DEF SearchDocument, SearchTyped
    <3>2. ev0 = Head(ids) \/ ev0 = NoDocument
      OBVIOUS
    <3>3. Head(ids) \in Events
      BY <3>1
    <3>4. ev0 \in Events \cup {NoDocument}
      BY <3>2, <3>3
    <3>5. ev0 # NoDocument => ev0 = Head(ids) /\ Head(ids) \in DocsOf(indexes[i].startTime)
      OBVIOUS
    <3> HIDE DEF ev0
    <3>6. \A ev \in Sent' : ev \in Sent \/ (ev = Head(ids) /\ ev0 # NoDocument)
      <4>1. \A k \in 1..Len(out') : (k \in 1..Len(out) /\ out'[k] = out[k]) \/ out'[k] = ev0
        BY <3>1, <3>4
      <4> QED
        BY <3>5, <4>1 DEF Sent
    <3>7. /\ Len(ids) \in Nat /\ Len(ids) > 0 /\ Len(ids') = Len(ids) - 1 /\ Head(ids) = ids[1]
          /\ \A j \in 1..Len(ids') : ids'[j] = ids[j + 1] /\ j + 1 \in 1..Len(ids)
      BY <3>1
    <3>8. Increasing(ids) /\ Increasing(ids')
      <4>1. Increasing(ids)
        BY <2>h, <3>1 DEF Ahead
      <4>2. ASSUME NEW j \in 1..Len(ids'), NEW k \in 1..Len(ids'), j < k
            PROVE  IDLess(ids'[j], ids'[k])
        <5>1. j + 1 < k + 1
          BY <4>2
        <5> QED
          BY <3>7, <4>1, <5>1 DEF Increasing
      <4> QED
        BY <4>1, <4>2 DEF Increasing
    <3>9. ASSUME NEW ev \in Sent
          PROVE  Behind(ev) /\ (At(ev) \/ \A j \in 1..Len(ids') : IDLess(ev, ids'[j]))
      BY <2>h, <3>1, <3>7 DEF Ahead
    <3>10. ASSUME ev0 # NoDocument
           PROVE  /\ i \in 1..Len(indexes) /\ Behind(Head(ids))
                  /\ \A j \in 1..Len(ids') : IDLess(Head(ids), ids'[j])
      <4>1. i \in 1..Len(indexes) /\ PathOf(Head(ids)) = indexes[i].startTime
        BY <1>v, <2>5, <2>h, <3>5, <3>10, SendsInOrder
      <4>2. \A j, k \in 1..Len(indexes) : j < k => indexes[k].startTime < indexes[j].startTime
        BY <2>h, SliceIs DEF Ahead
      <4>3. Behind(Head(ids))
        BY <4>1, <4>2 DEF Behind
      <4>4. ASSUME NEW j \in 1..Len(ids') PROVE IDLess(Head(ids), ids'[j])
        <5>1. 1 \in 1..Len(ids) /\ 1 < j + 1
          BY <3>7
        <5> QED
          BY <3>7, <3>8, <5>1 DEF Increasing
      <4> QED
        BY <4>1, <4>3, <4>4
    <3>11. ASSUME NEW ev \in Sent'
           PROVE  Behind(ev)' /\ (At(ev)' \/ \A j \in 1..Len(ids') : IDLess(ev, ids'[j]))
      BY <1>a, <3>1, <3>6, <3>9, <3>10
    <3> QED
      BY <2>c, <3>1, <3>8, <3>11 DEF Ahead, Increasing, IDLess
  <2> QED
    BY <1>2, <2>1, <2>2, <2>3, <2>4, <2>5 DEF SearchMove
<1> QED
  BY <1>1, <1>2

(* A step keeps the results in order. *)
LEMMA InOrderStep ==
  ASSUME IInv, Filed, SearchTyped, OrderInv, SearchInOrder, [SNext]_allVars
  PROVE  SearchInOrder'
<1> SUFFICES ASSUME steady' # "come",
                    NEW j \in 1..Len(out'), NEW k \in 1..Len(out'), j < k,
                    out'[j] # NoDocument, out'[k] # NoDocument
             PROVE  IDLess(out'[j], out'[k])
  BY DEF SearchInOrder, IDLess
<1>3. ASSUME out' = << >> PROVE FALSE
  BY <1>3
<1>4. ASSUME out' = out, steady # "come" PROVE IDLess(out'[j], out'[k])
  BY <1>4 DEF SearchInOrder, IDLess
<1>5. CASE mode' = "down" /\ NoSearch
  BY <1>3, <1>5 DEF NoSearch
<1>6. CASE UNCHANGED <<spc, i, loaded, ids, out, before>> /\ steady' = Steadiness
  <2>1. steady # "come"
    BY <1>6 DEF Steadiness
  <2> QED
    BY <1>4, <1>6, <2>1
<1>7. CASE SearchStart
  BY <1>3, <1>7 DEF SearchStart, SearchTyped
<1>8. CASE SearchDocument
  <2> DEFINE ev0 == IF Head(ids) \in DocsOf(indexes[i].startTime) THEN Head(ids) ELSE NoDocument
             n == Len(out)
  <2>1. /\ out' = Append(out, ev0) /\ steady' = steady /\ ids \in Seq(Events) /\ ids # << >>
        /\ out \in Seq(Events \cup {NoDocument})
    BY <1>8 DEF SearchDocument, SearchTyped
  <2>2. Head(ids) \in Events
    BY <2>1
  <2>3. ev0 \in Events \cup {NoDocument}
    BY <2>2
  <2>4. ev0 # NoDocument => ev0 = Head(ids) /\ Head(ids) \in DocsOf(indexes[i].startTime)
    OBVIOUS
  <2> HIDE DEF ev0
  <2>5. /\ n \in Nat /\ Len(out') = n + 1 /\ out'[n + 1] = ev0
        /\ \A l \in 1..n : out'[l] = out[l]
    BY <2>1, <2>3
  <2>6. Ahead
    BY <1>8, <2>1 DEF OrderInv, SearchDocument
  <2>7. j \in 1..n /\ (k \in 1..n \/ k = n + 1)
    BY <2>5
  <2>8. CASE k \in 1..n
    BY <2>1, <2>5, <2>7, <2>8 DEF SearchInOrder, IDLess
  <2>9. CASE k = n + 1
    <3>1. ev0 # NoDocument /\ out'[k] = Head(ids)
      BY <2>4, <2>5, <2>9
    <3>2. out[j] \in Sent /\ out'[j] = out[j]
      BY <2>5, <2>7 DEF Sent
    <3>3. IDLess(out[j], Head(ids))
      BY <1>8, <2>4, <2>6, <3>1, <3>2, SendsInOrder
    <3> QED
      BY <3>1, <3>2, <3>3
  <2> QED
    BY <2>7, <2>8, <2>9
<1>9. CASE SearchMove /\ ~(SearchStart \/ SearchDocument)
  <2>1. out' = out /\ steady' = steady
    BY <1>9 DEF SearchMove, SearchBegin, SearchLoad, SearchIndex, SearchClosedIndex,
           SearchDocumentFails, SearchNext, SearchEnd
  <2> QED
    BY <1>4, <2>1
<1>10. CASE UNCHANGED allVars
  <2>1. out' = out /\ steady' = steady
    BY <1>10 DEF allVars, searchVars
  <2> QED
    BY <1>4, <2>1
<1> QED
  BY <1>5, <1>6, <1>7, <1>8, <1>9, <1>10, SearchKinds

(* The inductive invariant of the engine with a search. *)
SearchInv == IInv /\ Filed /\ SearchTyped /\ OrderInv /\ SearchInOrder

(* The invariant holds before the first process is started. *)
LEMMA InitSearchInv == SInit => SearchInv
<1> SUFFICES ASSUME SInit PROVE SearchInv
  OBVIOUS
<1>1. IInv
  BY InitIInv DEF SInit
<1>4. Filed
  BY DEF SInit, Init, Filed
<1>5. SearchTyped
  <2>1. << >> \in Seq(Events) /\ << >> \in Seq(Events \cup {NoDocument})
    OBVIOUS
  <2> QED
    BY <2>1 DEF SInit, SearchTyped
<1>6. OrderInv
  BY DEF SInit, OrderInv
<1>7. SearchInOrder
  <2>1. out = << >> /\ Len(out) = 0
    BY DEF SInit
  <2> QED
    BY <2>1 DEF SearchInOrder
<1> QED
  BY <1>1, <1>4, <1>5, <1>6, <1>7 DEF SearchInv

(* Every step of engine or search keeps the invariant. *)
LEMMA SearchInvStep == SearchInv /\ [SNext]_allVars => SearchInv'
<1> SUFFICES ASSUME SearchInv, [SNext]_allVars PROVE SearchInv'
  OBVIOUS
<1>0. IInv /\ Filed /\ SearchTyped /\ OrderInv /\ SearchInOrder
  BY DEF SearchInv
<1>1. [Next]_vars
  BY <1>0, SearchOnlyReads
<1>2. IInv' /\ Filed'
  BY <1>0, <1>1, EngineKeeps, FiledStep
<1>3. SearchTyped'
  BY <1>0, SearchTypedStep DEF IInv
<1>4. OrderInv'
  <2>1. CASE mode' = "down" /\ NoSearch
    BY <2>1 DEF NoSearch, OrderInv
  <2>2. CASE SearchMove /\ UNCHANGED vars
    BY <1>0, <2>2, OrderSearchStep
  <2>3. CASE /\ Next /\ mode' # "down"
             /\ UNCHANGED <<spc, i, loaded, ids, out, before>>
             /\ steady' = Steadiness
    BY <1>0, <2>3, OrderEngineStep
  <2>4. CASE UNCHANGED allVars
    <3>1. UNCHANGED <<spc, i, ids, out, steady, indexes, ipc>>
      BY <2>4 DEF allVars, searchVars, vars, indexVars, callVars
    <3>2. Sent' = Sent /\ (Sorting' <=> Sorting)
      BY <3>1 DEF Sent, Sorting
    <3>3. \A ev : (At(ev)' <=> At(ev)) /\ (Behind(ev)' <=> Behind(ev))
      BY <3>1, <3>2 DEF At, Behind
    <3>4. Increasing(ids)' <=> Increasing(ids)
      BY <3>1
    <3>5. OrderInv
      BY <1>0
    <3> QED
      BY ONLY <3>1, <3>2, <3>3, <3>4, <3>5 DEF OrderInv, Ahead
  <2> QED
    BY <2>1, <2>2, <2>3, <2>4, SearchKinds
<1>5. SearchInOrder'
  BY <1>0, InOrderStep
<1> QED
  BY <1>2, <1>3, <1>4, <1>5 DEF SearchInv

(* The engine with a search never leaves the inductive invariant.          *)
THEOREM SearchInvariance == SSpec => []SearchInv
<1>1. SInit => SearchInv
  BY InitSearchInv
<1>2. SearchInv /\ [SNext]_allVars => SearchInv'
  BY SearchInvStep
<1> QED
  BY <1>1, <1>2, PTL DEF SSpec

(* Engine.Search sends messages in the order they occurred, and none       *)
(* twice, while enforceRetention cuts the slice that it reads without a    *)
(* lock and events are written to the indexes: unless createIndex adds an  *)
(* index during the search.                                                *)
THEOREM ResultsInOrder == SSpec => []SearchInOrder
<1>1. SearchInv => SearchInOrder
  BY DEF SearchInv
<1> QED
  BY <1>1, SearchInvariance, PTL

-----------------------------------------------------------------------------
(* Completeness of the results.                                            *)

(* What is still to be sent of the index that is being read. *)
ToFetch == {ids[k] : k \in 1..Len(ids)}

(* The documents an index held when the search began, or as many as the    *)
(* limit on hits allows, are among those sent and those to come.           *)
Promised(path, more) ==
  \/ \A ev \in Events : <<path, ev>> \in before => ev \in Sent \cup more
  \/ Cardinality({ev \in Sent \cup more : PathOf(ev) = path}) >= MaxHits

Complete ==
  /\ \A k \in 1..Len(indexes) : indexes[k] \in open
  /\ before \subseteq stored
  /\ spc \in {"load", "search", "docs"} => i \in 0..Len(indexes)
  /\ spc \in {"search", "docs"} => i \in 1..Len(indexes) /\ loaded = indexes[i]
  /\ \A k \in 1..Len(out) : out[k] # NoDocument
  /\ spc = "docs" => /\ ToFetch \subseteq DocsOf(loaded.startTime)
                     /\ Promised(loaded.startTime, ToFetch)
  /\ spc \in {"load", "search", "docs"} =>
       \A k \in 1..Len(indexes) : i < k => Served(indexes[k])
  /\ spc = "done" => \A k \in 1..Len(indexes) : Served(indexes[k])

CompleteInv == (steady = "yes" /\ mode = "up" /\ spc # "idle") => Complete

(* A larger set of events is not the smaller one in number. *)
LEMMA MoreEvents ==
  ASSUME NEW S \in SUBSET Events, NEW T \in SUBSET S, NEW n \in Nat, Cardinality(T) >= n
  PROVE  Cardinality(S) >= n
<1>1. IsFiniteSet(S)
  BY FS_Subset
<1>2. Cardinality(S) \in Nat /\ IsFiniteSet(T) /\ Cardinality(T) <= Cardinality(S)
  BY <1>1, FS_Subset, FS_CardinalityType
<1>3. Cardinality(T) \in Nat
  BY <1>2, FS_CardinalityType
<1> QED
  BY <1>2, <1>3

(* An increasing sequence of events has as many of them as its length. *)
LEMMA IncreasingCount ==
  ASSUME NEW s \in Seq(Events), Increasing(s)
  PROVE  Cardinality({s[k] : k \in 1..Len(s)}) = Len(s)
<1> DEFINE n == Len(s)
           T == {s[k] : k \in 1..n}
<1>1. n \in Nat /\ s \in [1..n -> T] /\ s \in [1..n -> Events]
  OBVIOUS
<1>2. ASSUME NEW j \in 1..n, NEW k \in 1..n, j < k PROVE s[j] # s[k]
  <2>1. IDLess(s[j], s[k])
    BY <1>2 DEF Increasing
  <2>2. s[j] \in Events /\ s[j] \in Nat /\ RefTime[s[j]] \in Nat
    BY <1>1
  <2> QED
    BY <2>1, <2>2 DEF IDLess
<1>3. \A j, k \in 1..n : s[j] = s[k] => j = k
  <2> SUFFICES ASSUME NEW j \in 1..n, NEW k \in 1..n, s[j] = s[k], j # k PROVE FALSE
    OBVIOUS
  <2>1. j < k \/ k < j
    BY <1>1
  <2> QED
    BY <1>2, <2>1
<1>4. s \in Injection(1..n, T) /\ s \in Surjection(1..n, T)
  BY <1>1, <1>3 DEF Injection, Surjection, IsInjective
<1>5. IsFiniteSet(1..n) /\ Cardinality(1..n) = n
  <2> HIDE DEF n
  <2>1. 1 \in Int /\ n \in Int
    BY <1>1
  <2>2. /\ IsFiniteSet(1..n)
        /\ Cardinality(1..n) = IF 1 > n THEN 0 ELSE n - 1 + 1
    BY ONLY <2>1, FS_Interval
  <2> QED
    BY <1>1, <2>2
<1> HIDE DEF n, T
<1>6. Cardinality(T) = n
  BY <1>4, <1>5, FS_Surjection
<1> QED
  BY <1>6 DEF n, T

(* The hits of an index keep the promise. *)
LEMMA HitsPromised ==
  ASSUME Filed, SearchTyped, before \subseteq stored, NEW path, NEW s \in Hits(path)
  PROVE  Promised(path, {s[k] : k \in 1..Len(s)})
<1> DEFINE T == {s[k] : k \in 1..Len(s)}
<1>1. /\ s \in Seq(Events)
      /\ \A k \in 1..Len(s) : s[k] \in DocsOf(path)
      /\ Increasing(s)
      /\ IsFiniteSet(DocsOf(path)) /\ Cardinality(DocsOf(path)) \in Nat
      /\ Len(s) = Cardinality(DocsOf(path)) \/ Len(s) >= MaxHits
  BY HitsAre
<1>2. T \subseteq DocsOf(path) /\ T \in SUBSET DocsOf(path)
  BY <1>1
<1>3. Cardinality(T) = Len(s)
  BY <1>1, IncreasingCount
<1>4. \A ev \in T : PathOf(ev) = path
  BY <1>2 DEF Filed, DocsOf
<1> HIDE DEF T
<1>5. CASE Len(s) = Cardinality(DocsOf(path))
  <2>1. T = DocsOf(path)
    BY <1>1, <1>2, <1>3, <1>5, FS_Subset
  <2> QED
    BY <2>1 DEF T, Promised, DocsOf
<1>6. CASE Len(s) >= MaxHits
  <2> DEFINE S == {ev \in Sent \cup T : PathOf(ev) = path}
  <2>1. S \in SUBSET Events /\ T \in SUBSET S
    BY <1>2, <1>4, SentAreEvents DEF DocsOf
  <2> HIDE DEF S
  <2>2. Cardinality(S) >= MaxHits
    BY <1>3, <1>6, <2>1, MoreEvents
  <2> QED
    BY <2>2 DEF S, T, Promised
<1> QED
  BY <1>1, <1>5, <1>6

(* A step of the engine during a steady search changes neither the slice   *)
(* nor what is open, and takes no document away.                           *)
LEMMA SteadyEngineStep ==
  ASSUME IInv, SearchTyped, CompleteInv, Next, spc # "idle", mode' = "up",
         steady' = "yes", steady' = Steadiness
  PROVE  /\ steady = "yes" /\ mode = "up" /\ Complete
         /\ UNCHANGED <<indexes, open>> /\ stored \subseteq stored'
<1> USE DEF clockVars, diskVars, indexVars, mainVars, lockVars, callVars,
            retVars, histVars
<1>1. steady = "yes" /\ UNCHANGED <<indexes, open>>
  BY DEF Steadiness
<1>2. mode = "up"
  <2>1. Running
    BY DEF SearchTyped
  <2>2. CASE UNCHANGED mode
    BY <2>2
  <2>3. CASE OpenStart \/ OpenNext \/ OpenEnd \/ CloseStart \/ CloseNext \/ CloseEnd \/ Crash
    BY <2>1, <2>3 DEF OpenStart, OpenNext, OpenEnd, CloseStart, CloseNext, CloseEnd, Crash, Running
  <2>4. \A cl \in Callers : (CreateIndex(cl) \/ SortSwap(cl) \/ SortEnd(cl) \/ WriteShard(cl)) => UNCHANGED mode
    BY DEF CreateIndex, SortSwap, SortEnd, WriteShard
  <2>5. (RetentionStart \/ RetentionKeep \/ RetentionDelete \/ RetentionEnd) => UNCHANGED mode
    BY DEF RetentionStart, RetentionKeep, RetentionDelete, RetentionEnd
  <2> QED
    BY <2>2, <2>3, <2>4, <2>5, StepKinds
<1>3. Complete
  BY <1>1, <1>2 DEF CompleteInv
<1>4. stored \subseteq stored'
  <2>1. CASE stored' = stored
    BY <2>1
  <2>2. (OpenStart \/ OpenNext \/ OpenEnd \/ CloseStart \/ CloseNext \/ CloseEnd \/ Crash) => stored' = stored
    BY DEF OpenStart, OpenNext, OpenEnd, CloseStart, CloseNext, CloseEnd, Crash
  <2>3. \A cl \in Callers : (CreateIndex(cl) \/ SortSwap(cl) \/ SortEnd(cl) \/ WriteShard(cl)) => stored \subseteq stored'
    BY DEF CreateIndex, SortSwap, SortEnd, WriteShard
  <2>4. (RetentionStart \/ RetentionKeep \/ RetentionEnd) => stored' = stored
    BY DEF RetentionStart, RetentionKeep, RetentionEnd
  <2>5. ~RetentionDelete
    <3> SUFFICES ASSUME RetentionDelete PROVE FALSE
      OBVIOUS
    <3>1. rpos <= Len(indexes) /\ open' = open \ {indexes[rpos]}
      BY DEF RetentionDelete, DeleteIndex
    <3>2. indexes \in Seq(IndexObject) /\ rpos \in 1..(Len(indexes) + 1)
      BY DEF IInv, TypeOK
    <3>3. Len(indexes) \in Nat
      BY <3>2
    <3>4. rpos \in 1..Len(indexes)
      BY <3>1, <3>2, <3>3
    <3>5. indexes[rpos] \in open
      BY <1>3, <3>4 DEF Complete
    <3> QED
      BY <1>1, <3>1, <3>5
  <2> QED
    BY <2>1, <2>2, <2>3, <2>4, <2>5, StepKinds
<1> QED
  BY <1>1, <1>2, <1>3, <1>4

(* A step of the engine that lets the slice be takes nothing away from what *)
(* the search has found or will find.                                      *)
LEMMA CompleteEngineStep ==
  ASSUME IInv, SearchTyped, CompleteInv, Next,
         UNCHANGED <<spc, i, loaded, ids, out, before>>, steady' = Steadiness
  PROVE  CompleteInv'
<1> SUFFICES ASSUME steady' = "yes", mode' = "up", spc' # "idle" PROVE Complete'
  BY DEF CompleteInv
<1>1. Complete /\ UNCHANGED <<indexes, open>> /\ stored \subseteq stored'
  BY SteadyEngineStep
<1>2. Sent' = Sent /\ ToFetch' = ToFetch
  BY DEF Sent, ToFetch
<1>3. spc' = "docs" => /\ ToFetch' \subseteq DocsOf(loaded.startTime)'
                       /\ Promised(loaded.startTime, ToFetch)'
  <2> SUFFICES ASSUME spc = "docs"
               PROVE  ToFetch' \subseteq DocsOf(loaded.startTime)' /\ Promised(loaded.startTime, ToFetch)'
    OBVIOUS
  <2>1. ToFetch \subseteq DocsOf(loaded.startTime) /\ Promised(loaded.startTime, ToFetch)
    BY <1>1 DEF Complete
  <2>2. ToFetch' \subseteq DocsOf(loaded.startTime)'
    BY <1>1, <1>2, <2>1 DEF DocsOf
  <2>3. Promised(loaded.startTime, ToFetch)'
    BY <1>2, <2>1 DEF Promised, PathOf
  <2> QED
    BY <2>2, <2>3
<1>4. ASSUME NEW k \in 1..Len(indexes), Served(indexes[k]) PROVE Served(indexes[k])'
  BY <1>1, <1>2, <1>4 DEF Served, ResultsFrom, PathOf
<1>5. /\ spc \in {"load", "search", "docs"} =>
           \A k \in 1..Len(indexes) : i < k => Served(indexes[k])'
      /\ spc = "done" => \A k \in 1..Len(indexes) : Served(indexes[k])'
  <2>1. /\ spc \in {"load", "search", "docs"} =>
             \A k \in 1..Len(indexes) : i < k => Served(indexes[k])
        /\ spc = "done" => \A k \in 1..Len(indexes) : Served(indexes[k])
    BY <1>1 DEF Complete
  <2> QED
    BY <1>4, <2>1
<1>6. /\ \A k \in 1..Len(indexes') : indexes'[k] \in open'
      /\ before' \subseteq stored'
      /\ \A k \in 1..Len(out') : out'[k] # NoDocument
  BY <1>1 DEF Complete
<1>7. /\ spc' \in {"load", "search", "docs"} => i' \in 0..Len(indexes')
      /\ spc' \in {"search", "docs"} => i' \in 1..Len(indexes') /\ loaded' = indexes'[i']
  BY <1>1 DEF Complete
<1> QED
  BY <1>1, <1>3, <1>5, <1>6, <1>7 DEF Complete

(* An index whose promise is kept is served. *)
LEMMA KeptIsServed ==
  ASSUME Filed, SearchTyped, before \subseteq stored, NEW x, Promised(x.startTime, {})
  PROVE  Served(x)
<1>1. CASE \A ev \in Events : <<x.startTime, ev>> \in before => ev \in Sent
  <2> SUFFICES ASSUME NEW ev \in Events, <<x.startTime, ev>> \in before
               PROVE  ev \in ResultsFrom(x.startTime)
    BY DEF Served
  <2>1. x.startTime = PathOf(ev)
    BY DEF Filed
  <2> QED
    BY <1>1, <2>1 DEF ResultsFrom
<1>2. CASE Cardinality({ev \in Sent \cup {} : PathOf(ev) = x.startTime}) >= MaxHits
  <2>1. {ev \in Sent \cup {} : PathOf(ev) = x.startTime} = ResultsFrom(x.startTime)
    BY DEF ResultsFrom
  <2> QED
    BY <1>2, <2>1 DEF Served
<1> QED
  BY <1>1, <1>2 DEF Promised

(* The search's own steps keep the promise. *)
LEMMA CompleteSearchStep ==
  ASSUME IInv, Filed, SearchTyped, CompleteInv, SearchMove, UNCHANGED vars
  PROVE  CompleteInv'
<1> SUFFICES ASSUME steady' = "yes", mode' = "up", spc' # "idle" PROVE Complete'
  BY DEF CompleteInv
<1>v. UNCHANGED <<indexes, open, stored, mode>>
  BY DEF vars, indexVars, diskVars, mainVars
<1>f. Filed
  OBVIOUS
<1>t. SearchTyped'
  <2>1. [SNext]_allVars
    BY DEF SNext, SearchStep, SearchMove
  <2> QED
    BY <2>1, SearchTypedStep DEF IInv
<1>n. Len(indexes) \in Nat
  BY SliceIs
<1>1. CASE SearchStart
  <2>1. /\ wlock = "none" /\ spc' = "begin" /\ before' = stored /\ out' = << >>
    BY <1>1 DEF SearchStart, SearchTyped
  <2>2. \A k \in 1..Len(indexes) : indexes[k] \in open
    <3>1. \A k \in 1..Len(indexes) : Live(k)
      BY <2>1, AllLive DEF IInv
    <3> QED
      BY <1>v, <3>1 DEF IInv, Opened
  <2>3. Len(out') = 0
    BY <2>1
  <2> QED
    BY <1>v, <2>1, <2>2, <2>3 DEF Complete
<1>2. CASE SearchMove /\ ~SearchStart
  <2>0. steady' = steady /\ before' = before /\ spc # "idle"
    BY <1>2 DEF SearchMove, SearchBegin, SearchLoad, SearchIndex, SearchClosedIndex,
           SearchDocument, SearchDocumentFails, SearchNext, SearchEnd
  <2>h. Complete
    BY <1>v, <2>0 DEF CompleteInv
  <2>b. before \subseteq stored /\ \A k \in 1..Len(indexes) : indexes[k] \in open
    BY <2>h DEF Complete
  <2>s. ASSUME Sent \subseteq Sent', NEW k \in 1..Len(indexes), Served(indexes[k])
        PROVE  Served(indexes[k])'
    <3> DEFINE p == indexes[k].startTime
    <3>0. indexes'[k] = indexes[k]
      BY <1>v
    <3>1. CASE \A ev \in Events : <<p, ev>> \in before => ev \in ResultsFrom(p)
      BY <2>0, <2>s, <3>0, <3>1 DEF Served, ResultsFrom, PathOf
    <3>2. CASE Cardinality(ResultsFrom(p)) >= MaxHits
      <4> DEFINE S == {ev \in Sent' : PathOf(ev) = p}
                 T == ResultsFrom(p)
      <4>1. Sent' \subseteq Events
        BY <1>t, SentAreEvents DEF SearchTyped, Sent
      <4>2. S \in SUBSET Events /\ T \in SUBSET S /\ MaxHits \in Nat
        BY <2>s, <4>1 DEF ResultsFrom
      <4>3. Cardinality(T) >= MaxHits
        BY <3>2
      <4> HIDE DEF S, T
      <4>4. Cardinality(S) >= MaxHits
        BY <4>2, <4>3, MoreEvents
      <4> QED
        BY <3>0, <4>4 DEF S, Served, ResultsFrom, PathOf
    <3> QED
      BY <2>s, <3>1, <3>2 DEF Served
  <2>o. out' = out => Sent' = Sent
    BY DEF Sent
  <2>1. CASE SearchBegin
    <3>1. out' = out /\ i' = Len(indexes) /\ spc' = "load"
      BY <2>1 DEF SearchBegin
    <3>2. \A k \in 1..Len(indexes) : ~(i' < k)
      BY <1>n, <3>1
    <3>3. i' \in 0..Len(indexes)
      BY <1>n, <3>1
    <3> QED
      BY <1>v, <2>0, <2>b, <2>h, <3>1, <3>2, <3>3 DEF Complete
  <2>2. CASE SearchLoad
    <3>1. /\ out' = out /\ i' = i /\ spc = "load" /\ spc' = "search" /\ i \in 1..Len(indexes)
          /\ loaded' = indexes[i]
      BY <2>2 DEF SearchLoad
    <3>2. \A k \in 1..Len(indexes) : i < k => Served(indexes[k])'
      BY <2>h, <2>o, <2>s, <3>1 DEF Complete
    <3>3. i \in 0..Len(indexes)
      BY <1>n, <3>1
    <3> QED
      BY <1>v, <2>0, <2>b, <2>h, <3>1, <3>2, <3>3 DEF Complete
  <2>3. CASE SearchIndex
    <3>1. /\ UNCHANGED <<out, i, loaded>> /\ spc = "search" /\ spc' = "docs"
          /\ ids' \in Hits(loaded.startTime)
      BY <2>3 DEF SearchIndex
    <3>2. \A k \in 1..Len(indexes) : i < k => Served(indexes[k])'
      BY <2>h, <2>o, <2>s, <3>1 DEF Complete
    <3>3. ToFetch' \subseteq DocsOf(loaded.startTime)
      BY <3>1, HitsAre DEF ToFetch
    <3>4. Promised(loaded.startTime, {ids'[k] : k \in 1..Len(ids')})
      BY <1>f, <2>b, <3>1, HitsPromised
    <3>5. Promised(loaded.startTime, ToFetch)'
      BY <2>0, <2>o, <3>1, <3>4 DEF Promised, ToFetch, PathOf
    <3>6. ToFetch' \subseteq DocsOf(loaded.startTime)'
      BY <1>v, <3>1, <3>3 DEF DocsOf
    <3>7. i \in 0..Len(indexes) /\ i \in 1..Len(indexes) /\ loaded = indexes[i]
      BY <2>h, <3>1 DEF Complete
    <3> QED
      BY <1>v, <2>0, <2>b, <2>h, <3>1, <3>2, <3>5, <3>6, <3>7 DEF Complete
  <2>4. CASE SearchClosedIndex \/ SearchDocumentFails
    <3>1. spc \in {"search", "docs"} /\ (loaded \notin open \/ indexes[i] \notin open)
      BY <2>4 DEF SearchClosedIndex, SearchDocumentFails
    <3>2. i \in 1..Len(indexes) /\ loaded = indexes[i]
      BY <2>h, <3>1 DEF Complete
    <3> QED
      BY <2>b, <3>1, <3>2
  <2>5. CASE SearchDocument
    <3>1. /\ UNCHANGED <<i, spc, loaded>> /\ spc = "docs" /\ ids # << >> /\ ids' = Tail(ids)
          /\ ids \in Seq(Events) /\ out \in Seq(Events \cup {NoDocument})
      BY <2>5 DEF SearchDocument, SearchTyped
    <3>2. /\ i \in 0..Len(indexes) /\ i \in 1..Len(indexes) /\ loaded = indexes[i]
          /\ ToFetch \subseteq DocsOf(loaded.startTime) /\ Promised(loaded.startTime, ToFetch)
          /\ \A k \in 1..Len(out) : out[k] # NoDocument
      BY <2>h, <3>1 DEF Complete
    <3>3. /\ Len(ids) \in Nat /\ Len(ids) > 0 /\ Len(ids') = Len(ids) - 1 /\ Head(ids) = ids[1]
          /\ \A j \in 1..Len(ids') : ids'[j] = ids[j + 1] /\ j + 1 \in 1..Len(ids)
      BY <3>1
    <3>4. /\ 1 \in 1..Len(ids)
          /\ \A j \in 1..Len(ids) : j = 1 \/ (j - 1 \in 1..Len(ids') /\ (j - 1) + 1 = j)
      BY <3>3
    <3>5. ToFetch = ToFetch' \cup {Head(ids)}
      <4>1. ToFetch' \cup {Head(ids)} \subseteq ToFetch
        BY <3>3, <3>4 DEF ToFetch
      <4>2. ASSUME NEW j \in 1..Len(ids) PROVE ids[j] \in ToFetch' \cup {Head(ids)}
        <5>1. CASE j = 1
          BY <3>3, <5>1
        <5>2. CASE j # 1
          <6>1. j - 1 \in 1..Len(ids') /\ (j - 1) + 1 = j
            BY <3>4, <5>2
          <6>2. ids'[j - 1] = ids[j]
            BY <3>3, <6>1
          <6> QED
            BY <6>1, <6>2 DEF ToFetch
        <5> QED
          BY <5>1, <5>2
      <4> QED
        BY <4>1, <4>2 DEF ToFetch
    <3>6. Head(ids) \in DocsOf(indexes[i].startTime) /\ Head(ids) \in Events
      BY <3>1, <3>2, <3>5
    <3>7. out' = Append(out, Head(ids)) /\ Head(ids) # NoDocument
      BY <2>5, <3>6 DEF SearchDocument
    <3>8. /\ Len(out) \in Nat /\ Len(out') = Len(out) + 1 /\ out'[Len(out) + 1] = Head(ids)
          /\ \A k \in 1..Len(out) : out'[k] = out[k]
          /\ \A k \in 1..Len(out') : k \in 1..Len(out) \/ k = Len(out) + 1
          /\ \A k \in 1..Len(out) : k \in 1..Len(out')
          /\ Len(out) + 1 \in 1..Len(out')
      BY <3>1, <3>6, <3>7
    <3>9. Sent' = Sent \cup {Head(ids)}
      BY <3>7, <3>8 DEF Sent
    <3>10. \A k \in 1..Len(out') : out'[k] # NoDocument
      BY <3>2, <3>7, <3>8
    <3>11. Sent \cup ToFetch = Sent' \cup ToFetch'
      BY <3>5, <3>9
    <3>12. Promised(loaded.startTime, ToFetch)'
      BY <2>0, <3>1, <3>2, <3>11 DEF Promised, PathOf
    <3>13. ToFetch' \subseteq DocsOf(loaded.startTime)'
      BY <1>v, <3>1, <3>2, <3>5 DEF DocsOf
    <3>14. \A k \in 1..Len(indexes) : i < k => Served(indexes[k])'
      BY <2>h, <2>s, <3>1, <3>9 DEF Complete
    <3> QED
      BY <1>v, <2>0, <2>b, <3>1, <3>2, <3>10, <3>12, <3>13, <3>14 DEF Complete
  <2>6. CASE SearchNext
    <3>1. out' = out /\ i' = i - 1 /\ spc = "docs" /\ spc' = "load" /\ ids = << >>
      BY <2>6 DEF SearchNext
    <3>2. i \in 1..Len(indexes) /\ loaded = indexes[i] /\ Promised(loaded.startTime, ToFetch)
      BY <2>h, <3>1 DEF Complete
    <3>3. ToFetch = {}
      BY <3>1 DEF ToFetch
    <3>4. Served(indexes[i])
      BY <1>f, <2>b, <3>2, <3>3, KeptIsServed
    <3>5. ASSUME NEW k \in 1..Len(indexes), i' < k PROVE Served(indexes[k])'
      <4>1. k = i \/ i < k
        BY <1>n, <3>1, <3>2, <3>5
      <4>2. Served(indexes[k])
        BY <2>h, <3>1, <3>4, <4>1 DEF Complete
      <4> QED
        BY <2>o, <2>s, <3>1, <4>2
    <3>6. i' \in 0..Len(indexes)
      BY <1>n, <3>1, <3>2
    <3> QED
      BY <1>v, <2>0, <2>b, <2>h, <3>1, <3>5, <3>6 DEF Complete
  <2>7. CASE SearchEnd
    <3>1. out' = out /\ i = 0 /\ spc = "load" /\ spc' = "done"
      BY <2>7 DEF SearchEnd
    <3>2. ASSUME NEW k \in 1..Len(indexes) PROVE Served(indexes[k])'
      <4>1. i < k
        BY <3>1
      <4> QED
        BY <2>h, <2>o, <2>s, <3>1, <4>1 DEF Complete
    <3> QED
      BY <1>v, <2>0, <2>b, <2>h, <3>1, <3>2 DEF Complete
  <2> QED
    BY <1>2, <2>1, <2>2, <2>3, <2>4, <2>5, <2>6, <2>7 DEF SearchMove
<1> QED
  BY <1>1, <1>2

(* Every step of engine or search keeps a steady search complete so far. *)
LEMMA CompleteStep ==
  ASSUME SearchInv, CompleteInv, [SNext]_allVars
  PROVE  CompleteInv'
<1>0. IInv /\ Filed /\ SearchTyped
  BY DEF SearchInv
<1>1. CASE mode' = "down" /\ NoSearch
  BY <1>1 DEF CompleteInv
<1>2. CASE SearchMove /\ UNCHANGED vars
  BY <1>0, <1>2, CompleteSearchStep
<1>3. CASE /\ Next /\ mode' # "down"
           /\ UNCHANGED <<spc, i, loaded, ids, out, before>>
           /\ steady' = Steadiness
  BY <1>0, <1>3, CompleteEngineStep
<1>4. CASE UNCHANGED allVars
  <2>1. UNCHANGED <<indexes, open, stored, mode, spc, i, loaded, ids, out, before, steady>>
    BY <1>4 DEF allVars, searchVars, vars, diskVars, indexVars, mainVars
  <2>2. Sent' = Sent /\ ToFetch' = ToFetch
    BY <2>1 DEF Sent, ToFetch
  <2>3. (\A k \in 1..Len(indexes) : Served(indexes[k])' <=> Served(indexes[k]))
    BY <2>1, <2>2 DEF Served, ResultsFrom, PathOf
  <2>4. Promised(loaded.startTime, ToFetch)' <=> Promised(loaded.startTime, ToFetch)
    BY <2>1, <2>2 DEF Promised, PathOf
  <2>5. DocsOf(loaded.startTime)' = DocsOf(loaded.startTime)
    BY <2>1 DEF DocsOf
  <2>6. Complete => Complete'
    BY <2>1, <2>2, <2>3, <2>4, <2>5 DEF Complete
  <2> QED
    BY <2>1, <2>6 DEF CompleteInv
<1> QED
  BY <1>1, <1>2, <1>3, <1>4, SearchKinds

(* A search during which no index comes or goes sends every document that  *)
(* was on disk when it began, up to maxSearchHitSize per index, and no     *)
(* empty result, while callers of Index keep writing to the same indexes.  *)
THEOREM SteadySearchIsComplete == SSpec => []SteadySearchComplete
<1>1. SInit => CompleteInv
  BY DEF SInit, CompleteInv
<1>2. SearchInv /\ CompleteInv /\ [SNext]_allVars => CompleteInv'
  BY CompleteStep
<1>3. CompleteInv => SteadySearchComplete
  BY DEF CompleteInv, Complete, SteadySearchComplete
<1> QED
  BY <1>1, <1>2, <1>3, SearchInvariance, PTL DEF SSpec
=============================================================================
