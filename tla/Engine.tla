------------------------------- MODULE Engine -------------------------------
(***************************************************************************)
(* The indexing engine of engine.go and the Index type of index.go: a      *)
(* slice of time-ranged indexes, guarded by a read-write lock, that the    *)
(* callers of Index add to, that a background goroutine thins out          *)
(* (retention), and that is rebuilt from disk by Open.                     *)
(*                                                                         *)
(* Actors: the callers of Index (ekanited has one, its batcher; the lock   *)
(* admits several), the retention goroutine, the main goroutine (Open,     *)
(* Close), the clock, and the environment that may kill the process.       *)
(* Searches are in EngineSearch.tla.                                       *)
(*                                                                         *)
(* Abstractions.  Times are natural numbers.  An Index is its time range   *)
(* and an id that tells two objects opened on the same path apart; its     *)
(* path is its start time: the name NewIndex formats has minutes, and      *)
(* every start and end of an index is a multiple of IndexDuration, 24      *)
(* hours in ekanited, counted from Go's zero time as Truncate does.  The   *)
(* contents of a shard are the set of the events written to it, and a      *)
(* write of one shard is one step.  NewIndex and os.RemoveAll change the   *)
(* disk in one step.                                                       *)
(***************************************************************************)
EXTENDS Integers, Sequences, FiniteSets

CONSTANTS Events,           \* the events that may be indexed
          RefTime,          \* their reference times
          Hash,             \* fnv32a of their document IDs
          NumShards,        \* shards per index
          IndexDuration,    \* duration of created indexes
          RetentionPeriod,  \* how long an index is kept after its end
          Callers,          \* the goroutines that call Index
          MaxBatch,         \* bound: events per call of Index
          MaxNow,           \* bound: the clock
          MaxRestarts,      \* bound: restarts of the process
          MaxFaults         \* bound: failures of the file system or of bleve

ASSUME EngineAssumption ==
  /\ RefTime \in [Events -> Nat]
  /\ Hash \in [Events -> Nat]
  /\ NumShards \in Nat \ {0}
  /\ IndexDuration \in Nat \ {0}
  /\ RetentionPeriod \in Nat
  /\ MaxBatch \in Nat
  /\ MaxNow \in Nat
  /\ MaxRestarts \in Nat
  /\ MaxFaults \in Nat

VARIABLES
  now,        \* the wall clock
  mode,       \* the process: "down", "opening", "up", "closing"
  dirs,       \* on disk: index directories, with the time in their endtime file
  stored,     \* on disk: <<path, event>> for every document of every shard
  indexes,    \* e.indexes
  open,       \* the Index objects whose shards are open
  nextId,     \* id of the next Index object
  unopened,   \* Open: directories still to be opened
  toClose,    \* Close: indexes still to be closed
  rlock,      \* e.mu: the callers that hold a read lock
  wlock,      \* e.mu: "none", or who holds the write lock
  ipc,        \* Index: where each caller is
  todo,       \* Index: its events that are not routed yet
  sub,        \* Index: its subBatches, as <<index, event>> not written yet
  index,      \* Index: the index it found or created under the write lock
  called,     \* Index: the events of the call
  rpos,       \* retention: position of its range loop
  rkept,      \* retention: length of filtered
  taken,      \* history: events handed to Index
  acked,      \* history: events of the calls of Index that returned
  excused,    \* history: events whose write met a fault or a closing engine
  restarts,   \* history: restarts so far
  faults      \* history: faults so far

clockVars == <<now>>
diskVars  == <<dirs, stored>>
indexVars == <<indexes, open, nextId>>
mainVars  == <<mode, unopened, toClose, restarts>>
lockVars  == <<rlock, wlock>>
callVars  == <<ipc, todo, sub, index, called>>
retVars   == <<rpos, rkept>>
histVars  == <<taken, acked, excused, faults>>
vars == <<clockVars, diskVars, indexVars, mainVars, lockVars, callVars,
          retVars, histVars>>

-----------------------------------------------------------------------------
(* index.go: the Index type. *)

NewIndexObject(start, end, id) ==
  [startTime |-> start, endTime |-> end, id |-> id]

Contains(i, t) == i.startTime <= t /\ t < i.endTime

(* Deviation: the retention period counts from the start of the index. *)
ExpiredFromStart(i, t) == i.startTime + RetentionPeriod < t

Expired(i, t) == i.endTime + RetentionPeriod < t

(* Indexes.Less *)
Less(x, y) == x.endTime > y.endTime \/ x.startTime > y.startTime

(* Deviation: an index starts at the time of its first event. *)
NoTruncate(t) == t

(* time.Time.Truncate(e.IndexDuration). *)
Truncate(t) == (t \div IndexDuration) * IndexDuration

(* Index.Shard: the shard of an event's document. *)
Shard(ev) == Hash[ev] % NumShards

(* The nil *Index. *)
NoIndex == NewIndexObject(0, 0, -1)

(* A directory of the engine's path. *)
DirOf(i) == [startTime |-> i.startTime, endTime |-> i.endTime]

(* NewIndex: the directories after it.  It makes the directory unless it   *)
(* is there (the check for that never fails), writes its endtime file anew *)
(* and opens the shards, with whatever documents they have.                *)
NewIndexDirs(i) == {d \in dirs : d.startTime # i.startTime} \cup {DirOf(i)}

(* OpenIndex: the range is read from the name and the endtime file. *)
OpenIndex(d, id) == NewIndexObject(d.startTime, d.endTime, id)

-----------------------------------------------------------------------------
(* indexForReferenceTime: the first index of the slice that contains t. *)
IsIndexForReferenceTime(k, t) ==
  /\ Contains(indexes[k], t)
  /\ \A j \in 1..(k - 1) : ~Contains(indexes[j], t)

NoIndexForReferenceTime(t) ==
  \A k \in 1..Len(indexes) : ~Contains(indexes[k], t)

(* What sort.Sort makes of a slice that was sorted before its last element *)
(* x was appended: x moves to the left of all it is Less than.             *)
IsInsertionPoint(s, x, p) ==
  /\ p \in 1..(Len(s) + 1)
  /\ \A k \in p..Len(s) : Less(x, s[k])
  /\ p > 1 => ~Less(x, s[p - 1])

(* Deviation: the new index stays where append put it. *)
InsertAtEnd(s, x, p) == Append(s, x)

InsertAt(s, x, p) ==
  [k \in 1..(Len(s) + 1) |->
     IF k < p THEN s[k] ELSE IF k = p THEN x ELSE s[k - 1]]

(* Indexes.Swap *)
Swap(s, u, v) ==
  [k \in 1..Len(s) |->
     IF k = u THEN s[v] ELSE IF k = v THEN s[u] ELSE s[k]]

(* The swaps sort.Sort may make.  Up to twelve elements it swaps two that  *)
(* are out of order, at a distance of six (from seven elements on) and     *)
(* then next to each other; the distance is left open, so that a short     *)
(* slice shows what a longer one goes through.  Beyond twelve, quickSort   *)
(* also moves elements that are in order.                                  *)
MaySwap(s, u, v) == u < v /\ (Less(s[v], s[u]) \/ Len(s) > 12)

(* No element is Less than one before it: sort.Sort returns. *)
IsSorted(s) == \A u, v \in 1..Len(s) : u < v => ~Less(s[v], s[u])

Running == mode \in {"up", "closing"}

-----------------------------------------------------------------------------
(* The volatile state of a process that is not running. *)
NoProcess ==
  /\ indexes' = << >>
  /\ open' = {}
  /\ nextId' = 0
  /\ unopened' = {}
  /\ toClose' = << >>
  /\ rlock' = {}
  /\ wlock' = "none"
  /\ ipc' = [cl \in Callers |-> "idle"]
  /\ todo' = [cl \in Callers |-> << >>]
  /\ sub' = [cl \in Callers |-> {}]
  /\ index' = [cl \in Callers |-> NoIndex]
  /\ called' = [cl \in Callers |-> {}]
  /\ rpos' = 1
  /\ rkept' = 0

(* Before the first start, on an empty data directory. *)
Init ==
  /\ now = 0
  /\ mode = "down"
  /\ dirs = {}
  /\ stored = {}
  /\ indexes = << >>
  /\ open = {}
  /\ nextId = 0
  /\ unopened = {}
  /\ toClose = << >>
  /\ rlock = {}
  /\ wlock = "none"
  /\ ipc = [cl \in Callers |-> "idle"]
  /\ todo = [cl \in Callers |-> << >>]
  /\ sub = [cl \in Callers |-> {}]
  /\ index = [cl \in Callers |-> NoIndex]
  /\ called = [cl \in Callers |-> {}]
  /\ rpos = 1
  /\ rkept = 0
  /\ taken = {}
  /\ acked = {}
  /\ excused = {}
  /\ restarts = 0
  /\ faults = 0

Tick ==
  /\ now < MaxNow
  /\ now' = now + 1
  /\ UNCHANGED <<diskVars, indexVars, mainVars, lockVars, callVars, retVars,
                 histVars>>

-----------------------------------------------------------------------------
(* Engine.Open and Engine.Close, called by main. *)

(* A start: the engine lists its data directory. *)
OpenStart ==
  /\ mode = "down"
  /\ restarts <= MaxRestarts
  /\ restarts' = restarts + 1
  /\ mode' = "opening"
  /\ unopened' = dirs
  /\ UNCHANGED <<clockVars, diskVars, indexVars, toClose, lockVars, callVars,
                 retVars, histVars>>

(* One iteration of Open's loop, directories in any order: the index is    *)
(* opened and appended, and the slice sorted, which nobody sees half done. *)
OpenNext ==
  /\ mode = "opening"
  /\ \E d \in unopened :
       LET i == OpenIndex(d, nextId)
       IN  /\ \E p \in 1..(Len(indexes) + 1) :
                /\ IsInsertionPoint(indexes, i, p)
                /\ indexes' = InsertAt(indexes, i, p)
           /\ open' = open \cup {i}
           /\ unopened' = unopened \ {d}
  /\ nextId' = nextId + 1
  /\ UNCHANGED <<clockVars, diskVars, mode, toClose, restarts, lockVars,
                 callVars, retVars, histVars>>

(* Open returns: the retention goroutine and, in main, everything else     *)
(* that uses the engine is started.                                        *)
OpenEnd ==
  /\ mode = "opening"
  /\ unopened = {}
  /\ mode' = "up"
  /\ UNCHANGED <<clockVars, diskVars, indexVars, unopened, toClose, restarts,
                 lockVars, callVars, retVars, histVars>>

(* Close takes no lock: its loop ranges over the slice as it is now, that  *)
(* is over its length and its array.                                       *)
CloseStart ==
  /\ mode = "up"
  /\ mode' = "closing"
  /\ toClose' = indexes
  /\ UNCHANGED <<clockVars, diskVars, indexVars, unopened, restarts, lockVars,
                 callVars, retVars, histVars>>

(* createIndex may still append to that array and sort it under the loop,  *)
(* which then meets some other index of the slice at its position.         *)
CloseNext ==
  /\ mode = "closing"
  /\ toClose # << >>
  /\ \E x \in {Head(toClose)} \cup {indexes[k] : k \in 1..Len(indexes)} :
       open' = open \ {x}
  /\ toClose' = Tail(toClose)
  /\ UNCHANGED <<clockVars, diskVars, indexes, nextId, mode, unopened,
                 restarts, lockVars, callVars, retVars, histVars>>

(* close(done), wait for the retention goroutine, and main returns.        *)
CloseEnd ==
  /\ mode = "closing"
  /\ toClose = << >>
  /\ wlock # "retention"
  /\ mode' = "down"
  /\ NoProcess
  /\ UNCHANGED <<clockVars, diskVars, restarts, histVars>>

(* The process dies: killed, a failed Open (log.Fatalf), a panic of Index  *)
(* when NewIndex returns an error, or an error of Index.Close that makes   *)
(* Close and then main return early.                                       *)
Crash ==
  /\ mode # "down"
  /\ mode' = "down"
  /\ NoProcess
  /\ UNCHANGED <<clockVars, diskVars, restarts, histVars>>

-----------------------------------------------------------------------------
(* Engine.Index.  ipc names the next statement that matters: "route" the   *)
(* loop over the events and, when none is left, the writes; "upgrade" to   *)
(* "relock" the function that takes the write lock.                        *)

(* RLock. *)
IndexCall(cl) ==
  /\ Running
  /\ ipc[cl] = "idle"
  /\ wlock = "none"
  /\ \E n \in 1..MaxBatch : \E s \in [1..n -> Events \ taken] :
       /\ \A j, k \in 1..n : s[j] = s[k] => j = k
       /\ todo' = [todo EXCEPT ![cl] = s]
       /\ called' = [called EXCEPT ![cl] = {s[k] : k \in 1..n}]
       /\ taken' = taken \cup {s[k] : k \in 1..n}
  /\ rlock' = rlock \cup {cl}
  /\ ipc' = [ipc EXCEPT ![cl] = "route"]
  /\ UNCHANGED <<clockVars, diskVars, indexVars, mainVars, wlock, sub, index,
                 retVars, acked, excused, faults>>

RouteFound(cl) ==
  /\ Running
  /\ ipc[cl] = "route"
  /\ todo[cl] # << >>
  /\ \E k \in 1..Len(indexes) :
       /\ IsIndexForReferenceTime(k, RefTime[Head(todo[cl])])
       /\ sub' = [sub EXCEPT ![cl] = @ \cup {<<indexes[k], Head(todo[cl])>>}]
  /\ todo' = [todo EXCEPT ![cl] = Tail(@)]
  /\ UNCHANGED <<clockVars, diskVars, indexVars, mainVars, lockVars, ipc,
                 index, called, retVars, histVars>>

(* No index: RUnlock, and wait for the write lock. *)
RouteMissing(cl) ==
  /\ Running
  /\ ipc[cl] = "route"
  /\ todo[cl] # << >>
  /\ NoIndexForReferenceTime(RefTime[Head(todo[cl])])
  /\ rlock' = rlock \ {cl}
  /\ ipc' = [ipc EXCEPT ![cl] = "upgrade"]
  /\ UNCHANGED <<clockVars, diskVars, indexVars, mainVars, wlock, todo, sub,
                 index, called, retVars, histVars>>

UpgradeLock(cl) ==
  /\ Running
  /\ ipc[cl] = "upgrade"
  /\ wlock = "none"
  /\ rlock = {}
  /\ wlock' = "index"
  /\ ipc' = [ipc EXCEPT ![cl] = "recheck"]
  /\ UNCHANGED <<clockVars, diskVars, indexVars, mainVars, rlock, todo, sub,
                 index, called, retVars, histVars>>

(* The second lookup, under the write lock: another caller has created the *)
(* index in between.                                                       *)
RecheckFound(cl) ==
  /\ Running
  /\ ipc[cl] = "recheck"
  /\ \E k \in 1..Len(indexes) :
       /\ IsIndexForReferenceTime(k, RefTime[Head(todo[cl])])
       /\ index' = [index EXCEPT ![cl] = indexes[k]]
  /\ ipc' = [ipc EXCEPT ![cl] = "unlock"]
  /\ UNCHANGED <<clockVars, diskVars, indexVars, mainVars, lockVars, todo,
                 sub, called, retVars, histVars>>

(* createIndexForReferenceTime and createIndex: the start of a new index.  *)
StartFor(t) ==
  LET same == {k \in 1..Len(indexes) : indexes[k].startTime = Truncate(t)}
  IN  IF same = {} THEN Truncate(t)
      ELSE indexes[CHOOSE k \in same : \A j \in same : k <= j].endTime

(* Deviation: no second lookup under the write lock. *)
CreateIndexUnchecked(cl) ==
  LET t == RefTime[Head(todo[cl])]
      i == NewIndexObject(StartFor(t), Truncate(t) + IndexDuration, nextId)
  IN  /\ Running
      /\ ipc[cl] = "recheck"
      /\ i.startTime <= i.endTime
      /\ dirs' = NewIndexDirs(i)
      /\ open' = open \cup {i}
      /\ nextId' = nextId + 1
      /\ indexes' = Append(indexes, i)
      /\ index' = [index EXCEPT ![cl] = i]
      /\ ipc' = [ipc EXCEPT ![cl] = "sort"]
      /\ UNCHANGED <<clockVars, stored, mainVars, lockVars, todo, sub, called,
                     retVars, histVars>>

CreateIndex(cl) ==
  LET t == RefTime[Head(todo[cl])]
      i == NewIndexObject(StartFor(t), Truncate(t) + IndexDuration, nextId)
  IN  /\ Running
      /\ ipc[cl] = "recheck"
      /\ NoIndexForReferenceTime(t)
      /\ i.startTime <= i.endTime
      /\ dirs' = NewIndexDirs(i)
      /\ open' = open \cup {i}
      /\ nextId' = nextId + 1
      /\ indexes' = Append(indexes, i)
      /\ index' = [index EXCEPT ![cl] = i]
      /\ ipc' = [ipc EXCEPT ![cl] = "sort"]
      /\ UNCHANGED <<clockVars, stored, mainVars, lockVars, todo, sub, called,
                     retVars, histVars>>

(* createIndex's sort, swap by swap: searches read the slice without the   *)
(* lock and see every one.  (They may even see one half of a swap, that is *)
(* an index twice; no property speaks of a slice that is being sorted.)    *)
SortSwap(cl) ==
  /\ Running
  /\ ipc[cl] = "sort"
  /\ \E u, v \in 1..Len(indexes) :
       /\ MaySwap(indexes, u, v)
       /\ indexes' = Swap(indexes, u, v)
  /\ UNCHANGED <<clockVars, diskVars, open, nextId, mainVars, lockVars,
                 callVars, retVars, histVars>>

SortEnd(cl) ==
  /\ Running
  /\ ipc[cl] = "sort"
  /\ IsSorted(indexes)
  /\ ipc' = [ipc EXCEPT ![cl] = "unlock"]
  /\ UNCHANGED <<clockVars, diskVars, indexVars, mainVars, lockVars, todo,
                 sub, index, called, retVars, histVars>>

(* Deviation: the write lock is not released. *)
UnlockForgotten(cl) ==
  /\ Running
  /\ ipc[cl] = "unlock"
  /\ ipc' = [ipc EXCEPT ![cl] = "relock"]
  /\ UNCHANGED <<clockVars, diskVars, indexVars, mainVars, lockVars, todo, sub,
                 index, called, retVars, histVars>>

Unlock(cl) ==
  /\ Running
  /\ ipc[cl] = "unlock"
  /\ wlock' = "none"
  /\ ipc' = [ipc EXCEPT ![cl] = "relock"]
  /\ UNCHANGED <<clockVars, diskVars, indexVars, mainVars, rlock, todo, sub,
                 index, called, retVars, histVars>>

(* The deferred RLock, and the event joins its sub-batch. *)
Relock(cl) ==
  /\ Running
  /\ ipc[cl] = "relock"
  /\ wlock = "none"
  /\ rlock' = rlock \cup {cl}
  /\ sub' = [sub EXCEPT ![cl] = @ \cup {<<index[cl], Head(todo[cl])>>}]
  /\ todo' = [todo EXCEPT ![cl] = Tail(@)]
  /\ ipc' = [ipc EXCEPT ![cl] = "route"]
  /\ UNCHANGED <<clockVars, diskVars, indexVars, mainVars, wlock, index,
                 called, retVars, histVars>>

(* The part of index i's sub-batch that goes to shard s. *)
ShardBatch(pairs, i, s) == {p \in pairs : p[1] = i /\ Shard(p[2]) = s}
EventsOf(pairs) == {p[2] : p \in pairs}

(* Shard.Index: the documents a shard of index i gets. *)
ShardIndex(i, pairs) == {<<i.startTime, e>> : e \in EventsOf(pairs)}

(* Index.Index and Shard.Index: sub-batches and, within them, shards are   *)
(* written in parallel.  A shard that is closed returns an error, and so   *)
(* may one that is open; the errors are dropped.                           *)
WriteShard(cl) ==
  /\ Running
  /\ ipc[cl] = "route"
  /\ todo[cl] = << >>
  /\ \E i \in {p[1] : p \in sub[cl]}, s \in 0..(NumShards - 1) :
       LET b == ShardBatch(sub[cl], i, s)
       IN  /\ b # {}
           /\ sub' = [sub EXCEPT ![cl] = @ \ b]
           /\ \/ /\ i \in open
                 /\ stored' = stored \cup ShardIndex(i, b)
                 /\ UNCHANGED <<excused, faults>>
              \/ /\ i \in open
                 /\ faults < MaxFaults
                 /\ faults' = faults + 1
                 /\ excused' = excused \cup EventsOf(b)
                 /\ UNCHANGED stored
              \/ /\ i \notin open
                 /\ excused' = IF mode = "closing"
                               THEN excused \cup EventsOf(b) ELSE excused
                 /\ UNCHANGED <<stored, faults>>
  /\ UNCHANGED <<clockVars, dirs, indexVars, mainVars, lockVars, ipc, todo,
                 index, called, retVars, taken, acked>>

(* wg.Wait, RUnlock, return nil. *)
IndexReturn(cl) ==
  /\ Running
  /\ ipc[cl] = "route"
  /\ todo[cl] = << >>
  /\ sub[cl] = {}
  /\ acked' = acked \cup called[cl]
  /\ called' = [called EXCEPT ![cl] = {}]
  /\ index' = [index EXCEPT ![cl] = NoIndex]
  /\ rlock' = rlock \ {cl}
  /\ ipc' = [ipc EXCEPT ![cl] = "idle"]
  /\ UNCHANGED <<clockVars, diskVars, indexVars, mainVars, wlock, todo, sub,
                 retVars, taken, excused, faults>>

-----------------------------------------------------------------------------
(* enforceRetention, run from time to time by runRetentionEnforcement.  It *)
(* filters the slice in place, in the slice's own array.                   *)

(* Deviation: filtered starts as e.indexes, not as e.indexes[:0]. *)
RetentionStartUncut ==
  /\ Running
  /\ wlock = "none"
  /\ rlock = {}
  /\ wlock' = "retention"
  /\ rpos' = 1
  /\ rkept' = Len(indexes)
  /\ UNCHANGED <<clockVars, diskVars, indexVars, mainVars, rlock, callVars,
                 histVars>>

RetentionStart ==
  /\ Running
  /\ wlock = "none"
  /\ rlock = {}
  /\ wlock' = "retention"
  /\ rpos' = 1
  /\ rkept' = 0
  /\ UNCHANGED <<clockVars, diskVars, indexVars, mainVars, rlock, callVars,
                 histVars>>

RetentionKeep ==
  /\ Running
  /\ wlock = "retention"
  /\ rpos <= Len(indexes)
  /\ ~Expired(indexes[rpos], now)
  /\ indexes' = [indexes EXCEPT ![rkept + 1] = indexes[rpos]]
  /\ rkept' = rkept + 1
  /\ rpos' = rpos + 1
  /\ UNCHANGED <<clockVars, diskVars, open, nextId, mainVars, lockVars,
                 callVars, histVars>>

(* Deviation: the index is closed and its directory stays. *)
RetentionOnlyCloses ==
  /\ Running
  /\ wlock = "retention"
  /\ rpos <= Len(indexes)
  /\ Expired(indexes[rpos], now)
  /\ open' = open \ {indexes[rpos]}
  /\ rpos' = rpos + 1
  /\ UNCHANGED <<clockVars, diskVars, indexes, nextId, mainVars, lockVars,
                 callVars, rkept, histVars>>

(* Deviation: the directory is removed and the index stays open. *)
RetentionOnlyRemoves ==
  /\ Running
  /\ wlock = "retention"
  /\ rpos <= Len(indexes)
  /\ Expired(indexes[rpos], now)
  /\ dirs' = {d \in dirs : d.startTime # indexes[rpos].startTime}
  /\ stored' = {p \in stored : p[1] # indexes[rpos].startTime}
  /\ rpos' = rpos + 1
  /\ UNCHANGED <<clockVars, indexVars, mainVars, lockVars, callVars, rkept,
                 histVars>>

(* DeleteIndex: close the index, remove its directory.  When RemoveAll     *)
(* fails, it may have removed some of the documents.                       *)
DeleteIndex(i) ==
  LET path == i.startTime
      docs == {p \in stored : p[1] = path}
  IN  /\ open' = open \ {i}
      /\ \/ /\ dirs' = {d \in dirs : d.startTime # path}
            /\ stored' = stored \ docs
            /\ UNCHANGED faults
         \/ /\ faults < MaxFaults
            /\ faults' = faults + 1
            /\ \E gone \in SUBSET docs : stored' = stored \ gone
            /\ UNCHANGED dirs

(* An expired index leaves the slice even if DeleteIndex fails. *)
RetentionDelete ==
  /\ Running
  /\ wlock = "retention"
  /\ rpos <= Len(indexes)
  /\ Expired(indexes[rpos], now)
  /\ DeleteIndex(indexes[rpos])
  /\ rpos' = rpos + 1
  /\ UNCHANGED <<clockVars, indexes, nextId, mainVars, lockVars, callVars,
                 rkept, taken, acked, excused>>

(* e.indexes = filtered; the loop's variables end with the call. *)
RetentionEnd ==
  /\ Running
  /\ wlock = "retention"
  /\ rpos > Len(indexes)
  /\ indexes' = SubSeq(indexes, 1, rkept)
  /\ wlock' = "none"
  /\ rpos' = 1
  /\ rkept' = 0
  /\ UNCHANGED <<clockVars, diskVars, open, nextId, mainVars, rlock, callVars,
                 histVars>>

-----------------------------------------------------------------------------
(* The steps of one call of Index. *)
IndexStep(cl) ==
  \/ RouteFound(cl) \/ RouteMissing(cl) \/ RecheckFound(cl)
  \/ CreateIndex(cl) \/ SortSwap(cl) \/ SortEnd(cl) \/ Unlock(cl)
  \/ WriteShard(cl) \/ IndexReturn(cl)

LockStep(cl) == UpgradeLock(cl) \/ Relock(cl)

RetentionStep == RetentionKeep \/ RetentionDelete \/ RetentionEnd

OpenStep == OpenNext \/ OpenEnd

CloseStep == CloseNext \/ CloseEnd

(* The bounded run is over: the process is down for good. *)
Finished ==
  /\ mode = "down" /\ restarts > MaxRestarts /\ now = MaxNow
  /\ UNCHANGED vars

Next ==
  \/ Tick
  \/ OpenStart \/ OpenStep \/ CloseStart \/ CloseStep \/ Crash
  \/ \E cl \in Callers : IndexCall(cl) \/ IndexStep(cl) \/ LockStep(cl)
  \/ RetentionStart \/ RetentionStep
  \/ Finished

(* Goroutines keep being scheduled and calls of bleve and the file system  *)
(* return.  sync.RWMutex starves no one: a lock that is free again and     *)
(* again is obtained (strong fairness), by the callers and by retention,   *)
(* which time.After keeps waking up.  Nothing makes time pass, a caller    *)
(* call, or the process start, stop or crash.                              *)
Fairness ==
  /\ WF_vars(OpenStep)
  /\ WF_vars(CloseStep)
  /\ WF_vars(RetentionStep)
  /\ SF_vars(RetentionStart)
  /\ \A cl \in Callers : WF_vars(IndexStep(cl)) /\ SF_vars(LockStep(cl))

Spec == Init /\ [][Next]_vars /\ Fairness

-----------------------------------------------------------------------------
IndexObject == [startTime : Nat, endTime : Nat, id : Nat]
Dir == [startTime : Nat, endTime : Nat]
CallStates == {"idle", "route", "upgrade", "recheck", "sort", "unlock",
               "relock"}

TypeOK ==
  /\ now \in 0..MaxNow
  /\ mode \in {"down", "opening", "up", "closing"}
  /\ dirs \subseteq Dir
  /\ stored \subseteq Nat \X Events
  /\ indexes \in Seq(IndexObject)
  /\ open \subseteq IndexObject
  /\ nextId \in Nat
  /\ unopened \subseteq Dir
  /\ toClose \in Seq(IndexObject)
  /\ rlock \subseteq Callers
  /\ wlock \in {"none", "index", "retention"}
  /\ ipc \in [Callers -> CallStates]
  /\ todo \in [Callers -> Seq(Events)]
  /\ sub \in [Callers -> SUBSET (IndexObject \X Events)]
  /\ index \in [Callers -> IndexObject \cup {NoIndex}]
  /\ called \in [Callers -> SUBSET Events]
  /\ rpos \in 1..(Len(indexes) + 1)
  /\ rkept \in 0..(rpos - 1)    \* filtered never overtakes the range loop
  /\ taken \subseteq Events
  /\ acked \subseteq Events
  /\ excused \subseteq Events
  /\ restarts \in 0..(MaxRestarts + 1)
  /\ faults \in 0..MaxFaults

(* The indexes cover disjoint time ranges and the slice runs from the      *)
(* latest to the earliest, except between createIndex's append and the end *)
(* of its sort: after any history of calls, retention runs and restarts.   *)
IndexesOrdered ==
  (\A cl \in Callers : ipc[cl] # "sort") =>
    \A j, k \in 1..Len(indexes) :
       j < k => indexes[k].endTime <= indexes[j].startTime

(* The directory an event belongs in, and when retention may take it away. *)
PathOf(ev) == (RefTime[ev] \div IndexDuration) * IndexDuration
Outlived(path) == path + IndexDuration + RetentionPeriod < now

(* An event whose call of Index returned is on disk, in the directory of   *)
(* its time range, until that range has outlived the retention period:     *)
(* also when retention ran while Index had given up its lock to create an  *)
(* index, also after a crash.  Excused are events whose write met an error *)
(* of the store or an engine that was being closed; Index drops both.      *)
AckedRetained ==
  \A ev \in acked \ excused :
     <<PathOf(ev), ev>> \in stored \/ Outlived(PathOf(ev))

(* No two open Index objects share a directory (bolt would wait for ever   *)
(* for the lock of the second one's files).                                *)
OneOpenIndexPerPath ==
  \A x, y \in open : x.startTime = y.startTime => x = y

(* The in-place filter of enforceRetention only ever shortens the slice:   *)
(* at no moment does it show an index at another position than before to   *)
(* the searches, which read the slice without the lock.                    *)
RetentionOnlyTruncates ==
  [][wlock = "retention" =>
       \A k \in 1..Len(indexes') : indexes'[k] = indexes[k]]_vars

(* Every call of Index returns, if the process lives. *)
IndexReturns ==
  \A cl \in Callers : (ipc[cl] # "idle") ~> (ipc[cl] = "idle")

(* A directory that has outlived the retention period is removed, if the   *)
(* process stays up and removing it does not fail.                         *)
ExpiredRemoved ==
  \A path \in {PathOf(ev) : ev \in Events} :
     (Outlived(path) /\ \E d \in dirs : d.startTime = path)
       ~> (mode # "up" \/ faults > 0 \/ \A d \in dirs : d.startTime # path)

-----------------------------------------------------------------------------
(* A statement of the repository's documents that the code does not meet.  *)

(* README.md 11: "Ekanite deletes indexed log data older than a            *)
(* configurable time period."  As long as the process stays up, even if    *)
(* one attempt to remove a directory has failed.                           *)
ExpiredRemovedDespiteFault ==
  \A path \in {PathOf(ev) : ev \in Events} :
     (Outlived(path) /\ \E d \in dirs : d.startTime = path)
       ~> (mode # "up" \/ \A d \in dirs : d.startTime # path)
=============================================================================
