---------------------------- MODULE EngineSearch ----------------------------
(***************************************************************************)
(* One search beside the engine: Engine.Search of engine.go with           *)
(* Index.Search and Index.Document of index.go.                            *)
(*                                                                         *)
(* Search takes the read lock only to start a goroutine.  The goroutine    *)
(* reads e.indexes without any lock, again and again, while createIndex    *)
(* and enforceRetention change it; every such read is a step of its own    *)
(* here.  An index expression beyond the end of the slice panics, which    *)
(* ends the process.  Searches do not affect each other, so one is enough. *)
(*                                                                         *)
(* The query matches every document.  A result is the event whose source   *)
(* was sent, or NoDocument for the empty string that Document returns for  *)
(* an ID its shard does not have.  The receiver of the results is always   *)
(* ready.                                                                  *)
(***************************************************************************)
EXTENDS Engine

CONSTANT MaxHits    \* maxSearchHitSize

NoDocument == 0

ASSUME SearchAssumption ==
  /\ MaxHits \in Nat \ {0}
  /\ Events \subseteq Nat \ {NoDocument}
  /\ IsFiniteSet(Events)

VARIABLES
  spc,      \* where the search's goroutine is
  i,        \* its loop variable, counted from 1
  loaded,   \* the index it has read from the slice
  ids,      \* the IDs still to be fetched
  out,      \* the results sent so far
  before,   \* history: documents on disk when the search began
  steady,   \* history: "yes" while no index has come or gone since; "gone"
            \* when one has gone or was closed, "come" when one has come
  panics    \* history: panics of the search

searchVars == <<spc, i, loaded, ids, out, before, steady, panics>>
allVars == <<vars, searchVars>>

-----------------------------------------------------------------------------
(* Deviation: IDs are compared by sequence number alone. *)
IDLessBySequence(x, y) == x < y

(* DocIDs.Less: by reference time, then by sequence number. *)
IDLess(x, y) ==
  \/ RefTime[x] < RefTime[y]
  \/ RefTime[x] = RefTime[y] /\ x < y

(* The documents of an index. *)
DocsOf(path) == {ev \in Events : <<path, ev>> \in stored}

(* The ways to pick n of them, in the order of their IDs. *)
Ordered(docs, n) ==
  {s \in [1..n -> docs] : \A j, k \in 1..n : j < k => IDLess(s[j], s[k])}

(* Deviation: at the limit one hit is lost. *)
HitsOneShort(path) ==
  LET docs == DocsOf(path)
      size == IF Cardinality(docs) < MaxHits THEN Cardinality(docs)
              ELSE MaxHits - 1
  IN  Ordered(docs, size)

(* Index.Search: at most maxSearchHitSize hits, in the order of their IDs. *)
Hits(path) ==
  LET docs == DocsOf(path)
      size == IF Cardinality(docs) < MaxHits THEN Cardinality(docs)
              ELSE MaxHits
  IN  Ordered(docs, size)

NoSearch ==
  /\ spc' = "idle"
  /\ i' = 0
  /\ loaded' = NoIndex
  /\ ids' = << >>
  /\ out' = << >>
  /\ before' = {}
  /\ steady' = "yes"

SInit ==
  /\ Init
  /\ spc = "idle"
  /\ i = 0
  /\ loaded = NoIndex
  /\ ids = << >>
  /\ out = << >>
  /\ before = {}
  /\ steady = "yes"
  /\ panics = 0

(* Search: RLock, start the goroutine, RUnlock. *)
SearchStart ==
  /\ Running
  /\ spc = "idle"
  /\ wlock = "none"
  /\ spc' = "begin"
  /\ before' = stored
  /\ steady' = "yes"
  /\ UNCHANGED <<vars, i, loaded, ids, out, panics>>

(* i := len(e.indexes) - 1, from any goroutine state of the others. *)
SearchBegin ==
  /\ spc = "begin"
  /\ i' = Len(indexes)
  /\ spc' = "load"
  /\ UNCHANGED <<vars, loaded, ids, out, before, steady, panics>>

(* e.indexes[i] in the loop's body. *)
SearchLoad ==
  /\ spc = "load"
  /\ i \in 1..Len(indexes)
  /\ loaded' = indexes[i]
  /\ spc' = "search"
  /\ UNCHANGED <<vars, i, ids, out, before, steady, panics>>

(* Index.Search of the index that was read.                                *)
SearchIndex ==
  /\ spc = "search"
  /\ loaded \in open
  /\ ids' \in Hits(loaded.startTime)
  /\ spc' = "docs"
  /\ UNCHANGED <<vars, i, loaded, out, before, steady, panics>>

(* The index was closed meanwhile.  bleve returns an error, and the loop   *)
(* ends; or, for an alias of several shards, it merges the errors of all   *)
(* of them into an empty result.                                           *)
SearchClosedIndex ==
  /\ spc = "search"
  /\ loaded \notin open
  /\ ids' = << >>
  /\ \/ spc' = "done"
     \/ NumShards > 1 /\ spc' = "docs"
  /\ UNCHANGED <<vars, i, loaded, out, before, steady, panics>>

(* e.indexes[i].Document(id), where e.indexes[i] is read anew, and the     *)
(* send of the result.                                                     *)
SearchDocument ==
  /\ spc = "docs"
  /\ ids # << >>
  /\ i \in 1..Len(indexes)
  /\ indexes[i] \in open
  /\ out' = Append(out, IF Head(ids) \in DocsOf(indexes[i].startTime)
                        THEN Head(ids) ELSE NoDocument)
  /\ ids' = Tail(ids)
  /\ UNCHANGED <<vars, spc, i, loaded, before, steady, panics>>

(* Document returns an error: the inner loop ends. *)
SearchDocumentFails ==
  /\ spc = "docs"
  /\ ids # << >>
  /\ i \in 1..Len(indexes)
  /\ indexes[i] \notin open
  /\ ids' = << >>
  /\ UNCHANGED <<vars, spc, i, loaded, out, before, steady, panics>>

(* Deviation: an index is looked at twice. *)
SearchNextStuck ==
  /\ spc = "docs"
  /\ ids = << >>
  /\ spc' = "load"
  /\ UNCHANGED <<vars, i, loaded, ids, out, before, steady, panics>>

SearchNext ==
  /\ spc = "docs"
  /\ ids = << >>
  /\ i' = i - 1
  /\ spc' = "load"
  /\ UNCHANGED <<vars, loaded, ids, out, before, steady, panics>>

(* The loop ends and the channel is closed. *)
SearchEnd ==
  /\ spc = "load"
  /\ i = 0
  /\ spc' = "done"
  /\ UNCHANGED <<vars, i, loaded, ids, out, before, steady, panics>>

(* e.indexes[i] with i beyond the end of the slice. *)
SearchPanic ==
  /\ spc = "load" \/ (spc = "docs" /\ ids # << >>)
  /\ i > Len(indexes)
  /\ panics' = panics + 1
  /\ mode' = "down"
  /\ NoProcess
  /\ NoSearch
  /\ UNCHANGED <<clockVars, diskVars, restarts, histVars>>

SearchStep ==
  \/ SearchBegin \/ SearchLoad \/ SearchIndex \/ SearchClosedIndex
  \/ SearchDocument \/ SearchDocumentFails \/ SearchNext \/ SearchEnd
  \/ SearchPanic

(* What a step of the engine makes of the slice under the search. *)
Steadiness ==
  IF UNCHANGED <<indexes, open>> THEN steady
  ELSE IF Len(indexes') > Len(indexes) \/ steady = "come" THEN "come"
  ELSE "gone"

(* A step of the engine; the search lives as long as its process. *)
EngineStep ==
  /\ Next
  /\ UNCHANGED panics
  /\ \/ mode' = "down" /\ NoSearch
     \/ /\ mode' # "down"
        /\ UNCHANGED <<spc, i, loaded, ids, out, before>>
        /\ steady' = Steadiness

SNext == SearchStart \/ SearchStep \/ EngineStep

(* The search's goroutine keeps being scheduled. *)
SSpec == SInit /\ [][SNext]_allVars /\ WF_allVars(SearchStep)

-----------------------------------------------------------------------------
(* The events sent, and those of them that belong to one directory. *)
Sent == {out[k] : k \in 1..Len(out)} \ {NoDocument}
ResultsFrom(path) == {ev \in Sent : PathOf(ev) = path}

(* A search has sent the documents an index held when it began, or as many *)
(* as the limit on hits allows.                                            *)
Served(x) ==
  \/ \A ev \in Events : <<x.startTime, ev>> \in before
                          => ev \in ResultsFrom(x.startTime)
  \/ Cardinality(ResultsFrom(x.startTime)) >= MaxHits

(* A search during which no index came or went sends the documents of      *)
(* every index, no empty result among them, although events keep being     *)
(* written to the indexes meanwhile.                                       *)
SteadySearchComplete ==
  (spc = "done" /\ steady = "yes" /\ mode = "up") =>
    /\ \A k \in 1..Len(out) : out[k] # NoDocument
    /\ \A k \in 1..Len(indexes) : Served(indexes[k])

(* A search sends messages in the order they occurred, those of the same   *)
(* time in the order they were received, and none of them twice            *)
(* (README.md 10: "in the order the messages occurred"), although          *)
(* enforceRetention cuts the slice under it, Close closes the indexes,     *)
(* events are written meanwhile, and a failed removal has left documents   *)
(* behind.  The exception is a search during which createIndex appends an  *)
(* index and sorts the slice: the search may meet an index twice, miss     *)
(* one, or meet a later one first.                                         *)
SearchInOrder ==
  steady # "come" => \A j, k \in 1..Len(out) :
     (j < k /\ out[j] # NoDocument /\ out[k] # NoDocument)
       => \/ RefTime[out[j]] < RefTime[out[k]]
          \/ RefTime[out[j]] = RefTime[out[k]] /\ out[j] < out[k]

(* Every search ends, or its process does. *)
SearchEnds == (spc \notin {"idle", "done"}) ~> (spc \in {"idle", "done"})

-----------------------------------------------------------------------------
(* engine.go 356: "Sequentially search each index", which a comment says   *)
(* and the code does not always do: a search gets to the end of its loop.  *)
SearchNeverPanics == panics = 0
=============================================================================
