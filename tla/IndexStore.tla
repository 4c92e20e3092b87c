----------------------------- MODULE IndexStore -----------------------------
(***************************************************************************)
(* One index on disk, file operation by file operation (index.go): the     *)
(* directory, its endtime file and its shards, as NewIndex creates them,   *)
(* OpenIndex finds them again, Index.Index fills them and DeleteIndex      *)
(* removes them.  Module Engine takes each of these as one step; here the  *)
(* process may die between any two of them, a removal may fail half way,   *)
(* and every start may come with another -numshards.                       *)
(*                                                                         *)
(* A crash is the death of the process; what it has written stays, and     *)
(* since bleve commits a batch when Batch returns, a shutdown through      *)
(* Engine.Close leaves the same files.  Writes that fail without a crash   *)
(* are in Engine.  OpenIndex only reads, so it is one step.                *)
(***************************************************************************)
EXTENDS Integers, Sequences, FiniteSets, SequencesExt

CONSTANTS Docs,          \* documents
          Hash,          \* [Docs -> Nat], the FNV hash of a document's ID
          ShardFlags,    \* the values -numshards has at the starts, any Go int
          NameBase,      \* digits a shard's name is written with (10)
          NameWidth,     \* digits %04d pads a shard's name to (4)
          maxShardCount, \* NewIndex takes no more shards than this (9999)
          MaxBatch,      \* bound: documents in a call of Index
          MaxCrashes,    \* bound: deaths of the process from outside
          MaxFaults      \* bound: removals that fail half way

(* The digits a number is written with. *)
Digits[n \in Nat] ==
  IF n < NameBase THEN <<n>> ELSE Append(Digits[n \div NameBase], n % NameBase)

ASSUME StoreAssumption ==
  /\ Hash \in [Docs -> Nat]
  /\ ShardFlags \subseteq Int
  /\ NameBase \in Nat \ {0, 1}
  /\ {NameWidth, maxShardCount, MaxBatch, MaxCrashes, MaxFaults} \subseteq Nat
  /\ Len(Digits[maxShardCount]) <= NameWidth

VARIABLES
  pc,         \* "down", "failed" (Engine.Open returned an error and main
              \* exited), "idle" (up, the index is not in the engine's slice),
              \* "open", "removing", or the step of NewIndex that is next
  numShards,  \* -numshards of this process
  dir,        \* does the index's directory exist?
  endtime,    \* the endtime file: "absent", "empty" or "full"
  shard,      \* per number: "absent", "torn" (bleve.New or RemoveAll did not
              \* get to its end) or "ok"
  docs,       \* per number: the documents in that shard
  shards,     \* Index.Shards, as the numbers of the opened shards
  batch,      \* the documents of the call of Index under way
  sent,       \* history: documents handed to Index
  acked,      \* history: documents whose call returned, not deleted since
  deleted,    \* history: documents the retention period has run out for
  cut,        \* history: what was left unfinished in the directory there is
  shardless,  \* history: was it made by a NewIndex that is to make no shard?
  crashes, faults

disk == <<dir, endtime, shard, docs>>
history == <<sent, acked, deleted, crashes, faults>>
vars == <<pc, numShards, disk, shards, batch, history, cut, shardless>>

Numbers == UNION {0..(k - 1) : k \in ShardFlags}
Creating == {"mkdir", "create", "write", "shards", "bleve_new"}

Init ==
  /\ pc = "down"
  /\ numShards \in ShardFlags
  /\ dir = FALSE
  /\ endtime = "absent"
  /\ shard = [n \in Numbers |-> "absent"]
  /\ docs = [n \in Numbers |-> {}]
  /\ shards = << >>
  /\ batch = {}
  /\ sent = {} /\ acked = {} /\ deleted = {} /\ cut = {}
  /\ shardless = FALSE
  /\ crashes = 0 /\ faults = 0

-----------------------------------------------------------------------------
(* Deviations from the code, one per plausible bug, part of no             *)
(* specification.                                                          *)

(* NewIndex accepts any number of shards. *)
AnyShardCount(n) == TRUE

(* RemoveAll is done when the endtime file is gone. *)
RemovedWithoutShards == endtime = "absent"

(* The endtime file is created and never written. *)
WriteEndtimeForgotten ==
  /\ pc = "write"
  /\ pc' = "shards"
  /\ UNCHANGED <<numShards, disk, shards, batch, history, cut, shardless>>

(* DeleteIndex removes the directory of an index it has not closed. *)
DeleteIndexKeepsShards ==
  /\ pc = "open" /\ batch = {}
  /\ pc' = "removing"
  /\ deleted' = deleted \cup UNION {docs[n] : n \in Numbers}
  /\ acked' = {}
  /\ UNCHANGED <<numShards, disk, shards, batch, sent, cut, crashes, faults, shardless>>

-----------------------------------------------------------------------------
(* The process dies: a signal, a panic, or log.Fatalf. *)
Die(state, unfinished) ==
  /\ pc' = state
  /\ shards' = << >>
  /\ batch' = {}
  /\ cut' = cut \cup unfinished

Crash ==
  /\ pc \notin {"down", "failed"}
  /\ crashes < MaxCrashes
  /\ crashes' = crashes + 1
  /\ Die("down", CASE pc \in Creating   -> {"creating"}
                   [] pc = "removing"   -> {"removing"}
                   [] OTHER             -> {})
  /\ UNCHANGED <<numShards, disk, sent, acked, deleted, faults, shardless>>

(* The name of a shard: its number, padded with zeros. *)
Name(n) ==
  LET d == Digits[n]
  IN  [i \in 1..(IF Len(d) < NameWidth THEN NameWidth - Len(d) ELSE 0) |-> 0] \o d

(* sort.Strings on two names. *)
NameLess(m, n) ==
  \/ IsStrictPrefix(Name(m), Name(n))
  \/ \E i \in 1..Len(Name(m)) :
        /\ i <= Len(Name(n))
        /\ SubSeq(Name(m), 1, i - 1) = SubSeq(Name(n), 1, i - 1)
        /\ Name(m)[i] < Name(n)[i]

(* The shards there are, in the order of their names. *)
Existing == {n \in Numbers : shard[n] # "absent"}

listShards ==
  CHOOSE s \in [1..Cardinality(Existing) -> Existing] :
     \A i, j \in DOMAIN s : i < j => NameLess(s[i], s[j])

(* Engine.Open: with no directory there is nothing to open; otherwise      *)
(* OpenIndex needs a whole endtime file and bleve.Open whole shards, and   *)
(* its error ends the process.  The number of shards is what listShards    *)
(* finds, whatever -numshards says.                                        *)
OpenIndex ==
  \/ /\ endtime = "full"
     /\ \A n \in Numbers : shard[n] # "torn"
     /\ pc' = "open"
     /\ shards' = listShards
     /\ UNCHANGED <<batch, cut>>
  \/ /\ endtime # "full" \/ \E n \in Numbers : shard[n] = "torn"
     /\ Die("failed", {})

Start ==
  /\ pc \in {"down", "failed"}
  /\ numShards' \in ShardFlags
  /\ \/ ~dir /\ pc' = "idle" /\ UNCHANGED <<shards, batch, cut>>
     \/ dir /\ OpenIndex
  /\ UNCHANGED <<disk, history, shardless>>

-----------------------------------------------------------------------------
(* NewIndex, called for an event that no open index contains.  Its error   *)
(* makes Engine.Index panic.  It checks the upper bound only.              *)
ShardCountOK(n) == n <= maxShardCount

NewIndex ==
  /\ pc = "idle"
  /\ \/ /\ ShardCountOK(numShards)
        /\ pc' = "mkdir"
        /\ UNCHANGED <<shards, batch, cut>>
     \/ /\ ~ShardCountOK(numShards)
        /\ Die("down", {})
  /\ UNCHANGED <<numShards, disk, history, shardless>>

(* os.MkdirAll: the check for an existing directory before it never fires. *)
MkdirAll ==
  /\ pc = "mkdir"
  /\ dir' = TRUE
  /\ pc' = "create"
  /\ shardless' = (numShards <= 0)
  /\ UNCHANGED <<numShards, endtime, shard, docs, shards, batch, history, cut>>

(* os.Create truncates a file that is there. *)
CreateEndtime ==
  /\ pc = "create"
  /\ endtime' = "empty"
  /\ pc' = "write"
  /\ UNCHANGED <<numShards, dir, shard, docs, shards, batch, history, cut, shardless>>

WriteEndtime ==
  /\ pc = "write"
  /\ endtime' = "full"
  /\ pc' = "shards"
  /\ UNCHANGED <<numShards, dir, shard, docs, shards, batch, history, cut, shardless>>

(* make([]*Shard, 0, numShards) panics on a negative capacity; the         *)
(* directory and its endtime file are there by then.                       *)
MakeShardsPanics ==
  /\ pc = "shards"
  /\ numShards < 0
  /\ Die("down", {})
  /\ UNCHANGED <<numShards, disk, history, shardless>>

(* One turn of the loop over the shards: Shard.Open creates a shard that   *)
(* is not there and opens one that is, or fails to.                        *)
ShardOpen ==
  /\ pc = "shards"
  /\ Len(shards) < numShards
  /\ LET n == Len(shards) IN
       \/ /\ shard[n] = "absent"
          /\ shard' = [shard EXCEPT ![n] = "torn"]
          /\ pc' = "bleve_new"
          /\ UNCHANGED <<shards, batch, cut>>
       \/ /\ shard[n] = "ok"
          /\ shards' = Append(shards, n)
          /\ UNCHANGED <<pc, shard, batch, cut>>
       \/ /\ shard[n] = "torn"
          /\ Die("down", {"creating"})
          /\ UNCHANGED shard
  /\ UNCHANGED <<numShards, dir, endtime, docs, history, shardless>>

(* bleve.New has written the last of a new shard's files. *)
BleveNewDone ==
  /\ pc = "bleve_new"
  /\ shard' = [shard EXCEPT ![Len(shards)] = "ok"]
  /\ shards' = Append(shards, Len(shards))
  /\ pc' = "shards"
  /\ UNCHANGED <<numShards, dir, endtime, docs, batch, history, cut, shardless>>

(* NewIndex returns, with no shard at all for a -numshards of 0, and       *)
(* createIndex puts the index into the slice.                              *)
NewIndexReturns ==
  /\ pc = "shards"
  /\ numShards >= 0
  /\ Len(shards) >= numShards
  /\ pc' = "open"
  /\ UNCHANGED <<numShards, disk, shards, batch, history, cut, shardless>>

-----------------------------------------------------------------------------
(* The number of the shard Index.Shard picks among the opened ones. *)
Shard(d) == shards[1 + (Hash[d] % Len(shards))]

(* Index.Index splits its documents among the shards; without a shard, the *)
(* modulus of Shard is a division by zero.                                 *)
Index(D) ==
  /\ pc = "open"
  /\ batch = {}
  /\ sent' = sent \cup D
  /\ \/ /\ shards # << >>
        /\ batch' = D
        /\ UNCHANGED <<pc, shards, cut>>
     \/ /\ shards = << >>
        /\ Die("down", {})
  /\ UNCHANGED <<numShards, disk, acked, deleted, crashes, faults, shardless>>

Unwritten == batch \ UNION {docs[n] : n \in Numbers}

(* The goroutine of one shard commits its part of the batch. *)
ShardIndex(n) ==
  LET part == {d \in Unwritten : Shard(d) = n}
  IN  /\ pc = "open"
      /\ part # {}
      /\ docs' = [docs EXCEPT ![n] = @ \cup part]
      /\ UNCHANGED <<pc, numShards, dir, endtime, shard, shards, batch, history, cut, shardless>>

(* wg.Wait: every shard has committed and Index returns. *)
IndexReturns ==
  /\ batch # {}
  /\ Unwritten = {}
  /\ acked' = acked \cup batch
  /\ batch' = {}
  /\ UNCHANGED <<pc, numShards, disk, shards, sent, deleted, cut, crashes, faults, shardless>>

-----------------------------------------------------------------------------
(* DeleteIndex, under the lock that no call of Index holds then: it closes *)
(* the shards and removes the directory entry by entry, in any order.      *)
DeleteIndex ==
  /\ pc = "open"
  /\ batch = {}
  /\ pc' = "removing"
  /\ shards' = << >>
  /\ deleted' = deleted \cup UNION {docs[n] : n \in Numbers}
  /\ acked' = {}
  /\ UNCHANGED <<numShards, disk, batch, sent, cut, crashes, faults, shardless>>

RemoveEndtime ==
  /\ pc = "removing"
  /\ endtime # "absent"
  /\ endtime' = "absent"
  /\ UNCHANGED <<pc, numShards, dir, shard, docs, shards, batch, history, cut, shardless>>

RemoveShard(n) ==
  /\ pc = "removing"
  /\ shard[n] # "absent"
  /\ shard' = [shard EXCEPT ![n] = IF @ = "ok" THEN "torn" ELSE "absent"]
  /\ docs' = [docs EXCEPT ![n] = {}]
  /\ UNCHANGED <<pc, numShards, dir, endtime, shards, batch, history, cut, shardless>>

Removed == endtime = "absent" /\ \A n \in Numbers : shard[n] = "absent"

RemoveDir ==
  /\ pc = "removing"
  /\ Removed
  /\ dir' = FALSE
  /\ pc' = "idle"
  /\ cut' = {}
  /\ UNCHANGED <<numShards, endtime, shard, docs, shards, batch, history, shardless>>

(* os.RemoveAll returns an error; enforceRetention logs it and drops the   *)
(* index from the slice all the same.                                      *)
RemoveFails ==
  /\ pc = "removing"
  /\ faults < MaxFaults
  /\ faults' = faults + 1
  /\ pc' = "idle"
  /\ cut' = cut \cup {"removing"}
  /\ UNCHANGED <<numShards, disk, shards, batch, sent, acked, deleted, crashes, shardless>>

-----------------------------------------------------------------------------
Next ==
  \/ Start \/ Crash
  \/ NewIndex \/ MkdirAll \/ CreateEndtime \/ WriteEndtime
  \/ MakeShardsPanics \/ ShardOpen \/ BleveNewDone \/ NewIndexReturns
  \/ \E D \in SUBSET (Docs \ sent) : Cardinality(D) \in 1..MaxBatch /\ Index(D)
  \/ \E n \in Numbers : ShardIndex(n) \/ RemoveShard(n)
  \/ IndexReturns
  \/ DeleteIndex \/ RemoveEndtime \/ RemoveDir \/ RemoveFails

Spec == Init /\ [][Next]_vars

-----------------------------------------------------------------------------
(* Types, and what a file system guarantees: nothing is in a directory     *)
(* that is not there, and only a whole shard is open or holds documents.   *)
TypeOK ==
  /\ pc \in {"down", "failed", "idle", "open", "removing"} \cup Creating
  /\ numShards \in ShardFlags
  /\ dir \in BOOLEAN
  /\ endtime \in {"absent", "empty", "full"}
  /\ shard \in [Numbers -> {"absent", "torn", "ok"}]
  /\ docs \in [Numbers -> SUBSET sent]
  /\ ~dir => endtime = "absent" /\ \A n \in Numbers : shard[n] = "absent"
  /\ \A n \in Numbers : docs[n] # {} => shard[n] = "ok"
  /\ \A i \in DOMAIN shards : shard[shards[i]] = "ok"
  /\ acked \cup deleted \subseteq sent /\ batch \subseteq sent /\ sent \subseteq Docs
  /\ cut \subseteq {"creating", "removing"} /\ shardless \in BOOLEAN
  /\ crashes \in 0..MaxCrashes /\ faults \in 0..MaxFaults

(* While the index is open, every document whose Index call returned is in *)
(* the shard that Shard picks for its ID, where Document looks for it,     *)
(* through crashes, restarts and changes of -numshards, even if the index  *)
(* was created only in part.  The names must sort as the numbers do.  A    *)
(* directory that was removed in part and used again is the exception: its *)
(* old shards join the new ones at the next start.                         *)
DocumentFound ==
  (pc = "open" /\ "removing" \notin cut)
     => \A d \in acked : shards # << >> /\ d \in docs[Shard(d)]

(* A start fails only if the process died within NewIndex or a removal was *)
(* left unfinished: nothing else that may happen between two starts leaves *)
(* a directory that OpenIndex refuses.  An open index has no shard to      *)
(* route to, so that the next event ends the process with a division by    *)
(* zero, only for the same reasons or because its directory was made under *)
(* a -numshards of 0 or less, which NewIndex and main accept; a start with *)
(* another -numshards does not mend it.                                    *)
StartFailsOnlyIfCut ==
  /\ pc = "failed" => cut # {}
  /\ (pc = "open" /\ shards = << >>) => cut # {} \/ shardless

(* A document that was deleted with its index is never in an open shard    *)
(* again, although NewIndex takes over a directory that exists, unless a   *)
(* removal was left unfinished.                                            *)
DeletedStaysDeleted ==
  (\E i \in DOMAIN shards : docs[shards[i]] \cap deleted # {})
     => "removing" \in cut

(* engine.go 126: "NewEngine returns a new indexing engine, which will use *)
(* any data located at path": a start with the data of an earlier run      *)
(* opens it.                                                               *)
UsesDataAtPath == pc # "failed"
=============================================================================
