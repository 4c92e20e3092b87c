# A TLA+ verification of Ekanite

Ekanite is a syslog server with full-text search. Collectors read log lines from
TCP connections and UDP packets, a batcher groups them, an engine writes each
batch into the index of its time range, a retention goroutine deletes old
indexes, and two query servers let clients search all of them. This directory
holds TLA+ models of those parts, TLC configurations that check them on small
instances, and, for every part but the parser of the query language, TLAPS
proofs for every instance.

    tlc -workers 2 -config engine.cfg MCEngine     # any row of the table of runs
    tlapm EngineProofs.tla                         # any of the ...Proofs modules

`PROJECT.json` maps each definition to the lines it models, and lists runs,
mutants, findings, hazards and theorems.

## Inventory

| Part (source) | State | Operations | Interacts with | What is hard |
|---|---|---|---|---|
| Batcher (`engine.go` 36-107) | channel, batch, timer | receive, time out, send | collectors through `C()`, engine through `Index`, `drainLog` through `errChan` | timer against full batch, failing `Index`, full channel |
| Engine (`engine.go` 109-344) | `e.indexes`, `e.mu`, the data directory | `Open`, `Close`, `Index`, `createIndex`, `enforceRetention` | batcher, retention goroutine, main | lock upgrade, retention in between, crashes, dropped errors |
| Search (`engine.go` 346-379) | a position in `e.indexes` | `Search`, one goroutine per query | reads the slice without the lock | everything that changes the slice meanwhile |
| Index and Shard (`index.go`) | time range, shards, directory, endtime file | `NewIndex`, `OpenIndex`, `Index`, `Search`, `Document`, `DeleteIndex` | bleve, file system | half-done file operations |
| Collectors (`input/collector.go`) | a delimiter per connection, the sequence number | read byte, time out, end, read packet, send | batcher's channel | pauses within a message, blocking on the channel |
| SyslogDelimiter (`input/delimiter_syslog.go`) | buffer, current expression | `Push`, `Vestige` | collector | cutting byte by byte |
| Parsers (`input/parser.go`, `parser/`) | none | `Parse` | collector | |
| NetstrDelimiter (`input/delimiter_netstrings.go`) | two buffers, a mode | `Push`, `Reset` | no user yet | lengths, Reset |
| rfc5424.Delimiter (`rfc5424/delimiter.go`) | buffer, state, `priLen` | `ReadLine` | no user yet | slice arithmetic |
| Query language (`query/`) | lexer, one token of look-ahead | `Parse` | no user yet | precedence |
| Query servers (`server.go`, `server_http.go`) | a reader or request, a slice of results | one query at a time per connection | `Search` through its channel of one | clients that stall, vanish or send ahead; telling answers apart |
| Document IDs (`event.go`, `input/event.go`) | a memoized reference time | `ReferenceTime`, `ID` | the order of search results, the key in the store | times before 1970, numbers after a restart |
| Status (`status/`) | map of providers | register, serve | | |
| ekanited (`cmd/ekanited/main.go`) | | start, wait for a signal, `Close` | all | shutdown while the rest runs |

What makes them correct, in short: an accepted event reaches the engine exactly
once and in order; an event the engine took is on disk until retention may
delete it; the slice of indexes is ordered and no directory is open twice;
expired indexes go away; whatever a dead process left on disk, documents are
found in the shard they were put into; searches return messages in the order they
occurred and clients get whole answers; an end of the process costs only the
latest events; streams are cut into exactly their messages, queries parsed by
their grammar.

## Modules

| Module | Models |
|---|---|
| `OrderedDelivery` | abstract: accepted events are delivered in order, at most once |
| `Batcher` | `Batcher.Start` with collectors, timer and `drainLog` around it |
| `BatcherProofs` | proofs about `Batcher` |
| `Engine` | `Open`, `Close`, `Index`, retention, the disk, crashes and faults |
| `EngineProofs` | proofs about `Engine` |
| `EngineSearch` | extends `Engine` with one search |
| `EngineSearchProofs` | proofs about `EngineSearch`, on top of `EngineProofs` |
| `IndexStore` | one index's directory, endtime file and shards, file by file |
| `IndexStoreProofs` | proofs about `IndexStore` |
| `SyslogDelimiter` | `Push`, `Vestige` and the acceptance test of the parser, as operators |
| `Collector` | the TCP and UDP loops around `SyslogDelimiter` |
| `CollectorProofs` | proofs about `Collector` with `SyslogDelimiter` |
| `Ekanited` | extends `Batcher` with main, the sequence number, document IDs and the documents on disk |
| `EkanitedProofs` | proofs about `Ekanited` |
| `QueryServer` | a connection to a query server, its search goroutine and its client |
| `QueryServerProofs` | proofs about the pages and the answers that clients get |
| `NetstrDelimiter`, `Rfc5424Delimiter` | the two other delimiters, as operators |
| `QueryLexer` | the query lexer as operators, and its tokens read off a whole text |
| `Scanners` | feeds those two delimiters and the lexer with streams |
| `ScannersProofs` | proofs about `Scanners` |
| `Query` | extends `QueryLexer`: the query parser as recursive operators, and the grammar to compare it with |
| `Decoders` | extends `Scanners` and `Query`: a call of the parser besides |
| `MC...` | the constants of the runs |

Definitions marked *Deviation* in a comment are no part of any specification.
Each one is a plausible bug, paired in `PROJECT.json` with the property that
catches it.

### Batcher

Events are numbered in the order of the channel. `pc` tells whether the goroutine
is at its select, inside `Index`, or in the send on `errChan`. The timer is a
Go 1.13 timer: its channel holds one tick, and neither `Stop` nor `Reset` takes a
tick out. `FullBatch` is `timer.Stop(); send()`; the timer may have expired just
before. `IndexErr` is the early return of `send`, which leaves batch and timer as
they are. An event enters through the channel's buffer (`SendEvent`, `Receive`) or
goes from a collector's hand into that of the waiting goroutine (`Handoff`), the
only way when the channel has no buffer (`MaxPending` = 0, as in the repository's
tests). `BatcherAssumption` leaves out values of the flags that main does not
check: with `-batchsize` 0 no batch is ever full, a negative size or a negative
`-maxpending` panics in `make` when the process starts.

### Engine

An index is its range and an id that tells two objects on one path apart; `dirs`
is the data directory with the contents of the `endtime` files, `stored` the
documents, and both survive crashes. `ipc` names the statement at which a caller
of `Index` can be interleaved with others:

    route -> (RUnlock) upgrade -> (Lock) recheck -> sort -> unlock -> relock -> route

`CreateIndex` appends, then `SortSwap` makes one swap of `sort.Sort` after the
other until the slice is sorted (`SortEnd`), because searches see the slice in
between. Up to twelve elements Go swaps two that are out of order, first at a
distance of six (from seven elements on) and then neighbours; `MaySwap` leaves the
distance open, so that short slices show what longer ones go through, and beyond
twelve (quickSort) it allows every swap. A search could even see one half of a
swap; no property speaks of a slice that is being sorted. `Open`'s sorts are
one step each: nothing reads the slice before `Open` returns. `WriteShard` writes one shard's part of one
sub-batch, in any order. `RetentionKeep`, `RetentionDelete` and `RetentionEnd`
are the iterations of `enforceRetention`'s loop, which filters in place. `Close`
walks a copy of the slice header, whose elements `createIndex` may still move, and
takes no lock. `Crash` is the end of the
process at any moment.

Abstracted: times are natural numbers; a batch is a sequence of distinct events
that were not indexed before (`StoredKept` of `Ekanited` is why IDs are distinct);
`NewIndex` and `os.RemoveAll` are one step each, where a failing removal keeps
the directory and any part of the documents (`IndexStore` splits them). `IndexDuration` is the same for
every start, as in `ekanited`, which has no flag for it; the number of shards may
be anything.

### EngineSearch

Each read of `e.indexes` in the goroutine of `Search` is a step of its own. A
search of an index that retention has closed returns an error (the loop breaks)
or, through an alias of several shards, an empty result. `SearchPanic` is an
index expression out of range, which ends the process. `steady` is history: "yes"
until an index has gone from the slice since the search began ("gone") or
`createIndex` has added one ("come").

### Collector

A byte is one of the classes the regular expressions tell apart. A peer's stream
is fixed at the start; it may pause for longer than the read deadline anywhere,
close, or break the connection. Reading, cutting, parsing and drawing the
sequence number are one step, because only the last touches shared state; the
send on the channel is another.

A packet is read over what the one UDP buffer holds; only the part that was
filled becomes an event.

### IndexStore

`Engine` takes `NewIndex`, `OpenIndex` and `DeleteIndex` as single steps.
`IndexStore` follows one directory through them: `pc` is the next file operation
of `NewIndex`, or whether the index is open or being removed. `Crash` is
possible between any two operations, `bleve.New` and the removal of a shard have
a torn state in between, and every start may have another `-numshards`.
`listShards` sorts names, not numbers; `Shard` takes the hash modulo the number of
shards that were opened, and with none the process panics (`Index` with
`shards = <<>>`). `cut` records what was left unfinished in the directory that is
there. `-numshards` is any integer, as main and `index.go` 102 accept it: too many
are refused, with 0 `NewIndex` returns an index without shards, with fewer `make`
panics behind the directory it has made (`MakeShardsPanics`); `shardless` records
that the directory was made with such a flag.

### QueryServer

One connection of either protocol; `http` tells which. Text is a sequence of
lines and newlines, so that the marker of two newlines can be looked for in what
a client has read: `Ends` are the places where an answer ends, by the number of
newlines in a row, and `Decoded` is the text of an answer without the newlines
around it. Both are defined by positions in the text, so that they can be proved
about. A write blocks while the socket is full and is lost
when the client is gone; neither handler looks at its error. `search` is the
goroutine of `Engine.Search` reduced to its channel; what it finds is the
subject of `EngineSearch`. `Engine.Search` itself returns no error today; the
handlers' error paths are modelled from the interface `Searcher`.

### Ekanited

`phase` walks through what main starts. Every part may refuse to start
(`log.Fatalf`), and the process may be killed (`Die`). At a signal, main calls
`Engine.Close` while collectors and batcher go on, and when main returns the
batcher's contents are gone (`End`). The write of an event may fail at any time,
because of the store, of an index that retention has closed, or of `Close`
(`index.go` 366-376); its error is dropped (`index.go` 263, `engine.go` 339), and
`dropped` records the event (`Write`). An ID is a pair of words modulo `WordSize`; storing a document replaces
one with the same ID. Collecting an event is one step here and two in
`Collector`, and the engine is reduced to its documents.

### Scanners, Query and Decoders

What is under test is chosen at the start together with its input. `Scanners`
holds what has no recursive operator and is proved about; `Decoders` adds the
parser. `Reset` may be
called at any byte. `MaxInt` stands for the largest int, where `Atoi` fails. A
text for the lexer consists of pieces: words, white space, separators, and NUL,
which the lexer takes for the end. The parser works on tokens; to unlex one is to
return its own position. `QueryLexer` and `Query` also define tokens, grammar
and trees over a whole input, which the results are compared with.

## Runs

| Run | Expected | Shows |
|---|---|---|
| `batcher` | pass, 896 states | `ExactlyOnceInOrder`, `WaitingBatchIsTimed`, `OutstandingBound`, `EventuallyIndexed`, and `DeliversInOrder`: the batcher implements `OrderedDelivery` |
| `engine` | pass, 447,044 states | `IndexesOrdered`, `AckedRetained`, `OneOpenIndexPerPath`, `RetentionOnlyTruncates` with a restart and a fault |
| `engine_callers` | pass, 103,822 states | two callers: `OneOpenIndexPerPath`, `IndexReturns`, `ExpiredRemoved` |
| `engine_leak` | violation | a removal that failed once is never tried again (`ExpiredRemovedDespiteFault`) |
| `search` | pass, 1,176,609 states | `SteadySearchComplete`, `SearchInOrder`, `SearchEnds` |
| `search_panic` | violation | a search panics when retention shortens the slice (`SearchNeverPanics`) |
| `store` | pass, 919,202 states | `DocumentFound`, `StartFailsOnlyIfCut`, `DeletedStaysDeleted` through deaths of the process anywhere |
| `store_start` | violation | a process that dies within `NewIndex` leaves a directory no later process starts with (`UsesDataAtPath`) |
| `collector` | pass, 109,006 states | `FramedExactly`, `WholeUnlessInterrupted`, `PacketsWhole`, `SequencesOrdered`, `BufferFlushed` |
| `decoders` | pass, 590,751 states | `NetstrDecoded`, `RfcLinesExact`, `RfcNoByteLost`, `LexedByRuns`, `QueryAccepted`, `TreeByPrecedence` |
| `server` | pass, 82,418 states | `AnswersDecoded`, `PageComplete`, `SearchReleased`, `Answered` |
| `ekanited` | pass, 618,132 states | `LossIsRecent`, `StoredKept`, `IDOrder`, `EventuallyStored` over two runs of the process |

Each violation contradicts a sentence of the repository that its finding in
`PROJECT.json` quotes. Three more findings are about passing runs, whose property
states what the code does and not what a sentence of the repository says:
`OutstandingBound`, `SearchInOrder` and `NetstrDecoded`, below.

### What the passing runs exclude

Where the code does not keep a promise one might expect, the property says so in
a condition of its own:

- A tick left over from a batch that filled up sends the next batch early;
  nothing is lost by it (`ExactlyOnceInOrder`).
- After a failed `Index` a batch may wait for ever, because its length passes the
  size with its timer stopped: `EventuallyIndexed`, `WaitingBatchIsTimed` and
  `OutstandingBound` end at the first failure. `Engine.Index` returns no error
  today.
- `OutstandingBound` is `MaxPending + Size`. The documents promise `MaxPending`:
  "a maximum number of unprocessed Events it will keep pending. Once this limit is
  reached, it will not accept anymore" (`engine.go` 37-39), "a maximum outstanding
  count of max" (`engine.go` 48-49), "Maximum pending index events" (`main.go` 71).
  `max` is the capacity of the channel only; the batch, waiting or being indexed,
  comes on top, and the run reaches the sum.
- `AckedRetained` excuses events whose write met an error of the store or a
  closing engine, because `Index` drops those errors.
- `SteadySearchComplete` speaks of searches during which no index came or went;
  the others may skip an index or be cut short.
- `SearchInOrder` excludes a search during which `createIndex` appends an index
  and sorts the slice, although "search results are presented in the order the
  messages occurred" (`README.md` 10). From seven indexes on (eight are what the
  default retention of 168h keeps), `sort.Sort` first swaps at a distance of six:
  the earliest position then holds one of the latest indexes for a moment, and a
  search that reads it there sends its messages first. With the slice [2..4),
  [0..2), [4..6), the last just appended, TLC shows it by a swap of the outer two.
  An index that comes after others have gone can be earlier than what was sent,
  too. Searches beside retention, `Close`, writers and the leftovers of a failed
  removal are covered.
- `DocumentFound` and `DeletedStaysDeleted` except a directory whose removal was
  left unfinished: `NewIndex` takes it over (its check for an existing index,
  `index.go` 107, never fires), with the old shards in it.
- `StartFailsOnlyIfCut` excuses a directory made with `-numshards` 0 or less
  (`shardless`): it has no shards although nothing was cut, and `Shard` divides by
  zero in it at every later start.
- `LossIsRecent` and `EventuallyStored` excuse an event whose own write failed
  (`dropped`), as `AckedRetained` does.
- `StoredKept` ends when the clock is set back between two runs: then sequence
  numbers repeat and a document may replace another.
- `AnswersDecoded` and `Answered` speak of messages without an empty line; one
  with an empty line is read as the end of the answer.
- `SearchReleased` excludes a client of the line protocol that stays connected
  and does not read: there is no write deadline, and it holds its search.
- `TreeByPrecedence` excludes queries with both OR and NOT: `Parse` compares a
  new operator with the root only, two levels of precedence are right, three are
  not.
- `NetstrDecoded` excludes a `Reset` within a message and a `Reset` of a broken
  delimiter. "Reset the NetstrDelimiter instance to its initial state"
  (`delimiter_netstrings.go` 54) does not hold there: the digits in `lenBuff` and
  `brokenMode` stay.
- `RfcLinesExact` excludes streams with malformed headers: `priLen` then disagrees
  with the bytes read and `line` cuts at the wrong place. `RfcNoByteLost` covers
  them.

### Bounds

- Batcher: batches of three, a channel of two, eight events, two failures. The
  timer can expire before, with and after the last event of a batch, the channel
  fills up behind `Index`, and two batches follow the first. A channel without a
  buffer is left to the proofs.
- Engine: three events, two of which share an index; the clock runs from 0 to 4
  with ranges of 2 and a retention of 1, so retention can take the first index
  while a call that has routed an event to it waits for the write lock. One
  caller with batches of two, a restart and a fault; or two callers, for the race
  to create.
- Search: a retention of 0 and a limit of two hits, reached by one index; the
  later index can be created in front of the one being searched. Two indexes show
  one swap; longer sorts are left to the proofs, which hold for every order of the
  slice while it is being sorted.
- Store: three documents in batches of up to two, starts with -1, 0, 2, 3 or 5 shards,
  two deaths, one failing removal. Names have one digit of base 4, so 5 shards
  are what 10000 are with `%04d`: `NewIndex` must refuse them, or the names sort
  differently from the numbers. Two deaths suffice for one within `NewIndex` and
  one within the removal of what the first left.
- Collector: three streams of 13 to 14 bytes (CRLF, a continued line,
  leading garbage, a priority within a message, an empty line, a message without
  text), two
  pauses anywhere, a UDP packet longer than its buffer and a shorter one after
  it, a channel of one. One
  connection: connections share only the sequence number and the channel, and the
  UDP goroutine is the competitor for both.
- Decoders: every pair of values of up to two bytes, every stream of up to five
  bytes, every arrangement of four pieces behind a newline; every text of up to
  five pieces, every sequence of up to six tokens (four with white space), and
  chains of five terms, for which the tree is rearranged more than once.
- Server: three lines or two requests of every kind, an answer of three results
  (one of two lines) and an empty one, a socket of one write: the channel of the
  search, the handler and the socket are all full when the client stalls.
- Ekanited: batches of two, a channel of one, five events (full channel, full
  batch, one in the hand of a collector, one more), two runs of the process,
  timestamps on both sides of 1970 and none, a clock that stands still or is set
  back between the runs. Standing still is the worst of the clocks that are not
  set back. One write fails, at any time.

### Fairness

- Batcher: the goroutine keeps being scheduled, `Index` and `drainLog` return, and
  a running timer expires. Collectors need not send.
- Engine: goroutines keep being scheduled and calls of bleve and the file system
  return. Locks are strongly fair: `sync.RWMutex` starves neither readers nor
  writers. Retention keeps waking up (`time.After` in a loop). Nothing makes time
  pass, a caller call, or the process start, stop or crash.
- Search: its goroutine keeps being scheduled and its results are received.
- Server: the handler and the search's goroutine are scheduled, and a client that
  is reading reads. A client owes nothing: it may stall, or go, at any time.
- Ekanited: the batcher's goroutine is scheduled, writes end, a running timer
  expires and `Close` returns. Nobody owes an event, a start or a signal.
- Collector: the batcher receives (shown in `Batcher`), blocked senders are
  served in turn, and a read without a byte times out.

## Proofs

`BatcherProofs` proves, for every size, capacity (0 included), number of events and number of
failures, `TypeOK`, `ExactlyOnceInOrder`, `WaitingBatchIsTimed`,
`OutstandingBound` and the refinement of `OrderedDelivery`. The invariant says
where events are: the indexer has 1..a, the batch a+1..b, the channel b+1..sent
(`Placed`; while the goroutine notifies `errChan` the batch is already counted as
indexed), and, until the first failure, that a full batch is only found inside
`send` and a waiting one has a timer (`Timed`). `ExactlyOnceInOrder` is not
inductive as an equation of concatenated sequences, so `Placed` states it by
positions.

`EngineProofs` proves, for every set of events, reference times, hashes, shards,
index duration, retention period and callers, and any number of restarts and
faults, `TypeOK`, `IndexesOrdered`, `OneOpenIndexPerPath`, `AckedRetained` and
`RetentionOnlyTruncates`. The assumptions are those of `EngineAssumption`:
durations are positive where the code divides by them. The invariant `IInv` has
seven parts:

- `TypeOK`;
- `Locked`: the lock state is what callers and retention believe it is, so a
  section under the write lock runs alone;
- `Sorted`: every range starts at a multiple of the duration and is one duration
  long, on disk and in memory, with distinct starts. Ranges are then equal or
  disjoint, `Less` is a strict order on them, and the same-start branch of
  `createIndex` is never taken. The slice is descending but while it is being
  sorted: a swap keeps its elements, so the sort can only end in that order;
- `Filtered`: retention has kept everything so far, or all that follows has
  expired: in a descending slice the expired indexes are the last ones;
- `Opened`: the open objects are those of the slice that retention has not passed;
- `Routed`: an index a caller is about to write to contains the event and is
  open, or has expired, or the engine is closing. This is what makes the lock
  upgrade safe: retention can only have taken an index whose events need not be
  kept;
- `Accounted`: every event of a call is still to be routed or written, or is
  stored, excused or outlived.

`EngineSearchProofs` proves `SearchInOrder` and `SteadySearchComplete` for every
engine of `EngineProofs` and every limit on hits (`SearchAssumption`: the limit is
positive, the events are finitely many and none is the empty result). A step of a
search leaves the engine alone or ends the process, so the engine's invariant
holds beside a search too. `SearchInv` adds

- `Filed`: documents lie in the directories of their times;
- `OrderInv`: as long as no index has come since the search began, the slice is not
  being sorted and all that the search may still send is later than what it has
  sent (`Ahead`). Every step of the engine that adds no index leaves the slice or
  shortens it (`Shortened`), so what is ahead of a search stays ahead of it.
  `SearchInOrder` alone is not inductive: it says nothing of the indexes to come.

Completeness needs `CompleteInv` besides: of the indexes behind the search all is
sent, of the current one all is sent or among the hits to fetch, where writers
may add documents but take none away.

`IndexStoreProofs` proves `TypeOK`, `StartFailsOnlyIfCut`, `DeletedStaysDeleted` and
`DocumentFound` for every hash, base and width of names, every set of integers as
values of `-numshards` and any number of deaths and faults. `StoreAssumption` asks that the largest count
`NewIndex` admits can be written in the width of the names, which `maxShardCount`
and `%04d` satisfy. The invariant: how far `NewIndex` has come (`Staged`), that a
directory without unfinished business can be opened (`Whole`), that deleted
documents are gone (`Gone`), and `Placed`: unless a removal was interrupted the
shards on disk are 0..k-1, and every acknowledged document is in the one its hash
modulo k picks. The last needs that `listShards` returns the shards in the order of
their numbers: names padded to one width sort as their numbers do. Digits are a
recursive function, and the fact about them is proved by looking at the least
number for which it fails.

`CollectorProofs` proves `SequencesOrdered`, `PacketsWhole`, `FramedExactly` and
`WholeUnlessInterrupted` for every set of connections, every stream and packet, buffer size,
capacity of the channel and number of pauses. The invariant has, next to types
and the end of a goroutine (`Typed`, `Ended`),

- `Numbered`: no number is beyond the counter, and an event in the hand of a
  goroutine differs from all others and follows all of its source;
- `PacketInv` and `Framed`: what has been read and parses is in the channel, in
  order and once each, but for one event in the hand. It counts, since
  "whole, in order" does not say "all";
- `Framing`: the buffer of a delimiter is a part of its stream that begins at the
  stream's beginning, at a pause or with a priority, and holds no priority after a
  newline other than one still incomplete. From this follows that the expression,
  matched against the buffer at every byte, cuts where the definition over the
  whole stream does;
- `Uninterrupted`: a message that no pause hits is delivered, in the hand, in the
  buffer from its first byte on, or still to come.

`EkanitedProofs` proves `LossIsRecent` for every size, capacity, number of events
and of ends of the process: `LossInv` says that the batcher holds the events
accepted last (`Held`) and that every other one was written, was dropped by its own
write, or is excused by an end of the process (`Accounted`). `StoredKept` and `IDOrder` are proved for behaviours in which the
clock stays below 2^64 ns (`ClockFits`, until the year 2554), and `IDOrder` for
timestamps that fit a word too (`TimestampsFit`): beyond that, words wrap around
and IDs do collide. `KeptInv` adds that numbers grow from event to event over all
runs (`Drawn`), unless the clock was set back.

`QueryServerProofs` proves `PageComplete` and `AnswersDecoded` for every set of
queries and results, every size of the socket and every client.
`ServerAssumption` asks that queries are told apart from the other requests, and
that the text of an error is a line. `Paged` says that slice, channel and what
the search has yet to send are, in this order, the results of the query being
served, and that pages received, in the socket and in the making number the
requests taken. `AnswersDecoded` is a statement about the text a client has read,
which says nothing of the text on its way; the invariant (`LineInv`) therefore
speaks of the text written:

- `Delivering`: what the search has yet to send is the end of the results of the
  query being answered;
- `Carried`: some text begins with what was received and goes on with the writes
  in the socket, cut where each write ends;
- `Stage`: that text is, depending on where the handler is, answers to all the
  queries taken with nothing open behind them (`Idle`), or answers to all but the
  last with the messages sent so far behind them (`Saying`);
- `Right`: every answer that ends in the text received is the right one. It is
  kept when the client reads, because the decoding of a text does not change when
  text is added behind it, and when the client has gone, because nothing more is
  read then.

`ScannersProofs` proves what the delimiters without a user and the lexer return,
each for every stream (`ScannersAssumption` only says what bytes are, and that
the lengths of encoded values fit an int):

- `LexedByRuns`: between two calls the lexer is at the start of a token (`LexInv`);
- `RfcNoByteLost`: the number of bytes that `line` cuts off, `priLen` and the
  header's fixed part, is never more than what has come since the last cut
  (`Counted`, in `RfcInv`);
- `RfcLinesExact`: the delimiter waits for the first newline, stands between
  headers, or is within one whose digits `priLen` counts, and has cut before
  every header up to there (`Before`, `Between`, `Within` in `ScanInv`);
- `NetstrDecoded`: behind the last result the delimiter has read digits only, or
  it is within the value of the one possible colon, or there is no length and it
  is broken (`Counting`, `Valuing`, `Stuck` in `NetInv`). That an encoding is
  decoded completely rests on `Atoi(Decimal[n]) = n` and on where `Encode` puts
  each value. `Decimal`, `Atoi` and `Encode` are recursive functions; what they
  compute is proved by stepping through a set of indices (`StepByStep`) or by the
  least number for which it fails.

### Only model-checked

- Liveness (`EventuallyIndexed`, `IndexReturns`, `ExpiredRemoved`, `SearchEnds`,
  `BufferFlushed`, `SearchReleased`, `Answered`, `EventuallyStored`): fairness is
  outside the prover.
- The parser (`QueryAccepted`, `TreeByPrecedence`): it calls itself through
  parentheses, is written with RECURSIVE operators as the code is, and what it
  computes for every input is an induction over data.

## Not modelled

The contents of documents, query evaluation and the files of a shard (bleve);
TLS, listeners, flags, profiling, statistics and logging; the fields of a parsed
message other than its timestamp, and the Watchguard expression; `Total` and
`Path`, which only read; `rfc5424.Reader`, a stub; the HTML and headers of the
HTTP server; the status service, one mutex around one map for which nothing
registers a provider. None of these keeps state that another part relies on.

## Plan

Done, in this order: `Batcher` with its refinement and proofs, `Engine` with its
proofs, `EngineSearch`, `Collector` with `SyslogDelimiter`, the two other
delimiters, `IndexStore`, `Ekanited`, `QueryServer`, `Query`; then the proofs about
`IndexStore`, `Ekanited`, `Collector`, `EngineSearch`, `QueryServer` and
`Scanners`. Every invariant and action property that a run checks is proved, but
for the two about the parser. Left:

1. The parser as a recursive function over positions, with a proof that what it
   accepts is the grammar's, by the least position at which they differ.
2. The fields of a parsed message, once a component other than the parser depends
   on them.
