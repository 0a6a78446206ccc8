# TLA+ specifications of mini_db

mini_db is a small storage engine in Go: files of fixed-size pages, a buffer
pool over them, and two access methods on top of the pool, a heap and a B+Tree.
This directory holds TLA+ models of its parts, TLC configurations that check
them on small instances, and TLAPS proofs of the properties that matter most.

## 1. The system

| part | source (`src/internal/...`) | state | operations |
|---|---|---|---|
| disk manager | `storage/disk/disk.go` | the file, the cached page count, a mutex on the count | Open, Close, ReadPage, WritePage, AllocatePage, Sync, NumPages |
| LRU replacer | `storage/buffer/lru_replacer.go` | the idle frames by recency | Unpin, Pin, Victim |
| buffer pool | `storage/buffer/buffer_pool.go` | frames, frame metadata, page table, free list, replacer, registered files; one mutex | Register, fetch, newPage, unpin, flushPage, FlushAll, Sync |
| slotted page, tuple | `storage/page/*.go` | header, slot directory, tuple area of one page | Init, InsertTuple, Slots, accessors |
| heap | `access/heap/heap.go` | none of its own: pages of the pool | Insert, Get, Scan |
| B+Tree | `access/nbtree/*.go` | none of its own: a meta page and node pages | NewBTree, Insert, Search, Scan |
| catalog | `catalog/*.go` | tables, next id, a JSON file; one mutex | Open, CreateTable, CreateIndex, GetTable, ListTables |
| record codec, bit helpers | `record/record.go`, `util/bits.go` | none | Encode, Decode; ReadBits, WriteBits |
| server | `cmd/server/main.go` | none (a stub) | |

How they interact.  The pool calls a disk manager per file, always with its own
mutex held except in Sync, which calls fsync outside it.  Heap and B+Tree see
the pool through a four-method `pager` (FetchPage, NewPage, UnpinPage,
NumPages).  They read and write page bytes *outside* the pool's mutex, through
the pointer they were given, and tell the pool afterwards, with the `dirty`
argument of UnpinPage.  The catalog persists on its own and shares nothing with
the pool.

What is hard about it:

- a frame is handed out as a pointer, and the pool must not reuse it while the
  pointer is live;
- the pool learns of a change only when the writer unpins; flushes may come in
  between and copy half of a change;
- every operation of the pool and of the tree has several steps that can fail,
  and each failure leaves by a different path;
- the disk manager does its I/O after releasing its lock;
- what is on the device lags behind the file, which lags behind the frames;
- a scan runs a caller's function in the middle of its own traversal.

## 2. Modules

```
LRUReplacer    PageStore     DiskManager     Catalog     BTreeNode   SlottedPage   Bits
    |              |              |             |            |            |          |
BufferPool --------+        MCDiskManager   MCCatalog     NBTree        Heap       Tuple
  |    |           |                                         |            |          |
  | Checkpoint  BufferPoolRefinement                    NBTreeLeaves   MCHeap      Record
  |    |           |                                         |                       |
  | MCCheckpoint  MCBufferPool                           MCNBTree                MCRecord

proofs, each extending the one before it and the module it is about:
BufferPoolSteps -> BufferPoolProofs (with Checkpoint)
DiskManagerProofs
HeapProofs
CatalogProofs
NBTreeLemmas -> NBTreeSteps -> NBTreeProofs
```

### LRUReplacer and BufferPool

The replacer is the sequence of its list, most recently used first.  The pool's
variables are the fields of the `BufferPool` struct (`frames`, `meta`,
`pageTable`, `freeList`, `replacer`), one image per page on disk, and, for the
callers, the frame each holder's pointer refers to.  Because each method runs
under the pool's mutex, each is one atomic step.  One step per outcome:

| action | code |
|---|---|
| `Register` | Register |
| `FetchHit`, `FetchLoad`, `FetchReadFails` | fetch: hit; miss and load; miss and failed read |
| `NewPageBound`, `NewPageAllocFails` | newPage: success; failed AllocatePage |
| `NoFreeFrame`, `VictimWriteFails` | acquireFrame's two errors |
| `Store` | a holder writes through its pointer, with no lock |
| `UnpinPage`, `UnpinRefused` | unpin and its two refusals |
| `FlushPage`, `FlushPageSkips`, `FlushAll` | flushPage, FlushAll; FlushAll visits the map in any order and may stop at any page |

Page contents are values; `Torn` stands for contents nobody wrote.  A flush of
a page that a holder may be writing (it has stored through the pointer and not
unpinned yet) leaves either the page or `Torn` on disk: the code does not
isolate the copy from the writer.  A failed write may leave `Torn` as well.
After the failed write-back of a victim the model, like the code, puts the
victim back as the most recently used candidate: "exactly as it was" in
acquireFrame's comment is true of the pages, not of the eviction order.

`PageStore` is what the pool promises: a map from pages to contents, where a
holder gets a page, stores into it and releases it, and nothing else changes
anything.  `BufferPoolRefinement` maps the pool to it: a page's content is the
frame's if it is resident, else the disk's.

### Checkpoint

The pool over files of which the device has an older state.  Every step of the
pool is a step here (`PoolStep`).  `Flush` is a FlushAll that returned nil;
`SyncBegins` takes Sync's snapshot of the registered files under the lock, and
`SyncFile` or `SyncFails` is dm.Sync of the next file, with the lock free, so
that fetches, evictions, stores, new pages and new files come in between.
`OSWriteBack` moves a page to the device whole or torn, and `Crash` starts a new
process, whose Open counts the pages that the device has.  `promised` has, for
each page, what the last completed checkpoint has covered, until the page is
written to its file again.

### DiskManager

Goroutines execute ReadPage, WritePage and AllocatePage step by step: the
page-count check under the lock, then the I/O one chunk (half a page) at a
time, then, for AllocatePage, the increment and the unlock.  Any I/O may fail
after any chunk, or because Close came first.  `durable` is what the device
holds: the OS moves chunks there when it likes and Sync moves all; `Crash`
leaves only that and Open starts from it.  fsync, the OS cache and the crash
are external to the repository.  The limit `MaxUint32` is a constant, so the
boundary of the 32-bit counter is reached.  A buffer of the wrong length is an
immediate error in the code and is not modelled as a call.

The pool uses the disk manager under its own mutex, so `BufferPool` has one
atomic image per page; `PagesIndependent` and `CheckedIOInRange` are what
justifies that abstraction.

### BTreeNode and NBTree

`BTreeNode` has the node operations as operators on a node's live contents,
the binary search included.  `NBTree` runs Insert as a machine over an explicit
stack (insertInto is recursive): descend, insert into the leaf, split, absorb
or split in each parent on the way up, grow a root.  Each FetchPage and NewPage
may fail.  `pins` and `changed` follow what the tree tells the pool.  Scan is a
machine of its own whose callback point lets an Insert run.  Search and findLeaf
change nothing and are operators.  `NBTreeLeaves` adds the chain of leaves as a
reader of the `next` pointers finds it.

`damaged` turns true when an Insert fails after it has changed a node.  From
then on the tree's structural properties are not claimed (section 5 shows what
goes wrong); pins and dirty flags still are.  An insert into a node that a
failed split left at capacity would write past the key area; the model stops
there (`Overrun`).  NewBTree may fail on the meta page or on the root leaf; the
file then stays as it is for the next NewBTree, which refuses it.

### SlottedPage and Heap

A page is an array of words: `pd_lower`, `pd_upper`, two words per slot, free
space, tuples.  The sizes are scaled down and the arithmetic wraps as uint16
does, so the slot count of a zero page underflows as in the code; slices that
Go would refuse are `~Readable`.  `Heap` runs Insert in the steps between its
pager calls (last page, fall-through, new page, format) and Scan slot by slot,
with a callback point at which an Insert may run.  The pool is what `PageStore`
promises; `disk` has a page's last written version, and `Exit` loses the rest.

### Catalog

The catalog's mutex is held through a whole CreateTable or CreateIndex, so one
call is in progress at most, and `call` is where it stands: the state in memory
has changed, the temp file is being written, it is written, it is renamed.  Each
of these can fail (`SaveFails` with the rollback of the two methods), and the
process (`Exit`) or the machine (`Crash`) can stop there.  A file holds a whole
document, half of one, or nothing; a file name is the id it is made from.
`afterCrash` is what a machine crash may leave under `catalog.json`: since
nothing is synced, a rename adds the new document and a partial one to what was
possible before, until the OS has written everything back.  GetTable and
ListTables are steps of other goroutines, which need the mutex; `shown` has the
relations they have answered with.

### Bits, Tuple and Record

`Bits` has ReadBits and WriteBits with their checks, the window of bytes and the
uint16 arithmetic, for bytes of `ByteBits` bits.  `Tuple` has the slot entry and
the tuple header with their fields in the code's order, straddling bytes as they
do in the code.  `Record` has Encode and Decode: validation, the size
computed ahead, header, null bitmap and column data, and the walk back.  It is a
machine because the bytes live on: a row is encoded, then transaction ids, hint
bits and slot fields are stamped in any order.  Nothing in the repository stamps
the transaction fields yet; the setters are there for it.  Scaled are the size of
a byte (4 bits: a uint16 is 0..255, a page 64 bytes), of an int64 (2 bytes)
and of a transaction id (1 byte).

## 3. Runs

| run | instance | checks |
|---|---|---|
| `buffer_pool` | 2 frames, 2 holders, 2 files of at most 2 pages | `TypeOK`; `FrameStates` (free, idle or pinned, exactly one); `TableMatchesMeta`; `PointersValid`; `NoLostUpdate`; `ExhaustedOnlyByPins`; `ImplementsPageStore` |
| `disk_manager` | 2 goroutines, at most 2 pages of 2 chunks, zeros or one written value, crash and reopen | `CheckedIOInRange`, `OneIdPerPage`, `PagesIndependent`, `ReadsLastWrite`, `SyncedSurvives`, `CleanReopen` |
| `disk_manager_live` | the same with zeros only, no symmetry | `CallsReturn` |
| `checkpoint` | 1 frame, 1 holder, 2 files of at most 1 page, 2 values | `CheckpointHolds` |
| `nbtree` | 5 keys, leaf and internal capacity 3, one fault, scans over [2, 4] and an empty range | `OpenMeansRooted`, `PinsBalanced`, `FramesSuffice`, `EveryChangeReported`, `AnswersAgree`, `LeafChainOrdered`, `HalfFull`, `ScanExact`, `ScanShowsStored` |
| `heap` | 2 pages of 8 words, tuples of 0, 1, 2 and 5 words | `LayoutSound`, `PagesHoldStored`, `ChangesReported`, `PinsBalanced`, `ScanExact` |
| `catalog` | 2 table names, 2 index names, 2 columns, 4 relations | `MemoryMatchesFile`, `OneFilePerRelation`, `ReportedIsStored`, `ShownIsStored`, `AlwaysOpens` |
| `record` | every schema of at most 2 columns with every row; rows at the limits below | `RoundTrip`, `TruncationRejected`, `FieldsIndependent`, `BitsAgree` |
| `split_failure`, `root_failure` | violated: see section 5 | `RestingNodesHaveRoom`, `StoredKeysFound` |
| `zero_page` | violated: see section 5 | `ScanMeetsNoZeroPage` |
| `catalog_durability` | violated: see section 5 | `SaveIsDurable` |

Why the bounds are enough to be interesting.  Two frames for up to four pages
force eviction at every turn, and two holders can pin both; two files keep the
page key's two halves apart.  Two chunks are enough to tear a page, and two
pages for a neighbour to be hit.  With one frame every access to the other file
evicts, so that pages reach their file between FlushAll and each file's fsync; two
files are the least that a Sync can be between.  A node splits when it reaches its
capacity of 3, so resting nodes have one or two keys and five keys inserted in
ascending order make a tree of three levels; a leaf still has more than one entry
for a Scan to be in the middle of.  One fault is enough for each error path, since none retries.  A page
of 8 words takes two one-word tuples, or a two-word and an empty one, exactly,
and no tuple of five words.  Four relations
allow two tables with an index each or one with more, and a failed save before
and after each.  The rows of `record` reach the column counts around a byte of the
bitmap (3, 4, 5, 8, 9), around the largest that the header counts (31, 32) and
around the end of a uint16 (255, 257), texts that fill a page exactly or overrun
it, and texts around the longest that the prefix counts.

What some properties leave out.  `ScanExact` is about scans during which nothing
is inserted: a callback that inserts may split the leaf being scanned, whose
successor Scan has read already, and the moved entries are then passed over;
`ScanShowsStored` is what holds for these scans too.  `FramesSuffice` counts the
pages the tree pins, against the rule in NewBTree's comment: one frame more than
the tree is tall, and a second one when Insert is called from a callback.  With
`ExhaustedOnlyByPins` of the pool, such a pool never fails an Insert for want of
a frame.  `RoundTrip` excludes schemas of 65,536 columns and more, where Encode
cuts the count to 16 bits before it checks it; there the count that is checked is
another one.

Bounds that stand for nothing in the code: `MaxFiles`; `MaxPages` (the point
where AllocatePage refuses); `MaxPID`; `MaxFaults`; `Entry`, the pairs of key and
tuple id that may be inserted; `Bounds`, the ranges scans use; `Input`, `Xid` and
`Place`, the arguments of the codec and of the setters; `MaxID`, which keeps the catalog's unchecked uint32 counter from wrapping.

Fairness is used in one run only.  `FairSpec` of `DiskManager` assumes that a
goroutine inside a call is scheduled again, and that a goroutine waiting for the
mutex gets it if it is released again and again: `sync.Mutex` hands itself to
the longest waiter after one millisecond.  Nothing assumes that callers call.

## 4. Proofs

`BufferPoolProofs`, with the lemmas of `BufferPoolSteps` (the replacer, acquiring
and binding a frame, and the first of the steps), proves, for every pool size, finite set of holders, set of values and number of files and pages, that
every reachable state satisfies

    IInv == TypeOK /\ FrameStates /\ TableMatchesMeta /\ PointersValid /\ NoLostUpdate

They are not inductive one by one.  That a pointer stays valid needs the pin
count of a frame to be the number of its holders (in `PointersValid`) and
pinned frames not to be candidates (`FrameStates`); that an evicted page's entry
is the one deleted needs the page table and the metadata to be inverse
(`TableMatchesMeta`); that no update is lost when a page is evicted needs all of
these, since a candidate has no holder and so a clean candidate equals its disk
copy.  The argument goes along the code: `AcquireFrame` says what acquireFrame
returns (a frame in none of the three states, its old page on disk),
`BindPreserves` and `GiveBackPreserves` what becomes of that frame on the
success and on the error path, and one lemma per action combines them.

Theorems: `TypeCorrect`, `FramesNeverLeak`, `OneFramePerPage`,
`PointersStayValid`, `UpdatesNeverLost`, `ExhaustionIsReal`.
The same invariant proves `Refinement`: the pool implements `PageStore`.
`BufferPoolSteps` also has the facts about the replacer's operators (`PinRemoves` and its companions).  The assumptions are the
named ASSUMEs of `BufferPool`: a positive pool size, positive bounds, finitely
many holders.

`BufferPoolProofs` also proves `CheckpointTypeCorrect` and `CheckpointsHold` from

    CInv == IInv /\ CheckpointTypeOK /\ Flushed /\ Syncing /\ Promised /\ Known

What was flushed is in the files (`Flushed`); the files that Sync has passed have
it on the device too (`Syncing`); what is promised is in both (`Promised`); and
the pages of a registered file are at least those the device has (`Known`).  The
pool's invariant is needed at FlushAll: a page that nobody is writing is, after
it, equal to its image in the file.  Sync may leave its files' snapshot behind
the pool's because a file registered later can have no page that was flushed
before.  Assumed besides: the two markers are no page contents.

`DiskManagerProofs` proves the six safety properties of the run, the type invariant
and `Advertised` (every page that the count covers is in the file), for any set of
goroutines and values and any limit of the page counter:

    DInv == Control /\ Written /\ Reading /\ Durable

`Control` has the mutex (held exactly while a goroutine extends the file, at its
end), the page count against the length of the file, and that calls in progress
are about pages in range.  It is inductive alone.  The others say, on top of it,
what is in the file: a page that nobody is writing is whole, a lone writer's part
is already there and a lone reader has so far read that page's image (`Written`,
`Reading`); what was synced is in the file and on the device (`Durable`).  That a
checked id stays good needs only that the count never falls while the manager
lives; that reads are whole needs `Written` for the chunks already passed.
`DInv` is also checked by TLC on the `disk_manager` instance.  A page is two
chunks in the model, in the proofs as well.

`CatalogProofs` proves the six properties of the `catalog` run, for any names,
number of columns and bound on the ids:

    KInv == Types /\ Control /\ Stored

`Types` has that every catalog in memory or in a file is sound: its ids are below
its counter and each belongs to one relation.  `Control` says of a call in
progress that rolling it back gives what the file still holds (until the rename),
and that the file has the new state after it.  `Stored` has the reported and shown
relations in the file.  The heart is that the rollbacks are inverse to the
changes: delete after CreateTable's insertion, putting the old record back after
CreateIndex's, with the counter restored in both (`DeleteUndoes`, `PutUndoes`).

`HeapProofs` proves the five properties of the `heap` run (`Layout`, `Contained`,
`Reported`, `Balanced`, `ScansExact`), for pages of any number of words, any
tuples and any number of pages:

    HInv == FileTypes /\ CallTypes /\ Control /\ Contents /\ ChangesReported /\ PinsBalanced

A page is zero or laid out (`Laid`: the slot count agrees with `pd_upper`, and
every slot lies within the tuples' part and below the slots before it).
`InsertGrows` is the lemma about the code: InsertTuple on a laid-out page with
room gives one with one slot more, the new tuple in it and the other tuples as
they were; it needs that the words it writes (header, directory entry, tuple) are
disjoint, and that none of the uint16 computations wraps.  `ZeroFull` says that a
zero page never takes a tuple, which is why the underflowing slot count of one
does no harm to Insert.  `Contents` relates the pages to the returned tuple ids and
the file to the written ones; `LayoutSound` and `PagesHoldStored` follow from it.
`ScansExact` has an invariant of its own on top, `Scanned`: what the scan has
shown is before its position, and every tuple of its start that is before its
position was shown.  An Insert in the callback keeps it because it only adds slots
behind the count that the scan has read, or pages ahead of it (`Kept`).  Assumed:
`PageAssumption` (a page has room for its header and a slot, and twice its size is
within a word, as 2 * 8192 <= 2^16) and `HeapAssumption` (tuples are sequences of
words).  Header and slot entry have two words each, in the proofs as well.

`NBTreeProofs`, with the lemmas of `NBTreeLemmas` (node operations, descents,
the invariant) and `NBTreeSteps` (one lemma per step of Insert), proves the type
invariant of the B+Tree and four of the properties of its run, for any capacities
from 2 on, any keys and tuple ids, any number of pages and any number of failures:
`TypesHold`, `OpenMeansRootedHolds`, `PinsBalancedHolds`, `FramesSufficeHolds` and
`EveryChangeReportedHolds`.  The invariant holds whatever fails:

    Control == \E rank : Ctl(rank)
    Ctl(rank) == Tree(rank) /\ File /\ Calls(rank) /\ Scans(rank) /\ Pool /\ Ghosts

`rank` is the level of each page, counted from the leaves.  `Tree` says that every
child is one level below its parent and every successor of a leaf is a leaf, which
makes the descents end; `Calls` that the pages an Insert holds are one per level,
from the root down; `Pool` that each pin belongs to one of these positions.
`FramesSuffice` follows because `Height` is the root's rank plus one.  A step that
adds a page extends `rank`, which is why it is quantified.

The recursion in `search`, `findLeaf` and `Height` is a recursive function; what it
returns is proved by taking a least counterexample, with the library's theorem that
< is well founded on the naturals.  That and the facts about cardinalities are
collected in the hypothesis `Library` of the lemmas and discharged by `LibraryHolds`
in `NBTreeProofs`, where the theorem modules are brought in.  Assumed besides: the
named ASSUMEs of `BTreeNode` and `NBTree` (capacities of at least 2, keys are
integers, a positive number of pages).

Only model-checked:

- `AnswersAgree`, `HalfFull`, `ScanExact`, `ScanShowsStored` and `LeafChainOrdered`
  of the B+Tree.  They are about contents, and `Control` says nothing of which keys
  a page holds.  They need a second invariant on top of it: the range of keys each
  page answers for, how a split parts it, and how the chain of leaves follows it.
  No proof of it is part of this project.
- The properties of the record codec, whose encoder and decoder are folds and
  recursive operators over bytes.
- `CallsReturn`, since liveness is out of the prover's reach.

## 5. Where code and documents disagree

1. `split_failure`: a split that gets no page leaves its node at capacity.
   node.go relies on a resting node having room: the next insert there writes
   over the neighbouring array.  Retrying the failed Insert answers
   ErrDuplicateKey.
2. `root_failure`: after a root split, a failure to allocate or record the new
   root hides the upper half of the tree from Search.
3. `catalog_durability`: store.go says that save durably replaces the stored
   bytes; it does not sync, and a machine crash can undo a reported CreateTable.
   A kill of the process alone cannot (`ReportedIsStored`, `AlwaysOpens`).
4. `zero_page`: heap.go says that unpinning the new page dirty keeps zero pages
   off the disk.  That holds once the pool has written the page; if the process
   ends before, the zero page is there, Insert passes over it for good, and every
   Scan yields tuples that were never stored and then panics.

## 6. Not modelled

- The page header fields that no code in the repository reads (LSN, checksum,
  flags, special, page size, prune xid).  Each is a load and a store of its own
  bytes, so there is no state they could get wrong together.
- The views of `storage/page` (a pointer into a page's array) are modelled by what
  they read and write.  That a view is dead once the page is unpinned is the
  subject of `PointersValid`.
- The composition of tree or heap with the pool, step by step.  Both are modelled
  over what the pool promises (`PageStore`), with pager calls that may fail, and
  the pool is proved to keep that promise; `FramesSuffice` and
  `ExhaustedOnlyByPins` meet at the number of frames.
- Concurrent callers of one tree or one heap: the code has no latches and its
  documents exclude them.
- The end of a heap Scan whose callback keeps inserting: it goes on as long as the
  file grows, and the model bounds the file.
- The JSON encoding of the catalog: a file is a whole document, half of one, or
  missing.
- `NextID` of the catalog beyond 2^32 relations.
- Error texts, and `cmd/server` (a stub).
