# AetherDB storage engine: TLA+ models, checks and proofs

AetherDB is planned as a set of services; what exists in the repository is the
storage service: a page file with a free list, a buffer pool with two
replacement policies, a TCP daemon that serves pages to clients, and, not yet
connected to the daemon, slotted table pages, a table heap and a B+ tree index.

This directory holds TLA+ models of that code, the TLC configurations that check
them on small instances, and TLAPS proofs of the results that matter most for
every size of the system.

## 1. Inventory

| Component | State | Operations | Interaction | What is hard, and what makes it correct |
|---|---|---|---|---|
| `DiskManager` (`disk_manager.cpp`) | the file; `free_list_head_`, `num_pages_` cached from page 0 | constructor, `ReadPage`, `WritePage`, `AllocatePage`, `DeallocatePage`, `Close` | called by the pool only; one mutex per operation | several flushes per operation and no log: a crash may fall between any two. The free list must stay a list of free pages, no page may be handed out twice, what was written must survive |
| `BufferPoolManager` (`buffer_pool_manager.cpp`) | `pages_`, `page_table_`, `free_list_` | `FetchPage`, `UnpinPage`, `FlushPage`, `NewPage`, `DeletePage`, `FlushAllPages` | calls the disk and the replacer with its latch held; hands out raw `Page*` that are used without it | interleaved pins, unpins, evictions, reuse of frames and of page ids; the dirty flag is set only at unpin. Nothing of this may be visible to the owner of a page |
| `LRUReplacer`, `ClockReplacer` (`replacer.cpp`) | list and map; flags, hand and `size_` | `Victim`, `Pin`, `Unpin`, `Size` | called by the pool | iterators kept in a map; a loop whose only exit is a victim. A victim must be a candidate and must be found when there is one |
| `StorageService` (`storage_service.cpp`, `main.cpp`) | `is_running_`, the pool, one detached thread per connection | `Start`, `Stop`, `HandleClient` for READ, WRITE, ALLOCATE, DEALLOCATE | calls the pool | handlers run in parallel with each other and with `Stop`; page data are copied without a latch; exceptions; clients may send any page id |
| `TablePage`, `TableHeap` (headers) | slots growing up, tuples growing down; a chain of pages | `InsertTuple`, `GetTuple`, `UpdateTuple`, `DeleteTuple` | pages through the pool | unsigned space arithmetic, slot reuse, relocation; rows must read back and never overlap |
| `BPlusTree` (`b_plus_tree.cpp`, page headers) | pages of the tree, `root_page_id_` | `GetValue`, `Insert`, `Delete`, `Begin`, `End` | pages through the pool; used from one thread | splits, borrowing and merging that recurse to the root; parent pointers and a leaf chain kept beside the tree; any `FetchPage` or `NewPage` half-way may return `nullptr`. It must answer as an ordered map does and stay a balanced search tree |
| `BPlusTreeIterator` (`b_plus_tree.hpp`) | page id, index, a pinned leaf | `++`, `*`, copy, move, destruction | lives across operations on the tree | pins taken and given back on every path; leaves merged away under it. Each pin must be given back once, and a scan must pass every entry once |
| `Tuple`, `Schema`, `Column`, `TableCatalog` | containers | serialization, lookup | used by the heap | serialization is part of `TablePage`'s model |
| `Socket`, protocol, `Mutex`, `Thread`, logger | wrappers | I/O | used by the service | I/O and output; see section 7 |

The hazards these parts are exposed to are listed, line by line and with the
properties aimed at them, under `hazards` in `PROJECT.json`.

## 2. Modules

```
PageStore    <--implements--  BufferPool  <--extends--  StorageService
Replacer     <--implements--  LRUReplacer, ClockReplacer
DiskPages    <--extends--     DiskManager, BufferPool
TablePage    <--extends--     TableHeap
KeyMap       <--implements--  BPlusTree  <--extends--  BPlusTreeIterator
BPlusTreePages  <--extends--  BPlusTree
DiskPagesProofs      <--extends--  BufferPoolProofs, DiskManagerProofs
BufferPoolProofs     <--extends--  StorageServiceProofs
LRUReplacerProofs, ClockReplacerProofs, TableHeapProofs, BPlusTreePagesProofs
MC*: instances for TLC
```

**DiskPages** has no state. It makes the file and the metadata cache one record
and gives one operator per *flush* of `disk_manager.cpp`. The content of a page
is its first 4-byte word (the word that links free pages), the rest being zero;
page 0 has two words. `INVALID_PAGE_ID` is a number above every page id, as in
the code. A write past the end leaves zeros, a short read is padded.

**DiskManager** runs these flushes one action at a time. `pc` is where the
operation that holds `db_io_lck_` stands. `Crash` may come between any two
flushes and loses everything in memory and the operation in flight; the
constructor is three actions, since a crash can fall after the file was created
and before page 0 was written (`OpenThrows` is what every later start then
does). `live`, `freeChain` and `written` are histories of what callers were
given, gave back and wrote. Bounds: `MaxPages`, `MaxCrashes`.

**BufferPool** is `buffer_pool_manager.cpp`. Every operation holds `latch_` to
its end, disk calls included, so each is one action and the disk operations are
taken whole. `evictable` is the replacer as `Replacer` abstracts it. The `Pool…`
actions are the code for any page id; the actions of `Next` add a caller that
keeps the contract the repository's own components keep: fetch and delete pages
that are allocated, store through a pinned pointer only, pass `is_dirty` after a
store and for a new page. `WriteThrough` is that store; it takes no latch and
interleaves with everything. `handle`, `live` and `freeChain` are histories.

**PageStore** is what the pool promises: allocated pages and their contents.
**Replacer** is what the policies promise: a set of candidates.

**LRUReplacer** and **ClockReplacer** are the two policies. The turns of
`ClockReplacer::Victim`'s loop are actions, so that "the loop ends" is a
property. `older`, `turns` and `passed` are histories.

**StorageService** extends BufferPool with the handler threads. A handler takes
one step per call into the pool and per send. Its `memcpy` holds no latch: it begins
in one step, which leaves the page `Half` copied, and ends in another, which leaves
the payload, or, if another handler copied into the page meanwhile, the payload or
`Mixed`, a mixture that stays. A page's content is one word, so `Half` and `Mixed` are
two words no client sends, and each stands for all the pages such copies make. `Send`
and `Recv` (external) deliver a whole message or fail, and a `Send` takes as long as
the client likes; `Readers` are the connections whose clients do read. `content` and
`allowed` are histories: what the last WRITE of a page may have left there, and what
a request in flight may answer or leave, by the WRITEs it overlaps. `FetchThrows` and
`AllocateThrows` are the exceptions that leave the pool half-way. An operation
code the protocol does not know is answered with ERROR. `Stop` is the flag, the
flush, the destructor's flush and the close, in steps. What clients may send is
the parameter `Discipline`:

* `exclusive`: page ids they were given, and no DEALLOCATE of a page that another
  request is using;
* `any`: any page id, in or out of bounds, page 0 included.

`QuietStop` says whether traffic has ended before `Stop` and stays away. Bounds:
`MaxRequests` (requests of a behaviour), `MaxPages` (`RoomToGrow` sends an
ALLOCATE only when that bound leaves a page for it).

**TablePage** is the slotted page as a value, one operator per method; every
byte is a cell, so overlapping tuples show when they are read back. **TableHeap**
chains such pages. The pool under it is taken as PageStore promises; where
`FetchPage` or `NewPage` returns `nullptr` the heap returns false and changes
nothing. A tuple no page can hold is among the inputs: the code ignores the
failed insert, reports success and returns an uninitialised slot number, which
the model chooses freely.

**BPlusTreePages** gives the methods of the three page classes as operators on
page values: an internal page is its separators and its children, a leaf its
entries and `next_page_id_`. `keys_[0]` of an internal page, which no code reads
as a separator, is left out; the halves of `MoveHalfTo`, the lending and taking
side of the `Move…` methods and the key that goes up are operators of their own.
The binary searches are kept as they are, since what they return between two
entries is what decides where a key goes; `Bisect` is the loop, as a recursive
function of the two ends of its window.

**BPlusTree** is `b_plus_tree.cpp`. The tree has no latch and is used from one
thread, so an operation is one action, computed as the code goes through it:
every pin, unpin, new page and deletion is applied to the record `tree` in order.
`tree.pins` is a bag of the pages held. A page whose `DeletePage` was refused stays
in `tree.node`. The pool is what section 5 proves it to
be: a pinned page is found, another page gets a frame unless all `Frames` are
pinned, a pinned page is not deleted. `busy` is how many frames other users of
the pool hold during an operation, chosen anew for each from `Busy` and the same
from its start to its end, so that the pool may be full at any depth the operation's
own pins reach. `status` says how an operation went. "refused" is an insert for whose
root or split the pool had no page: it leaves a whole tree, possibly with one entry or
child too many in a page, and operations go on. An insert into a page that already has
one too many writes behind its arrays and makes `status` "overrun". An operation that
leaves a part of its work undone makes it "starved", one that uses a `nullptr` makes it
"crashed". Nothing is explored after these three: overwritten memory and a dead
process cannot be, and a tree in pieces is not something the repository makes claims
about. `MaxStuck` bounds how many emptied roots keep their pin. `answer` is the last
operation, its key and its result; `found` is a history, what `GetValue` would answer
for every key. **KeyMap** is the map they have to follow: an `Insert` of an entry must
be KeyMap's insert of that entry with that result, and so for `Delete` and `GetValue`.

**BPlusTreeIterator** adds iterators that callers keep in variables and copy,
move, step and destroy between operations on the tree. The code does nothing for
an iterator when the tree changes, so they are stepped and copied only while the
tree is as it was when they were positioned (`fresh`), but may keep their leaf
pinned through everything.

Page ids are names to this code. `MCBPlusTree` therefore gives TLC a view in
which pages are numbered in the order of the tree. Leaked pages that nothing leads to
and nobody has pinned are seen only by the entries left in them, which are none while
`TreeSound` holds. Other pages outside of the tree keep the order of their ids, so that
a few states are counted twice and the number of distinct states differs by some from
run to run.

Operators whose name ends in a capitalised suffix after `_` (for example
`LinkLeaf_Missing`) and whose comment begins with "Faulty variant" are not
part of the models. Each is a plausible mistake in the definition that follows
it, and `mutants` in `PROJECT.json` says which property catches it.

## 3. Runs

| Run | Instance | Distinct states | Shows |
|---|---|---|---|
| `disk_manager` | 4 pages, 2 contents, 2 crashes | 46,857 | `FreeListSound`, `AllocationFresh`, `WritesDurable`, `LeakBounded`, `MetadataSynchronized` through crashes at any flush |
| `buffer_pool` | 2 frames, 3 data pages, 3 pins, 2 contents | 344,015 | frame, pin, dirty and page accounting; `FlushAllPersists`; `ImplementsPageStore` |
| `lru_replacer` | 4 frames | 325 | `ListMatchesMap`, `ListInAgeOrder`, `ImplementsReplacer` |
| `clock_replacer` | 4 frames | 18,560 | `SizeCountsCandidates`, `SweepBounded`, `BoundedBypass`, `SweepEnds`, `ImplementsReplacer` |
| `service_exclusive` | 2 connections, 2 frames, 3 data pages, 2 payloads besides the half copied and the mixed page, 6 requests | 246,732 | `ReadsRegular`, `StopPersists`, `KeepsPoolContract` |
| `service_any` | 2 connections of which one reads, 1 frame, 1 data page, ids beyond it, 5 requests | 951,638 | `TableConsistent`, whatever clients send and whenever Stop comes; `RequestsAnswered` |
| `table_heap` | 2 pages of 9 bytes, 2 slots, tuples of 1, 2 and 7 bytes | 118,939 | `LayoutSound`, `SlotArrayFits`, `RowsReadBack`, `ChainSound` |
| `btree` | leaves of 2, internal pages of 4, 7 keys, 7 frames of which 0, 2, 4 or 7 are busy | about 21,800 | `TreeSound`, `ScanMatches`, `ImplementsKeyMap`, `EnoughFrames`, `StarvedKeepsEntries` |
| `btree_cursors` | the same orders, 4 keys, 4 frames of which 0 or 3 are busy, 2 iterators | about 95,000 | `PinsAccounted`, `CursorsScan`, `StepsByOne` |

Why the bounds are enough for the interesting cases. With two frames and three
data pages there is eviction, and with three pins a shared page and an exhausted
pool; four page ids give a free list of three, so push and pop meet. Two crashes
let the second fall into the recovery from the first, and leak a page each.
Contents include numbers that are page ids, so that data read as a link lead
somewhere. Six requests on two connections cover allocate, two overlapping writes of
different payloads, eviction, a read, delete and reuse of a page. In `service_any` five
let a freed page be cached, written and reused, so that the free list leads out of the
file, and the only frame be kept by a client that does not read or be lost to a failed
fetch while the other client goes on. The scaled-down
table page has room for one slot more than `slots_` declares unless every slot
costs at least one byte of tuple, the same relation as 4096, 20, 8 and 500.

Seven keys in leaves of two are the fewest that fill an internal page of four and
split it, so that trees have three levels and deletions borrow from the left and
from the right, merge and collapse the root, at the leaves and above them. Four
children are the smallest order at which an internal page that lost one still
has a separator (`OrderAssumption`); the code's own are 253 and 338. Seven frames
are 2h + 1 for three levels, the bound `EnoughFrames` states, and with two or four
of them busy a split fails at each of its stages. Four keys suffice for the
iterators, which see two or three leaves: one to leave, one to enter, one to be
merged away.

Symmetry is used for callers, connections and heap pages, in runs without
liveness properties.

`CHECK_DEADLOCK FALSE` stands in the service's runs (after `Stop`, or when
`MaxRequests` is spent, it may come to rest) and in `table_heap` (a full heap
over a bounded set of pages, all rows deleted and no room regained, accepts
nothing more). In the runs of the tree it stands for the end of exploration after
an operation that left the tree in pieces or overwrote memory.

### Disagreements between the code and its documentation

Three runs are expected to end in a violation; `findings` in `PROJECT.json` quotes
the sentence and the line.

* `service_pin_leak`: `FetchPage` pins a frame before `ReadPage` throws; the frame
  is lost with `pin_count_` 1 (`PinCountIsUsers`).
* `service_stop`: `Stop` frees the pool under running handlers (`NoUseAfterStop`).
* `btree_overrun`: a leaf whose split finds no page keeps its new entry, although
  `Insert` returns false, and with it `max_size + 1` entries; the next insert into it
  writes behind `keys_` and `values_` (`StaysInArrays`), which
  `docs/Phase3_BPlusTreeIndex.md:30` says growing by one avoids. Internal pages do the
  same. The passing run `btree` shows that until then the tree is sound and answers
  as a map (`TreeSound`, `ImplementsKeyMap`).

One more is stated as an assumption: `WritePage`, unlike `DeallocatePage`, accepts
page 0, whose words `disk_manager.hpp:50` calls synchronized with the cache.
`MetadataSynchronized` holds when `CallerPages` leaves page 0 out, as in
`disk_manager`, and fails in a few steps when it does not.

Others were met on the way and are recorded as hazards, without a run:

* A page deallocated twice links to itself (`disk_manager.cpp:145` checks bounds
  only) and is then handed out again and again; a READ that follows the DEALLOCATE
  of its page caches a page that is free, and the next `NewPage` with that id takes
  its table entry. `KeepsPoolContract` shows that clients which deallocate only
  pages nobody is using meet neither.
* `docs/Phase3_BPlusTreeIndex.md:78` says "If the leaf is the root, delete the page
  when the size becomes 0", and line 116 "the old root is deleted". `Delete` and
  `HandleUnderflow` call `DeletePage` while the page is pinned, which it refuses.
  The page stays allocated for ever, and so does one that is merged into its left
  sibling (`b_plus_tree.cpp:278`); `TreeSound` shows that no entry is left in such a
  page. The root leaf even keeps its pin for ever; `PinsAccounted` names it as the only
  exception.
* `Begin(key)` stands behind the last entry of a leaf when all its keys are
  smaller; `IsEnd()` is false there and `operator*` reads a slot without an entry.
  `ScanMatches` and `StepsByOne` show that what comes after is right.
* Two WRITEs of a page that overlap may leave a mixture of both payloads, which later
  READs answer and `Stop` saves. `ReadsRegular` and `StopPersists` allow exactly that,
  and only for WRITEs that overlapped.

## 4. Fairness

* `ClockReplacer`: weak fairness of the sweep. The thread inside `Victim` holds
  the latch it needs and waits for nothing else.
* `StorageService`: weak fairness of what each handler does by itself (`Works`).
  Handlers are threads of their own, and every latch they take is released at the end
  of one pool operation. A send is another matter: `Socket::Send` is a loop without a
  timeout, which a client that does not read stops for ever, with the page pinned if
  the request was a READ. Weak fairness of `Sends` is therefore assumed for the
  connections in `Readers` only. This is an assumption on those clients, and
  `RequestsAnswered` is about them: it says that they are answered whatever the other
  clients send and whether or not those read. Nothing is assumed of new connections
  and requests (`Accept`, `Disconnect`, `Request`) or of `Stop`.

## 5. Proofs

Every `…Proofs` module extends the module it is about. The theorems hold for every
value of the constants that the named assumptions of those modules admit:
any number of frames, pages, callers, connections, crashes, requests, any contents and
tuples. Bounds such as `MaxPages` or `MaxRequests` are constants like the others.
Each inductive invariant was checked by TLC on the instance of its run before
it was proved.

### The pool

`DiskPagesProofs` states what each flush does to the file and to the free list:
writing a page that is not free keeps the list, reuse pops it, deallocation
pushes. `BufferPoolProofs` proves, from `PagesAssumption` and `PoolAssumption`
only:

| Theorem | States |
|---|---|
| `PoolInvariant` | `Spec => []IInv` |
| `TypeCorrect`, `FramesPartitioned`, `VictimsUnpinned`, `PinsExact`, `CleanFramesMatch` | the pool's invariants, one by one |
| `PagesConserved` | pages are in use or on the disk's free list, and the links spell the list |
| `FlushAllSaves` | `FlushAllPersists`, an action property |
| `PoolIsPageStore` | `Spec => ImplementsPageStore`, the refinement |

`IInv` is the conjunction of the run's invariants and `FreeListSound`, that the
file's links spell the free list. None is inductive alone. That
a clean frame equals its page on disk needs that the page is not on the free
list (`PagesAccounted`), or a deallocation would change it under the frame. That
the free list survives a write-back needs that cached pages are in use. That a
victim is in nobody's hands needs that pins are counted exactly
(`PinsCounted`) and that the replacer tracks the count
(`ReplacerTracksUnpinned`); that frames do not get mixed up needs
`FramePartition`. The proof has one lemma per operation. `RefillStep` and
`RefillClean` carry what `FetchPage` (miss) and `NewPage` have in common: a frame
is taken, its old page leaves the table, another page enters.

The refinement maps a page's content to its frame's data, or to the disk's when
it is not cached. Fetch, unpin and flush are invisible because of
`CleanMatchesDisk`; new, store and delete are PageStore's three steps.

### The replacers

| Theorem | States |
|---|---|
| `LRUInvariant`, `LRUListMatchesMap`, `LRUListInAgeOrder` | list and map agree, the list is in order of age |
| `LRUIsReplacer` | `Spec => ImplementsReplacer` |
| `ClockInvariant`, `ClockSizeCounts`, `ClockSweepBounded`, `ClockBoundedBypass` | `size_` counts, a sweep ends within two rounds, and how often a candidate is passed over |
| `ClockIsReplacer` | `Spec => ImplementsReplacer` |

For LRU the two invariants are inductive together: erasing from the middle keeps
the order because no frame is listed twice, and what is pushed at the back is
younger than everything listed because everything listed has a map entry.

For the clock neither bound is inductive. `SweepProgress` says which frames a sweep
of t turns has left behind with their flags down, once and twice, so that the
2n-th turn finds a victim at the latest. `BypassLeft` counts, for every candidate, the
frames that can still be taken before it (`Exposed`): the set never grows while the
frame is a candidate, and every victim leaves it. Together with the pool's
theorems, which use the replacer only as `Replacer` describes it, the two
refinements say that either policy serves.

### The disk and its crashes

`DiskTypeCorrect` needs no assumption on callers. The others assume that callers
leave page 0 alone, `0 \notin CallerPages`; section 3 says what happens otherwise.

| Theorem | States |
|---|---|
| `DiskTypeCorrect` | `Spec => []TypeOK` |
| `DiskInvariant` | `Spec => []IInv` |
| `DiskFreeListSound`, `DiskAllocationFresh`, `DiskWritesDurable`, `DiskMetadataSynchronized` | the run's invariants |
| `DiskLeakBounded` | a crash leaks one page at most, counted over a behaviour |

The invariant speaks of the file, since only the file survives a crash: `DiskSound`
says that page 0 and the links spell the free list between any two flushes as well,
and that an open cache equals page 0 even then; `OwnersSound` that the pages in use
and the page of the operation in flight are data pages page 0 counts, disjoint from
each other and from the free list, and that `DeallocatePage`'s link is in place before
the head points at it. The proof showed that the file may be shorter than page 0 says by
more than one page: every crash between the two flushes of a growing
`AllocatePage` adds one. What the invariant needs is that the file holds each page
somebody uses.

### The table heap

From `TupleAssumption` (the relation of the code's 4096, 20, 8 and 500, and tuples
of at least one byte) and `HeapAssumption` (`INVALID_PAGE_ID` is no page of a heap,
the mark for "no tuple" is no tuple):

| Theorem | States |
|---|---|
| `HeapInvariant` | `Spec => []IInv` |
| `HeapLayoutSound`, `HeapChainSound` | slots below tuples, live tuples apart; the pages form one chain |
| `HeapSlotArrayFits` | `slot_count_` stays within `slots_` |
| `HeapRowsReadBack` | a RID reads back what was last stored under it |

A row reads back because the bytes of a live slot are written by operations on that
slot only, which needs that live spans are apart; they are, because a tuple goes
below everything or into the span its slot has. That `InsertTuple` never writes
behind `slots_`, which the code does not check, is an accounting of space that is
never given back (`SpacePaid`): each slot, tombstones included, cost `SlotSize`
bytes from below and once in its life a byte from above.

### The service

| Theorem | Assumes | States |
|---|---|---|
| `ServiceInvariant`, `ServiceTableConsistent` | nothing | `TableConsistent`, whatever clients send, whatever throws, whenever `Stop` comes |
| `ServiceContractInvariant`, `ServiceReadsRegular` | exclusive clients | `ReadsRegular`: a READ answers what the last WRITE left or what one it overlaps leaves or shows |
| `ServiceKeepsContract` | exclusive clients | `ServiceSpec => KeepsPoolContract`: the service is a behaviour of BufferPool |
| `ServiceStopPersists`, `ServiceQuietStopSafe` | exclusive clients, `QuietStop` | `StopPersists`, `NoUseAfterStop` |

Two inductive invariants. `ServiceInv` is what remains of the pool's invariant when
page ids may name anything, page 0 and freed pages included: tables and frames agree,
the free list repeats nothing, candidates carry page ids, and a handler holds
a page exactly while it uses one. It does not speak of pin counts, which
`FetchThrows` makes wrong (section 3).

`ContractInv` adds the pool's `IInv`, whose step lemmas are reused: each step of a
handler is shown to be the caller's step of BufferPool that goes with it, or none. This
is the refinement, and it also shows which paths exclusive clients never
take: no `FetchPage` or `NewPage` throws, no `UnpinPage` finds its page unpinned, no
DEALLOCATE is rejected. It needs that requests in flight name pages in use and that a
page about to be deallocated is named by one request only (`RequestsExclusive`) and that
a handler which wrote says so (`HandlerSound`).

`ReadsRegular` and `StopPersists` need an account of copies that begin and end in any
order. `ContentKept` says, page by page (`PageKept`): while no handler copies into the
page, the pool would answer a member of `content`; while some do, the page shows `Half`
or `Mixed`, and `Mixed` only if each of them may leave it. `WritesCovered` says that a
WRITE may leave its payload, and `Mixed` besides when another WRITE of its page is in
flight, and nothing else; `ReadsCovered` that a READ which has not looked yet may answer
the page's `content` and what any WRITE in flight leaves or shows. All this stops when
`Stop` frees the pool: a copy that was under way then never ends.

`ServiceQuietStopSafe` is the other side of the run `service_stop`: the handlers that
use a freed pool are those `Stop` did not wait for, and no others.

### The pages of the B+ tree

`BPlusTreePagesProofs` is about the operators of `BPlusTreePages`, not about a
specification: what each method makes of a page, for all orders that
`OrderAssumption` admits (leaves of at least 2, internal pages of at least 4), all
integer keys and pages of any size. A leaf is sound if its entries are in order, an
internal page if its separators rise and each bounds the keys beneath its
neighbours (`Parted`, which asks of a page what `TreeSound` asks with `Bounds`).
What is beneath a child is not computed here but given: `under[c]` is the set of
keys beneath the child `c`, any function from page ids to sets of keys.

| Theorem | States |
|---|---|
| `LeafLookup`, `LeafInsertSound`, `LeafRemoveSound` | a leaf's search, insert and remove |
| `ChildForFinds` | a lookup goes to the one child the key can be beneath |
| `LeafSplitSound`, `InternalSplitSound` | `MoveHalfTo`: both halves sound and from half full to full, nothing lost, the key that goes up separates them |
| `LeafBorrowsFromLeft`, `LeafBorrowsFromRight`, `InternalBorrowsFromLeft`, `InternalBorrowsFromRight` | `MoveLastToFrontOf`, `MoveFirstToEndOf`: one entry or child moves, the lender keeps its minimum, the new separator is right |
| `LeafMergeSound`, `InternalMergeSound` | `MoveAllTo`: what two pages hold that cannot lend fits into one |
| `ParentAfterSplit`, `ParentAfterLoan`, `ParentAfterMerge` | the parent with the separator inserted, replaced or removed |
| `SplitKeepsFamily`, `LoanFromLeftKeepsFamily`, `LoanFromRightKeepsFamily`, `MergeKeepsFamily`, `NewRootSound` | one round of `InsertIntoParent` or `HandleUnderflow`: the page, its sibling and their parent are sound afterwards and the keys beneath the parent are the same |

The binary searches are the only recursion. What they return is proved without an
induction rule (`BisectFinds`): if the search went wrong on some window there
would be a least one, by the well-foundedness of the naturals, and one turn of the
loop leads from it to a smaller one.

All the rest is about cutting sequences and putting them together. `CutParted` and
`JoinParted` say when an internal page may be cut and two joined with a key between
them; borrowing is then a join followed by a cut one place further (`Recut`), as
`RotateRight` and `RotateLeft` show. `InsertParted`, `ReplaceParted` and
`RemoveParted` say the same of the parent. They need that every child has a key
beneath it (`Peopled`): without, two separators could become equal and a lookup not
tell the children beside them apart. The proofs showed where this is not so: with
leaves of 2 or 3 the minimum is 1, so that `HandleUnderflow` is called for a leaf
that is *empty*. The theorems on loans and merges therefore let the two pages they are
about be empty (`PeopledBut`, and `MergeKeepsFamily` one of the two).

These theorems and the runs meet in the middle: the runs follow the recursion and the
pins on trees of small order, the theorems take each round for every order.

## 6. Only model-checked

* Liveness (`SweepEnds`, `RequestsAnswered`): outside what the proof system can
  do. `ClockSweepBounded` is the safety half of `SweepEnds`.
* The B+ tree as a whole (`TypeOK`, `TreeSound`, `ScanMatches`, `EnoughFrames`,
  `StarvedKeepsEntries`, `ImplementsKeyMap`) and its iterators (`PinsAccounted`,
  `CursorsScan`, `StepsByOne`). BPlusTree follows the code's recursion over the tree
  with RECURSIVE operators (the descent, `InsertIntoParent`, `HandleUnderflow`, the
  chain of leaves), which the proof system cannot take, and what they compute on a
  tree of any height would need induction over data. Section 5 proves each round
  of that recursion; that the rounds add up, that the parent pointers and the leaf
  chain follow, and that the pins are given back, is checked on trees of up to three
  levels.

## 7. Not modelled

* What the B+ tree does after an operation that a full pool left half done
  ("starved"), what an iterator shows once the tree has changed, and the value
  `operator*` reads behind the end of a leaf: the repository promises nothing there.
  What memory a write behind the arrays of a page destroys.
* The B+ tree used by several threads: it has no latch, and nothing uses it so.
* The bytes of a page beyond the first word (except in `TablePage`), the header
  layout of the wire protocol, the sockets, logging, argument parsing: data
  layout and I/O.
* A READ's `Send` looks at the page in one step. One that looks while a copy begins or
  ends may see a mixture as well; `ReadsRegular` allows it that in the same overlaps.
* `Mutex`, `LockGuard`, `Thread`: taken at their word; an operation under a latch
  is one action.
* Failing file operations other than reading past the end: the code does not
  look at the state of the stream after a write.
* A crash that loses or tears a flush that the operating system has accepted.
* `TableCatalog`: three one-line operations on a map. Nothing in the repository calls
  it with an index or a heap, so there is no interaction to model.

## 8. Plan

1. *Done:* DiskPages, DiskManager; BufferPool and PageStore; the replacers;
   StorageService; TablePage and TableHeap; BPlusTree, its iterator and KeyMap.
2. *Done:* proofs of all invariants, action properties and refinements of
   BufferPool, the replacers, DiskManager, TableHeap and StorageService.
3. *Done:* proofs about the page operators of the B+ tree and about each round of
   its splits, loans and merges.
4. Open: the pool composed with a concrete replacer. `BufferPool` uses the replacer
   as `Replacer` describes it and both policies are proved to implement that, but
   no module puts the three together.
