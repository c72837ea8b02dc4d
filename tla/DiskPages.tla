----------------------------- MODULE DiskPages -----------------------------
(***************************************************************************)
(* The database file and the DiskManager's metadata cache as one value, a  *)
(* record, with one operator for every flush the DiskManager performs.     *)
(* DiskManager takes these flushes one at a time, so that a crash can fall *)
(* between them; BufferPool, which runs every disk operation to its end    *)
(* under its own latch, composes them into whole operations.               *)
(*                                                                         *)
(* The 4096 bytes of a page are abstracted to their first 4-byte word (the *)
(* word the free list threads its links through), the rest being zero, so  *)
(* a page's content is a Word and the zeroed page is Blank.  Page 0 holds  *)
(* two words: page[0] is the persisted free list head, disk_num the        *)
(* persisted page count.                                                   *)
(***************************************************************************)
EXTENDS Integers, Sequences

CONSTANTS
    MaxPages,          \* bound on how far the file may grow, in pages
    INVALID_PAGE_ID    \* the page_id_t that names no page

ASSUME PagesAssumption ==
    /\ MaxPages \in Nat \ {0}
    /\ INVALID_PAGE_ID \in Nat
    /\ MaxPages <= INVALID_PAGE_ID

PageIds == 0 .. (MaxPages - 1)

\* page_id_t and, because links are page ids, the first word of any page.
Word == 0 .. INVALID_PAGE_ID

Blank == 0

DiskType ==
    [page : [PageIds -> Word],      \* first word of every page of the file
     extent : 0 .. MaxPages,        \* pages the file physically holds
     disk_num : 0 .. MaxPages,      \* second word of page 0
     free_list_head_ : Word,        \* metadata cache, in memory
     num_pages_ : 0 .. MaxPages]    \* metadata cache, in memory

(***************************************************************************)
(* A file that was just truncated, and the cache before it is loaded.      *)
(***************************************************************************)
EmptyFile ==
    [page |-> [p \in PageIds |-> Blank], extent |-> 0, disk_num |-> 0,
     free_list_head_ |-> INVALID_PAGE_ID, num_pages_ |-> 0]

\* Writing page p at its offset; a write past the end leaves a zeroed hole.
PutPage(d, p, w) ==
    [d EXCEPT !.page[p] = w,
              !.extent = IF p < d.extent THEN d.extent ELSE p + 1]

WriteMetadata(d) ==
    [d EXCEPT !.page[0] = d.free_list_head_,
              !.disk_num = d.num_pages_]

\* Faulty variant: the two words are read in the wrong order.
ReadMetadata_Swapped(d) ==
    [d EXCEPT !.free_list_head_ = d.disk_num, !.num_pages_ = d.page[0]]

ReadMetadata(d) ==
    [d EXCEPT !.free_list_head_ = d.page[0],
              !.num_pages_ = d.disk_num]

\* Faulty variant: the cache is set up but page 0 is left blank.
InitializeFile_NotWritten(d) ==
    PutPage([d EXCEPT !.free_list_head_ = INVALID_PAGE_ID, !.num_pages_ = 1], 0, Blank)

\* First start on a missing file: page 0 is written, then cached.
InitializeFile(d) ==
    LET m == [d EXCEPT !.free_list_head_ = INVALID_PAGE_ID, !.num_pages_ = 1]
    IN  WriteMetadata(PutPage(m, 0, INVALID_PAGE_ID))

\* ReadPage and WritePage refuse a page the cache does not count.
InBounds(d, p) == p < d.num_pages_

\* A short read is padded with zeros.
ReadPage(d, p) == IF p < d.extent THEN d.page[p] ELSE Blank

\* A data page is its first word and zeros, so page 0 loses its second word.
WritePage(d, p, w) ==
    IF p = 0 THEN [PutPage(d, p, w) EXCEPT !.disk_num = 0]
             ELSE PutPage(d, p, w)

-----------------------------------------------------------------------------
\* AllocatePage takes from the free list whenever the list has a head.
FreeListEmpty(d) == d.free_list_head_ = INVALID_PAGE_ID

\* The read of the link fails when the head lies outside the file.
LinkReadable(d) == d.free_list_head_ < d.extent

AllocateReuse(d) ==
    WriteMetadata([d EXCEPT !.free_list_head_ = d.page[d.free_list_head_]])

\* Growing takes two flushes: the new count first, then the blank page.
CanGrow(d) == d.num_pages_ < MaxPages

\* Faulty variants: the count is not flushed, not raised, raised twice.
AllocateGrowCount_NotFlushed(d) == [d EXCEPT !.num_pages_ = d.num_pages_ + 1]

AllocateGrowCount_NotRaised(d) == WriteMetadata(d)

AllocateGrowCount_RaisedTwice(d) ==
    WriteMetadata([d EXCEPT !.num_pages_ = d.num_pages_ + 2])

AllocateGrowCount(d) ==
    WriteMetadata([d EXCEPT !.num_pages_ = d.num_pages_ + 1])

AllocateGrowBlank(d, p) == PutPage(d, p, Blank)

AllocatedId(d) ==
    IF FreeListEmpty(d) THEN d.num_pages_ ELSE d.free_list_head_

AllocatePage(d) ==
    IF FreeListEmpty(d)
    THEN AllocateGrowBlank(AllocateGrowCount(d), AllocatedId(d))
    ELSE AllocateReuse(d)

\* Deallocating takes two flushes: the link first, then the head.
DeallocateRejects(d, p) == p >= d.num_pages_ \/ p = 0

\* Faulty variant: the page is not linked to the rest of the list.
DeallocateLink_NoLink(d, p) == d

DeallocateLink(d, p) == PutPage(d, p, d.free_list_head_)

DeallocateHead(d, p) == WriteMetadata([d EXCEPT !.free_list_head_ = p])

DeallocatePage(d, p) ==
    IF DeallocateRejects(d, p) THEN d
    ELSE DeallocateHead(DeallocateLink(d, p), p)

-----------------------------------------------------------------------------
(***************************************************************************)
(* The free list as a history variable sees it: a stack of page ids whose  *)
(* top is the head.  chain is on disk when every page of it is a data page *)
(* inside the file and its first word is the id below it in the stack.     *)
(***************************************************************************)
Below(chain, i) == IF i = 1 THEN INVALID_PAGE_ID ELSE chain[i - 1]

Top(chain) == IF chain = <<>> THEN INVALID_PAGE_ID ELSE chain[Len(chain)]

Pop(chain) == SubSeq(chain, 1, Len(chain) - 1)

InChain(chain, p) == \E i \in DOMAIN chain : chain[i] = p

LinksSpell(d, chain) ==
    \A i \in DOMAIN chain :
        /\ chain[i] \in 1 .. (d.num_pages_ - 1)
        /\ chain[i] < d.extent
        /\ d.page[chain[i]] = Below(chain, i)

NoRepeats(chain) ==
    \A i, j \in DOMAIN chain : chain[i] = chain[j] => i = j
=============================================================================
