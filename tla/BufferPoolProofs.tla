-------------------------- MODULE BufferPoolProofs --------------------------
(***************************************************************************)
(* The buffer pool's invariants for any number of frames, pages, callers   *)
(* and values, and the proof that it implements PageStore.                 *)
(*                                                                         *)
(* The seven properties of BufferPool are inductive only together: a clean *)
(* frame equals the disk only because write-backs go to the page the frame *)
(* is mapped to (FramePartition), which is an allocated page               *)
(* (PagesAccounted) and so not a link of the free list (FreeListSound);    *)
(* eviction drops no user's pin because the replacer's candidates have     *)
(* none (ReplacerTracksUnpinned, PinsCounted); and a new page is not       *)
(* cached already because what the free list gives is not allocated.       *)
(***************************************************************************)
EXTENDS BufferPool, DiskPagesProofs, FiniteSetTheorems

IInv ==
    /\ TypeOK
    /\ FramePartition
    /\ ReplacerTracksUnpinned
    /\ PinsCounted
    /\ CleanMatchesDisk
    /\ PagesAccounted
    /\ FreeListSound

-----------------------------------------------------------------------------
(***************************************************************************)
(* Facts about one state.                                                  *)
(***************************************************************************)
\* The absence of a page table entry is told from every entry.
LEMMA NoFrameIsNoFrame == NoFrame \notin Frames
    BY DEF NoFrame, Frames

\* A pin count is the size of a finite set.
LEMMA HoldersFinite ==
    ASSUME NEW f
    PROVE  IsFiniteSet(Holders(f)) /\ Cardinality(Holders(f)) \in Nat
    BY PoolAssumption, FS_Subset, FS_CardinalityType DEF Holders

\* A cached page is a data page in use, within the file, not on the free list.
LEMMA CachedPage ==
    ASSUME IInv, NEW p \in PageIds, Cached(p)
    PROVE  /\ page_table_[p] \in Frames
           /\ pages_[page_table_[p]].page_id_ = p
           /\ Mapped(page_table_[p])
           /\ p \in live
           /\ p # 0
           /\ p < disk.extent
           /\ p < disk.num_pages_
           /\ ~InChain(freeChain, p)
    <1>1. /\ page_table_[p] \in Frames
          /\ pages_[page_table_[p]].page_id_ = p
          /\ Mapped(page_table_[p])
        BY DEF IInv, TypeOK, FramePartition, Cached, Mapped
    <1>2. p \in live /\ live \subseteq 1 .. (disk.num_pages_ - 1)
        BY DEF IInv, PagesAccounted
    <1>3. disk.num_pages_ \in Nat /\ disk.extent = disk.num_pages_
        BY DEF IInv, TypeOK, DiskType, FreeListSound
    <1>4. p \in 1 .. (disk.num_pages_ - 1)
        BY <1>2
    <1>5. ~InChain(freeChain, p)
        BY <1>2, <1>4 DEF IInv, PagesAccounted
    <1> QED BY <1>1, <1>2, <1>3, <1>4, <1>5

\* Two pages never share a frame.
LEMMA OnePagePerFrame ==
    ASSUME IInv, NEW p \in PageIds, NEW q \in PageIds,
           Cached(p), page_table_[p] = page_table_[q]
    PROVE  p = q
    BY DEF IInv, FramePartition, Cached

\* A frame nobody has pinned is in nobody's hands.
LEMMA UnpinnedUnheld ==
    ASSUME IInv, NEW f \in Frames, pages_[f].pin_count_ = 0
    PROVE  Holders(f) = {}
    <1>1. IsFiniteSet(Holders(f)) /\ Cardinality(Holders(f)) = 0
        BY HoldersFinite DEF IInv, PinsCounted
    <1> QED BY <1>1, FS_EmptySet

\* What taking a frame gives: a frame in nobody's hands, in neither the rest
\* of the free list nor the table; a disk on which every uncached page in use
\* has its content.
LEMMA Obtain ==
    ASSUME IInv, NEW f \in Obtainable
    PROVE  /\ f \in Frames
           /\ pages_[f].pin_count_ = 0
           /\ Holders(f) = {}
           /\ EvictTable(f) \in [PageIds -> Frames \union {NoFrame}]
           /\ \A p \in PageIds : EvictTable(f)[p] =
                IF page_table_[p] = f THEN NoFrame ELSE page_table_[p]
           /\ RestOfFreeList \in Seq(Frames)
           /\ NoRepeats(RestOfFreeList)
           /\ \A g \in Frames :
                (\E i \in DOMAIN RestOfFreeList : RestOfFreeList[i] = g)
                    <=> InFreeList(g) /\ g # f
           /\ InFreeList(f) \/ Mapped(f)
    <1>1. CASE free_list_ # <<>>
        <2>1. f = free_list_[1] /\ 1 \in DOMAIN free_list_ /\ f \in Frames
            BY <1>1 DEF Obtainable, IInv, TypeOK
        <2>2. InFreeList(f) /\ ~Mapped(f)
            BY <2>1 DEF InFreeList, IInv, FramePartition
        <2>3. Holders(f) = {}
            <3>1. \A c \in Callers : handle[c].frame # f
                <4> SUFFICES ASSUME NEW c \in Callers, handle[c].frame = f PROVE FALSE
                    OBVIOUS
                <4>1. Holds(c)
                    BY <2>1, NoFrameIsNoFrame DEF Holds
                <4> QED BY <4>1, <2>2 DEF IInv, PinsCounted, Mapped
            <3> QED BY <3>1 DEF Holders
        <2>4. pages_[f].pin_count_ = 0
            BY <2>1, <2>3, FS_EmptySet DEF IInv, PinsCounted
        <2>5. /\ EvictTable(f) = page_table_
              /\ page_table_ \in [PageIds -> Frames \union {NoFrame}]
            BY <1>1 DEF EvictTable, IInv, TypeOK
        <2>6. \A p \in PageIds : page_table_[p] # f
            BY <2>2 DEF Mapped
        <2> DEFINE R == Tail(free_list_)
                   n == Len(free_list_)
        <2>7. /\ R \in Seq(Frames)
              /\ n \in Nat \ {0}
              /\ Len(R) = n - 1
              /\ \A i \in 1 .. (n - 1) : R[i] = free_list_[i + 1]
            BY <1>1 DEF IInv, TypeOK
        <2>8. RestOfFreeList = R
            BY <1>1 DEF RestOfFreeList
        <2>9. \A i, j \in 1 .. n : free_list_[i] = free_list_[j] => i = j
            BY DEF IInv, TypeOK, FramePartition, NoRepeats
        <2> HIDE DEF R
        <2>10. NoRepeats(R)
            BY <2>7, <2>9 DEF NoRepeats
        <2>11. \A g \in Frames :
                (\E i \in DOMAIN R : R[i] = g) <=> InFreeList(g) /\ g # f
            <3> SUFFICES ASSUME NEW g \in Frames
                         PROVE  (\E i \in 1 .. (n - 1) : R[i] = g) <=>
                                (\E i \in 1 .. n : free_list_[i] = g) /\ g # f
                <4>1. DOMAIN free_list_ = 1 .. n
                    BY DEF IInv, TypeOK
                <4>2. DOMAIN R = 1 .. (n - 1)
                    BY <2>7
                <4> QED BY <4>1, <4>2 DEF InFreeList
            <3>1. ASSUME NEW i \in 1 .. (n - 1), R[i] = g
                  PROVE  (\E k \in 1 .. n : free_list_[k] = g) /\ g # f
                BY <3>1, <2>1, <2>7, <2>9
            <3>2. ASSUME NEW i \in 1 .. n, free_list_[i] = g, g # f
                  PROVE  \E k \in 1 .. (n - 1) : R[k] = g
                <4>1. i # 1 /\ i - 1 \in 1 .. (n - 1)
                    BY <3>2, <2>1, <2>7
                <4>2. R[i - 1] = g
                    BY <4>1, <3>2, <2>7
                <4> QED BY <4>1, <4>2
            <3> QED BY <3>1, <3>2
        <2> QED BY <2>1, <2>2, <2>3, <2>4, <2>5, <2>6, <2>7, <2>8, <2>10, <2>11
    <1>2. CASE free_list_ = <<>>
        <2>1. f \in Frames /\ f \in evictable
            BY <1>2 DEF Obtainable, IInv, TypeOK
        <2>2. Mapped(f) /\ pages_[f].pin_count_ = 0
            BY <2>1 DEF IInv, ReplacerTracksUnpinned
        <2>3. Holders(f) = {}
            BY <2>1, <2>2, UnpinnedUnheld
        <2>4. PICK v \in PageIds : page_table_[v] = f
            BY <2>2 DEF Mapped
        <2>5. Cached(v) /\ pages_[f].page_id_ = v
            BY <2>1, <2>4, NoFrameIsNoFrame DEF Cached, IInv, FramePartition
        <2>6. EvictTable(f) = [page_table_ EXCEPT ![v] = NoFrame]
            BY <1>2, <2>5 DEF EvictTable
        <2>7. page_table_ \in [PageIds -> Frames \union {NoFrame}]
            BY DEF IInv, TypeOK
        <2>8. \A p \in PageIds : page_table_[p] = f => p = v
            BY <2>4, <2>5, OnePagePerFrame
        <2>9. \A g \in Frames : ~InFreeList(g)
            BY <1>2 DEF InFreeList
        <2>10. RestOfFreeList = <<>>
            BY <1>2 DEF RestOfFreeList
        <2>11. RestOfFreeList \in Seq(Frames) /\ NoRepeats(RestOfFreeList)
            BY <2>10 DEF NoRepeats
        <2>12. \A g \in Frames : ~\E i \in DOMAIN RestOfFreeList : RestOfFreeList[i] = g
            BY <2>10
        <2> QED BY <2>1, <2>2, <2>3, <2>4, <2>6, <2>7, <2>8, <2>9, <2>11, <2>12
    <1> QED BY <1>1, <1>2

\* Writing a victim back leaves the free list and every other page alone.
LEMMA EvictKeepsDisk ==
    ASSUME IInv, NEW f \in Obtainable
    PROVE  LET d == EvictDisk(f) IN
           /\ d \in DiskType
           /\ d.extent = disk.extent
           /\ d.num_pages_ = disk.num_pages_
           /\ d.free_list_head_ = disk.free_list_head_
           /\ FreeListIs(d, freeChain)
           /\ \A p \in PageIds : page_table_[p] # f => d.page[p] = disk.page[p]
           /\ \A p \in PageIds : page_table_[p] = f => ReadPage(d, p) = pages_[f].data_
    <1> DEFINE d == EvictDisk(f)
    <1>0. /\ disk \in DiskType
          /\ FreeListIs(disk, freeChain)
          /\ freeChain \in Seq(PageIds)
        BY DEF IInv, TypeOK, FreeListSound, FreeListIs
    <1>1. /\ f \in Frames
          /\ Holders(f) = {}
        BY Obtain
    <1>2. CASE free_list_ # <<>>
        <2>1. d = disk
            BY <1>2 DEF EvictDisk
        <2>2. f = free_list_[1] /\ 1 \in DOMAIN free_list_
            BY <1>2 DEF Obtainable, IInv, TypeOK
        <2>3. \A p \in PageIds : page_table_[p] # f
            BY <2>2, <1>1 DEF InFreeList, Mapped, IInv, FramePartition
        <2> QED BY <1>0, <2>1, <2>3
    <1>3. CASE free_list_ = <<>>
        <2>1. f \in evictable
            BY <1>3 DEF Obtainable
        <2>2. PICK v \in PageIds : page_table_[v] = f
            BY <1>1, <2>1 DEF IInv, ReplacerTracksUnpinned, Mapped
        <2>3. Cached(v) /\ pages_[f].page_id_ = v
            BY <1>1, <2>2, NoFrameIsNoFrame DEF Cached, IInv, FramePartition
        <2>4. v # 0 /\ v < disk.extent /\ ~InChain(freeChain, v)
            BY <2>3, CachedPage
        <2>5. \A p \in PageIds : page_table_[p] = f => p = v
            BY <2>2, <2>3, OnePagePerFrame
        <2>6. pages_[f].data_ \in Word /\ pages_[f].is_dirty_ \in BOOLEAN
            BY <1>1 DEF IInv, TypeOK, FrameType
        <2>7. CASE pages_[f].is_dirty_
            <3>1. d = WritePage(disk, v, pages_[f].data_)
                BY <1>3, <2>3, <2>7 DEF EvictDisk
            <3>2. FreeListIs(d, freeChain)
                BY <1>0, <2>4, <2>6, <3>1, WritePageKeepsFreeList
            <3>3. /\ d \in DiskType
                  /\ d.page = [disk.page EXCEPT ![v] = pages_[f].data_]
                  /\ d.extent = disk.extent
                  /\ d.num_pages_ = disk.num_pages_
                  /\ d.free_list_head_ = disk.free_list_head_
                BY <1>0, <2>4, <2>6, <3>1, WritePageEffect
            <3>4. disk.page \in [PageIds -> Word]
                BY <1>0 DEF DiskType
            <3> HIDE DEF d
            <3>5. ReadPage(d, v) = pages_[f].data_
                BY <2>4, <3>3, <3>4 DEF ReadPage
            <3> QED BY <2>2, <2>5, <3>2, <3>3, <3>4, <3>5 DEF d
        <2>8. CASE ~pages_[f].is_dirty_
            <3>1. d = disk
                BY <2>8 DEF EvictDisk
            <3>2. \A c \in Holders(f) : ~handle[c].wrote
                BY <1>1
            <3>3. ReadPage(disk, v) = pages_[f].data_
                BY <1>1, <2>2, <2>8, <3>2 DEF IInv, CleanMatchesDisk
            <3> QED BY <1>0, <2>5, <3>1, <3>3
        <2> QED BY <2>7, <2>8
    <1> QED BY <1>2, <1>3

-----------------------------------------------------------------------------
(***************************************************************************)
(* How a caller's handle moves the sets of holders.                        *)
(***************************************************************************)
\* A caller that gains a pin on f joins the holders of f alone.
LEMMA HoldersGain ==
    ASSUME TypeOK, NEW c \in Callers, NEW f \in Frames, NEW h,
           ~Holds(c), h.frame = f, handle' = [handle EXCEPT ![c] = h]
    PROVE  /\ Holders(f)' = Holders(f) \union {c}
           /\ c \notin Holders(f)
           /\ Cardinality(Holders(f)') = Cardinality(Holders(f)) + 1
           /\ \A g \in Frames : g # f => Holders(g)' = Holders(g)
    <1>1. handle[c].frame = NoFrame /\ NoFrame \notin Frames
        BY NoFrameIsNoFrame DEF Holds
    <1>2. DOMAIN handle = Callers
        BY DEF TypeOK
    <1>3. \A x \in Callers : handle'[x] = IF x = c THEN h ELSE handle[x]
        BY <1>2
    <1>4. Holders(f)' = Holders(f) \union {c} /\ c \notin Holders(f)
        BY <1>1, <1>3 DEF Holders
    <1>5. \A g \in Frames : g # f => Holders(g)' = Holders(g)
        BY <1>1, <1>3 DEF Holders
    <1>6. Cardinality(Holders(f) \union {c}) = Cardinality(Holders(f)) + 1
        BY <1>4, HoldersFinite, FS_AddElement
    <1> QED BY <1>4, <1>5, <1>6

\* A caller that drops its pin leaves the holders of its frame alone.
LEMMA HoldersLose ==
    ASSUME TypeOK, NEW c \in Callers, NEW f \in Frames, handle[c].frame = f,
           handle' = [handle EXCEPT ![c] = NoHandle]
    PROVE  /\ Holders(f)' = Holders(f) \ {c}
           /\ c \in Holders(f)
           /\ Cardinality(Holders(f)') = Cardinality(Holders(f)) - 1
           /\ \A g \in Frames : g # f => Holders(g)' = Holders(g)
    <1>1. NoFrame \notin Frames /\ NoHandle.frame = NoFrame
        BY NoFrameIsNoFrame DEF NoHandle
    <1>2. DOMAIN handle = Callers
        BY DEF TypeOK
    <1>3. \A x \in Callers : handle'[x] = IF x = c THEN NoHandle ELSE handle[x]
        BY <1>2
    <1>4. Holders(f)' = Holders(f) \ {c} /\ c \in Holders(f)
        BY <1>1, <1>3 DEF Holders
    <1>5. \A g \in Frames : g # f => Holders(g)' = Holders(g)
        BY <1>1, <1>3 DEF Holders
    <1>6. Cardinality(Holders(f) \ {c}) = Cardinality(Holders(f)) - 1
        BY <1>4, HoldersFinite, FS_RemoveElement
    <1> QED BY <1>4, <1>5, <1>6

-----------------------------------------------------------------------------
(***************************************************************************)
(* Initially.                                                              *)
(***************************************************************************)
\* The constructor establishes the inductive invariant.
LEMMA InitIInv == Init => IInv
    <1> SUFFICES ASSUME Init PROVE IInv
        OBVIOUS
    <1> USE DEF Init, PoolInit
    <1>1. /\ EmptyFile \in DiskType
          /\ EmptyFile.extent = 0
          /\ EmptyFile.page = [p \in PageIds |-> Blank]
        BY PagesAssumption DEF EmptyFile, DiskType, PageIds, Word, Blank
    <1> DEFINE m == [EmptyFile EXCEPT !.free_list_head_ = INVALID_PAGE_ID, !.num_pages_ = 1]
               e == PutPage(m, 0, INVALID_PAGE_ID)
    <1>2. /\ m \in DiskType
          /\ m.extent = 0
          /\ m.num_pages_ = 1
          /\ m.free_list_head_ = INVALID_PAGE_ID
          /\ 0 \in PageIds
          /\ INVALID_PAGE_ID \in Word
        <2>1. /\ 0 \in PageIds
              /\ INVALID_PAGE_ID \in Word
              /\ 1 \in 0 .. MaxPages
            BY PagesAssumption DEF PageIds, Word
        <2> QED BY <1>1, <2>1 DEF DiskType
    <1> HIDE DEF m
    <1>3. /\ e \in DiskType
          /\ e.extent = 1
          /\ e.num_pages_ = 1
          /\ e.free_list_head_ = INVALID_PAGE_ID
        <2>1. /\ e \in DiskType
              /\ e.extent = IF 0 < m.extent THEN m.extent ELSE 0 + 1
              /\ e.num_pages_ = m.num_pages_
              /\ e.free_list_head_ = m.free_list_head_
            BY <1>2, PutPageEffect, ZenonT(60)
        <2> HIDE DEF e
        <2> QED BY <1>2, <2>1
    <1> HIDE DEF e
    <1>4. /\ disk \in DiskType
          /\ disk.extent = 1
          /\ disk.num_pages_ = 1
          /\ disk.free_list_head_ = INVALID_PAGE_ID
        BY <1>3, WriteMetadataEffect DEF InitializeFile, e, m
    <1>5. /\ DOMAIN free_list_ = 1 .. pool_size_
          /\ \A i \in 1 .. pool_size_ : free_list_[i] = i - 1 /\ i - 1 \in Frames
          /\ free_list_ \in Seq(Frames)
        <2>1. \A i \in 1 .. pool_size_ : i - 1 \in Frames
            BY PoolAssumption DEF Frames
        <2>2. free_list_ \in [1 .. pool_size_ -> Frames]
            BY <2>1
        <2> QED BY <2>1, <2>2, PoolAssumption, IsASeq
    <1>6. TypeOK
        <2>1. ResetMemory \in FrameType
            BY PagesAssumption DEF ResetMemory, FrameType, Word, Blank
        <2>2. NoHandle \in [page : Word, frame : Frames \union {NoFrame}, wrote : BOOLEAN]
            BY PagesAssumption DEF NoHandle, Word
        <2>3. freeChain \in Seq(PageIds)
            OBVIOUS
        <2> QED BY <1>4, <1>5, <2>1, <2>2, <2>3 DEF TypeOK
    <1>7. FramePartition
        <2>1. \A f \in Frames : ~Mapped(f)
            BY NoFrameIsNoFrame DEF Mapped
        <2>2. \A f \in Frames : InFreeList(f)
            <3> SUFFICES ASSUME NEW f \in Frames PROVE InFreeList(f)
                OBVIOUS
            <3>1. f + 1 \in 1 .. pool_size_ /\ (f + 1) - 1 = f
                BY PoolAssumption DEF Frames
            <3> QED BY <3>1, <1>5 DEF InFreeList
        <2>3. NoRepeats(free_list_)
            BY <1>5, PoolAssumption DEF NoRepeats
        <2> QED BY <2>1, <2>2, <2>3 DEF FramePartition, Cached
    <1>8. ReplacerTracksUnpinned
        BY NoFrameIsNoFrame DEF ReplacerTracksUnpinned, Mapped
    <1>9. PinsCounted
        <2>1. \A c \in Callers : handle[c].frame = NoFrame
            BY DEF NoHandle
        <2>2. \A f \in Frames : Holders(f) = {}
            BY <2>1, NoFrameIsNoFrame DEF Holders
        <2>3. \A f \in Frames : pages_[f].pin_count_ = 0
            BY DEF ResetMemory
        <2> QED BY <2>1, <2>2, <2>3, FS_EmptySet DEF PinsCounted, Holds
    <1>10. CleanMatchesDisk
        BY NoFrameIsNoFrame DEF CleanMatchesDisk
    <1>11. PagesAccounted
        BY <1>4 DEF PagesAccounted, Cached
    <1>12. FreeListSound
        BY <1>4 DEF FreeListSound, LinksSpell, NoRepeats, Top
    <1> QED BY <1>6, <1>7, <1>8, <1>9, <1>10, <1>11, <1>12 DEF IInv

-----------------------------------------------------------------------------
(***************************************************************************)
(* One lemma per action.                                                   *)
(***************************************************************************)
\* What a step does to the contents PageStore sees: nothing, or one page.
ContentSame == \A q \in PageIds : ContentOf(q)' = ContentOf(q)

ContentBecomes(p, w) ==
    \A q \in PageIds : ContentOf(q)' = IF q = p THEN w ELSE ContentOf(q)

\* When table, disk and histories stay, so do the properties of the disk.
LEMMA DiskPartUnchanged ==
    ASSUME IInv, UNCHANGED <<page_table_, disk, live, freeChain>>
    PROVE  PagesAccounted' /\ FreeListSound'
    BY DEF IInv, PagesAccounted, FreeListSound, Cached, InChain, LinksSpell,
           NoRepeats, Top, Below

\* FetchPage of a cached page preserves the invariant.
LEMMA FetchHitStep ==
    ASSUME IInv, NEW c \in Callers, NEW p \in PageIds, ~Holds(c), PoolFetchHit(p),
           handle' = [handle EXCEPT ![c] =
                [page |-> p, frame |-> page_table_[p], wrote |-> FALSE]],
           UNCHANGED <<live, freeChain>>
    PROVE  IInv' /\ ContentSame
    <1>0. page_table_[p] \in Frames
        BY CachedPage DEF PoolFetchHit
    <1>a. PICK f \in Frames : f = page_table_[p]
        BY <1>0
    <1> DEFINE h == [page |-> p, frame |-> f, wrote |-> FALSE]
    <1>1. /\ f \in Frames
          /\ Mapped(f)
          /\ Cached(p)
          /\ handle' = [handle EXCEPT ![c] = h]
        BY <1>a, CachedPage DEF PoolFetchHit
    <1>2. /\ pages_' = [pages_ EXCEPT ![f].pin_count_ = @ + 1]
          /\ evictable' = evictable \ {f}
          /\ page_table_' = page_table_
          /\ free_list_' = free_list_
          /\ disk' = disk
        BY <1>a DEF PoolFetchHit
    <1>3. TypeOK
        BY DEF IInv
    <1>4. /\ Holders(f)' = Holders(f) \union {c}
          /\ Cardinality(Holders(f)') = Cardinality(Holders(f)) + 1
          /\ \A g \in Frames : g # f => Holders(g)' = Holders(g)
        BY <1>1, <1>3, HoldersGain
    <1>5. pages_ \in [Frames -> FrameType]
        BY <1>3 DEF TypeOK
    <1>6. \A g \in Frames :
            /\ pages_'[g].page_id_ = pages_[g].page_id_
            /\ pages_'[g].is_dirty_ = pages_[g].is_dirty_
            /\ pages_'[g].data_ = pages_[g].data_
            /\ pages_'[g].pin_count_ = IF g = f THEN pages_[g].pin_count_ + 1
                                                ELSE pages_[g].pin_count_
        BY <1>2, <1>5 DEF FrameType
    <1>7. \A x \in Callers : handle'[x] = IF x = c THEN h ELSE handle[x]
        BY <1>1, <1>3 DEF TypeOK
    <1>8. TypeOK'
        <2>1. pages_' \in [Frames -> FrameType]
            BY <1>1, <1>2, <1>5 DEF FrameType
        <2>2. h \in [page : Word, frame : Frames \union {NoFrame}, wrote : BOOLEAN]
            BY <1>1, PagesAssumption DEF PageIds, Word
        <2>3. handle' \in [Callers -> [page : Word, frame : Frames \union {NoFrame},
                                      wrote : BOOLEAN]]
            BY <1>3, <2>2 DEF TypeOK
        <2> QED BY <1>2, <1>3, <2>1, <2>3 DEF TypeOK
    <1>9. FramePartition'
        BY <1>2, <1>3, <1>6 DEF IInv, FramePartition, Cached, Mapped, InFreeList, TypeOK,
           NoRepeats
    <1>10. \A g \in Frames : pages_[g].pin_count_ = Cardinality(Holders(g))
                             /\ pages_[g].pin_count_ \in Nat
        BY HoldersFinite DEF IInv, PinsCounted
    <1>11. ReplacerTracksUnpinned'
        BY <1>1, <1>2, <1>6, <1>10 DEF IInv, ReplacerTracksUnpinned, Mapped
    <1>12. PinsCounted'
        <2>1. \A g \in Frames : pages_'[g].pin_count_ = Cardinality(Holders(g)')
            BY <1>4, <1>6, <1>10
        <2>2. \A x \in Callers : Holds(x)' =>
                handle'[x].page \in PageIds /\ page_table_'[handle'[x].page] = handle'[x].frame
            BY <1>2, <1>7, <1>a DEF IInv, PinsCounted, Holds
        <2> QED BY <2>1, <2>2 DEF PinsCounted
    <1>13. CleanMatchesDisk'
        <2> SUFFICES ASSUME NEW q \in PageIds, NEW g \in Frames,
                            page_table_'[q] = g, ~pages_'[g].is_dirty_,
                            \A x \in Holders(g)' : ~handle'[x].wrote
                     PROVE  pages_'[g].data_ = ReadPage(disk', q)
            BY DEF CleanMatchesDisk
        <2>1. \A x \in Holders(g) : ~handle[x].wrote
            <3> SUFFICES ASSUME NEW x \in Holders(g) PROVE ~handle[x].wrote
                OBVIOUS
            <3>1. x \in Callers /\ x # c
                BY NoFrameIsNoFrame DEF Holders, Holds
            <3>2. x \in Holders(g)'
                BY <1>4
            <3> QED BY <1>7, <3>1, <3>2
        <2> QED BY <1>2, <1>6, <2>1 DEF IInv, CleanMatchesDisk
    <1>14. PagesAccounted' /\ FreeListSound'
        BY <1>2, DiskPartUnchanged
    <1>15. ContentSame
        <2>1. \A q \in PageIds : Cached(q) => page_table_[q] \in Frames
            BY CachedPage
        <2> QED BY <1>2, <1>6, <2>1 DEF ContentSame, ContentOf, Cached
    <1> QED BY <1>15, <1>8, <1>9, <1>11, <1>12, <1>13, <1>14 DEF IInv

\* A frame is taken, filled with page p and pinned by c: what FetchPage on a
\* miss and NewPage have in common.
Refill(f, c, p, r, h) ==
    /\ f \in Obtainable
    /\ ~Holds(c)
    /\ ~Cached(p)
    /\ r \in FrameType /\ r.page_id_ = p /\ r.pin_count_ = 1
    /\ h \in [page : Word, frame : Frames \union {NoFrame}, wrote : BOOLEAN]
    /\ h.page = p /\ h.frame = f
    /\ pages_' = [pages_ EXCEPT ![f] = r]
    /\ page_table_' = [EvictTable(f) EXCEPT ![p] = f]
    /\ free_list_' = RestOfFreeList
    /\ evictable' = evictable \ {f}
    /\ handle' = [handle EXCEPT ![c] = h]
    /\ disk' \in DiskType /\ live' \subseteq PageIds /\ freeChain' \in Seq(PageIds)

\* Giving a frame to another page preserves what is said of the frames.
LEMMA RefillStep ==
    ASSUME IInv, NEW f, NEW c \in Callers, NEW p \in PageIds, NEW r, NEW h,
           Refill(f, c, p, r, h)
    PROVE  /\ TypeOK'
           /\ FramePartition'
           /\ ReplacerTracksUnpinned'
           /\ PinsCounted'
           /\ \A q \in PageIds : page_table_'[q] =
                IF q = p THEN f ELSE IF page_table_[q] = f THEN NoFrame ELSE page_table_[q]
           /\ \A g \in Frames : pages_'[g] = IF g = f THEN r ELSE pages_[g]
           /\ \A x \in Callers : handle'[x] = IF x = c THEN h ELSE handle[x]
           /\ Holders(f)' = {c}
           /\ \A g \in Frames : g # f => Holders(g)' = Holders(g)
    <1> USE DEF Refill
    <1>1. /\ f \in Frames
          /\ Holders(f) = {}
          /\ EvictTable(f) \in [PageIds -> Frames \union {NoFrame}]
          /\ \A q \in PageIds : EvictTable(f)[q] =
                IF page_table_[q] = f THEN NoFrame ELSE page_table_[q]
          /\ RestOfFreeList \in Seq(Frames)
          /\ NoRepeats(RestOfFreeList)
          /\ \A g \in Frames :
                (\E i \in DOMAIN RestOfFreeList : RestOfFreeList[i] = g)
                    <=> InFreeList(g) /\ g # f
        BY Obtain
    <1>2. TypeOK
        BY DEF IInv
    <1>3. /\ Holders(f)' = Holders(f) \union {c}
          /\ Cardinality(Holders(f)') = Cardinality(Holders(f)) + 1
          /\ \A g \in Frames : g # f => Holders(g)' = Holders(g)
        BY <1>1, <1>2, HoldersGain
    <1>4. \A q \in PageIds : page_table_'[q] =
                IF q = p THEN f ELSE IF page_table_[q] = f THEN NoFrame ELSE page_table_[q]
        BY <1>1
    <1>5. \A g \in Frames : pages_'[g] = IF g = f THEN r ELSE pages_[g]
        BY <1>1, <1>2 DEF TypeOK
    <1>6. \A x \in Callers : handle'[x] = IF x = c THEN h ELSE handle[x]
        BY <1>2 DEF TypeOK
    <1>7. TypeOK'
        <2>1. pages_' \in [Frames -> FrameType]
            BY <1>1, <1>2 DEF TypeOK
        <2>2. page_table_' \in [PageIds -> Frames \union {NoFrame}]
            BY <1>1
        <2>3. handle' \in [Callers -> [page : Word, frame : Frames \union {NoFrame},
                                      wrote : BOOLEAN]]
            BY <1>2 DEF TypeOK
        <2>4. free_list_' \in Seq(Frames) /\ evictable' \subseteq Frames
            BY <1>1, <1>2 DEF TypeOK
        <2> QED BY <2>1, <2>2, <2>3, <2>4 DEF TypeOK
    <1>8. \A g \in Frames : Mapped(g)' <=> (g = f \/ Mapped(g))
        <2> SUFFICES ASSUME NEW g \in Frames
                     PROVE  (\E q \in PageIds : page_table_'[q] = g)
                            <=> (g = f \/ \E q \in PageIds : page_table_[q] = g)
            BY DEF Mapped
        <2>1. CASE g = f
            BY <2>1, <1>4
        <2>2. CASE g # f
            <3>1. page_table_[p] # g
                BY NoFrameIsNoFrame DEF Cached
            <3>2. \A q \in PageIds : page_table_'[q] = g <=> page_table_[q] = g
                BY <2>2, <3>1, <1>4, NoFrameIsNoFrame
            <3> QED BY <2>2, <3>2
        <2> QED BY <2>1, <2>2
    <1>9. FramePartition'
        <2>1. ASSUME NEW q \in PageIds, Cached(q)'
              PROVE  pages_'[page_table_'[q]].page_id_ = q
            <3>1. page_table_'[q] # NoFrame
                BY <2>1 DEF Cached
            <3>2. CASE q = p
                BY <3>2, <1>1, <1>4, <1>5
            <3>3. CASE q # p
                <4>1. page_table_[q] # f /\ page_table_'[q] = page_table_[q] /\ Cached(q)
                    BY <3>1, <3>3, <1>4 DEF Cached
                <4>2. page_table_[q] \in Frames /\ pages_[page_table_[q]].page_id_ = q
                    BY <4>1, CachedPage
                <4> QED BY <4>1, <4>2, <1>5
            <3> QED BY <3>2, <3>3
        <2>2. ASSUME NEW g \in Frames PROVE InFreeList(g)' <=> ~Mapped(g)'
            <3>1. InFreeList(g) <=> ~Mapped(g)
                BY DEF IInv, FramePartition
            <3>2. InFreeList(g)' <=> InFreeList(g) /\ g # f
                BY <1>1 DEF InFreeList
            <3> QED BY <1>8, <3>1, <3>2
        <2> QED BY <1>1, <2>1, <2>2 DEF FramePartition
    <1>10. ReplacerTracksUnpinned'
        <2> SUFFICES ASSUME NEW g \in Frames
                     PROVE  g \in evictable' <=> Mapped(g)' /\ pages_'[g].pin_count_ = 0
            BY DEF ReplacerTracksUnpinned
        <2>1. g \in evictable <=> Mapped(g) /\ pages_[g].pin_count_ = 0
            BY DEF IInv, ReplacerTracksUnpinned
        <2> QED BY <1>5, <1>8, <2>1
    <1>11. PinsCounted'
        <2>1. Cardinality(Holders(f)') = 1
            BY <1>1, <1>3, FS_EmptySet
        <2>2. \A g \in Frames : pages_'[g].pin_count_ = Cardinality(Holders(g)')
            BY <2>1, <1>3, <1>5 DEF IInv, PinsCounted
        <2>3. ASSUME NEW x \in Callers, Holds(x)'
              PROVE  handle'[x].page \in PageIds /\ page_table_'[handle'[x].page] = handle'[x].frame
            <3>1. CASE x = c
                BY <3>1, <1>4, <1>6
            <3>2. CASE x # c
                <4>1. handle'[x] = handle[x]
                    BY <3>2, <1>6
                <4>2. Holds(x)
                    BY <2>3, <4>1 DEF Holds
                <4>3. /\ handle[x].page \in PageIds
                      /\ page_table_[handle[x].page] = handle[x].frame
                    BY <4>2 DEF IInv, PinsCounted
                <4>4. handle[x].frame # f
                    BY <1>1 DEF Holders
                <4>5. handle[x].page # p
                    BY <4>2, <4>3 DEF Holds, Cached
                <4> QED BY <1>4, <4>1, <4>3, <4>4, <4>5
            <3> QED BY <3>1, <3>2
        <2> QED BY <2>2, <2>3 DEF PinsCounted
    <1>12. Holders(f)' = {c}
        BY <1>1, <1>3
    <1> QED BY <1>3, <1>4, <1>5, <1>6, <1>7, <1>9, <1>10, <1>11, <1>12

\* After a refill, the frames that are clean still match the disk, provided
\* the pages they hold kept their content on it.
LEMMA RefillClean ==
    ASSUME IInv, NEW f \in Frames, NEW c \in Callers, NEW p \in PageIds, NEW r, NEW h,
           Refill(f, c, p, r, h),
           h.wrote \/ r.data_ = ReadPage(disk', p),
           \A q \in PageIds : Cached(q) /\ q # p /\ page_table_[q] # f
                => ReadPage(disk', q) = ReadPage(disk, q)
    PROVE  CleanMatchesDisk'
    <1>0. /\ \A q \in PageIds : page_table_'[q] =
                IF q = p THEN f ELSE IF page_table_[q] = f THEN NoFrame ELSE page_table_[q]
          /\ \A g \in Frames : pages_'[g] = IF g = f THEN r ELSE pages_[g]
          /\ \A x \in Callers : handle'[x] = IF x = c THEN h ELSE handle[x]
          /\ Holders(f)' = {c}
          /\ \A g \in Frames : g # f => Holders(g)' = Holders(g)
        BY RefillStep
    <1>a. ~Holds(c)
        BY DEF Refill
    <1> SUFFICES ASSUME NEW q \in PageIds, NEW g \in Frames,
                        page_table_'[q] = g, ~pages_'[g].is_dirty_,
                        \A x \in Holders(g)' : ~handle'[x].wrote
                 PROVE  pages_'[g].data_ = ReadPage(disk', q)
        BY DEF CleanMatchesDisk
    <1>1. CASE q = p
        <2>1. g = f
            BY <1>0, <1>1
        <2>2. ~h.wrote
            BY <1>0, <2>1
        <2> QED BY <1>0, <1>1, <2>1, <2>2
    <1>2. CASE q # p
        <2>1. page_table_[q] = g /\ g # f
            BY <1>0, <1>2, NoFrameIsNoFrame
        <2>2. Cached(q)
            BY <2>1, NoFrameIsNoFrame DEF Cached
        <2>3. \A x \in Holders(g) : ~handle[x].wrote
            <3> SUFFICES ASSUME NEW x \in Holders(g) PROVE ~handle[x].wrote
                OBVIOUS
            <3>1. x \in Callers /\ x # c
                BY <1>a, NoFrameIsNoFrame DEF Holders, Holds
            <3>2. x \in Holders(g)'
                BY <1>0, <2>1
            <3> QED BY <1>0, <3>1, <3>2
        <2>4. pages_[g].data_ = ReadPage(disk, q)
            <3>1. ~pages_[g].is_dirty_
                BY <1>0, <2>1
            <3> QED BY <2>1, <2>3, <3>1 DEF IInv, CleanMatchesDisk
        <2> QED BY <1>0, <1>2, <2>1, <2>2, <2>4
    <1> QED BY <1>1, <1>2

\* FetchPage that reads the page from disk preserves the invariant.
LEMMA FetchMissStep ==
    ASSUME IInv, NEW c \in Callers, NEW p \in PageIds, NEW f \in Frames,
           ~Holds(c), p \in live, PoolFetchMiss(p, f),
           handle' = [handle EXCEPT ![c] = [page |-> p, frame |-> f, wrote |-> FALSE]],
           UNCHANGED <<live, freeChain>>
    PROVE  IInv' /\ ContentSame
    <1> DEFINE d == EvictDisk(f)
    <1>1. /\ ~Cached(p)
          /\ f \in Obtainable
          /\ pages_' = [pages_ EXCEPT ![f] =
                [page_id_ |-> p, pin_count_ |-> 1, is_dirty_ |-> FALSE,
                 data_ |-> ReadPage(d, p)]]
          /\ page_table_' = [EvictTable(f) EXCEPT ![p] = f]
          /\ free_list_' = RestOfFreeList
          /\ evictable' = evictable \ {f}
          /\ disk' = d
        BY DEF PoolFetchMiss
    <1>2. /\ d \in DiskType
          /\ d.extent = disk.extent
          /\ d.num_pages_ = disk.num_pages_
          /\ FreeListIs(d, freeChain)
          /\ \A q \in PageIds : page_table_[q] # f => d.page[q] = disk.page[q]
          /\ \A q \in PageIds : page_table_[q] = f => ReadPage(d, q) = pages_[f].data_
        BY <1>1, EvictKeepsDisk
    <1>3. /\ p \in Word /\ Blank \in Word
          /\ live \subseteq PageIds
          /\ freeChain \in Seq(PageIds)
        BY PagesAssumption DEF PageIds, Word, Blank, IInv, TypeOK
    <1> HIDE DEF d
    <1>4. ReadPage(d, p) \in Word
        BY <1>2, <1>3 DEF ReadPage, DiskType
    <1>a. PICK w \in Word : w = ReadPage(d, p)
        BY <1>4
    <1> DEFINE r == [page_id_ |-> p, pin_count_ |-> 1, is_dirty_ |-> FALSE, data_ |-> w]
               h == [page |-> p, frame |-> f, wrote |-> FALSE]
    <1>5. r \in FrameType /\ r.page_id_ = p /\ r.pin_count_ = 1 /\ r.data_ = w
        BY <1>3 DEF FrameType
    <1>6. /\ h \in [page : Word, frame : Frames \union {NoFrame}, wrote : BOOLEAN]
          /\ h.page = p /\ h.frame = f
        BY <1>3
    <1>7. disk' \in DiskType /\ live' \subseteq PageIds /\ freeChain' \in Seq(PageIds)
        BY <1>1, <1>2, <1>3
    <1>8. handle' = [handle EXCEPT ![c] = h] /\ pages_' = [pages_ EXCEPT ![f] = r]
        BY <1>1, <1>a
    <1> HIDE DEF r, h
    <1>b. Refill(f, c, p, r, h)
        BY <1>1, <1>5, <1>6, <1>7, <1>8 DEF Refill
    <1>9. /\ TypeOK'
          /\ FramePartition'
          /\ ReplacerTracksUnpinned'
          /\ PinsCounted'
          /\ \A q \in PageIds : page_table_'[q] =
                IF q = p THEN f ELSE IF page_table_[q] = f THEN NoFrame ELSE page_table_[q]
          /\ \A g \in Frames : pages_'[g] = IF g = f THEN r ELSE pages_[g]
          /\ \A x \in Callers : handle'[x] = IF x = c THEN h ELSE handle[x]
          /\ Holders(f)' = {c}
          /\ \A g \in Frames : g # f => Holders(g)' = Holders(g)
        BY <1>b, RefillStep
    <1>10. CleanMatchesDisk'
        <2>1. \A q \in PageIds : page_table_[q] # f => ReadPage(disk', q) = ReadPage(disk, q)
            BY <1>1, <1>2 DEF ReadPage
        <2>2. r.data_ = ReadPage(disk', p)
            BY <1>1, <1>5, <1>a
        <2> QED BY <1>b, <2>1, <2>2, RefillClean
    <1>11. PagesAccounted'
        <2>1. \A q \in PageIds : Cached(q)' => q \in live
            BY <1>9 DEF Cached, IInv, PagesAccounted
        <2>2. /\ \A q \in 1 .. (disk.num_pages_ - 1) : q \in live <=> ~InChain(freeChain, q)
              /\ live \subseteq 1 .. (disk.num_pages_ - 1)
            BY DEF IInv, PagesAccounted
        <2>3. disk'.num_pages_ = disk.num_pages_
            BY <1>1, <1>2
        <2> QED BY <2>1, <2>2, <2>3 DEF PagesAccounted, InChain
    <1>12. FreeListSound'
        BY <1>1, <1>2 DEF FreeListSound, FreeListIs
    <1>13. ContentSame
        <2> SUFFICES ASSUME NEW q \in PageIds, q \in live
                     PROVE  ContentOf(q)' = ContentOf(q)
            BY DEF ContentSame, ContentOf
        <2>1. NoFrame # f
            BY NoFrameIsNoFrame
        <2>2. page_table_[q] # f => ReadPage(disk', q) = ReadPage(disk, q)
            BY <1>1, <1>2 DEF ReadPage
        <2>3. CASE q = p
            <3>1. ContentOf(q) = ReadPage(disk, q)
                BY <1>1, <2>3 DEF ContentOf
            <3>2. ContentOf(q)' = r.data_
                BY <1>9, <2>1, <2>3 DEF ContentOf, Cached
            <3> QED BY <1>1, <1>5, <1>a, <2>1, <2>2, <2>3, <3>1, <3>2 DEF Cached
        <2>4. CASE q # p /\ page_table_[q] = f
            <3>1. ContentOf(q) = pages_[f].data_
                BY <2>1, <2>4 DEF ContentOf, Cached
            <3>2. ContentOf(q)' = ReadPage(disk', q)
                BY <1>9, <2>4 DEF ContentOf, Cached
            <3> QED BY <1>1, <1>2, <2>4, <3>1, <3>2
        <2>5. CASE q # p /\ page_table_[q] # f
            <3>1. page_table_'[q] = page_table_[q]
                BY <1>9, <2>5
            <3>2. CASE Cached(q)
                <4>1. pages_'[page_table_[q]] = pages_[page_table_[q]]
                    BY <1>9, <2>5, <3>2, CachedPage
                <4> QED BY <3>1, <3>2, <4>1 DEF ContentOf, Cached
            <3>3. CASE ~Cached(q)
                BY <2>2, <2>5, <3>1, <3>3 DEF ContentOf, Cached
            <3> QED BY <3>2, <3>3
        <2> QED BY <2>3, <2>4, <2>5
    <1> QED BY <1>13, <1>9, <1>10, <1>11, <1>12 DEF IInv

\* The page NewPage is about to hand out is in nobody's hands and not cached.
LEMMA NewPageFresh ==
    ASSUME IInv, NEW f \in Obtainable,
           FreeListEmpty(disk) => CanGrow(disk)
    PROVE  LET d == EvictDisk(f)
               p == AllocatedId(disk)
               e == AllocatePage(d)
               rest == IF FreeListEmpty(disk) THEN freeChain ELSE Pop(freeChain)
           IN  /\ AllocatedId(d) = p
               /\ p \in PageIds \ {0}
               /\ p \notin live
               /\ ~Cached(p)
               /\ p < e.num_pages_
               /\ e \in DiskType
               /\ e.num_pages_ = IF FreeListEmpty(disk) THEN disk.num_pages_ + 1
                                                        ELSE disk.num_pages_
               /\ rest \in Seq(PageIds)
               /\ FreeListIs(e, rest)
               /\ ~InChain(rest, p)
               /\ \A q : InChain(freeChain, q) <=>
                        InChain(rest, q) \/ (~FreeListEmpty(disk) /\ q = p)
               /\ FreeListEmpty(disk) => p = disk.num_pages_
               /\ \A q \in live : q # p /\ ReadPage(e, q) = ReadPage(d, q)
    <1> DEFINE d == EvictDisk(f)
               p == AllocatedId(disk)
               e == AllocatePage(d)
               rest == IF FreeListEmpty(disk) THEN freeChain ELSE Pop(freeChain)
    <1>1. /\ d \in DiskType
          /\ d.extent = disk.extent
          /\ d.num_pages_ = disk.num_pages_
          /\ d.free_list_head_ = disk.free_list_head_
          /\ FreeListIs(d, freeChain)
        BY EvictKeepsDisk
    <1>2. /\ AllocatedId(d) = p
          /\ FreeListEmpty(d) <=> FreeListEmpty(disk)
          /\ FreeListEmpty(d) => CanGrow(d)
        BY <1>1 DEF AllocatedId, FreeListEmpty, CanGrow
    <1>3. freeChain \in Seq(PageIds)
        BY DEF IInv, TypeOK
    <1> HIDE DEF d
    <1>4. /\ rest \in Seq(PageIds)
          /\ FreeListIs(e, rest)
          /\ ~InChain(rest, p)
          /\ \A q : InChain(freeChain, q) <=> InChain(rest, q) \/ (~FreeListEmpty(disk) /\ q = p)
          /\ p \in PageIds \ {0}
          /\ p < e.num_pages_
        BY <1>1, <1>2, <1>3, AllocateFreeList
    <1>5. /\ e \in DiskType
          /\ e.num_pages_ = IF FreeListEmpty(disk) THEN disk.num_pages_ + 1
                                                   ELSE disk.num_pages_
          /\ \A q \in PageIds : q # 0 /\ q # p /\ q < d.extent
                => ReadPage(e, q) = ReadPage(d, q)
        BY <1>1, <1>2, <1>3, AllocateKeepsOthers
    <1>6. /\ live \subseteq 1 .. (disk.num_pages_ - 1)
          /\ live \subseteq PageIds
          /\ disk.num_pages_ \in Nat
          /\ disk.extent = disk.num_pages_
          /\ \A q \in 1 .. (disk.num_pages_ - 1) : q \in live <=> ~InChain(freeChain, q)
        BY DEF IInv, PagesAccounted, TypeOK, DiskType, FreeListSound
    <1>7. FreeListEmpty(disk) => p = disk.num_pages_
        BY DEF AllocatedId
    <1>8. p \notin live
        <2>1. CASE FreeListEmpty(disk)
            BY <2>1, <1>6, <1>7
        <2>2. CASE ~FreeListEmpty(disk)
            <3>1. InChain(freeChain, p)
                BY <2>2, <1>4
            <3> QED BY <3>1, <1>6
        <2> QED BY <2>1, <2>2
    <1>9. ~Cached(p)
        BY <1>4, <1>8 DEF IInv, PagesAccounted
    <1>10. \A q \in live : q # p /\ ReadPage(e, q) = ReadPage(d, q)
        <2> SUFFICES ASSUME NEW q \in live PROVE q # p /\ ReadPage(e, q) = ReadPage(d, q)
            OBVIOUS
        <2>1. q \in PageIds /\ q # 0 /\ q < d.extent
            BY <1>1, <1>6
        <2>2. q # p
            BY <1>8
        <2> QED BY <1>5, <2>1, <2>2
    <1> HIDE DEF p, e, rest
    <1>11. QED BY <1>2, <1>4, <1>5, <1>7, <1>8, <1>9, <1>10 DEF p, e, rest, d

\* NewPage preserves the invariant.
LEMMA NewPageStep ==
    ASSUME IInv, NEW c \in Callers, NewPage(c)
    PROVE  /\ IInv'
           /\ \E p \in PageIds : /\ p \notin live
                                 /\ live' = live \union {p}
                                 /\ ContentBecomes(p, Blank)
    <1>1. PICK f \in Frames :
            /\ PoolNewPage(f)
            /\ handle' = [handle EXCEPT ![c] =
                  [page |-> AllocatedId(disk), frame |-> f, wrote |-> TRUE]]
        BY DEF NewPage
    <1>2. /\ f \in Obtainable
          /\ FreeListEmpty(disk) => CanGrow(disk)
          /\ ~Holds(c)
        BY <1>1 DEF NewPage, PoolNewPage
    <1> DEFINE d == EvictDisk(f)
               e == AllocatePage(d)
               rest == IF FreeListEmpty(disk) THEN freeChain ELSE Pop(freeChain)
    <1>3. /\ AllocatedId(d) = AllocatedId(disk)
          /\ AllocatedId(disk) \in PageIds \ {0}
          /\ AllocatedId(disk) \notin live
          /\ ~Cached(AllocatedId(disk))
          /\ AllocatedId(disk) < e.num_pages_
          /\ e \in DiskType
          /\ e.num_pages_ = IF FreeListEmpty(disk) THEN disk.num_pages_ + 1
                                                   ELSE disk.num_pages_
          /\ rest \in Seq(PageIds)
          /\ FreeListIs(e, rest)
          /\ ~InChain(rest, AllocatedId(disk))
          /\ \A q : InChain(freeChain, q) <=>
                InChain(rest, q) \/ (~FreeListEmpty(disk) /\ q = AllocatedId(disk))
          /\ FreeListEmpty(disk) => AllocatedId(disk) = disk.num_pages_
          /\ \A q \in live : q # AllocatedId(disk) /\ ReadPage(e, q) = ReadPage(d, q)
        BY <1>2, NewPageFresh
    <1>4. PICK p \in PageIds : p = AllocatedId(disk)
        BY <1>3
    <1> DEFINE r == [page_id_ |-> p, pin_count_ |-> 1, is_dirty_ |-> FALSE, data_ |-> Blank]
               h == [page |-> p, frame |-> f, wrote |-> TRUE]
    <1>5. /\ pages_' = [pages_ EXCEPT ![f] = r]
          /\ page_table_' = [EvictTable(f) EXCEPT ![p] = f]
          /\ free_list_' = RestOfFreeList
          /\ evictable' = evictable \ {f}
          /\ disk' = e
          /\ handle' = [handle EXCEPT ![c] = h]
          /\ live' = live \union {p}
          /\ freeChain' = rest
        BY <1>1, <1>3, <1>4 DEF PoolNewPage, NewPage
    <1>6. /\ p \in Word /\ Blank \in Word
          /\ live \subseteq PageIds
        BY PagesAssumption DEF PageIds, Word, Blank, IInv, TypeOK
    <1>7. r \in FrameType /\ r.page_id_ = p /\ r.pin_count_ = 1 /\ r.data_ = Blank
        BY <1>6 DEF FrameType
    <1>8. /\ h \in [page : Word, frame : Frames \union {NoFrame}, wrote : BOOLEAN]
          /\ h.page = p /\ h.frame = f /\ h.wrote
        BY <1>6
    <1>9. disk' \in DiskType /\ live' \subseteq PageIds /\ freeChain' \in Seq(PageIds)
        BY <1>3, <1>5, <1>6
    <1> HIDE DEF d, e, rest, r, h
    <1>10. Refill(f, c, p, r, h)
        BY <1>2, <1>3, <1>4, <1>5, <1>7, <1>8, <1>9 DEF Refill
    <1>11. /\ TypeOK'
           /\ FramePartition'
           /\ ReplacerTracksUnpinned'
           /\ PinsCounted'
           /\ \A q \in PageIds : page_table_'[q] =
                IF q = p THEN f ELSE IF page_table_[q] = f THEN NoFrame ELSE page_table_[q]
           /\ \A g \in Frames : pages_'[g] = IF g = f THEN r ELSE pages_[g]
           /\ \A x \in Callers : handle'[x] = IF x = c THEN h ELSE handle[x]
           /\ Holders(f)' = {c}
           /\ \A g \in Frames : g # f => Holders(g)' = Holders(g)
        BY <1>10, RefillStep
    <1>12. CleanMatchesDisk'
        <2>1. ASSUME NEW q \in PageIds, Cached(q), page_table_[q] # f
              PROVE  ReadPage(disk', q) = ReadPage(disk, q)
            <3>1. q \in live
                BY <2>1, CachedPage
            <3>2. d.page[q] = disk.page[q] /\ d.extent = disk.extent
                BY <1>2, <2>1, EvictKeepsDisk DEF d
            <3>3. ReadPage(d, q) = ReadPage(disk, q)
                BY <3>2 DEF ReadPage
            <3> QED BY <1>3, <1>5, <3>1, <3>3
        <2> QED BY <1>8, <1>10, <2>1, RefillClean
    <1>13. PagesAccounted'
        <2>1. \A q \in PageIds : Cached(q)' => q \in live'
            BY <1>5, <1>11 DEF Cached, IInv, PagesAccounted
        <2>2. /\ \A q \in 1 .. (disk.num_pages_ - 1) : q \in live <=> ~InChain(freeChain, q)
              /\ live \subseteq 1 .. (disk.num_pages_ - 1)
              /\ disk.num_pages_ \in Nat
              /\ e.num_pages_ \in Nat
            BY <1>3 DEF IInv, PagesAccounted, TypeOK, DiskType
        <2>3. p \in 1 .. (e.num_pages_ - 1)
            BY <1>3, <1>4, <2>2 DEF PageIds
        <2>4. live' \subseteq 1 .. (e.num_pages_ - 1)
            BY <1>3, <1>5, <2>2, <2>3
        <2>5. ASSUME NEW q \in 1 .. (e.num_pages_ - 1)
              PROVE  q \in live' <=> ~InChain(rest, q)
            <3>1. CASE q = p
                BY <3>1, <1>3, <1>4, <1>5
            <3>2. CASE q # p
                <4>1. q \in 1 .. (disk.num_pages_ - 1)
                    BY <3>2, <1>3, <1>4, <2>2
                <4>2. InChain(freeChain, q) <=> InChain(rest, q)
                    BY <3>2, <1>3, <1>4
                <4> QED BY <3>2, <4>1, <4>2, <1>5, <2>2
            <3> QED BY <3>1, <3>2
        <2> QED BY <1>5, <2>1, <2>4, <2>5 DEF PagesAccounted, InChain
    <1>14. FreeListSound'
        BY <1>3, <1>5 DEF FreeListSound, FreeListIs
    <1>15. ContentBecomes(p, Blank)
        <2> SUFFICES ASSUME NEW q \in PageIds
                     PROVE  ContentOf(q)' = IF q = p THEN Blank ELSE ContentOf(q)
            BY DEF ContentBecomes
        <2>1. NoFrame # f
            BY NoFrameIsNoFrame
        <2>2. CASE q = p
            <3>1. q \in live' /\ page_table_'[q] = f /\ pages_'[f] = r
                BY <1>5, <1>11, <2>2
            <3> QED BY <1>7, <2>1, <2>2, <3>1 DEF ContentOf, Cached
        <2>3. CASE q # p /\ q \notin live
            BY <1>5, <2>3 DEF ContentOf
        <2>4. CASE q # p /\ q \in live /\ page_table_[q] = f
            <3>1. ContentOf(q) = pages_[f].data_
                BY <2>1, <2>4 DEF ContentOf, Cached
            <3>2. ContentOf(q)' = ReadPage(e, q)
                BY <1>5, <1>11, <2>4 DEF ContentOf, Cached
            <3>3. ReadPage(d, q) = pages_[f].data_
                BY <1>2, <2>4, EvictKeepsDisk DEF d
            <3> QED BY <1>3, <2>4, <3>1, <3>2, <3>3
        <2>5. CASE q # p /\ q \in live /\ page_table_[q] # f
            <3>1. page_table_'[q] = page_table_[q] /\ q \in live'
                BY <1>5, <1>11, <2>5
            <3>2. CASE Cached(q)
                <4>1. pages_'[page_table_[q]] = pages_[page_table_[q]]
                    BY <1>11, <2>5, <3>2, CachedPage
                <4> QED BY <2>5, <3>1, <3>2, <4>1 DEF ContentOf, Cached
            <3>3. CASE ~Cached(q)
                <4>1. d.page[q] = disk.page[q] /\ d.extent = disk.extent
                    BY <1>2, <2>5, EvictKeepsDisk DEF d
                <4>2. ReadPage(e, q) = ReadPage(disk, q)
                    BY <1>3, <2>5, <4>1 DEF ReadPage
                <4> QED BY <1>5, <2>5, <3>1, <3>3, <4>2 DEF ContentOf, Cached
            <3> QED BY <3>2, <3>3
        <2> QED BY <2>2, <2>3, <2>4, <2>5
    <1> QED BY <1>3, <1>4, <1>5, <1>15, <1>11, <1>12, <1>13, <1>14 DEF IInv

\* Setting two fields of a frame leaves the others (for any sets of values).
LEMMA FrameUpdate ==
    ASSUME NEW W, NEW N, NEW B, NEW n \in N, NEW b \in B,
           NEW r \in [page_id_ : W, pin_count_ : N, is_dirty_ : B, data_ : W]
    PROVE  LET s == [r EXCEPT !.pin_count_ = n, !.is_dirty_ = b] IN
           /\ s \in [page_id_ : W, pin_count_ : N, is_dirty_ : B, data_ : W]
           /\ s.page_id_ = r.page_id_
           /\ s.data_ = r.data_
           /\ s.pin_count_ = n
           /\ s.is_dirty_ = b
    OBVIOUS

\* UnpinPage preserves the invariant.
LEMMA UnpinStep ==
    ASSUME IInv, NEW c \in Callers, UnpinPage(c)
    PROVE  IInv' /\ ContentSame
    <1>0. TypeOK
        BY DEF IInv
    <1>1. PICK is_dirty \in BOOLEAN :
            /\ handle[c].wrote => is_dirty
            /\ PoolUnpin(handle[c].page, is_dirty)
        BY DEF UnpinPage
    <1>2. /\ handle[c].page \in PageIds
          /\ page_table_[handle[c].page] = handle[c].frame
          /\ handle[c].frame \in Frames
        BY <1>0 DEF UnpinPage, IInv, PinsCounted, Holds, TypeOK
    <1>3. PICK f \in Frames : f = handle[c].frame
        BY <1>2
    <1>4. PICK p \in PageIds : p = handle[c].page
        BY <1>2
    <1>5. /\ page_table_[p] = f
          /\ pages_' = [pages_ EXCEPT ![f].pin_count_ = @ - 1,
                                      ![f].is_dirty_ = @ \/ is_dirty]
          /\ evictable' = IF pages_[f].pin_count_ = 1
                          THEN evictable \union {f} ELSE evictable
          /\ page_table_' = page_table_ /\ free_list_' = free_list_ /\ disk' = disk
          /\ live' = live /\ freeChain' = freeChain
          /\ handle' = [handle EXCEPT ![c] = NoHandle]
        BY <1>1, <1>2, <1>3, <1>4 DEF PoolUnpin, UnpinPage
    <1>6. pages_ \in [Frames -> FrameType]
        BY <1>0 DEF TypeOK
    <1>7. /\ pages_' \in [Frames -> FrameType]
          /\ \A g \in Frames :
                /\ pages_'[g].page_id_ = pages_[g].page_id_
                /\ pages_'[g].data_ = pages_[g].data_
                /\ pages_'[g].pin_count_ = IF g = f THEN pages_[g].pin_count_ - 1
                                                    ELSE pages_[g].pin_count_
                /\ pages_'[g].is_dirty_ = IF g = f THEN pages_[g].is_dirty_ \/ is_dirty
                                                   ELSE pages_[g].is_dirty_
        <2>1. PICK dirty \in BOOLEAN : dirty = (pages_[f].is_dirty_ \/ is_dirty)
            OBVIOUS
        <2>2. pages_' = [pages_ EXCEPT ![f] =
                [pages_[f] EXCEPT !.pin_count_ = pages_[f].pin_count_ - 1, !.is_dirty_ = dirty]]
            BY <1>5, <1>6, <2>1
        <2>3. /\ pages_[f] \in FrameType
              /\ pages_'[f] = [pages_[f] EXCEPT !.pin_count_ = pages_[f].pin_count_ - 1,
                                                !.is_dirty_ = dirty]
              /\ \A g \in Frames : g # f => pages_'[g] = pages_[g]
              /\ DOMAIN pages_' = Frames
            BY <1>6, <2>2
        <2>4. /\ pages_'[f] \in FrameType
              /\ pages_'[f].page_id_ = pages_[f].page_id_
              /\ pages_'[f].data_ = pages_[f].data_
              /\ pages_'[f].pin_count_ = pages_[f].pin_count_ - 1
              /\ pages_'[f].is_dirty_ = dirty
            <3>1. PICK n \in Int : n = pages_[f].pin_count_ - 1
                BY <2>3 DEF FrameType
            <3>2. PICK r \in FrameType : r = pages_[f]
                BY <2>3
            <3>3. pages_'[f] = [r EXCEPT !.pin_count_ = n, !.is_dirty_ = dirty]
                BY <2>3, <3>1, <3>2
            <3>4. LET s == [r EXCEPT !.pin_count_ = n, !.is_dirty_ = dirty] IN
                  /\ s \in FrameType
                  /\ s.page_id_ = r.page_id_
                  /\ s.data_ = r.data_
                  /\ s.pin_count_ = n
                  /\ s.is_dirty_ = dirty
                BY FrameUpdate, Zenon DEF FrameType
            <3> QED BY <3>1, <3>2, <3>3, <3>4, Zenon
        <2>5. pages_' \in [Frames -> FrameType]
            BY <1>6, <2>2, <2>3, <2>4
        <2> QED BY <2>1, <2>3, <2>4, <2>5
    <1>8. /\ Holders(f)' = Holders(f) \ {c}
          /\ Cardinality(Holders(f)') = Cardinality(Holders(f)) - 1
          /\ \A g \in Frames : g # f => Holders(g)' = Holders(g)
        BY <1>0, <1>3, <1>5, HoldersLose
    <1>9. \A x \in Callers : handle'[x] = IF x = c THEN NoHandle ELSE handle[x]
        BY <1>0, <1>5 DEF TypeOK
    <1>10. TypeOK'
        <2>1. NoHandle \in [page : Word, frame : Frames \union {NoFrame}, wrote : BOOLEAN]
            BY PagesAssumption DEF NoHandle, Word
        <2>2. handle' \in [Callers -> [page : Word, frame : Frames \union {NoFrame},
                                      wrote : BOOLEAN]]
            BY <1>0, <1>5, <2>1 DEF TypeOK
        <2> QED BY <1>0, <1>5, <1>7, <2>2 DEF TypeOK
    <1>11. FramePartition'
        BY <1>0, <1>5, <1>7 DEF IInv, FramePartition, Cached, Mapped, InFreeList, TypeOK,
           NoRepeats
    <1>12. \A g \in Frames : pages_[g].pin_count_ = Cardinality(Holders(g))
                             /\ pages_[g].pin_count_ \in Nat
        BY HoldersFinite DEF IInv, PinsCounted
    <1>13. ReplacerTracksUnpinned'
        <2> SUFFICES ASSUME NEW g \in Frames
                     PROVE  g \in evictable' <=> Mapped(g)' /\ pages_'[g].pin_count_ = 0
            BY DEF ReplacerTracksUnpinned
        <2>1. g \in evictable <=> Mapped(g) /\ pages_[g].pin_count_ = 0
            BY DEF IInv, ReplacerTracksUnpinned
        <2>2. Mapped(g)' <=> Mapped(g)
            BY <1>5 DEF Mapped
        <2>3. Mapped(f)
            BY <1>5 DEF Mapped
        <2>4. pages_[f].pin_count_ \in Nat /\ pages_[f].pin_count_ > 0
            BY <1>1, <1>2, <1>3, <1>12 DEF PoolUnpin
        <2> QED BY <1>5, <1>7, <2>1, <2>2, <2>3, <2>4
    <1>14. PinsCounted'
        <2>1. \A g \in Frames : pages_'[g].pin_count_ = Cardinality(Holders(g)')
            BY <1>7, <1>8, <1>12
        <2>2. \A x \in Callers : Holds(x)' =>
                handle'[x].page \in PageIds /\ page_table_'[handle'[x].page] = handle'[x].frame
            BY <1>5, <1>9 DEF IInv, PinsCounted, Holds, NoHandle
        <2> QED BY <2>1, <2>2 DEF PinsCounted
    <1>15. CleanMatchesDisk'
        <2> SUFFICES ASSUME NEW q \in PageIds, NEW g \in Frames,
                            page_table_'[q] = g, ~pages_'[g].is_dirty_,
                            \A x \in Holders(g)' : ~handle'[x].wrote
                     PROVE  pages_'[g].data_ = ReadPage(disk', q)
            BY DEF CleanMatchesDisk
        <2>1. \A x \in Holders(g) : x # c => ~handle[x].wrote
            <3> SUFFICES ASSUME NEW x \in Holders(g), x # c PROVE ~handle[x].wrote
                OBVIOUS
            <3>1. x \in Callers
                BY DEF Holders
            <3>2. x \in Holders(g)'
                BY <1>8
            <3> QED BY <1>9, <3>1, <3>2
        <2>2. c \in Holders(g) => ~handle[c].wrote
            <3> SUFFICES ASSUME c \in Holders(g) PROVE ~handle[c].wrote
                OBVIOUS
            <3>1. g = f
                BY <1>3 DEF Holders
            <3>2. ~is_dirty
                BY <1>7, <3>1
            <3> QED BY <1>1, <3>2
        <2>3. ~pages_[g].is_dirty_
            BY <1>7
        <2>4. pages_[g].data_ = ReadPage(disk, q)
            BY <1>5, <2>1, <2>2, <2>3 DEF IInv, CleanMatchesDisk
        <2> QED BY <1>5, <1>7, <2>4
    <1>16. PagesAccounted' /\ FreeListSound'
        BY <1>5, DiskPartUnchanged
    <1>17. ContentSame
        <2>1. \A q \in PageIds : Cached(q) => page_table_[q] \in Frames
            BY CachedPage
        <2> QED BY <1>5, <1>7, <2>1 DEF ContentSame, ContentOf, Cached
    <1> QED BY <1>17, <1>10, <1>11, <1>13, <1>14, <1>15, <1>16 DEF IInv

\* A step that moves no frame, pin or page: writes and flushes.
NothingMoves ==
    /\ \A g \in Frames : /\ pages_'[g].page_id_ = pages_[g].page_id_
                         /\ pages_'[g].pin_count_ = pages_[g].pin_count_
    /\ page_table_' = page_table_
    /\ free_list_' = free_list_
    /\ evictable' = evictable
    /\ live' = live
    /\ freeChain' = freeChain
    /\ \A x \in Callers : /\ handle'[x].page = handle[x].page
                          /\ handle'[x].frame = handle[x].frame
    /\ disk'.num_pages_ = disk.num_pages_

\* A step that only changes data_ and is_dirty_ keeps frames, pins and table.
LEMMA NothingMovesStep ==
    ASSUME IInv, NothingMoves
    PROVE  /\ FramePartition'
           /\ ReplacerTracksUnpinned'
           /\ PinsCounted'
           /\ PagesAccounted'
           /\ \A g \in Frames : Holders(g)' = Holders(g)
    <1> USE DEF NothingMoves
    <1>1. \A g \in Frames : Holders(g)' = Holders(g)
        BY DEF Holders
    <1>2. FramePartition'
        BY DEF IInv, FramePartition, Cached, Mapped, InFreeList, TypeOK, NoRepeats
    <1>3. ReplacerTracksUnpinned'
        BY DEF IInv, ReplacerTracksUnpinned, Mapped
    <1>4. PinsCounted'
        BY <1>1 DEF IInv, PinsCounted, Holds
    <1>5. PagesAccounted'
        BY DEF IInv, PagesAccounted, Cached, InChain
    <1> QED BY <1>1, <1>2, <1>3, <1>4, <1>5

\* A store through a pinned pointer preserves the invariant.
LEMMA WriteThroughStep ==
    ASSUME IInv, NEW c \in Callers, NEW w \in Values, WriteThrough(c, w)
    PROVE  /\ IInv'
           /\ handle[c].page \in PageIds
           /\ handle[c].page \in live
           /\ ContentBecomes(handle[c].page, w)
    <1>1. TypeOK /\ w \in Word
        BY PoolAssumption DEF IInv
    <1>2. handle[c].frame \in Frames
        BY <1>1 DEF WriteThrough, Holds, TypeOK
    <1>3. PICK f \in Frames : f = handle[c].frame
        BY <1>2
    <1>4. /\ pages_' = [pages_ EXCEPT ![f].data_ = w]
          /\ handle' = [handle EXCEPT ![c].wrote = TRUE]
          /\ page_table_' = page_table_ /\ free_list_' = free_list_
          /\ evictable' = evictable /\ disk' = disk
          /\ live' = live /\ freeChain' = freeChain
        BY <1>3 DEF WriteThrough
    <1>5. /\ pages_ \in [Frames -> FrameType]
          /\ handle \in [Callers -> [page : Word, frame : Frames \union {NoFrame},
                                     wrote : BOOLEAN]]
        BY <1>1 DEF TypeOK
    <1>6. /\ pages_' \in [Frames -> FrameType]
          /\ \A g \in Frames :
                /\ pages_'[g].page_id_ = pages_[g].page_id_
                /\ pages_'[g].pin_count_ = pages_[g].pin_count_
                /\ g # f => pages_'[g] = pages_[g]
        BY <1>1, <1>4, <1>5 DEF FrameType
    <1>7. /\ handle' \in [Callers -> [page : Word, frame : Frames \union {NoFrame},
                                      wrote : BOOLEAN]]
          /\ \A x \in Callers :
                /\ handle'[x].page = handle[x].page
                /\ handle'[x].frame = handle[x].frame
                /\ x # c => handle'[x] = handle[x]
          /\ handle'[c].wrote = TRUE
        BY <1>4, <1>5
    <1>8. TypeOK'
        BY <1>1, <1>4, <1>6, <1>7 DEF TypeOK
    <1>9. NothingMoves
        BY <1>4, <1>6, <1>7 DEF NothingMoves
    <1>10. /\ FramePartition'
           /\ ReplacerTracksUnpinned'
           /\ PinsCounted'
           /\ PagesAccounted'
           /\ \A g \in Frames : Holders(g)' = Holders(g)
        BY <1>9, NothingMovesStep
    <1>11. CleanMatchesDisk'
        <2> SUFFICES ASSUME NEW q \in PageIds, NEW g \in Frames,
                            page_table_'[q] = g, ~pages_'[g].is_dirty_,
                            \A x \in Holders(g)' : ~handle'[x].wrote
                     PROVE  pages_'[g].data_ = ReadPage(disk', q)
            BY DEF CleanMatchesDisk
        <2>1. c \in Holders(f)
            BY <1>3 DEF Holders
        <2>2. g # f
            BY <1>7, <1>10, <2>1
        <2>3. c \notin Holders(g)
            BY <1>3, <2>2 DEF Holders
        <2>4. \A x \in Holders(g) : x \in Callers /\ handle'[x] = handle[x]
            BY <1>7, <2>3 DEF Holders
        <2>5. \A x \in Holders(g) : ~handle[x].wrote
            BY <1>10, <2>4
        <2>6. pages_'[g] = pages_[g]
            BY <1>6, <2>2
        <2> QED BY <1>4, <2>5, <2>6 DEF IInv, CleanMatchesDisk
    <1>12. FreeListSound'
        BY <1>4, DiskPartUnchanged
    <1>13. /\ handle[c].page \in PageIds
           /\ page_table_[handle[c].page] = f
        BY <1>2, <1>3 DEF WriteThrough, IInv, PinsCounted
    <1>14. PICK p \in PageIds : p = handle[c].page
        BY <1>13
    <1>15. page_table_[p] = f /\ Cached(p) /\ p \in live
        BY <1>13, <1>14, NoFrameIsNoFrame, CachedPage DEF Cached
    <1>16. ContentBecomes(p, w)
        <2> SUFFICES ASSUME NEW q \in PageIds
                     PROVE  ContentOf(q)' = IF q = p THEN w ELSE ContentOf(q)
            BY DEF ContentBecomes
        <2>1. pages_'[f].data_ = w
            BY <1>4, <1>5 DEF FrameType
        <2>2. CASE q = p
            BY <1>4, <1>15, <2>1, <2>2 DEF ContentOf, Cached
        <2>3. CASE q # p /\ Cached(q)
            <3>1. page_table_[q] # f /\ page_table_[q] \in Frames
                BY <1>15, <2>3, OnePagePerFrame, CachedPage
            <3> QED BY <1>4, <1>6, <2>3, <3>1 DEF ContentOf, Cached
        <2>4. CASE q # p /\ ~Cached(q)
            BY <1>4, <2>4 DEF ContentOf, Cached
        <2> QED BY <2>2, <2>3, <2>4
    <1> QED BY <1>14, <1>15, <1>16, <1>8, <1>10, <1>11, <1>12 DEF IInv

\* FlushPage preserves the invariant.
LEMMA FlushPageStep ==
    ASSUME IInv, NEW p \in PageIds, FlushPage(p)
    PROVE  IInv' /\ ContentSame
    <1>1. TypeOK /\ Cached(p) /\ page_table_[p] \in Frames
        BY CachedPage DEF IInv, FlushPage, PoolFlushPage
    <1>2. PICK f \in Frames : f = page_table_[p]
        BY <1>1
    <1>3. /\ disk' = WritePage(disk, p, pages_[f].data_)
          /\ pages_' = [pages_ EXCEPT ![f].is_dirty_ = FALSE]
          /\ page_table_' = page_table_ /\ free_list_' = free_list_
          /\ evictable' = evictable /\ handle' = handle
          /\ live' = live /\ freeChain' = freeChain
        BY <1>2 DEF FlushPage, PoolFlushPage
    <1>4. /\ pages_ \in [Frames -> FrameType]
          /\ pages_[f].data_ \in Word
          /\ disk \in DiskType
          /\ disk.page \in [PageIds -> Word]
          /\ freeChain \in Seq(PageIds)
          /\ FreeListIs(disk, freeChain)
        BY <1>1 DEF TypeOK, FrameType, DiskType, IInv, FreeListSound, FreeListIs
    <1>5. p # 0 /\ p < disk.extent /\ ~InChain(freeChain, p)
        BY <1>1, CachedPage
    <1>6. /\ disk' \in DiskType
          /\ disk'.page = [disk.page EXCEPT ![p] = pages_[f].data_]
          /\ disk'.extent = disk.extent
          /\ disk'.num_pages_ = disk.num_pages_
        BY <1>3, <1>4, <1>5, WritePageEffect
    <1>7. FreeListIs(disk', freeChain)
        BY <1>3, <1>4, <1>5, WritePageKeepsFreeList
    <1>8. /\ pages_' \in [Frames -> FrameType]
          /\ \A g \in Frames :
                /\ pages_'[g].page_id_ = pages_[g].page_id_
                /\ pages_'[g].pin_count_ = pages_[g].pin_count_
                /\ pages_'[g].data_ = pages_[g].data_
                /\ g # f => pages_'[g] = pages_[g]
        BY <1>3, <1>4 DEF FrameType
    <1>9. TypeOK'
        BY <1>1, <1>3, <1>6, <1>8 DEF TypeOK
    <1>10. NothingMoves
        BY <1>3, <1>6, <1>8 DEF NothingMoves
    <1>11. /\ FramePartition'
           /\ ReplacerTracksUnpinned'
           /\ PinsCounted'
           /\ PagesAccounted'
           /\ \A g \in Frames : Holders(g)' = Holders(g)
        BY <1>10, NothingMovesStep
    <1>12. CleanMatchesDisk'
        <2> SUFFICES ASSUME NEW q \in PageIds, NEW g \in Frames,
                            page_table_'[q] = g, ~pages_'[g].is_dirty_,
                            \A x \in Holders(g)' : ~handle'[x].wrote
                     PROVE  pages_'[g].data_ = ReadPage(disk', q)
            BY DEF CleanMatchesDisk
        <2>1. CASE g = f
            <3>1. q = p
                BY <1>1, <1>2, <1>3, <2>1, OnePagePerFrame
            <3> QED BY <1>4, <1>5, <1>6, <1>8, <2>1, <3>1 DEF ReadPage
        <2>2. CASE g # f
            <3>1. q # p
                BY <1>2, <1>3, <2>2
            <3>2. ReadPage(disk', q) = ReadPage(disk, q)
                BY <1>4, <1>6, <3>1 DEF ReadPage
            <3>3. pages_[g].data_ = ReadPage(disk, q)
                BY <1>3, <1>8, <1>11, <2>2 DEF IInv, CleanMatchesDisk
            <3> QED BY <1>8, <3>2, <3>3
        <2> QED BY <2>1, <2>2
    <1>13. FreeListSound'
        BY <1>3, <1>7 DEF FreeListSound, FreeListIs
    <1>14. ContentSame
        <2> SUFFICES ASSUME NEW q \in PageIds PROVE ContentOf(q)' = ContentOf(q)
            BY DEF ContentSame
        <2>1. CASE Cached(q)
            BY <1>3, <1>8, <2>1, CachedPage DEF ContentOf, Cached
        <2>2. CASE ~Cached(q)
            <3>1. ReadPage(disk', q) = ReadPage(disk, q)
                BY <1>1, <1>4, <1>6, <2>2 DEF ReadPage
            <3> QED BY <1>3, <2>2, <3>1 DEF ContentOf, Cached
        <2> QED BY <2>1, <2>2
    <1> QED BY <1>14, <1>9, <1>11, <1>12, <1>13 DEF IInv
\* FlushAllPages writes cached pages, and page 0 is never one of them.
LEMMA FlushAllEffect ==
    ASSUME IInv, FlushAllPages
    PROVE  /\ disk' \in DiskType
           /\ disk'.page = [p \in PageIds |->
                IF DirtyInTable(p) THEN pages_[page_table_[p]].data_ ELSE disk.page[p]]
           /\ disk'.extent = disk.extent
           /\ disk'.num_pages_ = disk.num_pages_
           /\ disk'.free_list_head_ = disk.free_list_head_
    <1> DEFINE P == [p \in PageIds |->
                IF DirtyInTable(p) THEN pages_[page_table_[p]].data_ ELSE disk.page[p]]
               n == IF DirtyInTable(0) THEN 0 ELSE disk.disk_num
    <1>1. disk \in DiskType /\ pages_ \in [Frames -> FrameType]
        BY DEF IInv, TypeOK
    <1>2. disk' = [disk EXCEPT !.page = P, !.disk_num = n]
        BY DEF FlushAllPages, PoolFlushAllPages
    <1>3. P \in [PageIds -> Word]
        <2>1. \A p \in PageIds : disk.page[p] \in Word
            BY <1>1 DEF DiskType
        <2>2. \A p \in PageIds : DirtyInTable(p) => page_table_[p] \in Frames
            BY CachedPage DEF DirtyInTable
        <2>3. \A f \in Frames : pages_[f].data_ \in Word
            BY <1>1 DEF FrameType
        <2> QED BY <2>1, <2>2, <2>3
    <1>4. n \in 0 .. MaxPages
        BY <1>1, PagesAssumption DEF DiskType
    <1> HIDE DEF P, n
    <1>5. /\ disk' \in DiskType
          /\ disk'.page = P
          /\ disk'.extent = disk.extent
          /\ disk'.num_pages_ = disk.num_pages_
          /\ disk'.free_list_head_ = disk.free_list_head_
        BY <1>1, <1>2, <1>3, <1>4 DEF DiskType
    <1> QED BY <1>5 DEF P

\* It leaves every frame as it is, and no mapped frame dirty.
LEMMA FlushAllFrames ==
    ASSUME IInv, FlushAllPages
    PROVE  /\ pages_' \in [Frames -> FrameType]
           /\ \A g \in Frames : /\ pages_'[g].page_id_ = pages_[g].page_id_
                                /\ pages_'[g].pin_count_ = pages_[g].pin_count_
                                /\ pages_'[g].data_ = pages_[g].data_
    <1>1. pages_ \in [Frames -> FrameType]
        BY DEF IInv, TypeOK
    <1>2. pages_' = [f \in Frames |-> IF \E p \in PageIds : page_table_[p] = f
                                      THEN [pages_[f] EXCEPT !.is_dirty_ = FALSE]
                                      ELSE pages_[f]]
        BY DEF FlushAllPages, PoolFlushAllPages
    <1>3. ASSUME NEW g \in Frames
          PROVE  /\ pages_'[g] \in FrameType
                 /\ pages_'[g].page_id_ = pages_[g].page_id_
                 /\ pages_'[g].pin_count_ = pages_[g].pin_count_
                 /\ pages_'[g].data_ = pages_[g].data_
        <2>1. pages_[g] \in FrameType
            BY <1>1
        <2>2. pages_'[g] = [pages_[g] EXCEPT !.is_dirty_ = FALSE] \/ pages_'[g] = pages_[g]
            BY <1>2
        <2> QED BY <2>1, <2>2 DEF FrameType
    <1>4. pages_' \in [Frames -> FrameType]
        BY <1>2, <1>3
    <1> QED BY <1>3, <1>4

\* FlushAllPages preserves the invariant.
LEMMA FlushAllStep ==
    ASSUME IInv, FlushAllPages
    PROVE  IInv' /\ ContentSame
    <1>1. TypeOK
        BY DEF IInv
    <1>2. /\ page_table_' = page_table_ /\ free_list_' = free_list_
          /\ evictable' = evictable /\ handle' = handle
          /\ live' = live /\ freeChain' = freeChain
        BY DEF FlushAllPages, PoolFlushAllPages
    <1>3. /\ disk' \in DiskType
          /\ disk'.page = [p \in PageIds |->
                IF DirtyInTable(p) THEN pages_[page_table_[p]].data_ ELSE disk.page[p]]
          /\ disk'.extent = disk.extent
          /\ disk'.num_pages_ = disk.num_pages_
          /\ disk'.free_list_head_ = disk.free_list_head_
        BY FlushAllEffect
    <1>4. /\ pages_' \in [Frames -> FrameType]
          /\ \A g \in Frames : /\ pages_'[g].page_id_ = pages_[g].page_id_
                               /\ pages_'[g].pin_count_ = pages_[g].pin_count_
                               /\ pages_'[g].data_ = pages_[g].data_
        BY FlushAllFrames
    <1>5. TypeOK'
        BY <1>1, <1>2, <1>3, <1>4 DEF TypeOK
    <1>6. NothingMoves
        BY <1>2, <1>3, <1>4 DEF NothingMoves
    <1>7. /\ FramePartition'
          /\ ReplacerTracksUnpinned'
          /\ PinsCounted'
          /\ PagesAccounted'
          /\ \A g \in Frames : Holders(g)' = Holders(g)
        BY <1>6, NothingMovesStep
    <1>8. CleanMatchesDisk'
        <2> SUFFICES ASSUME NEW q \in PageIds, NEW g \in Frames,
                            page_table_'[q] = g, ~pages_'[g].is_dirty_,
                            \A x \in Holders(g)' : ~handle'[x].wrote
                     PROVE  pages_'[g].data_ = ReadPage(disk', q)
            BY DEF CleanMatchesDisk
        <2>1. page_table_[q] = g /\ Cached(q)
            BY <1>2, NoFrameIsNoFrame DEF Cached
        <2>2. q < disk.extent
            BY <2>1, CachedPage
        <2>3. CASE pages_[g].is_dirty_
            <3>1. disk'.page[q] = pages_[g].data_
                BY <1>3, <2>1, <2>3 DEF DirtyInTable
            <3> QED BY <1>3, <1>4, <2>2, <3>1 DEF ReadPage
        <2>4. CASE ~pages_[g].is_dirty_
            <3>1. disk'.page[q] = disk.page[q]
                BY <1>3, <2>1, <2>4 DEF DirtyInTable
            <3>2. pages_[g].data_ = ReadPage(disk, q)
                BY <1>2, <1>7, <2>1, <2>4 DEF IInv, CleanMatchesDisk
            <3> QED BY <1>3, <1>4, <3>1, <3>2 DEF ReadPage
        <2> QED BY <2>3, <2>4
    <1>9. FreeListSound'
        <2>1. ASSUME NEW i \in DOMAIN freeChain
              PROVE  /\ freeChain[i] \in 1 .. (disk'.num_pages_ - 1)
                     /\ freeChain[i] < disk'.extent
                     /\ disk'.page[freeChain[i]] = Below(freeChain, i)
            <3>1. /\ freeChain[i] \in 1 .. (disk.num_pages_ - 1)
                  /\ freeChain[i] < disk.extent
                  /\ disk.page[freeChain[i]] = Below(freeChain, i)
                  /\ freeChain[i] \in PageIds
                BY DEF IInv, FreeListSound, LinksSpell, TypeOK
            <3>2. ~DirtyInTable(freeChain[i])
                BY <3>1, CachedPage DEF DirtyInTable, InChain
            <3> QED BY <1>3, <3>1, <3>2
        <2>2. LinksSpell(disk', freeChain)
            BY <2>1 DEF LinksSpell
        <2> QED BY <1>2, <1>3, <2>2 DEF IInv, FreeListSound
    <1>10. ContentSame
        <2> SUFFICES ASSUME NEW q \in PageIds PROVE ContentOf(q)' = ContentOf(q)
            BY DEF ContentSame
        <2>1. CASE Cached(q)
            BY <1>2, <1>4, <2>1, CachedPage DEF ContentOf, Cached
        <2>2. CASE ~Cached(q)
            <3>1. ReadPage(disk', q) = ReadPage(disk, q)
                BY <1>3, <2>2 DEF ReadPage, DirtyInTable
            <3> QED BY <1>2, <2>2, <3>1 DEF ContentOf, Cached
        <2> QED BY <2>1, <2>2
    <1> QED BY <1>10, <1>5, <1>7, <1>8, <1>9 DEF IInv

\* DeletePage frees the frame of the page, if it has one, and the page.
LEMMA DeleteDisk ==
    ASSUME IInv, NEW p \in PageIds, p \in live,
           disk' = DeallocatePage(disk, p),
           live' = live \ {p}, freeChain' = Append(freeChain, p)
    PROVE  /\ disk' \in DiskType
           /\ live' \subseteq PageIds
           /\ freeChain' \in Seq(PageIds)
           /\ disk'.extent = disk.extent
           /\ disk'.num_pages_ = disk.num_pages_
           /\ \A q \in PageIds : q # p /\ q # 0 => ReadPage(disk', q) = ReadPage(disk, q)
           /\ FreeListSound'
           /\ \A q \in 1 .. (disk'.num_pages_ - 1) : q \in live' <=> ~InChain(freeChain', q)
           /\ live' \subseteq 1 .. (disk'.num_pages_ - 1)
    <1>1. /\ disk \in DiskType
          /\ disk.page \in [PageIds -> Word]
          /\ disk.num_pages_ \in Nat
          /\ disk.extent = disk.num_pages_
          /\ freeChain \in Seq(PageIds)
          /\ live \subseteq PageIds
          /\ FreeListIs(disk, freeChain)
        BY DEF IInv, TypeOK, DiskType, FreeListSound, FreeListIs
    <1>2. /\ \A q \in 1 .. (disk.num_pages_ - 1) : q \in live <=> ~InChain(freeChain, q)
          /\ live \subseteq 1 .. (disk.num_pages_ - 1)
        BY DEF IInv, PagesAccounted
    <1>3. p \in 1 .. (disk.num_pages_ - 1)
        BY <1>2
    <1>4. p # 0 /\ p < disk.num_pages_ /\ ~InChain(freeChain, p)
        BY <1>1, <1>2, <1>3
    <1>5. /\ disk' \in DiskType
          /\ disk'.page = [[disk.page EXCEPT ![p] = disk.free_list_head_] EXCEPT ![0] = p]
          /\ disk'.extent = disk.extent
          /\ disk'.num_pages_ = disk.num_pages_
        BY <1>1, <1>4, DeallocateEffect
    <1>6. FreeListIs(disk', freeChain')
        BY <1>1, <1>4, DeallocateFreeList
    <1>7. \A q \in PageIds : q # p /\ q # 0 => ReadPage(disk', q) = ReadPage(disk, q)
        BY <1>1, <1>5 DEF ReadPage
    <1>8. /\ freeChain' \in Seq(PageIds)
          /\ \A q : InChain(freeChain', q) <=> InChain(freeChain, q) \/ q = p
        BY <1>1 DEF InChain
    <1> QED BY <1>1, <1>2, <1>5, <1>6, <1>7, <1>8 DEF FreeListSound, FreeListIs

\* When frames, table and handles stay, so do the properties of the frames.
LEMMA FramesUnchanged ==
    ASSUME IInv, pages_' = pages_, page_table_' = page_table_, free_list_' = free_list_,
           evictable' = evictable, handle' = handle
    PROVE  FramePartition' /\ ReplacerTracksUnpinned' /\ PinsCounted'
    <1>1. FramePartition'
        BY DEF IInv, FramePartition, Cached, Mapped, InFreeList, NoRepeats
    <1>2. ReplacerTracksUnpinned'
        BY DEF IInv, ReplacerTracksUnpinned, Mapped
    <1>3. \A f : Holders(f)' = Holders(f)
        BY DEF Holders
    <1>4. PinsCounted'
        BY <1>3 DEF IInv, PinsCounted, Holds
    <1> QED BY <1>1, <1>2, <1>4

\* DeletePage of a page that is only on disk preserves the invariant.
LEMMA DeleteUncachedStep ==
    ASSUME IInv, NEW p \in PageIds, p \in live, PoolDeleteUncached(p),
           live' = live \ {p}, freeChain' = Append(freeChain, p), handle' = handle
    PROVE  IInv' /\ ContentBecomes(p, Blank)
    <1>1. /\ ~Cached(p)
          /\ disk' = DeallocatePage(disk, p)
          /\ pages_' = pages_ /\ page_table_' = page_table_
          /\ free_list_' = free_list_ /\ evictable' = evictable
        BY DEF PoolDeleteUncached
    <1>2. /\ disk' \in DiskType
          /\ live' \subseteq PageIds
          /\ freeChain' \in Seq(PageIds)
          /\ \A q \in PageIds : q # p /\ q # 0 => ReadPage(disk', q) = ReadPage(disk, q)
          /\ FreeListSound'
          /\ \A q \in 1 .. (disk'.num_pages_ - 1) : q \in live' <=> ~InChain(freeChain', q)
          /\ live' \subseteq 1 .. (disk'.num_pages_ - 1)
        BY <1>1, DeleteDisk
    <1>3. TypeOK'
        BY <1>1, <1>2 DEF IInv, TypeOK
    <1>4. FramePartition' /\ ReplacerTracksUnpinned' /\ PinsCounted'
        BY <1>1, FramesUnchanged
    <1>5. CleanMatchesDisk'
        <2> SUFFICES ASSUME NEW q \in PageIds, NEW g \in Frames,
                            page_table_'[q] = g, ~pages_'[g].is_dirty_,
                            \A x \in Holders(g)' : ~handle'[x].wrote
                     PROVE  pages_'[g].data_ = ReadPage(disk', q)
            BY DEF CleanMatchesDisk
        <2>1. Cached(q) /\ q # p
            BY <1>1, NoFrameIsNoFrame DEF Cached
        <2>2. q # 0
            BY <2>1, CachedPage
        <2>3. Holders(g)' = Holders(g)
            BY DEF Holders
        <2>4. pages_[g].data_ = ReadPage(disk, q)
            BY <1>1, <2>3 DEF IInv, CleanMatchesDisk
        <2> QED BY <1>1, <1>2, <2>1, <2>2, <2>4
    <1>6. PagesAccounted'
        <2>1. \A q \in PageIds : Cached(q)' => q \in live'
            BY <1>1 DEF IInv, PagesAccounted, Cached
        <2> QED BY <1>2, <2>1 DEF PagesAccounted
    <1>7. ContentBecomes(p, Blank)
        <2> SUFFICES ASSUME NEW q \in PageIds
                     PROVE  ContentOf(q)' = IF q = p THEN Blank ELSE ContentOf(q)
            BY DEF ContentBecomes
        <2>1. CASE q = p \/ q \notin live
            BY <2>1 DEF ContentOf
        <2>2. CASE q # p /\ q \in live
            <3>1. q # 0
                BY <2>2 DEF IInv, PagesAccounted
            <3>2. ReadPage(disk', q) = ReadPage(disk, q)
                BY <1>2, <2>2, <3>1
            <3> QED BY <1>1, <2>2, <3>2 DEF ContentOf, Cached
        <2> QED BY <2>1, <2>2
    <1> QED BY <1>7, <1>2, <1>3, <1>4, <1>5, <1>6 DEF IInv

\* DeletePage of a cached page preserves the invariant.
LEMMA DeleteCachedStep ==
    ASSUME IInv, NEW p \in PageIds, p \in live, PoolDeleteCached(p),
           live' = live \ {p}, freeChain' = Append(freeChain, p), handle' = handle
    PROVE  IInv' /\ ContentBecomes(p, Blank)
    <1>1. TypeOK /\ Cached(p) /\ page_table_[p] \in Frames
        BY CachedPage DEF IInv, PoolDeleteCached
    <1>2. PICK f \in Frames : f = page_table_[p]
        BY <1>1
    <1>3. /\ disk' = DeallocatePage(disk, p)
          /\ pages_[f].pin_count_ <= 0
          /\ evictable' = evictable \ {f}
          /\ pages_' = [pages_ EXCEPT ![f] = ResetMemory]
          /\ free_list_' = Append(free_list_, f)
          /\ page_table_' = [page_table_ EXCEPT ![p] = NoFrame]
        BY <1>2 DEF PoolDeleteCached
    <1>4. /\ disk' \in DiskType
          /\ live' \subseteq PageIds
          /\ freeChain' \in Seq(PageIds)
          /\ \A q \in PageIds : q # p /\ q # 0 => ReadPage(disk', q) = ReadPage(disk, q)
          /\ FreeListSound'
          /\ \A q \in 1 .. (disk'.num_pages_ - 1) : q \in live' <=> ~InChain(freeChain', q)
          /\ live' \subseteq 1 .. (disk'.num_pages_ - 1)
        BY <1>3, DeleteDisk
    <1>5. /\ pages_ \in [Frames -> FrameType]
          /\ page_table_ \in [PageIds -> Frames \union {NoFrame}]
          /\ free_list_ \in Seq(Frames)
        BY <1>1 DEF TypeOK
    <1>6. ResetMemory \in FrameType /\ ResetMemory.pin_count_ = 0
        BY PagesAssumption DEF ResetMemory, FrameType, Word, Blank
    <1>7. /\ pages_' \in [Frames -> FrameType]
          /\ \A g \in Frames : pages_'[g] = IF g = f THEN ResetMemory ELSE pages_[g]
          /\ page_table_' \in [PageIds -> Frames \union {NoFrame}]
          /\ \A q \in PageIds : page_table_'[q] = IF q = p THEN NoFrame ELSE page_table_[q]
          /\ free_list_' \in Seq(Frames)
        BY <1>3, <1>5, <1>6
    <1>8. TypeOK'
        BY <1>1, <1>3, <1>4, <1>7 DEF TypeOK
    <1>9. \A q \in PageIds : page_table_[q] = f => q = p
        BY <1>1, <1>2, OnePagePerFrame
    <1>10. /\ ~Mapped(f)'
           /\ \A g \in Frames : g # f => (Mapped(g)' <=> Mapped(g))
        BY <1>2, <1>7, <1>9, NoFrameIsNoFrame DEF Mapped
    <1>11. \A g \in Frames : InFreeList(g)' <=> InFreeList(g) \/ g = f
        <2>1. /\ DOMAIN free_list_ = 1 .. Len(free_list_)
              /\ DOMAIN free_list_' = 1 .. (Len(free_list_) + 1)
              /\ free_list_'[Len(free_list_) + 1] = f
              /\ \A i \in 1 .. Len(free_list_) : free_list_'[i] = free_list_[i]
              /\ Len(free_list_) \in Nat
            BY <1>3, <1>5
        <2> QED BY <2>1 DEF InFreeList
    <1>12. ~InFreeList(f)
        BY <1>2 DEF IInv, FramePartition, Mapped
    <1>13. FramePartition'
        <2>1. ASSUME NEW q \in PageIds, Cached(q)'
              PROVE  pages_'[page_table_'[q]].page_id_ = q
            <3>1. q # p /\ page_table_'[q] = page_table_[q] /\ Cached(q)
                BY <1>7, <2>1 DEF Cached
            <3>2. page_table_[q] \in Frames /\ page_table_[q] # f
                BY <1>9, <3>1, CachedPage
            <3> QED BY <1>7, <3>1, <3>2 DEF IInv, FramePartition
        <2>2. \A g \in Frames : InFreeList(g)' <=> ~Mapped(g)'
            BY <1>10, <1>11 DEF IInv, FramePartition
        <2>3. NoRepeats(free_list_)'
            <3>1. NoRepeats(free_list_)
                BY DEF IInv, FramePartition
            <3> QED BY <1>3, <1>5, <1>12, <3>1 DEF NoRepeats, InFreeList
        <2> QED BY <2>1, <2>2, <2>3 DEF FramePartition
    <1>14. Holders(f) = {} /\ pages_[f].pin_count_ = 0
        <2>1. pages_[f].pin_count_ = 0
            BY <1>3, HoldersFinite DEF IInv, PinsCounted
        <2> QED BY <2>1, UnpinnedUnheld
    <1>15. \A g \in Frames : Holders(g)' = Holders(g)
        BY DEF Holders
    <1>16. ReplacerTracksUnpinned'
        BY <1>3, <1>7, <1>10 DEF IInv, ReplacerTracksUnpinned
    <1>17. PinsCounted'
        <2>1. \A g \in Frames : pages_'[g].pin_count_ = Cardinality(Holders(g)')
            BY <1>6, <1>7, <1>14, <1>15 DEF IInv, PinsCounted
        <2>2. ASSUME NEW x \in Callers, Holds(x)'
              PROVE  /\ handle'[x].page \in PageIds
                     /\ page_table_'[handle'[x].page] = handle'[x].frame
            <3>1. /\ handle[x].page \in PageIds
                  /\ page_table_[handle[x].page] = handle[x].frame
                BY <2>2 DEF Holds, IInv, PinsCounted
            <3>2. handle[x].frame # f
                BY <1>14 DEF Holders
            <3> QED BY <1>2, <1>7, <3>1, <3>2
        <2> QED BY <2>1, <2>2 DEF PinsCounted
    <1>18. CleanMatchesDisk'
        <2> SUFFICES ASSUME NEW q \in PageIds, NEW g \in Frames,
                            page_table_'[q] = g, ~pages_'[g].is_dirty_,
                            \A x \in Holders(g)' : ~handle'[x].wrote
                     PROVE  pages_'[g].data_ = ReadPage(disk', q)
            BY DEF CleanMatchesDisk
        <2>1. q # p /\ page_table_[q] = g /\ Cached(q)
            BY <1>7, NoFrameIsNoFrame DEF Cached
        <2>2. q # 0 /\ g # f
            BY <1>9, <2>1, CachedPage
        <2>3. pages_'[g] = pages_[g]
            BY <1>7, <2>2
        <2>4. pages_[g].data_ = ReadPage(disk, q)
            BY <1>15, <2>1, <2>3 DEF IInv, CleanMatchesDisk
        <2> QED BY <1>4, <2>1, <2>2, <2>3, <2>4
    <1>19. PagesAccounted'
        <2>1. \A q \in PageIds : Cached(q)' => q \in live'
            BY <1>7 DEF IInv, PagesAccounted, Cached
        <2> QED BY <1>4, <2>1 DEF PagesAccounted
    <1>20. ContentBecomes(p, Blank)
        <2> SUFFICES ASSUME NEW q \in PageIds
                     PROVE  ContentOf(q)' = IF q = p THEN Blank ELSE ContentOf(q)
            BY DEF ContentBecomes
        <2>1. CASE q = p \/ q \notin live
            BY <2>1 DEF ContentOf
        <2>2. CASE q # p /\ q \in live
            <3>1. q # 0 /\ page_table_'[q] = page_table_[q] /\ q \in live'
                BY <1>7, <2>2 DEF IInv, PagesAccounted
            <3>2. ReadPage(disk', q) = ReadPage(disk, q)
                BY <1>4, <2>2, <3>1
            <3>3. CASE Cached(q)
                <4>1. page_table_[q] \in Frames /\ page_table_[q] # f
                    BY <1>9, <2>2, <3>3, CachedPage
                <4> QED BY <1>7, <2>2, <3>1, <3>3, <4>1 DEF ContentOf, Cached
            <3>4. CASE ~Cached(q)
                BY <2>2, <3>1, <3>2, <3>4 DEF ContentOf, Cached
            <3> QED BY <3>3, <3>4
        <2> QED BY <2>1, <2>2
    <1> QED BY <1>20, <1>4, <1>8, <1>13, <1>16, <1>17, <1>18, <1>19 DEF IInv

\* DeletePage preserves the invariant.
LEMMA DeleteStep ==
    ASSUME IInv, NEW p \in PageIds, DeletePage(p)
    PROVE  IInv' /\ ContentBecomes(p, Blank)
    BY DeleteCachedStep, DeleteUncachedStep DEF DeletePage

\* FetchPage preserves the invariant.
LEMMA FetchStep ==
    ASSUME IInv, NEW c \in Callers, NEW p \in PageIds, FetchPage(c, p)
    PROVE  IInv' /\ ContentSame
    <1>1. /\ ~Holds(c)
          /\ p \in live
          /\ UNCHANGED <<live, freeChain>>
        BY DEF FetchPage
    <1>2. CASE /\ PoolFetchHit(p)
               /\ handle' = [handle EXCEPT ![c] =
                    [page |-> p, frame |-> page_table_[p], wrote |-> FALSE]]
        BY <1>1, <1>2, FetchHitStep
    <1>3. ASSUME NEW f \in Frames,
                 PoolFetchMiss(p, f),
                 handle' = [handle EXCEPT ![c] = [page |-> p, frame |-> f, wrote |-> FALSE]]
          PROVE  IInv' /\ ContentSame
        BY <1>1, <1>3, FetchMissStep
    <1> QED BY <1>2, <1>3 DEF FetchPage

\* A step that changes nothing preserves the invariant.
LEMMA StutterStep ==
    ASSUME IInv, UNCHANGED vars
    PROVE  IInv' /\ ContentSame
    <1>1. /\ pages_' = pages_ /\ page_table_' = page_table_
          /\ free_list_' = free_list_ /\ evictable' = evictable
          /\ disk' = disk /\ handle' = handle
          /\ live' = live /\ freeChain' = freeChain
        BY DEF vars
    <1>2. TypeOK' /\ FramePartition' /\ ReplacerTracksUnpinned' /\ PinsCounted'
        BY <1>1, FramesUnchanged DEF IInv, TypeOK
    <1>3. CleanMatchesDisk'
        BY <1>1 DEF IInv, CleanMatchesDisk, Holders, ReadPage
    <1>4. PagesAccounted' /\ FreeListSound'
        BY <1>1, DiskPartUnchanged
    <1>5. ContentSame
        BY <1>1 DEF ContentSame, ContentOf, Cached, ReadPage
    <1> QED BY <1>5, <1>2, <1>3, <1>4 DEF IInv

(***************************************************************************)
(* The invariants of the specification.                                    *)
(***************************************************************************)
\* Every operation preserves the invariant.
LEMMA NextIInv ==
    ASSUME IInv, [Next]_vars
    PROVE  IInv'
    <1>1. ASSUME NEW c \in Callers, NEW p \in PageIds, FetchPage(c, p)
          PROVE  IInv'
        BY <1>1, FetchStep
    <1>2. ASSUME NEW c \in Callers, NewPage(c) PROVE IInv'
        BY <1>2, NewPageStep
    <1>3. ASSUME NEW c \in Callers, UnpinPage(c) PROVE IInv'
        BY <1>3, UnpinStep
    <1>4. ASSUME NEW c \in Callers, NEW w \in Values, WriteThrough(c, w) PROVE IInv'
        BY <1>4, WriteThroughStep
    <1>5. ASSUME NEW p \in PageIds, FlushPage(p) PROVE IInv'
        BY <1>5, FlushPageStep
    <1>6. ASSUME NEW p \in PageIds, DeletePage(p) PROVE IInv'
        BY <1>6, DeleteStep
    <1>7. CASE FlushAllPages
        BY <1>7, FlushAllStep
    <1>8. CASE UNCHANGED vars
        BY <1>8, StutterStep
    <1> QED BY <1>1, <1>2, <1>3, <1>4, <1>5, <1>6, <1>7, <1>8 DEF Next

\* All the invariants of the pool hold together in every reachable state.
THEOREM PoolInvariant == Spec => []IInv
    <1>1. Init => IInv
        BY InitIInv
    <1>2. IInv /\ [Next]_vars => IInv'
        BY NextIInv
    <1> QED BY <1>1, <1>2, PTL DEF Spec

\* Every variable keeps its type, whatever the callers do: no operation
\* indexes a frame or a page outside the pool or the file.
THEOREM TypeCorrect == Spec => []TypeOK
    <1>1. IInv => TypeOK
        BY DEF IInv
    <1> QED BY <1>1, PoolInvariant, PTL

\* FetchPage, NewPage and DeletePage never lose a frame or use one twice.
THEOREM FramesPartitioned == Spec => []FramePartition
    <1>1. IInv => FramePartition
        BY DEF IInv
    <1> QED BY <1>1, PoolInvariant, PTL

\* Pin and Unpin calls keep the replacer's candidates exactly the unpinned
\* frames: a pinned page is never a victim.
THEOREM VictimsUnpinned == Spec => []ReplacerTracksUnpinned
    <1>1. IInv => ReplacerTracksUnpinned
        BY DEF IInv
    <1> QED BY <1>1, PoolInvariant, PTL

\* pin_count_ counts the holders of the page and no pointer goes stale.
THEOREM PinsExact == Spec => []PinsCounted
    <1>1. IInv => PinsCounted
        BY DEF IInv
    <1> QED BY <1>1, PoolInvariant, PTL

\* is_dirty_ is never missing: a frame without it can be dropped unwritten.
THEOREM CleanFramesMatch == Spec => []CleanMatchesDisk
    <1>1. IInv => CleanMatchesDisk
        BY DEF IInv
    <1> QED BY <1>1, PoolInvariant, PTL

\* Pages are neither leaked nor handed out twice by the disk's free list.
THEOREM PagesConserved == Spec => [](PagesAccounted /\ FreeListSound)
    <1>1. IInv => PagesAccounted /\ FreeListSound
        BY DEF IInv
    <1> QED BY <1>1, PoolInvariant, PTL

\* FlushAllPages leaves the content of a page nobody is writing on disk.
LEMMA FlushAllWrites ==
    ASSUME IInv, FlushAllPages, NEW p \in live,
           \A c \in Callers : handle[c].page = p => ~handle[c].wrote
    PROVE  ReadPage(disk', p) = IF Cached(p) THEN pages_[page_table_[p]].data_
                                             ELSE ReadPage(disk, p)
    <1>1. p \in PageIds
        BY DEF IInv, TypeOK
    <1>2. /\ disk'.page = [q \in PageIds |->
                IF DirtyInTable(q) THEN pages_[page_table_[q]].data_ ELSE disk.page[q]]
          /\ disk'.extent = disk.extent
        BY FlushAllEffect
    <1>3. CASE Cached(p)
        <2>1. page_table_[p] \in Frames /\ p < disk.extent
            BY <1>1, <1>3, CachedPage
        <2>2. PICK f \in Frames : f = page_table_[p]
            BY <2>1
        <2>3. CASE pages_[f].is_dirty_
            BY <1>1, <1>2, <1>3, <2>1, <2>2, <2>3 DEF ReadPage, DirtyInTable
        <2>4. CASE ~pages_[f].is_dirty_
            <3>1. \A c \in Holders(f) : ~handle[c].wrote
                <4> SUFFICES ASSUME NEW c \in Holders(f) PROVE ~handle[c].wrote
                    OBVIOUS
                <4>1. c \in Callers /\ handle[c].frame = f /\ Holds(c)
                    BY NoFrameIsNoFrame DEF Holders, Holds
                <4>2. handle[c].page \in PageIds /\ page_table_[handle[c].page] = f
                    BY <4>1 DEF IInv, PinsCounted
                <4>3. handle[c].page = p
                    BY <1>1, <1>3, <2>2, <4>2, OnePagePerFrame
                <4> QED BY <4>1, <4>3
            <3>2. pages_[f].data_ = ReadPage(disk, p)
                BY <1>1, <2>2, <2>4, <3>1 DEF IInv, CleanMatchesDisk
            <3>3. disk'.page[p] = disk.page[p]
                BY <1>1, <1>2, <2>2, <2>4 DEF DirtyInTable
            <3> QED BY <1>2, <1>3, <2>2, <3>2, <3>3 DEF ReadPage
        <2> QED BY <2>3, <2>4
    <1>4. CASE ~Cached(p)
        BY <1>1, <1>2, <1>4 DEF ReadPage, DirtyInTable
    <1> QED BY <1>3, <1>4

\* FlushAllPages, which the destructor and Stop call, leaves the content of
\* every page in use on disk.
THEOREM FlushAllSaves == Spec => FlushAllPersists
    <1> DEFINE A == FlushAllPages =>
                \A p \in live :
                    (\A c \in Callers : handle[c].page = p => ~handle[c].wrote)
                        => ReadPage(disk', p) = IF Cached(p) THEN pages_[page_table_[p]].data_
                                                             ELSE ReadPage(disk, p)
    <1>1. IInv /\ [Next]_vars => [A]_vars
        BY FlushAllWrites
    <1> QED BY <1>1, PoolInvariant, PTL DEF Spec, FlushAllPersists

-----------------------------------------------------------------------------
(***************************************************************************)
(* The pool implements PageStore.                                          *)
(***************************************************************************)
\* A step that keeps the pages in use and their contents is invisible.
LEMMA SameIsStutter ==
    ASSUME ContentSame, live' = live
    PROVE  UNCHANGED Store!storeVars
    BY DEF ContentSame, Store!storeVars

\* A function that differs at one point is an EXCEPT.
LEMMA BecomesIsExcept ==
    ASSUME NEW p \in PageIds, NEW w, ContentBecomes(p, w)
    PROVE  [q \in PageIds |-> ContentOf(q)]' = [[q \in PageIds |-> ContentOf(q)] EXCEPT ![p] = w]
    BY DEF ContentBecomes

\* Every operation of the pool is an operation of PageStore or invisible.
LEMMA NextStoreNext ==
    ASSUME IInv, [Next]_vars
    PROVE  [Store!StoreNext]_Store!storeVars
    <1>1. ASSUME NEW c \in Callers, NEW p \in PageIds, FetchPage(c, p)
          PROVE  UNCHANGED Store!storeVars
        BY <1>1, FetchStep, SameIsStutter DEF FetchPage
    <1>2. ASSUME NEW c \in Callers, NewPage(c)
          PROVE  Store!StoreNext
        <2>1. PICK p \in PageIds : /\ p \notin live
                                   /\ live' = live \union {p}
                                   /\ ContentBecomes(p, Blank)
            BY <1>2, NewPageStep
        <2>2. Store!StoreAllocate(p)
            BY <2>1, BecomesIsExcept DEF Store!StoreAllocate
        <2> QED BY <2>2 DEF Store!StoreNext
    <1>3. ASSUME NEW c \in Callers, UnpinPage(c)
          PROVE  UNCHANGED Store!storeVars
        BY <1>3, UnpinStep, SameIsStutter DEF UnpinPage
    <1>4. ASSUME NEW c \in Callers, NEW w \in Values, WriteThrough(c, w)
          PROVE  Store!StoreNext
        <2>1. PICK p \in PageIds : p \in live /\ ContentBecomes(p, w)
            BY <1>4, WriteThroughStep
        <2>2. Store!StoreWrite(p, w)
            BY <1>4, <2>1, BecomesIsExcept DEF Store!StoreWrite, WriteThrough
        <2> QED BY <2>2 DEF Store!StoreNext
    <1>5. ASSUME NEW p \in PageIds, FlushPage(p)
          PROVE  UNCHANGED Store!storeVars
        BY <1>5, FlushPageStep, SameIsStutter DEF FlushPage
    <1>6. ASSUME NEW p \in PageIds, DeletePage(p)
          PROVE  Store!StoreNext
        <2>1. /\ p \in live
              /\ live' = live \ {p}
              /\ ContentBecomes(p, Blank)
            BY <1>6, DeleteStep DEF DeletePage
        <2>2. Store!StoreDelete(p)
            BY <2>1, BecomesIsExcept DEF Store!StoreDelete
        <2> QED BY <2>2 DEF Store!StoreNext
    <1>7. CASE FlushAllPages
        BY <1>7, FlushAllStep, SameIsStutter DEF FlushAllPages
    <1>8. CASE UNCHANGED vars
        BY <1>8, StutterStep, SameIsStutter DEF vars
    <1> QED BY <1>1, <1>2, <1>3, <1>4, <1>5, <1>6, <1>7, <1>8 DEF Next

\* Through FetchPage the pool is a store of pages: caching, eviction,
\* write-back, reuse of page ids and of frames never show.
THEOREM PoolIsPageStore == Spec => ImplementsPageStore
    <1>1. Init => Store!StoreInit
        BY DEF Init, Store!StoreInit, ContentOf
    <1>2. IInv /\ [Next]_vars => [Store!StoreNext]_Store!storeVars
        BY NextStoreNext
    <1> QED BY <1>1, <1>2, PoolInvariant, PTL DEF Spec, ImplementsPageStore, Store!StoreSpec
=============================================================================
