------------------------ MODULE StorageServiceProofs ------------------------
(***************************************************************************)
(* The storage service for any number of connections, pages and frames.    *)
(*                                                                         *)
(* Two inductive invariants.  ServiceInv is what the handlers keep         *)
(* whatever clients send: the pool's tables agree with its frames although *)
(* page ids may name anything, handlers may throw half-way through a fetch *)
(* and pins may be lost.  ContractInv is what they keep for exclusive      *)
(* clients: every call they make is one the pool's contract allows, so the *)
(* pool's own invariant (BufferPoolProofs) is at hand, and the pool would  *)
(* answer what the last WRITE left, mixtures of overlapping ones included. *)
(***************************************************************************)
EXTENDS StorageService, BufferPoolProofs

ThreadType ==
    [pc : {"closed", "recv", "exec", "use", "copy", "unpin", "drop",
           "reply", "error", "crashed"},
     op : Ops, page : Word, value : Word]

HandleType == [page : Word, frame : Frames \union {NoFrame}, wrote : BOOLEAN]

\* The pool's own variables agree with each other.
PoolSane ==
    /\ pages_ \in [Frames -> FrameType]
    /\ page_table_ \in [PageIds -> Frames \union {NoFrame}]
    /\ free_list_ \in Seq(Frames)
    /\ evictable \subseteq Frames
    /\ disk \in DiskType
    /\ \A p \in PageIds : Cached(p) => pages_[page_table_[p]].page_id_ = p
    /\ \A f \in Frames : InFreeList(f) =>
        ~Mapped(f) /\ f \notin evictable /\ pages_[f].pin_count_ = 0
    /\ NoRepeats(free_list_)
    /\ \A f \in evictable : pages_[f].page_id_ \in PageIds

\* What a handler at t holds: a page while it uses one, otherwise nothing.
HandlerSound(t, h) ==
    /\ t.pc \in {"use", "copy", "unpin", "drop"} =>
        /\ h.frame \in Frames
        /\ h.page = t.page
        /\ t.page \in PageIds
        /\ t.op \in {"READ", "WRITE", "ALLOCATE"}
    /\ t.pc \in {"closed", "recv", "exec", "reply", "error"} => h = NoHandle
    /\ t.op = "WRITE" => t.value \in Values
    /\ h.wrote => t.op # "READ"

ClientsSane ==
    /\ handle \in [Callers -> HandleType]
    /\ live \subseteq PageIds
    /\ freeChain \in Seq(PageIds)
    /\ thread \in [Callers -> ThreadType]
    /\ stop \in {"running", "signalled", "flushed", "reset", "closed"}
    /\ content \in [PageIds -> SUBSET Word]
    /\ allowed \in [Callers -> SUBSET Word]
    /\ sent \in 0 .. MaxRequests
    /\ \A c \in Callers : HandlerSound(thread[c], handle[c])

ServiceInv == PoolSane /\ ClientsSane

-----------------------------------------------------------------------------
(***************************************************************************)
(* The pool under any clients.                                             *)
(***************************************************************************)
LEMMA WordFacts ==
    /\ PageIds \subseteq Word
    /\ INVALID_PAGE_ID \in Word
    /\ INVALID_PAGE_ID \notin PageIds
    /\ Blank \in Word
    /\ 0 \in PageIds
    /\ Values \subseteq Word
    /\ Payloads \subseteq Values
    /\ Half \in Values /\ Mixed \in Values /\ Half # Mixed
    /\ Word \subseteq Nat
    /\ \A p \in Word : p < MaxPages => p \in PageIds
    BY PagesAssumption, PoolAssumption, ServiceAssumption DEF PageIds, Word, Blank, Payloads

\* Any page of the file may be written, page 0 as well.
LEMMA AnyWriteEffect ==
    ASSUME NEW d \in DiskType, NEW p \in PageIds, NEW w \in Word
    PROVE  LET e == WritePage(d, p, w) IN
           /\ e \in DiskType
           /\ e.num_pages_ = d.num_pages_
           /\ e.free_list_head_ = d.free_list_head_
    <1> DEFINE e == PutPage(d, p, w)
    <1>1. /\ e \in DiskType
          /\ e.num_pages_ = d.num_pages_
          /\ e.free_list_head_ = d.free_list_head_
        BY PutPageEffect
    <1> HIDE DEF e
    <1>2. /\ [e EXCEPT !.disk_num = 0] \in DiskType
          /\ [e EXCEPT !.disk_num = 0].num_pages_ = e.num_pages_
          /\ [e EXCEPT !.disk_num = 0].free_list_head_ = e.free_list_head_
        BY <1>1, PagesAssumption DEF DiskType
    <1>3. CASE p = 0
        BY <1>1, <1>2, <1>3 DEF WritePage, e
    <1>4. CASE p # 0
        BY <1>1, <1>4 DEF WritePage, e
    <1> QED BY <1>3, <1>4

\* AllocatePage of a file whose free list may lead anywhere inside it.
LEMMA AnyAllocateEffect ==
    ASSUME NEW d \in DiskType,
           FreeListEmpty(d) => CanGrow(d),
           ~FreeListEmpty(d) => d.free_list_head_ < MaxPages
    PROVE  AllocatedId(d) \in PageIds /\ AllocatePage(d) \in DiskType
    <1>1. /\ d.free_list_head_ \in Word
          /\ d.num_pages_ \in 0 .. MaxPages
          /\ d.page \in [PageIds -> Word]
          /\ MaxPages \in Nat
        BY PagesAssumption DEF DiskType
    <1>2. CASE FreeListEmpty(d)
        <2> DEFINE m == [d EXCEPT !.num_pages_ = d.num_pages_ + 1]
        <2>1. d.num_pages_ < MaxPages
            BY <1>2 DEF CanGrow
        <2>2. d.num_pages_ \in PageIds /\ d.num_pages_ + 1 \in 0 .. MaxPages
            BY <1>1, <2>1 DEF PageIds
        <2>3. m \in DiskType
            BY <2>2 DEF DiskType
        <2> HIDE DEF m
        <2>4. WriteMetadata(m) \in DiskType
            BY <2>3, WriteMetadataEffect
        <2>5. PutPage(WriteMetadata(m), d.num_pages_, Blank) \in DiskType
            BY <2>2, <2>4, WordFacts, PutPageEffect
        <2> QED BY <1>2, <2>2, <2>5
            DEF AllocatePage, AllocateGrowBlank, AllocateGrowCount, AllocatedId, m
    <1>3. CASE ~FreeListEmpty(d)
        <2>1. d.free_list_head_ \in PageIds
            BY <1>1, <1>3, WordFacts
        <2> QED BY <1>3, <2>1, ReuseEffect DEF AllocatedId
    <1> QED BY <1>2, <1>3

LEMMA AnyDeallocateEffect ==
    ASSUME NEW d \in DiskType, NEW p \in PageIds
    PROVE  DeallocatePage(d, p) \in DiskType
    <1> DEFINE e == PutPage(d, p, d.free_list_head_)
               m == [e EXCEPT !.free_list_head_ = p]
    <1>1. d.free_list_head_ \in Word
        BY DEF DiskType
    <1>2. e \in DiskType
        BY <1>1, PutPageEffect
    <1> HIDE DEF e
    <1>3. m \in DiskType
        BY <1>2, WordFacts DEF DiskType
    <1> HIDE DEF m
    <1>4. WriteMetadata(m) \in DiskType
        BY <1>3, WriteMetadataEffect
    <1> QED BY <1>4 DEF DeallocatePage, DeallocateHead, DeallocateLink, m, e

\* Taking a frame: it is out of the table and out of the free list.
LEMMA Take ==
    ASSUME PoolSane, NEW f \in Obtainable
    PROVE  /\ f \in Frames
           /\ EvictTable(f) \in [PageIds -> Frames \union {NoFrame}]
           /\ \A p \in PageIds : EvictTable(f)[p] \in {page_table_[p], NoFrame} \ {f}
           /\ RestOfFreeList \in Seq(Frames)
           /\ NoRepeats(RestOfFreeList)
           /\ \A i \in DOMAIN RestOfFreeList :
                InFreeList(RestOfFreeList[i]) /\ RestOfFreeList[i] # f
           /\ EvictDisk(f) \in DiskType
           /\ EvictDisk(f).num_pages_ = disk.num_pages_
           /\ EvictDisk(f).free_list_head_ = disk.free_list_head_
    <1>1. /\ pages_ \in [Frames -> FrameType]
          /\ page_table_ \in [PageIds -> Frames \union {NoFrame}]
          /\ free_list_ \in Seq(Frames)
          /\ evictable \subseteq Frames
          /\ disk \in DiskType
        BY DEF PoolSane
    <1>2. CASE free_list_ # <<>>
        <2> DEFINE R == Tail(free_list_)
                   n == Len(free_list_)
        <2>1. f = free_list_[1] /\ 1 \in DOMAIN free_list_ /\ f \in Frames
            BY <1>1, <1>2 DEF Obtainable
        <2>2. ~Mapped(f)
            BY <2>1 DEF InFreeList, PoolSane
        <2>3. EvictTable(f) = page_table_ /\ EvictDisk(f) = disk /\ RestOfFreeList = R
            BY <1>2 DEF EvictTable, EvictDisk, RestOfFreeList
        <2>4. /\ R \in Seq(Frames)
              /\ n \in Nat \ {0}
              /\ Len(R) = n - 1
              /\ \A i \in 1 .. (n - 1) : R[i] = free_list_[i + 1]
            BY <1>1, <1>2
        <2>5. DOMAIN R = 1 .. (n - 1) /\ DOMAIN free_list_ = 1 .. n
            BY <1>1, <2>4
        <2>6. \A i, j \in 1 .. n : free_list_[i] = free_list_[j] => i = j
            BY <2>5 DEF PoolSane, NoRepeats
        <2> HIDE DEF R
        <2>7. NoRepeats(R)
            BY <2>4, <2>5, <2>6 DEF NoRepeats
        <2>8. ASSUME NEW i \in 1 .. (n - 1)
              PROVE  InFreeList(R[i]) /\ R[i] # f
            <3>1. i + 1 \in 1 .. n /\ 1 \in 1 .. n /\ i + 1 # 1 /\ R[i] = free_list_[i + 1]
                BY <2>4
            <3> QED BY <2>1, <2>5, <2>6, <3>1 DEF InFreeList
        <2>9. \A p \in PageIds : page_table_[p] # f
            BY <2>2 DEF Mapped
        <2> QED BY <1>1, <2>1, <2>3, <2>4, <2>5, <2>7, <2>8, <2>9
    <1>3. CASE free_list_ = <<>>
        <2>1. f \in evictable /\ f \in Frames
            BY <1>1, <1>3 DEF Obtainable
        <2>2. pages_[f].page_id_ \in PageIds /\ pages_[f].data_ \in Word
            BY <1>1, <2>1 DEF PoolSane, FrameType
        <2>3. RestOfFreeList = <<>>
            BY <1>3 DEF RestOfFreeList
        <2>4. RestOfFreeList \in Seq(Frames) /\ NoRepeats(RestOfFreeList) /\ DOMAIN RestOfFreeList = {}
            BY <2>3 DEF NoRepeats
        <2>5. EvictTable(f) = [page_table_ EXCEPT ![pages_[f].page_id_] = NoFrame]
            BY <1>3 DEF EvictTable
        <2>6. EvictTable(f) \in [PageIds -> Frames \union {NoFrame}]
            BY <1>1, <2>5
        <2>7. ASSUME NEW p \in PageIds
              PROVE  EvictTable(f)[p] \in {page_table_[p], NoFrame} \ {f}
            <3>1. f # NoFrame
                BY <2>1, NoFrameIsNoFrame
            <3>2. page_table_[p] = f => pages_[f].page_id_ = p
                BY <3>1 DEF PoolSane, Cached
            <3> QED BY <1>1, <2>2, <2>5, <3>1, <3>2
        <2>8. /\ EvictDisk(f) \in DiskType
              /\ EvictDisk(f).num_pages_ = disk.num_pages_
              /\ EvictDisk(f).free_list_head_ = disk.free_list_head_
            BY <1>1, <2>2, AnyWriteEffect DEF EvictDisk
        <2> QED BY <2>1, <2>4, <2>6, <2>7, <2>8
    <1> QED BY <1>2, <1>3

\* A frame taken and refilled, under a page id in the table or under none.
LEMMA RefillSane ==
    ASSUME PoolSane, NEW f \in Obtainable, NEW r \in FrameType, NEW table,
           \/ table = EvictTable(f)
           \/ r.page_id_ \in PageIds /\ table = [EvictTable(f) EXCEPT ![r.page_id_] = f],
           pages_' = [pages_ EXCEPT ![f] = r],
           page_table_' = table,
           free_list_' = RestOfFreeList,
           evictable' = evictable \ {f},
           disk' \in DiskType
    PROVE  PoolSane'
    <1>1. /\ pages_ \in [Frames -> FrameType]
          /\ page_table_ \in [PageIds -> Frames \union {NoFrame}]
          /\ evictable \subseteq Frames
        BY DEF PoolSane
    <1>2. /\ f \in Frames
          /\ EvictTable(f) \in [PageIds -> Frames \union {NoFrame}]
          /\ \A p \in PageIds : EvictTable(f)[p] \in {page_table_[p], NoFrame} \ {f}
          /\ RestOfFreeList \in Seq(Frames)
          /\ NoRepeats(RestOfFreeList)
          /\ \A i \in DOMAIN RestOfFreeList :
                InFreeList(RestOfFreeList[i]) /\ RestOfFreeList[i] # f
        BY Take
    <1>3. /\ pages_' \in [Frames -> FrameType]
          /\ pages_'[f] = r
          /\ \A g \in Frames : g # f => pages_'[g] = pages_[g]
        BY <1>1, <1>2
    <1>4. /\ page_table_' \in [PageIds -> Frames \union {NoFrame}]
          /\ \A p \in PageIds :
                \/ page_table_'[p] = f /\ r.page_id_ = p
                \/ page_table_'[p] \in {page_table_[p], NoFrame} \ {f}
        BY <1>2
    <1>5. \A p \in PageIds : page_table_'[p] # NoFrame => pages_'[page_table_'[p]].page_id_ = p
        <2> SUFFICES ASSUME NEW p \in PageIds, page_table_'[p] # NoFrame, page_table_'[p] # f
                     PROVE  pages_'[page_table_'[p]].page_id_ = p
            BY <1>3, <1>4
        <2>1. page_table_'[p] = page_table_[p] /\ page_table_[p] \in Frames /\ Cached(p)
            BY <1>1, <1>4 DEF Cached
        <2> QED BY <1>3, <2>1 DEF PoolSane
    <1>6. ASSUME NEW g \in Frames, InFreeList(g)'
          PROVE  ~Mapped(g)' /\ g \notin evictable' /\ pages_'[g].pin_count_ = 0
        <2>1. InFreeList(g) /\ g # f
            BY <1>2, <1>6 DEF InFreeList
        <2>2. ~Mapped(g) /\ g \notin evictable /\ pages_[g].pin_count_ = 0
            BY <2>1 DEF PoolSane
        <2>3. g # NoFrame
            BY NoFrameIsNoFrame
        <2>4. ~Mapped(g)'
            BY <1>4, <2>1, <2>2, <2>3 DEF Mapped
        <2> QED BY <1>3, <2>1, <2>2, <2>4
    <1>7. \A g \in evictable' : pages_'[g].page_id_ \in PageIds
        BY <1>1, <1>3 DEF PoolSane
    <1>8. NoRepeats(free_list_')
        BY <1>2
    <1> QED BY <1>1, <1>2, <1>3, <1>4, <1>5, <1>6, <1>7, <1>8 DEF PoolSane, Cached

\* A step that moves no page: frames keep their ids and free frames their
\* pins, and only mapped frames become candidates.
LEMMA StaySane ==
    ASSUME PoolSane,
           UNCHANGED <<page_table_, free_list_>>,
           pages_' \in [Frames -> FrameType],
           disk' \in DiskType,
           \A g \in Frames : /\ pages_'[g].page_id_ = pages_[g].page_id_
                             /\ ~Mapped(g) => pages_'[g].pin_count_ = pages_[g].pin_count_,
           evictable' \subseteq evictable \union {g \in Frames : Mapped(g)}
    PROVE  PoolSane'
    <1>1. /\ page_table_ \in [PageIds -> Frames \union {NoFrame}]
          /\ evictable \subseteq Frames
        BY DEF PoolSane
    <1>2. \A g : (Mapped(g)' <=> Mapped(g)) /\ (InFreeList(g)' <=> InFreeList(g))
        BY DEF Mapped, InFreeList
    <1>3. \A p \in PageIds : page_table_'[p] # NoFrame => pages_'[page_table_'[p]].page_id_ = p
        BY <1>1 DEF PoolSane, Cached
    <1>4. \A g \in Frames : InFreeList(g)' =>
            ~Mapped(g)' /\ g \notin evictable' /\ pages_'[g].pin_count_ = 0
        BY <1>2 DEF PoolSane
    <1>5. ASSUME NEW g \in evictable'
          PROVE  pages_'[g].page_id_ \in PageIds
        <2>1. CASE g \in evictable
            BY <1>1, <2>1 DEF PoolSane
        <2>2. CASE g \in Frames /\ Mapped(g)
            <3>1. PICK p \in PageIds : page_table_[p] = g
                BY <2>2 DEF Mapped
            <3>2. Cached(p)
                BY <2>2, <3>1, NoFrameIsNoFrame DEF Cached
            <3>3. pages_[g].page_id_ = p
                BY <3>1, <3>2 DEF PoolSane
            <3> QED BY <2>2, <3>3
        <2> QED BY <2>1, <2>2
    <1>6. evictable' \subseteq Frames /\ NoRepeats(free_list_')
        BY <1>1 DEF PoolSane
    <1>7. page_table_' \in [PageIds -> Frames \union {NoFrame}] /\ free_list_' \in Seq(Frames)
        BY <1>1 DEF PoolSane
    <1> QED BY <1>3, <1>4, <1>5, <1>6, <1>7 DEF PoolSane, Cached

LEMMA CachedSane ==
    ASSUME PoolSane, NEW p \in PageIds, Cached(p)
    PROVE  /\ page_table_[p] \in Frames
           /\ Mapped(page_table_[p])
           /\ pages_[page_table_[p]].page_id_ = p
           /\ ~InFreeList(page_table_[p])
    <1>1. page_table_[p] \in Frames /\ Mapped(page_table_[p])
        BY DEF PoolSane, Cached, Mapped
    <1> QED BY <1>1 DEF PoolSane

LEMMA FetchHitSane ==
    ASSUME PoolSane, NEW p \in PageIds, PoolFetchHit(p)
    PROVE  PoolSane'
    <1> DEFINE f == page_table_[p]
    <1>1. Cached(p) /\ f \in Frames /\ Mapped(f)
        BY CachedSane DEF PoolFetchHit
    <1>2. /\ pages_' = [pages_ EXCEPT ![f].pin_count_ = @ + 1]
          /\ evictable' = evictable \ {f}
          /\ UNCHANGED <<page_table_, free_list_, disk>>
        BY DEF PoolFetchHit
    <1>3. pages_ \in [Frames -> FrameType] /\ disk' \in DiskType
        BY <1>2 DEF PoolSane
    <1> HIDE DEF f
    <1>4. /\ pages_' \in [Frames -> FrameType]
          /\ \A g \in Frames : /\ pages_'[g].page_id_ = pages_[g].page_id_
                               /\ g # f => pages_'[g] = pages_[g]
        BY <1>1, <1>2, <1>3 DEF FrameType
    <1> QED BY <1>1, <1>2, <1>3, <1>4, StaySane

LEMMA FetchMissSane ==
    ASSUME PoolSane, NEW p \in PageIds, NEW f \in Frames, PoolFetchMiss(p, f)
    PROVE  PoolSane'
    <1> DEFINE r == [page_id_ |-> p, pin_count_ |-> 1, is_dirty_ |-> FALSE,
                     data_ |-> ReadPage(EvictDisk(f), p)]
    <1>1. f \in Obtainable
        BY DEF PoolFetchMiss
    <1>2. EvictDisk(f) \in DiskType
        BY <1>1, Take
    <1>3. ReadPage(EvictDisk(f), p) \in Word
        BY <1>2, WordFacts DEF ReadPage, DiskType
    <1>4. r \in FrameType /\ r.page_id_ = p
        BY <1>3, WordFacts DEF FrameType
    <1>5. /\ pages_' = [pages_ EXCEPT ![f] = r]
          /\ page_table_' = [EvictTable(f) EXCEPT ![p] = f]
          /\ free_list_' = RestOfFreeList
          /\ evictable' = evictable \ {f}
          /\ disk' = EvictDisk(f)
        BY DEF PoolFetchMiss
    <1> HIDE DEF r
    <1> QED BY <1>1, <1>2, <1>4, <1>5, RefillSane

LEMMA NewPageSane ==
    ASSUME PoolSane, NEW f \in Frames, PoolNewPage(f)
    PROVE  PoolSane' /\ AllocatedId(disk) \in PageIds
    <1> DEFINE d == EvictDisk(f)
               p == AllocatedId(d)
               r == [page_id_ |-> p, pin_count_ |-> 1, is_dirty_ |-> FALSE, data_ |-> Blank]
    <1>1. f \in Obtainable
        BY DEF PoolNewPage
    <1>2. /\ d \in DiskType
          /\ d.num_pages_ = disk.num_pages_
          /\ d.free_list_head_ = disk.free_list_head_
          /\ disk \in DiskType
        BY <1>1, Take DEF PoolSane
    <1>3. p = AllocatedId(disk)
        BY <1>2 DEF AllocatedId, FreeListEmpty
    <1>4. /\ FreeListEmpty(d) => CanGrow(d)
          /\ ~FreeListEmpty(d) => d.free_list_head_ < MaxPages
        <2>1. disk.extent \in 0 .. MaxPages /\ disk.free_list_head_ \in Nat /\ MaxPages \in Nat
            BY <1>2, WordFacts, PagesAssumption DEF DiskType
        <2>2. /\ FreeListEmpty(disk) => CanGrow(disk)
              /\ ~FreeListEmpty(disk) => disk.free_list_head_ < disk.extent
            BY DEF PoolNewPage, LinkReadable
        <2> QED BY <1>2, <2>1, <2>2 DEF FreeListEmpty, CanGrow
    <1>5. p \in PageIds /\ AllocatePage(d) \in DiskType
        <2> HIDE DEF d
        <2> QED BY <1>2, <1>4, AnyAllocateEffect
    <1>6. /\ pages_' = [pages_ EXCEPT ![f] = r]
          /\ page_table_' = [EvictTable(f) EXCEPT ![p] = f]
          /\ free_list_' = RestOfFreeList
          /\ evictable' = evictable \ {f}
          /\ disk' = AllocatePage(d)
        BY DEF PoolNewPage
    <1> HIDE DEF p, d
    <1>7. r \in FrameType /\ r.page_id_ = p
        BY <1>5, WordFacts DEF FrameType
    <1> HIDE DEF r
    <1>8. PoolSane'
        BY <1>1, <1>5, <1>6, <1>7, RefillSane
    <1> QED BY <1>3, <1>5, <1>8

LEMMA UnpinSane ==
    ASSUME PoolSane, NEW p \in PageIds, NEW is_dirty \in BOOLEAN, PoolUnpin(p, is_dirty)
    PROVE  PoolSane'
    <1>0. PICK f \in Frames : f = page_table_[p]
        BY CachedSane DEF PoolUnpin
    <1>1. Cached(p) /\ Mapped(f)
        BY <1>0, CachedSane DEF PoolUnpin
    <1>2. /\ pages_' = [pages_ EXCEPT ![f].pin_count_ = @ - 1,
                                       ![f].is_dirty_ = @ \/ is_dirty]
          /\ evictable' = IF pages_[f].pin_count_ = 1
                          THEN evictable \union {f} ELSE evictable
          /\ UNCHANGED <<page_table_, free_list_, disk>>
        BY <1>0 DEF PoolUnpin
    <1>3. pages_ \in [Frames -> FrameType] /\ disk' \in DiskType
        BY <1>2 DEF PoolSane
    <1>4. PICK dirty \in BOOLEAN : dirty = (pages_[f].is_dirty_ \/ is_dirty)
        OBVIOUS
    <1> DEFINE r == [pages_[f] EXCEPT !.pin_count_ = pages_[f].pin_count_ - 1, !.is_dirty_ = dirty]
    <1>5. pages_' = [pages_ EXCEPT ![f] = r]
        BY <1>2, <1>3, <1>4
    <1>6. r \in FrameType /\ r.page_id_ = pages_[f].page_id_
        <2>1. PICK n \in Int : n = pages_[f].pin_count_ - 1
            BY <1>3 DEF FrameType
        <2>2. PICK q \in FrameType : q = pages_[f]
            BY <1>3
        <2>3. r = [q EXCEPT !.pin_count_ = n, !.is_dirty_ = dirty]
            BY <2>1, <2>2
        <2>4. LET t == [q EXCEPT !.pin_count_ = n, !.is_dirty_ = dirty] IN
              t \in FrameType /\ t.page_id_ = q.page_id_
            BY FrameUpdate, Zenon DEF FrameType
        <2> QED BY <2>2, <2>3, <2>4, Zenon
    <1> HIDE DEF r
    <1>7. /\ pages_' \in [Frames -> FrameType]
          /\ \A g \in Frames : /\ pages_'[g].page_id_ = pages_[g].page_id_
                               /\ g # f => pages_'[g] = pages_[g]
        BY <1>3, <1>5, <1>6
    <1>8. evictable' \subseteq evictable \union {g \in Frames : Mapped(g)}
        BY <1>1, <1>2
    <1> QED BY <1>1, <1>2, <1>3, <1>7, <1>8, StaySane

LEMMA WriteSane ==
    ASSUME PoolSane, NEW f \in Frames, NEW w \in Word,
           pages_' = [pages_ EXCEPT ![f].data_ = w],
           UNCHANGED <<page_table_, free_list_, evictable, disk>>
    PROVE  PoolSane'
    <1>1. pages_ \in [Frames -> FrameType] /\ disk' \in DiskType
        BY DEF PoolSane
    <1>2. /\ pages_' \in [Frames -> FrameType]
          /\ \A g \in Frames : /\ pages_'[g].page_id_ = pages_[g].page_id_
                               /\ pages_'[g].pin_count_ = pages_[g].pin_count_
        BY <1>1 DEF FrameType
    <1> QED BY <1>1, <1>2, StaySane

LEMMA FlushAllSane ==
    ASSUME PoolSane, PoolFlushAllPages
    PROVE  PoolSane'
    <1>1. /\ pages_ \in [Frames -> FrameType]
          /\ page_table_ \in [PageIds -> Frames \union {NoFrame}]
          /\ disk \in DiskType
        BY DEF PoolSane
    <1>2. pages_' = [f \in Frames |-> IF \E p \in PageIds : page_table_[p] = f
                                      THEN [pages_[f] EXCEPT !.is_dirty_ = FALSE]
                                      ELSE pages_[f]]
        BY DEF PoolFlushAllPages
    <1>3. \A f \in Frames :
            /\ [pages_[f] EXCEPT !.is_dirty_ = FALSE] \in FrameType
            /\ [pages_[f] EXCEPT !.is_dirty_ = FALSE].page_id_ = pages_[f].page_id_
            /\ [pages_[f] EXCEPT !.is_dirty_ = FALSE].pin_count_ = pages_[f].pin_count_
        BY <1>1 DEF FrameType
    <1>4. /\ pages_' \in [Frames -> FrameType]
          /\ \A g \in Frames : /\ pages_'[g].page_id_ = pages_[g].page_id_
                               /\ pages_'[g].pin_count_ = pages_[g].pin_count_
        BY <1>1, <1>2, <1>3
    <1>5. disk' \in DiskType
        <2> DEFINE page == [p \in PageIds |-> IF DirtyInTable(p)
                              THEN pages_[page_table_[p]].data_ ELSE disk.page[p]]
                   num == IF DirtyInTable(0) THEN 0 ELSE disk.disk_num
        <2>1. disk' = [disk EXCEPT !.page = page, !.disk_num = num]
            BY DEF PoolFlushAllPages
        <2>2. page \in [PageIds -> Word]
            <3>1. \A p \in PageIds : DirtyInTable(p) => page_table_[p] \in Frames
                BY <1>1 DEF DirtyInTable, Cached
            <3>2. \A f \in Frames : pages_[f].data_ \in Word
                BY <1>1 DEF FrameType
            <3>3. disk.page \in [PageIds -> Word]
                BY <1>1 DEF DiskType
            <3> QED BY <3>1, <3>2, <3>3
        <2>3. num \in 0 .. MaxPages
            BY <1>1, PagesAssumption DEF DiskType
        <2> HIDE DEF page, num
        <2> QED BY <1>1, <2>1, <2>2, <2>3 DEF DiskType
    <1>6. UNCHANGED <<page_table_, free_list_, evictable>>
        BY DEF PoolFlushAllPages
    <1> QED BY <1>4, <1>5, <1>6, StaySane

LEMMA DeleteCachedSane ==
    ASSUME PoolSane, NEW p \in PageIds, PoolDeleteCached(p)
    PROVE  PoolSane'
    <1>0. PICK f \in Frames : f = page_table_[p]
        BY CachedSane DEF PoolDeleteCached
    <1>1. Cached(p) /\ Mapped(f) /\ ~InFreeList(f) /\ pages_[f].page_id_ = p
        BY <1>0, CachedSane DEF PoolDeleteCached
    <1>2. /\ evictable' = evictable \ {f}
          /\ pages_' = [pages_ EXCEPT ![f] = ResetMemory]
          /\ free_list_' = Append(free_list_, f)
          /\ page_table_' = [page_table_ EXCEPT ![p] = NoFrame]
          /\ disk' = DeallocatePage(disk, p)
        BY <1>0 DEF PoolDeleteCached
    <1>3. /\ pages_ \in [Frames -> FrameType]
          /\ page_table_ \in [PageIds -> Frames \union {NoFrame}]
          /\ free_list_ \in Seq(Frames)
          /\ evictable \subseteq Frames
          /\ disk \in DiskType
        BY DEF PoolSane
    <1>4. disk' \in DiskType
        BY <1>2, <1>3, AnyDeallocateEffect
    <1>5. ResetMemory \in FrameType /\ ResetMemory.pin_count_ = 0
        BY WordFacts DEF ResetMemory, FrameType
    <1>6. /\ pages_' \in [Frames -> FrameType]
          /\ pages_'[f].pin_count_ = 0
          /\ \A g \in Frames : g # f => pages_'[g] = pages_[g]
        BY <1>1, <1>2, <1>3, <1>5
    <1>7. /\ page_table_' \in [PageIds -> Frames \union {NoFrame}]
          /\ page_table_'[p] = NoFrame
          /\ \A q \in PageIds : q # p => page_table_'[q] = page_table_[q]
        BY <1>2, <1>3
    <1>8. \A q \in PageIds : q # p => page_table_[q] # f
        <2> SUFFICES ASSUME NEW q \in PageIds, page_table_[q] = f
                     PROVE  q = p
            OBVIOUS
        <2>1. Cached(q)
            BY NoFrameIsNoFrame DEF Cached
        <2> QED BY <1>1, <2>1 DEF PoolSane
    <1>9. \A q \in PageIds : page_table_'[q] # NoFrame => pages_'[page_table_'[q]].page_id_ = q
        <2> SUFFICES ASSUME NEW q \in PageIds, q # p, page_table_[q] # NoFrame
                     PROVE  pages_'[page_table_[q]].page_id_ = q
            BY <1>7
        <2>1. page_table_[q] \in Frames /\ page_table_[q] # f /\ Cached(q)
            BY <1>3, <1>8 DEF Cached
        <2> QED BY <1>6, <2>1 DEF PoolSane
    <1> DEFINE n == Len(free_list_)
    <1>10. /\ n \in Nat
           /\ DOMAIN free_list_ = 1 .. n
           /\ free_list_' \in Seq(Frames)
           /\ DOMAIN free_list_' = 1 .. (n + 1)
           /\ \A i \in 1 .. n : free_list_'[i] = free_list_[i]
           /\ free_list_'[n + 1] = f
        BY <1>1, <1>2, <1>3, AppendProperties, LenProperties
    <1>11. NoRepeats(free_list_')
        <2>1. \A i \in 1 .. n : free_list_[i] # f
            BY <1>1, <1>10 DEF InFreeList
        <2>2. \A i, j \in 1 .. n : free_list_[i] = free_list_[j] => i = j
            BY <1>10 DEF PoolSane, NoRepeats
        <2> QED BY <1>10, <2>1, <2>2 DEF NoRepeats
    <1>12. ASSUME NEW g \in Frames, InFreeList(g)'
           PROVE  ~Mapped(g)' /\ g \notin evictable' /\ pages_'[g].pin_count_ = 0
        <2>1. CASE g = f
            <3>1. ~Mapped(f)'
                BY <1>7, <1>8, NoFrameIsNoFrame DEF Mapped
            <3> QED BY <1>2, <1>6, <2>1, <3>1
        <2>2. CASE g # f
            <3>1. InFreeList(g)
                BY <1>10, <1>12, <2>2 DEF InFreeList
            <3>2. ~Mapped(g) /\ g \notin evictable /\ pages_[g].pin_count_ = 0
                BY <3>1 DEF PoolSane
            <3>3. ~Mapped(g)'
                BY <1>7, <3>2, NoFrameIsNoFrame DEF Mapped
            <3> QED BY <1>2, <1>6, <2>2, <3>2, <3>3
        <2> QED BY <2>1, <2>2
    <1>13. \A g \in evictable' : pages_'[g].page_id_ \in PageIds
        BY <1>2, <1>3, <1>6 DEF PoolSane
    <1> QED BY <1>2, <1>3, <1>4, <1>6, <1>7, <1>9, <1>10, <1>11, <1>12, <1>13 DEF PoolSane, Cached

LEMMA DeleteUncachedSane ==
    ASSUME PoolSane, NEW p \in PageIds, PoolDeleteUncached(p)
    PROVE  PoolSane'
    <1>1. pages_' \in [Frames -> FrameType] /\ disk \in DiskType
        BY DEF PoolSane, PoolDeleteUncached
    <1>2. disk' \in DiskType
        BY <1>1, AnyDeallocateEffect DEF PoolDeleteUncached
    <1>3. UNCHANGED <<pages_, page_table_, free_list_, evictable>>
        BY DEF PoolDeleteUncached
    <1> QED BY <1>1, <1>2, <1>3, StaySane

LEMMA UnchangedSane ==
    ASSUME PoolSane, UNCHANGED poolVars
    PROVE  PoolSane'
    <1>1. UNCHANGED <<pages_, page_table_, free_list_, evictable, disk>>
        BY DEF poolVars
    <1>2. pages_' \in [Frames -> FrameType] /\ disk' \in DiskType
        BY <1>1 DEF PoolSane
    <1> QED BY <1>1, <1>2, StaySane

-----------------------------------------------------------------------------
(***************************************************************************)
(* The handlers under any clients.                                         *)
(***************************************************************************)
\* A step of one handler, whose record becomes t and whose pointer h.
LEMMA ClientStep ==
    ASSUME ClientsSane, NEW c \in Callers, NEW t \in ThreadType, NEW h \in HandleType,
           HandlerSound(t, h),
           thread' = [thread EXCEPT ![c] = t],
           handle' = [handle EXCEPT ![c] = h],
           live' \subseteq PageIds,
           freeChain' \in Seq(PageIds),
           content' \in [PageIds -> SUBSET Word],
           allowed' \in [Callers -> SUBSET Word],
           sent' \in 0 .. MaxRequests,
           stop' = stop
    PROVE  ClientsSane'
    <1>1. thread \in [Callers -> ThreadType] /\ handle \in [Callers -> HandleType]
        BY DEF ClientsSane
    <1>2. thread' \in [Callers -> ThreadType] /\ handle' \in [Callers -> HandleType]
        BY <1>1
    <1>3. \A x \in Callers : HandlerSound(thread'[x], handle'[x])
        <2> SUFFICES ASSUME NEW x \in Callers
                     PROVE  HandlerSound(thread'[x], handle'[x])
            OBVIOUS
        <2>1. CASE x = c
            BY <1>1, <2>1
        <2>2. CASE x # c
            <3>1. thread'[x] = thread[x] /\ handle'[x] = handle[x]
                BY <1>1, <2>2
            <3> QED BY <3>1 DEF ClientsSane
        <2> QED BY <2>1, <2>2
    <1>4. stop' \in {"running", "signalled", "flushed", "reset", "closed"}
        BY DEF ClientsSane
    <1> QED BY <1>2, <1>3, <1>4 DEF ClientsSane

\* The types ClientStep asks for, when nothing but c's record changes.
LEMMA ClientTypes ==
    ASSUME ClientsSane, NEW c \in Callers
    PROVE  /\ thread[c] \in ThreadType
           /\ handle[c] \in HandleType
           /\ HandlerSound(thread[c], handle[c])
           /\ handle = [handle EXCEPT ![c] = handle[c]]
           /\ live \subseteq PageIds
           /\ freeChain \in Seq(PageIds)
           /\ content \in [PageIds -> SUBSET Word]
           /\ allowed \in [Callers -> SUBSET Word]
           /\ [allowed EXCEPT ![c] = {}] \in [Callers -> SUBSET Word]
           /\ sent \in 0 .. MaxRequests
    BY DEF ClientsSane

Pcs == {"closed", "recv", "exec", "use", "copy", "unpin", "drop",
        "reply", "error", "crashed"}

LEMMA GotoFacts ==
    ASSUME ClientsSane, NEW c \in Callers, NEW pc \in Pcs, Goto(c, pc)
    PROVE  \E t \in ThreadType :
            /\ thread' = [thread EXCEPT ![c] = t]
            /\ t.pc = pc
            /\ t.op = thread[c].op
            /\ t.page = thread[c].page
            /\ t.value = thread[c].value
    <1> DEFINE t == [thread[c] EXCEPT !.pc = pc]
    <1>1. thread[c] \in ThreadType /\ thread \in [Callers -> ThreadType]
        BY DEF ClientsSane
    <1>2. /\ t \in ThreadType
          /\ t.pc = pc
          /\ t.op = thread[c].op
          /\ t.page = thread[c].page
          /\ t.value = thread[c].value
        BY <1>1 DEF ThreadType, Pcs
    <1>3. thread' = [thread EXCEPT ![c] = t]
        BY <1>1 DEF Goto
    <1> QED BY <1>2, <1>3

\* A handler that has no request in hand, or only an answer to send.
Idle == {"closed", "recv", "reply", "error"}

LEMMA NoRequestFacts ==
    /\ NoHandle \in HandleType
    /\ \A pc \in Idle :
        /\ [NoRequest EXCEPT !.pc = pc] \in ThreadType
        /\ [NoRequest EXCEPT !.pc = pc].pc = pc
        /\ [NoRequest EXCEPT !.pc = pc].op = "READ"
        /\ [NoRequest EXCEPT !.pc = pc].page = INVALID_PAGE_ID
        /\ HandlerSound([NoRequest EXCEPT !.pc = pc], NoHandle)
    /\ NoRequest = [NoRequest EXCEPT !.pc = "closed"]
    <1>1. NoHandle \in HandleType /\ ~NoHandle.wrote
        BY WordFacts DEF NoHandle, HandleType
    <1>2. ASSUME NEW pc \in Idle
          PROVE  /\ [NoRequest EXCEPT !.pc = pc] \in ThreadType
                 /\ [NoRequest EXCEPT !.pc = pc].pc = pc
                 /\ [NoRequest EXCEPT !.pc = pc].op = "READ"
                 /\ [NoRequest EXCEPT !.pc = pc].page = INVALID_PAGE_ID
        BY WordFacts DEF NoRequest, ThreadType, Ops, Idle
    <1>3. ASSUME NEW pc \in Idle
          PROVE  HandlerSound([NoRequest EXCEPT !.pc = pc], NoHandle)
        BY <1>1, <1>2 DEF HandlerSound, Idle
    <1>4. NoRequest = [NoRequest EXCEPT !.pc = "closed"]
        BY DEF NoRequest
    <1> QED BY <1>1, <1>2, <1>3, <1>4

\* A handler that is done with its request.
Ends(c) ==
    \E pc \in Idle : thread' = [thread EXCEPT ![c] = [NoRequest EXCEPT !.pc = pc]]

LEMMA EndsFacts ==
    ASSUME NEW c \in Callers
    PROVE  /\ Leave(c) => Ends(c)
           /\ NextTurn(c) => Ends(c)
           /\ Fails(c) => Ends(c)
           /\ Answer(c) => Ends(c) \/ (thread[c].op = "ALLOCATE" /\ Goto(c, "reply"))
    <1>1. Leave(c) => Ends(c)
        BY NoRequestFacts DEF Leave, Ends, Idle
    <1>2. NextTurn(c) => Ends(c)
        BY DEF NextTurn, Ends, Idle
    <1>3. Fails(c) => Ends(c)
        BY DEF Fails, Ends, Idle
    <1>4. Answer(c) => Ends(c) \/ (thread[c].op = "ALLOCATE" /\ Goto(c, "reply"))
        BY DEF Answer, Ends, Idle
    <1> QED BY <1>1, <1>2, <1>3, <1>4

LEMMA EndStep ==
    ASSUME ClientsSane, NEW c \in Callers, Ends(c),
           handle' = [handle EXCEPT ![c] = NoHandle],
           allowed' = allowed \/ allowed' = [allowed EXCEPT ![c] = {}],
           UNCHANGED <<live, freeChain, stop, content, sent>>
    PROVE  ClientsSane'
    <1>1. PICK pc \in Idle :
            thread' = [thread EXCEPT ![c] = [NoRequest EXCEPT !.pc = pc]]
        BY DEF Ends
    <1>2. PICK t \in ThreadType :
            /\ thread' = [thread EXCEPT ![c] = t]
            /\ HandlerSound(t, NoHandle)
        BY <1>1, NoRequestFacts
    <1>3. NoHandle \in HandleType
        BY NoRequestFacts
    <1>4. /\ live' \subseteq PageIds
          /\ freeChain' \in Seq(PageIds)
          /\ content' \in [PageIds -> SUBSET Word]
          /\ allowed' \in [Callers -> SUBSET Word]
          /\ sent' \in 0 .. MaxRequests
        BY ClientTypes
    <1> QED BY <1>2, <1>3, <1>4, ClientStep

\* A handler that goes on to pc with the pointer it has.
LEMMA GoOnStep ==
    ASSUME ClientsSane, NEW c \in Callers, NEW pc \in Pcs, Goto(c, pc),
           \/ /\ thread[c].pc \in {"use", "copy", "unpin", "drop"}
              /\ pc \in {"use", "copy", "unpin", "drop", "crashed"}
           \/ /\ thread[c].pc \in {"closed", "recv", "exec", "reply", "error"}
              /\ pc \in {"closed", "recv", "exec", "reply", "error", "crashed"},
           UNCHANGED <<handle, live, freeChain, stop, content, allowed, sent>>
    PROVE  ClientsSane'
    <1>1. PICK t \in ThreadType :
            /\ thread' = [thread EXCEPT ![c] = t]
            /\ t.pc = pc
            /\ t.op = thread[c].op
            /\ t.page = thread[c].page
            /\ t.value = thread[c].value
        BY GotoFacts
    <1>2. HandlerSound(t, handle[c])
        <2>1. HandlerSound(thread[c], handle[c])
            BY ClientTypes
        <2> QED BY <1>1, <2>1 DEF HandlerSound
    <1>3. /\ handle[c] \in HandleType
          /\ handle' = [handle EXCEPT ![c] = handle[c]]
          /\ live' \subseteq PageIds
          /\ freeChain' \in Seq(PageIds)
          /\ content' \in [PageIds -> SUBSET Word]
          /\ allowed' \in [Callers -> SUBSET Word]
          /\ sent' \in 0 .. MaxRequests
          /\ stop' = stop
        BY ClientTypes
    <1> QED BY <1>1, <1>2, <1>3, ClientStep

LEMMA VarsUnchanged ==
    ASSUME PoolSane, UNCHANGED vars
    PROVE  PoolSane' /\ UNCHANGED <<handle, live, freeChain>>
    <1>1. UNCHANGED poolVars /\ UNCHANGED <<handle, live, freeChain>>
        BY DEF vars, poolVars
    <1> QED BY <1>1, UnchangedSane

\* The steps that touch neither the pool nor a pin.
LEMMA QuietSteps ==
    ASSUME ServiceInv, NEW c \in Callers,
           \/ Accept(c) \/ Disconnect(c) \/ FetchGivesNull(c)
           \/ AllocateGivesNull(c) \/ DeallocateRefused(c) \/ Reply(c) \/ TouchesFreedPool(c)
    PROVE  ServiceInv'
    <1>1. PoolSane /\ ClientsSane
        BY DEF ServiceInv
    <1>2. UNCHANGED vars
        BY DEF Accept, Disconnect, FetchGivesNull, AllocateGivesNull,
               DeallocateRefused, Reply, TouchesFreedPool
    <1>3. PoolSane' /\ UNCHANGED <<handle, live, freeChain>>
        BY <1>1, <1>2, VarsUnchanged
    <1>4. HandlerSound(thread[c], handle[c]) /\ handle = [handle EXCEPT ![c] = handle[c]]
        BY <1>1, ClientTypes
    <1>5. CASE Accept(c)
        <2>1. /\ Goto(c, "recv")
              /\ thread[c].pc = "closed"
              /\ UNCHANGED <<stop, content, allowed, sent>>
            BY <1>5 DEF Accept
        <2>2. ClientsSane'
            BY <1>1, <1>3, <2>1, GoOnStep DEF Pcs
        <2> QED BY <1>3, <2>2 DEF ServiceInv
    <1>6. CASE \/ Disconnect(c) \/ FetchGivesNull(c) \/ AllocateGivesNull(c)
               \/ DeallocateRefused(c) \/ Reply(c)
        <2>1. /\ Ends(c)
              /\ thread[c].pc \in {"recv", "exec", "reply", "error"}
              /\ allowed' = allowed \/ allowed' = [allowed EXCEPT ![c] = {}]
              /\ UNCHANGED <<stop, content, sent>>
            BY <1>6, EndsFacts DEF Disconnect, FetchGivesNull, AllocateGivesNull,
                DeallocateRefused, Reply, Fails, At
        <2>2. handle' = [handle EXCEPT ![c] = NoHandle]
            BY <1>3, <1>4, <2>1 DEF HandlerSound
        <2>3. ClientsSane'
            BY <1>1, <1>3, <2>1, <2>2, EndStep
        <2> QED BY <1>3, <2>3 DEF ServiceInv
    <1>7. CASE TouchesFreedPool(c)
        <2>1. /\ Goto(c, "crashed")
              /\ thread[c].pc \in {"exec", "use", "copy", "unpin", "drop"}
              /\ UNCHANGED <<stop, content, allowed, sent>>
            BY <1>7 DEF TouchesFreedPool
        <2>2. ClientsSane'
            BY <1>1, <1>3, <2>1, GoOnStep DEF Pcs
        <2> QED BY <1>3, <2>2 DEF ServiceInv
    <1> QED BY <1>5, <1>6, <1>7

\* What a request makes of its handler's record.
Requested(op, p, w) ==
    [pc |-> IF op = "UNKNOWN" THEN "error" ELSE "exec", op |-> op, page |-> p, value |-> w]

LEMMA RequestSane ==
    ASSUME ServiceInv, NEW c \in Callers, NEW op \in Ops, NEW p \in Word,
           NEW w \in Payloads \union {Blank}, Request(c, op, p, w)
    PROVE  ServiceInv'
    <1>1. PoolSane /\ ClientsSane
        BY DEF ServiceInv
    <1>2. PoolSane' /\ UNCHANGED <<handle, live, freeChain>>
        BY <1>1, VarsUnchanged DEF Request
    <1> DEFINE t == Requested(op, p, w)
    <1>3. thread' = [thread EXCEPT ![c] = t]
        BY DEF Request, Requested
    <1>4. w \in Word
        BY WordFacts
    <1>5. t \in ThreadType
        BY <1>4 DEF Requested, ThreadType
    <1>6. handle[c] = NoHandle /\ handle' = [handle EXCEPT ![c] = NoHandle]
        <2>1. HandlerSound(thread[c], handle[c]) /\ handle = [handle EXCEPT ![c] = handle[c]]
            BY <1>1, ClientTypes
        <2>2. thread[c].pc = "recv"
            BY DEF Request
        <2> QED BY <1>2, <2>1, <2>2 DEF HandlerSound
    <1>7. HandlerSound(t, NoHandle)
        <2>1. /\ t.pc \in {"error", "exec"}
              /\ t.op = op
              /\ t.value = w
              /\ ~NoHandle.wrote
            BY DEF Requested, NoHandle
        <2>2. op = "WRITE" => w \in Values
            BY WordFacts DEF Request
        <2> QED BY <2>1, <2>2 DEF HandlerSound
    <1>8. sent' \in 0 .. MaxRequests
        <2>1. sent \in 0 .. MaxRequests /\ sent < MaxRequests /\ sent' = sent + 1
            BY <1>1, ClientTypes DEF Request
        <2> QED BY <2>1, ServiceAssumption
    <1>9. allowed' \in [Callers -> SUBSET Word]
        <2>1. /\ content \in [PageIds -> SUBSET Word]
              /\ allowed \in [Callers -> SUBSET Word]
              /\ \A x \in Callers : thread[x].value \in Word
            BY <1>1 DEF ClientsSane, ThreadType
        <2>2. \A o, v : v \in Word => Overlap(o, v) \subseteq Word
            BY WordFacts DEF Overlap
        <2>3. p \in PageIds => Allowed(op, p, w) \subseteq Word
            BY <1>4, <2>1, <2>2 DEF Allowed, InFlight
        <2>4. \A r \in Callers :
                (IF r = c /\ p \in PageIds THEN Allowed(op, p, w)
                 ELSE IF op = "WRITE" /\ r \in Using(p)
                 THEN allowed[r] \union Overlap(thread[r].op, w)
                 ELSE allowed[r]) \in SUBSET Word
            BY <1>4, <2>1, <2>2, <2>3
        <2> QED BY <2>4 DEF Request
    <1>10. /\ live' \subseteq PageIds
           /\ freeChain' \in Seq(PageIds)
           /\ content' \in [PageIds -> SUBSET Word]
           /\ stop' = stop
        BY <1>1, <1>2, ClientTypes DEF Request
    <1> HIDE DEF t
    <1>11. ClientsSane'
        BY <1>1, <1>3, <1>5, <1>6, <1>7, <1>8, <1>9, <1>10, NoRequestFacts, ClientStep
    <1> QED BY <1>2, <1>11 DEF ServiceInv

\* FetchPage for a handler: hit or miss.
LEMMA FetchPinsSane ==
    ASSUME ServiceInv, NEW c \in Callers, FetchPins(c)
    PROVE  ServiceInv'
    <1>1. PoolSane /\ ClientsSane
        BY DEF ServiceInv
    <1>2. /\ thread[c].page \in PageIds
          /\ thread[c].pc = "exec"
          /\ thread[c].op \in {"READ", "WRITE"}
          /\ Goto(c, "use")
          /\ UNCHANGED <<live, freeChain, stop, content, allowed, sent>>
        BY DEF FetchPins, At
    <1>3. PICK p \in PageIds : p = thread[c].page
        BY <1>2
    <1>4. PICK f \in Frames :
            /\ PoolSane'
            /\ handle' = [handle EXCEPT ![c] = [page |-> p, frame |-> f, wrote |-> FALSE]]
        <2>1. CASE /\ PoolFetchHit(p)
                   /\ handle' = [handle EXCEPT ![c] =
                        [page |-> p, frame |-> page_table_[p], wrote |-> FALSE]]
            <3>1. page_table_[p] \in Frames
                BY <1>1, <2>1, CachedSane DEF PoolFetchHit
            <3> QED BY <1>1, <2>1, <3>1, FetchHitSane
        <2>2. CASE \E f \in Frames :
                    /\ PoolFetchMiss(p, f)
                    /\ handle' = [handle EXCEPT ![c] = [page |-> p, frame |-> f, wrote |-> FALSE]]
            BY <1>1, <2>2, FetchMissSane
        <2> QED BY <1>3, <2>1, <2>2 DEF FetchPins
    <1>5. PICK t \in ThreadType :
            /\ thread' = [thread EXCEPT ![c] = t]
            /\ t.pc = "use"
            /\ t.op = thread[c].op
            /\ t.page = thread[c].page
            /\ t.value = thread[c].value
        BY <1>1, <1>2, GotoFacts DEF Pcs
    <1> DEFINE h == [page |-> p, frame |-> f, wrote |-> FALSE]
    <1>6. h \in HandleType /\ h.page = p /\ h.frame = f /\ ~h.wrote
        BY WordFacts DEF HandleType
    <1> HIDE DEF h
    <1>7. HandlerSound(t, h)
        <2>1. HandlerSound(thread[c], handle[c])
            BY <1>1, ClientTypes
        <2>2. t.op = "WRITE" => t.value \in Values
            BY <1>5, <2>1 DEF HandlerSound
        <2> QED BY <1>2, <1>3, <1>5, <1>6, <2>2 DEF HandlerSound
    <1>8. handle' = [handle EXCEPT ![c] = h]
        BY <1>4 DEF h
    <1>9. /\ live' \subseteq PageIds
          /\ freeChain' \in Seq(PageIds)
          /\ content' \in [PageIds -> SUBSET Word]
          /\ allowed' \in [Callers -> SUBSET Word]
          /\ sent' \in 0 .. MaxRequests
          /\ stop' = stop
        BY <1>1, <1>2, ClientTypes
    <1>10. ClientsSane'
        BY <1>1, <1>5, <1>6, <1>7, <1>8, <1>9, ClientStep
    <1> QED BY <1>4, <1>10 DEF ServiceInv

\* Giving a frame a page id and a pin leaves its other fields (for any sets
\* of values).
LEMMA FrameRenamed ==
    ASSUME NEW W, NEW N, NEW B, NEW p \in W, NEW n \in N,
           NEW r \in [page_id_ : W, pin_count_ : N, is_dirty_ : B, data_ : W]
    PROVE  [r EXCEPT !.page_id_ = p, !.pin_count_ = n]
                \in [page_id_ : W, pin_count_ : N, is_dirty_ : B, data_ : W]
    OBVIOUS

\* FetchPage that throws in ReadPage: the frame it took is lost.
LEMMA FetchThrowsSane ==
    ASSUME ServiceInv, NEW c \in Callers, FetchThrows(c)
    PROVE  ServiceInv'
    <1>1. PoolSane /\ ClientsSane
        BY DEF ServiceInv
    <1>2. PICK p \in Word : p = thread[c].page
        BY <1>1 DEF ClientsSane, ThreadType
    <1> DEFINE r == [ResetMemory EXCEPT !.page_id_ = p, !.pin_count_ = 1]
    <1>3. PICK f \in Obtainable :
            /\ pages_' = [pages_ EXCEPT ![f] = r]
            /\ page_table_' = EvictTable(f)
            /\ evictable' = evictable \ {f}
            /\ disk' = EvictDisk(f)
        BY <1>2 DEF FetchThrows
    <1>4. r \in FrameType
        <2>0. ResetMemory \in FrameType
            BY WordFacts DEF ResetMemory, FrameType
        <2>1. PICK q \in FrameType : q = ResetMemory
            BY <2>0
        <2>2. PICK n \in Int : n = 1
            OBVIOUS
        <2>3. [q EXCEPT !.page_id_ = p, !.pin_count_ = n] \in FrameType
            BY FrameRenamed, Zenon DEF FrameType
        <2> QED BY <2>1, <2>2, <2>3, Zenon
    <1>5. EvictDisk(f) \in DiskType /\ free_list_' = RestOfFreeList
        BY <1>1, Take DEF FetchThrows
    <1> HIDE DEF r
    <1>6. PoolSane'
        BY <1>1, <1>3, <1>4, <1>5, RefillSane
    <1>7. /\ Ends(c)
          /\ allowed' = [allowed EXCEPT ![c] = {}]
          /\ handle' = [handle EXCEPT ![c] = NoHandle]
          /\ UNCHANGED <<live, freeChain, stop, content, sent>>
        <2>1. HandlerSound(thread[c], handle[c]) /\ handle = [handle EXCEPT ![c] = handle[c]]
            BY <1>1, ClientTypes
        <2> QED BY <2>1, EndsFacts DEF FetchThrows, At, Fails, HandlerSound
    <1>8. ClientsSane'
        BY <1>1, <1>7, EndStep
    <1> QED BY <1>6, <1>8 DEF ServiceInv

\* NewPage that throws in AllocatePage: likewise.
LEMMA AllocateThrowsSane ==
    ASSUME ServiceInv, NEW c \in Callers, AllocateThrows(c)
    PROVE  ServiceInv'
    <1>1. PoolSane /\ ClientsSane
        BY DEF ServiceInv
    <1>2. PICK f \in Obtainable :
            /\ pages_' = IF free_list_ = <<>> THEN [pages_ EXCEPT ![f].is_dirty_ = FALSE]
                                              ELSE pages_
            /\ page_table_' = EvictTable(f)
            /\ evictable' = evictable \ {f}
            /\ disk' = EvictDisk(f)
        BY DEF AllocateThrows
    <1>3. /\ EvictDisk(f) \in DiskType
          /\ free_list_' = RestOfFreeList
          /\ f \in Frames
          /\ pages_ \in [Frames -> FrameType]
        BY <1>1, Take DEF AllocateThrows, PoolSane
    <1>4. PICK r \in FrameType : pages_' = [pages_ EXCEPT ![f] = r]
        <2>1. [pages_[f] EXCEPT !.is_dirty_ = FALSE] \in FrameType
            BY <1>3 DEF FrameType
        <2>2. pages_ = [pages_ EXCEPT ![f] = pages_[f]] /\ pages_[f] \in FrameType
            BY <1>3
        <2>3. CASE free_list_ = <<>>
            BY <1>2, <2>1, <2>3
        <2>4. CASE free_list_ # <<>>
            BY <1>2, <2>2, <2>4
        <2> QED BY <2>3, <2>4
    <1>5. PoolSane'
        BY <1>1, <1>2, <1>3, <1>4, RefillSane
    <1>6. /\ Ends(c)
          /\ allowed' = [allowed EXCEPT ![c] = {}]
          /\ handle' = [handle EXCEPT ![c] = NoHandle]
          /\ UNCHANGED <<live, freeChain, stop, content, sent>>
        <2>1. HandlerSound(thread[c], handle[c]) /\ handle = [handle EXCEPT ![c] = handle[c]]
            BY <1>1, ClientTypes
        <2> QED BY <2>1, EndsFacts DEF AllocateThrows, At, Fails, HandlerSound
    <1>7. ClientsSane'
        BY <1>1, <1>6, EndStep
    <1> QED BY <1>5, <1>7 DEF ServiceInv

LEMMA ReadSendSane ==
    ASSUME ServiceInv, NEW c \in Callers, ReadSend(c)
    PROVE  ServiceInv'
    <1>1. PoolSane /\ ClientsSane
        BY DEF ServiceInv
    <1>2. PoolSane' /\ UNCHANGED <<handle, live, freeChain>>
        BY <1>1, VarsUnchanged DEF ReadSend
    <1>3. thread[c].pc = "use" /\ thread[c].op = "READ"
        BY DEF ReadSend, At
    <1>4. /\ thread[c] \in ThreadType
          /\ thread \in [Callers -> ThreadType]
          /\ HandlerSound(thread[c], handle[c])
          /\ handle[c] \in HandleType
        BY <1>1, ClientTypes DEF ClientsSane
    <1> DEFINE v == pages_[handle[c].frame].data_
    <1>5. v \in Word
        <2>1. handle[c].frame \in Frames
            BY <1>3, <1>4 DEF HandlerSound
        <2> QED BY <1>1, <2>1 DEF PoolSane, FrameType
    <1>6. PICK after \in {"unpin", "drop"} :
            thread' = [thread EXCEPT ![c].pc = after, ![c].value = v]
        BY DEF ReadSend
    <1> HIDE DEF v
    <1> DEFINE t == [thread[c] EXCEPT !.pc = after, !.value = v]
    <1>7. thread' = [thread EXCEPT ![c] = t]
        BY <1>4, <1>6
    <1>8. /\ t \in ThreadType
          /\ t.pc = after
          /\ t.op = thread[c].op
          /\ t.page = thread[c].page
        BY <1>4, <1>5 DEF ThreadType
    <1> HIDE DEF t
    <1>9. HandlerSound(t, handle[c])
        BY <1>3, <1>4, <1>8 DEF HandlerSound
    <1>10. /\ handle' = [handle EXCEPT ![c] = handle[c]]
           /\ live' \subseteq PageIds
           /\ freeChain' \in Seq(PageIds)
           /\ content' \in [PageIds -> SUBSET Word]
           /\ allowed' \in [Callers -> SUBSET Word]
           /\ sent' \in 0 .. MaxRequests
           /\ stop' = stop
        BY <1>1, <1>2, ClientTypes DEF ReadSend
    <1>11. ClientsSane'
        BY <1>1, <1>4, <1>7, <1>8, <1>9, <1>10, ClientStep
    <1> QED BY <1>2, <1>11 DEF ServiceInv

\* A store of w through the pointer of a WRITE, which goes on to pc.
LEMMA CopySane ==
    ASSUME ServiceInv, NEW c \in Callers, NEW w \in Values, NEW pc \in {"copy", "unpin"},
           thread[c].pc \in {"use", "copy"},
           thread[c].op = "WRITE",
           WriteThrough(c, w),
           Goto(c, pc),
           content' \in [PageIds -> SUBSET Word],
           UNCHANGED <<stop, allowed, sent>>
    PROVE  ServiceInv'
    <1>1. PoolSane /\ ClientsSane
        BY DEF ServiceInv
    <1>3. /\ handle[c] \in HandleType
          /\ HandlerSound(thread[c], handle[c])
          /\ handle \in [Callers -> HandleType]
        BY <1>1, ClientTypes DEF ClientsSane
    <1>4. /\ handle[c].frame \in Frames
          /\ handle[c].page = thread[c].page
          /\ thread[c].page \in PageIds
          /\ thread[c].value \in Values
          /\ w \in Word
        BY <1>3, WordFacts DEF HandlerSound
    <1>5. /\ pages_' = [pages_ EXCEPT ![handle[c].frame].data_ = w]
          /\ handle' = [handle EXCEPT ![c].wrote = TRUE]
          /\ UNCHANGED <<page_table_, free_list_, evictable, disk, live, freeChain>>
        BY DEF WriteThrough
    <1>6. PoolSane'
        BY <1>1, <1>4, <1>5, WriteSane
    <1>7. PICK t \in ThreadType :
            /\ thread' = [thread EXCEPT ![c] = t]
            /\ t.pc = pc
            /\ t.op = thread[c].op
            /\ t.page = thread[c].page
            /\ t.value = thread[c].value
        BY <1>1, GotoFacts DEF Pcs
    <1> DEFINE h == [handle[c] EXCEPT !.wrote = TRUE]
    <1>8. /\ h \in HandleType
          /\ h.frame = handle[c].frame
          /\ h.page = handle[c].page
          /\ handle' = [handle EXCEPT ![c] = h]
        BY <1>3, <1>5 DEF HandleType
    <1> HIDE DEF h
    <1>9. HandlerSound(t, h)
        BY <1>4, <1>7, <1>8 DEF HandlerSound
    <1>10. /\ live' \subseteq PageIds
           /\ freeChain' \in Seq(PageIds)
           /\ allowed' \in [Callers -> SUBSET Word]
           /\ sent' \in 0 .. MaxRequests
           /\ stop' = stop
        BY <1>1, <1>5, ClientTypes
    <1>11. ClientsSane'
        BY <1>1, <1>7, <1>8, <1>9, <1>10, ClientStep
    <1> QED BY <1>6, <1>11 DEF ServiceInv

LEMMA CopyBeginsSane ==
    ASSUME ServiceInv, NEW c \in Callers, CopyBegins(c)
    PROVE  ServiceInv'
    <1>1. PICK w \in Values : WriteThrough(c, w)
        BY WordFacts DEF CopyBegins
    <1>2. content' \in [PageIds -> SUBSET Word]
        BY ClientTypes DEF CopyBegins, ServiceInv
    <1> QED BY <1>1, <1>2, CopySane DEF CopyBegins, At

LEMMA CopyEndsSane ==
    ASSUME ServiceInv, NEW c \in Callers, CopyEnds(c)
    PROVE  ServiceInv'
    <1>1. thread[c].pc = "copy" /\ thread[c].op = "WRITE"
        BY DEF CopyEnds, At
    <1>2. thread[c].page \in PageIds /\ thread[c].value \in Values
        BY <1>1, ClientTypes DEF ServiceInv, HandlerSound
    <1>3. PICK w \in Values : WriteThrough(c, w)
        BY <1>2, WordFacts DEF CopyEnds, CopyLeaves
    <1>4. content' \in [PageIds -> SUBSET Word]
        <2>1. content \in [PageIds -> SUBSET Word] /\ allowed[c] \in SUBSET Word
            BY DEF ServiceInv, ClientsSane
        <2> QED BY <2>1 DEF CopyEnds
    <1> QED BY <1>1, <1>3, <1>4, CopySane DEF CopyEnds

LEMMA UnpinSaneStep ==
    ASSUME ServiceInv, NEW c \in Callers, Unpin(c)
    PROVE  ServiceInv'
    <1>1. PoolSane /\ ClientsSane
        BY DEF ServiceInv
    <1>2. /\ HandlerSound(thread[c], handle[c])
          /\ thread[c].pc \in {"unpin", "drop"}
        BY <1>1, ClientTypes DEF Unpin
    <1>3. PICK p \in PageIds : p = thread[c].page
        BY <1>2 DEF HandlerSound
    <1>4. PoolSane'
        <2>1. CASE PoolUnpin(p, MarksDirty(c))
            <3>1. MarksDirty(c) \in BOOLEAN
                BY DEF MarksDirty
            <3> QED BY <1>1, <2>1, <3>1, UnpinSane
        <2>2. CASE UNCHANGED poolVars
            BY <1>1, <2>2, UnchangedSane
        <2> QED BY <1>3, <2>1, <2>2 DEF Unpin
    <1>5. /\ handle' = [handle EXCEPT ![c] = NoHandle]
          /\ allowed' = [allowed EXCEPT ![c] = {}]
          /\ UNCHANGED <<live, freeChain, stop, content, sent>>
        BY DEF Unpin
    <1>6. CASE Ends(c)
        <2>1. ClientsSane'
            BY <1>1, <1>5, <1>6, EndStep
        <2> QED BY <1>4, <2>1 DEF ServiceInv
    <1>7. CASE Goto(c, "reply")
        <2>1. PICK t \in ThreadType :
                /\ thread' = [thread EXCEPT ![c] = t]
                /\ t.pc = "reply"
                /\ t.op = thread[c].op
                /\ t.value = thread[c].value
            BY <1>1, <1>7, GotoFacts DEF Pcs
        <2>2. HandlerSound(t, NoHandle)
            <3>1. ~NoHandle.wrote
                BY DEF NoHandle
            <3> QED BY <1>2, <2>1, <3>1 DEF HandlerSound
        <2>3. /\ live' \subseteq PageIds
              /\ freeChain' \in Seq(PageIds)
              /\ content' \in [PageIds -> SUBSET Word]
              /\ allowed' \in [Callers -> SUBSET Word]
              /\ sent' \in 0 .. MaxRequests
              /\ stop' = stop
            BY <1>1, <1>5, ClientTypes
        <2>4. ClientsSane'
            BY <1>1, <1>5, <2>1, <2>2, <2>3, NoRequestFacts, ClientStep
        <2> QED BY <1>4, <2>4 DEF ServiceInv
    <1>8. Ends(c) \/ Goto(c, "reply")
        BY EndsFacts DEF Unpin
    <1> QED BY <1>6, <1>7, <1>8

LEMMA AllocatePinsSane ==
    ASSUME ServiceInv, NEW c \in Callers, AllocatePins(c)
    PROVE  ServiceInv'
    <1>1. PoolSane /\ ClientsSane
        BY DEF ServiceInv
    <1>2. PICK f \in Frames :
            /\ PoolNewPage(f)
            /\ handle' = [handle EXCEPT ![c] =
                  [page |-> AllocatedId(disk), frame |-> f, wrote |-> TRUE]]
        BY DEF AllocatePins
    <1>3. PoolSane' /\ AllocatedId(disk) \in PageIds
        BY <1>1, <1>2, NewPageSane
    <1>4. PICK p \in PageIds : p = AllocatedId(disk)
        BY <1>3
    <1>5. /\ live' = live \union {p}
          /\ freeChain' = IF FreeListEmpty(disk) THEN freeChain ELSE Pop(freeChain)
          /\ content' = [content EXCEPT ![p] = {Blank}]
          /\ thread' = [thread EXCEPT ![c].pc = "unpin", ![c].page = p]
          /\ thread[c].op = "ALLOCATE"
          /\ UNCHANGED <<stop, allowed, sent>>
        BY <1>4 DEF AllocatePins, At
    <1> DEFINE h == [page |-> p, frame |-> f, wrote |-> TRUE]
               t == [thread[c] EXCEPT !.pc = "unpin", !.page = p]
    <1>6. /\ h \in HandleType
          /\ h.page = p
          /\ h.frame = f
          /\ handle' = [handle EXCEPT ![c] = h]
        BY <1>2, <1>4, WordFacts DEF HandleType
    <1>7. /\ t \in ThreadType
          /\ t.pc = "unpin"
          /\ t.op = "ALLOCATE"
          /\ t.page = p
          /\ thread' = [thread EXCEPT ![c] = t]
        <2>1. thread[c] \in ThreadType /\ thread \in [Callers -> ThreadType]
            BY <1>1 DEF ClientsSane
        <2> QED BY <1>5, <2>1, WordFacts DEF ThreadType
    <1> HIDE DEF h, t
    <1>8. HandlerSound(t, h)
        BY <1>6, <1>7 DEF HandlerSound
    <1>9. freeChain' \in Seq(PageIds)
        <2>1. freeChain \in Seq(PageIds)
            BY <1>1, ClientTypes
        <2>2. Pop(freeChain) \in Seq(PageIds)
            BY <2>1 DEF Pop
        <2> QED BY <1>5, <2>1, <2>2
    <1>10. /\ live' \subseteq PageIds
           /\ content' \in [PageIds -> SUBSET Word]
           /\ allowed' \in [Callers -> SUBSET Word]
           /\ sent' \in 0 .. MaxRequests
           /\ stop' = stop
        BY <1>1, <1>5, ClientTypes, WordFacts
    <1>11. ClientsSane'
        BY <1>1, <1>6, <1>7, <1>8, <1>9, <1>10, ClientStep
    <1> QED BY <1>3, <1>11 DEF ServiceInv

LEMMA DeallocatesSane ==
    ASSUME ServiceInv, NEW c \in Callers, Deallocates(c)
    PROVE  ServiceInv'
    <1>1. PoolSane /\ ClientsSane
        BY DEF ServiceInv
    <1>2. PICK p \in Word : p = thread[c].page
        BY <1>1 DEF ClientsSane, ThreadType
    <1>3. /\ thread[c].pc = "exec"
          /\ thread[c].op = "DEALLOCATE"
          /\ IF p \in PageIds THEN PoolDeleteCached(p) \/ PoolDeleteUncached(p)
                                ELSE UNCHANGED poolVars
          /\ live' = live \ {p}
          /\ freeChain' = IF DeallocateRejects(disk, p) \/ InChain(freeChain, p) THEN freeChain
                           ELSE Append(freeChain, p)
          /\ Ends(c)
          /\ UNCHANGED <<handle, stop, content, allowed, sent>>
        BY <1>2, EndsFacts DEF Deallocates, At
    <1>4. PoolSane'
        BY <1>1, <1>3, DeleteCachedSane, DeleteUncachedSane, UnchangedSane
    <1>5. freeChain' \in Seq(PageIds)
        <2>1. freeChain \in Seq(PageIds)
            BY <1>1, ClientTypes
        <2>2. ~DeallocateRejects(disk, p) => p \in PageIds
            <3>1. disk.num_pages_ \in 0 .. MaxPages /\ p \in Nat /\ MaxPages \in Nat
                BY <1>1, WordFacts, PagesAssumption DEF PoolSane, DiskType
            <3>2. ~DeallocateRejects(disk, p) => p < MaxPages
                BY <3>1 DEF DeallocateRejects
            <3> QED BY <3>2, WordFacts
        <2>3. p \in PageIds => Append(freeChain, p) \in Seq(PageIds)
            BY <2>1
        <2> QED BY <1>3, <2>1, <2>2, <2>3
    <1>6. PICK t \in ThreadType :
            /\ thread' = [thread EXCEPT ![c] = t]
            /\ HandlerSound(t, NoHandle)
        BY <1>3, NoRequestFacts DEF Ends
    <1>7. handle' = [handle EXCEPT ![c] = NoHandle]
        <2>1. HandlerSound(thread[c], handle[c]) /\ handle = [handle EXCEPT ![c] = handle[c]]
            BY <1>1, ClientTypes
        <2> QED BY <1>3, <2>1 DEF HandlerSound
    <1>8. /\ live' \subseteq PageIds
          /\ content' \in [PageIds -> SUBSET Word]
          /\ allowed' \in [Callers -> SUBSET Word]
          /\ sent' \in 0 .. MaxRequests
          /\ stop' = stop
        BY <1>1, <1>3, ClientTypes
    <1>9. ClientsSane'
        BY <1>1, <1>5, <1>6, <1>7, <1>8, NoRequestFacts, ClientStep
    <1> QED BY <1>4, <1>9 DEF ServiceInv

LEMMA StopSane ==
    ASSUME ServiceInv, Stop
    PROVE  ServiceInv'
    <1>1. PoolSane /\ ClientsSane
        BY DEF ServiceInv
    <1>2. PoolSane' /\ UNCHANGED <<handle, live, freeChain>>
        <2>1. CASE UNCHANGED vars
            BY <1>1, <2>1, VarsUnchanged
        <2>2. CASE FlushAllPages
            BY <1>1, <2>2, FlushAllSane DEF FlushAllPages
        <2> QED BY <2>1, <2>2 DEF Stop, StopSignals, StopFlushes, StopCloses
    <1>3. /\ stop' \in {"running", "signalled", "flushed", "reset", "closed"}
          /\ UNCHANGED <<thread, content, allowed, sent>>
        BY DEF Stop, StopSignals, StopFlushes, StopCloses
    <1>4. ClientsSane'
        BY <1>1, <1>2, <1>3 DEF ClientsSane
    <1> QED BY <1>2, <1>4 DEF ServiceInv

LEMMA ServiceInvInit == ServiceInit => ServiceInv
    <1> SUFFICES ASSUME ServiceInit
                 PROVE  ServiceInv
        OBVIOUS
    <1>1. IInv
        BY InitIInv DEF ServiceInit
    <1>2. PoolSane
        <2>1. TypeOK /\ FramePartition /\ evictable = {}
            BY <1>1 DEF IInv, ServiceInit, Init, PoolInit
        <2>2. \A f \in Frames : pages_[f].pin_count_ = 0
            BY DEF ServiceInit, Init, PoolInit, ResetMemory
        <2> QED BY <2>1, <2>2 DEF PoolSane, TypeOK, FramePartition
    <1>3. /\ NoRequest \in ThreadType
          /\ NoHandle \in HandleType
          /\ HandlerSound(NoRequest, NoHandle)
        <2>1. /\ [NoRequest EXCEPT !.pc = "closed"] \in ThreadType
              /\ HandlerSound([NoRequest EXCEPT !.pc = "closed"], NoHandle)
            BY NoRequestFacts DEF Idle
        <2>2. NoRequest = [NoRequest EXCEPT !.pc = "closed"]
            BY NoRequestFacts
        <2> QED BY <2>1, <2>2, NoRequestFacts
    <1>4. ClientsSane
        BY <1>3, WordFacts, ServiceAssumption DEF ClientsSane, ServiceInit, Init
    <1> QED BY <1>2, <1>4 DEF ServiceInv

LEMMA ServiceInvStep == ServiceInv /\ [ServiceNext]_allVars => ServiceInv'
    <1> SUFFICES ASSUME ServiceInv, [ServiceNext]_allVars
                 PROVE  ServiceInv'
        OBVIOUS
    <1>1. ASSUME NEW c \in Callers, Accept(c) \/ Disconnect(c) \/ Works(c) \/ Sends(c)
          PROVE  ServiceInv'
        BY <1>1, QuietSteps, FetchPinsSane, FetchThrowsSane, ReadSendSane, CopyBeginsSane,
           CopyEndsSane, UnpinSaneStep, AllocatePinsSane, AllocateThrowsSane, DeallocatesSane
           DEF Works, Sends
    <1>2. ASSUME NEW c \in Callers, NEW op \in Ops, NEW p \in Word, NEW w \in Payloads \union {Blank},
                 Request(c, op, p, w)
          PROVE  ServiceInv'
        BY <1>2, RequestSane
    <1>3. CASE Stop
        BY <1>3, StopSane
    <1>4. CASE UNCHANGED allVars
        <2>1. UNCHANGED vars /\ UNCHANGED <<thread, stop, content, allowed, sent>>
            BY <1>4 DEF allVars, vars
        <2>2. PoolSane' /\ UNCHANGED <<handle, live, freeChain>>
            BY <2>1, VarsUnchanged DEF ServiceInv
        <2>3. ClientsSane'
            BY <2>1, <2>2 DEF ServiceInv, ClientsSane
        <2> QED BY <2>2, <2>3 DEF ServiceInv
    <1> QED BY <1>1, <1>2, <1>3, <1>4 DEF ServiceNext

\* Whatever clients send, and whatever throws, the invariant holds.
THEOREM ServiceInvariant == ServiceSpec => []ServiceInv
    BY ServiceInvInit, ServiceInvStep, PTL DEF ServiceSpec

\* Whatever page ids clients send, and although a FetchPage or NewPage may
\* throw half-way, the page table never names a frame that holds another
\* page, no frame is at once free and in use, and nothing leaves its type.
THEOREM ServiceTableConsistent == ServiceSpec => []TableConsistent
    <1>1. ASSUME ServiceInv
          PROVE  TableConsistent
        <2>1. ServiceTypeOK
            BY <1>1 DEF ServiceInv, PoolSane, ClientsSane, ServiceTypeOK, TypeOK, ThreadType, HandleType
        <2> QED BY <1>1, <2>1 DEF ServiceInv, PoolSane, TableConsistent
    <1> QED BY <1>1, ServiceInvariant, PTL

-----------------------------------------------------------------------------
(***************************************************************************)
(* Exclusive clients.                                                      *)
(***************************************************************************)
\* Requests in flight name pages in use, and a page about to be deallocated
\* is named by no other request.
RequestsExclusive ==
    /\ \A c \in Callers :
        At(c, "exec", {"READ", "WRITE", "DEALLOCATE"}) => thread[c].page \in live
    /\ \A c, d \in Callers :
        c # d /\ At(c, "exec", {"DEALLOCATE"}) /\ Busy(d) => thread[d].page # thread[c].page

\* A READ that has not looked yet, a WRITE that has not written.
Reading(c) == thread[c].pc \in {"exec", "use"} /\ thread[c].op = "READ"
Writing(c) == thread[c].pc \in {"exec", "use", "copy"} /\ thread[c].op = "WRITE"

Writers(p) == {x \in Callers : Writing(x) /\ thread[x].page = p}
Copiers(p) == {x \in Callers : At(x, "copy", {"WRITE"}) /\ thread[x].page = p}

\* What the pool would answer for p: what the last WRITE left or, while handlers
\* copy into it, a half-copied page, mixed up only if WRITEs overlap.
PageKept(p) ==
    IF Copiers(p) = {}
    THEN ContentOf(p) \in content[p]
    ELSE /\ ContentOf(p) \in {Half, Mixed}
         /\ ContentOf(p) = Mixed => \A x \in Copiers(p) : Mixed \in allowed[x]

\* A handler that Stop kills in the middle of a copy never ends it.
ContentKept == PoolExists => \A p \in live : PageKept(p)

\* A WRITE may leave its payload and, only when it overlaps another, a mixture.
WritesCovered ==
    \A x \in Callers : Writing(x) =>
        /\ thread[x].value \in allowed[x]
        /\ allowed[x] \subseteq {thread[x].value, Mixed}
        /\ \A y \in Writers(thread[x].page) : y # x => Mixed \in allowed[x]

\* A READ may answer the content of its page, now or in or after any WRITE in
\* flight.
ReadsCovered ==
    \A c \in Callers : Reading(c) =>
        /\ content[thread[c].page] \subseteq allowed[c]
        /\ \A x \in Writers(thread[c].page) :
            {thread[x].value, Half, Mixed} \subseteq allowed[c]

RequestsSound ==
    /\ RequestsExclusive
    /\ ContentKept
    /\ WritesCovered
    /\ ReadsCovered
    /\ ReadsRegular

ContractInv == IInv /\ ServiceInv /\ RequestsSound

\* A page in a handler's hands is cached, in use and pinned.
LEMMA HeldPage ==
    ASSUME IInv, ServiceInv, NEW c \in Callers,
           thread[c].pc \in {"use", "copy", "unpin", "drop"}
    PROVE  /\ Holds(c)
           /\ handle[c].frame \in Frames
           /\ handle[c].page = thread[c].page
           /\ thread[c].page \in PageIds
           /\ page_table_[thread[c].page] = handle[c].frame
           /\ Cached(thread[c].page)
           /\ thread[c].page \in live
           /\ pages_[handle[c].frame].pin_count_ > 0
    <1>1. HandlerSound(thread[c], handle[c])
        BY ClientTypes DEF ServiceInv
    <1>2. /\ handle[c].frame \in Frames
          /\ handle[c].page = thread[c].page
          /\ thread[c].page \in PageIds
        BY <1>1 DEF HandlerSound
    <1>3. Holds(c)
        BY <1>2, NoFrameIsNoFrame DEF Holds
    <1>4. page_table_[thread[c].page] = handle[c].frame
        BY <1>2, <1>3 DEF IInv, PinsCounted
    <1>5. Cached(thread[c].page)
        BY <1>2, <1>4, NoFrameIsNoFrame DEF Cached
    <1>6. thread[c].page \in live
        BY <1>2, <1>5, CachedPage
    <1>7. pages_[handle[c].frame].pin_count_ > 0
        <2>1. PICK f \in Frames : f = handle[c].frame
            BY <1>2
        <2>2. c \in Holders(f)
            BY <2>1 DEF Holders
        <2>3. IsFiniteSet(Holders(f)) /\ Cardinality(Holders(f)) \in Nat
            BY HoldersFinite
        <2>4. Cardinality(Holders(f)) # 0
            BY <2>2, <2>3, FS_EmptySet
        <2>5. pages_[f].pin_count_ = Cardinality(Holders(f))
            BY DEF IInv, PinsCounted
        <2> QED BY <2>1, <2>3, <2>4, <2>5
    <1> QED BY <1>2, <1>3, <1>4, <1>5, <1>6, <1>7

LEMMA ReadersPage ==
    ASSUME ContractInv, NEW c \in Callers, Reading(c)
    PROVE  thread[c].page \in live
    <1>1. CASE thread[c].pc = "exec"
        BY <1>1 DEF ContractInv, RequestsSound, RequestsExclusive, Reading, At
    <1>2. CASE thread[c].pc = "use"
        BY <1>2, HeldPage DEF ContractInv
    <1> QED BY <1>1, <1>2 DEF Reading

\* A handler's record becomes t, which is no new request: the same one, or
\* an ALLOCATE that got its page, or none.
Steady(c, t) ==
    /\ t.pc # "exec"
    /\ \/ t.pc \in {"closed", "recv", "crashed"}
       \/ t.pc \in {"reply", "error"} /\ t.op = "READ" /\ t.page \notin live
       \/ /\ Busy(c)
          /\ t.op = thread[c].op
          /\ t.page = thread[c].page \/ (t.op = "ALLOCATE" /\ t.page \notin live)
          /\ t.op = "WRITE" => t.value = thread[c].value
    /\ t.pc = "use" => thread[c].pc = "exec"
    /\ t.pc = "copy" => thread[c].pc = "use"

LEMMA EndSteady ==
    ASSUME ClientsSane, NEW c \in Callers, Ends(c)
    PROVE  \E t : thread' = [thread EXCEPT ![c] = t] /\ Steady(c, t) /\ t.pc \in Idle
    <1>1. PICK pc \in Idle : thread' = [thread EXCEPT ![c] = [NoRequest EXCEPT !.pc = pc]]
        BY DEF Ends
    <1>2. PICK t : /\ thread' = [thread EXCEPT ![c] = t]
                   /\ t.pc = pc
                   /\ t.op = "READ"
                   /\ t.page = INVALID_PAGE_ID
        BY <1>1, NoRequestFacts
    <1>3. INVALID_PAGE_ID \notin live
        BY WordFacts DEF ClientsSane
    <1> QED BY <1>2, <1>3 DEF Steady, Idle

LEMMA ThreadAfter ==
    ASSUME ServiceInv, NEW c \in Callers, NEW t, thread' = [thread EXCEPT ![c] = t]
    PROVE  /\ thread'[c] = t
           /\ \A x \in Callers : x # c => thread'[x] = thread[x]
    BY DEF ServiceInv, ClientsSane

LEMMA ExclusiveStep ==
    ASSUME ServiceInv, RequestsExclusive, NEW c \in Callers, NEW t, Steady(c, t),
           thread' = [thread EXCEPT ![c] = t],
           \/ live \subseteq live'
           \/ live' = live \ {thread[c].page} /\ At(c, "exec", {"DEALLOCATE"})
    PROVE  RequestsExclusive'
    <1>1. /\ thread'[c] = t
          /\ \A x \in Callers : x # c => thread'[x] = thread[x]
        BY ThreadAfter
    <1>2. t.pc # "exec"
        BY DEF Steady
    <1>3. ASSUME NEW x \in Callers, thread'[x].pc = "exec",
                 thread'[x].op \in {"READ", "WRITE", "DEALLOCATE"}
          PROVE  thread'[x].page \in live'
        <2>1. x # c /\ thread'[x] = thread[x]
            BY <1>1, <1>2, <1>3
        <2>2. thread[x].page \in live
            BY <1>3, <2>1 DEF RequestsExclusive, At
        <2>3. Busy(x)
            BY <1>3, <2>1 DEF Busy
        <2>4. At(c, "exec", {"DEALLOCATE"}) => thread[x].page # thread[c].page
            BY <2>1, <2>3 DEF RequestsExclusive
        <2> QED BY <2>1, <2>2, <2>4
    <1>4. ASSUME NEW x \in Callers, NEW d \in Callers, x # d,
                 thread'[x].pc = "exec", thread'[x].op \in {"DEALLOCATE"},
                 thread'[d].pc \notin {"closed", "recv", "crashed"}
          PROVE  thread'[d].page # thread'[x].page
        <2>1. x # c /\ thread'[x] = thread[x] /\ At(x, "exec", {"DEALLOCATE"})
            BY <1>1, <1>2, <1>4 DEF At
        <2>2. thread[x].page \in live
            BY <2>1 DEF RequestsExclusive, At
        <2>3. CASE d = c
            <3>1. (t.page = thread[c].page /\ Busy(c)) \/ t.page \notin live
                BY <1>1, <1>4, <2>3 DEF Steady
            <3>2. Busy(c) => thread[c].page # thread[x].page
                BY <2>1 DEF RequestsExclusive
            <3> QED BY <1>1, <2>1, <2>2, <2>3, <3>1, <3>2
        <2>4. CASE d # c
            <3>1. thread'[d] = thread[d] /\ Busy(d)
                BY <1>1, <1>4, <2>4 DEF Busy
            <3> QED BY <1>4, <2>1, <3>1 DEF RequestsExclusive
        <2> QED BY <2>3, <2>4
    <1> QED BY <1>3, <1>4 DEF RequestsExclusive, At, Busy

LEMMA ReadsStep ==
    ASSUME ServiceInv, WritesCovered, ReadsCovered, ReadsRegular,
           NEW c \in Callers, NEW t, Steady(c, t),
           thread' = [thread EXCEPT ![c] = t],
           \A x \in Callers : x # c => allowed'[x] = allowed[x],
           allowed'[c] = allowed[c] \/ t.pc \in Idle,
           t.pc \in {"unpin", "drop"} /\ t.op = "READ" => t.value \in allowed'[c],
           \A x \in Callers : Reading(x) =>
                \/ content'[thread[x].page] = content[thread[x].page]
                \/ \E y \in Writers(thread[x].page) :
                        content'[thread[x].page] \subseteq {thread[y].value, Mixed}
    PROVE  WritesCovered' /\ ReadsCovered' /\ ReadsRegular'
    <1>1. /\ thread'[c] = t
          /\ \A x \in Callers : x # c => thread'[x] = thread[x]
        BY ThreadAfter
    <1>2. ASSUME NEW x \in Callers, Reading(x)'
          PROVE  /\ Reading(x)
                 /\ thread'[x].page = thread[x].page
                 /\ allowed'[x] = allowed[x]
        <2>1. CASE x = c
            <3>1. t.pc = "use" /\ t.op = "READ"
                BY <1>1, <1>2, <2>1 DEF Reading, Steady
            <3>2. thread[c].pc = "exec" /\ t.op = thread[c].op /\ t.page = thread[c].page
                BY <3>1 DEF Steady
            <3> QED BY <1>1, <2>1, <3>1, <3>2 DEF Reading, Idle
        <2>2. CASE x # c
            <3>1. thread'[x] = thread[x] /\ allowed'[x] = allowed[x]
                BY <1>1, <2>2
            <3> QED BY <1>2, <3>1 DEF Reading
        <2> QED BY <2>1, <2>2
    <1>3. ASSUME NEW y \in Callers, Writing(y)'
          PROVE  /\ Writing(y)
                 /\ thread'[y].page = thread[y].page
                 /\ thread'[y].value = thread[y].value
                 /\ allowed'[y] = allowed[y]
        <2>1. CASE y = c
            <3>1. t.pc \in {"use", "copy"} /\ t.op = "WRITE"
                BY <1>1, <1>3, <2>1 DEF Writing, Steady
            <3>2. /\ thread[c].pc \in {"exec", "use"}
                  /\ t.op = thread[c].op
                  /\ t.page = thread[c].page
                  /\ t.value = thread[c].value
                BY <3>1 DEF Steady
            <3> QED BY <1>1, <2>1, <3>1, <3>2 DEF Writing, Idle
        <2>2. CASE y # c
            <3>1. thread'[y] = thread[y] /\ allowed'[y] = allowed[y]
                BY <1>1, <2>2
            <3> QED BY <1>3, <3>1 DEF Writing
        <2> QED BY <2>1, <2>2
    <1>4. WritesCovered'
        <2> SUFFICES ASSUME NEW x \in Callers, Writing(x)'
                     PROVE  /\ thread'[x].value \in allowed'[x]
                            /\ allowed'[x] \subseteq {thread'[x].value, Mixed}
                            /\ \A y \in Callers :
                                Writing(y)' /\ thread'[y].page = thread'[x].page /\ y # x
                                    => Mixed \in allowed'[x]
            BY DEF WritesCovered, Writers
        <2>1. /\ thread[x].value \in allowed[x]
              /\ allowed[x] \subseteq {thread[x].value, Mixed}
              /\ \A y \in Writers(thread[x].page) : y # x => Mixed \in allowed[x]
            BY <1>3 DEF WritesCovered
        <2>2. ASSUME NEW y \in Callers, Writing(y)', thread'[y].page = thread'[x].page, y # x
              PROVE  Mixed \in allowed'[x]
            <3>1. y \in Writers(thread[x].page)
                BY <1>3, <2>2 DEF Writers
            <3> QED BY <1>3, <2>1, <2>2, <3>1
        <2> QED BY <1>3, <2>1, <2>2
    <1>5. ReadsCovered'
        <2> SUFFICES ASSUME NEW x \in Callers, Reading(x)'
                     PROVE  /\ content'[thread'[x].page] \subseteq allowed'[x]
                            /\ \A y \in Callers :
                                Writing(y)' /\ thread'[y].page = thread'[x].page
                                    => {thread'[y].value, Half, Mixed} \subseteq allowed'[x]
            BY DEF ReadsCovered, Writers
        <2>1. Reading(x) /\ thread'[x].page = thread[x].page /\ allowed'[x] = allowed[x]
            BY <1>2
        <2>2. /\ content[thread[x].page] \subseteq allowed[x]
              /\ \A y \in Writers(thread[x].page) :
                    {thread[y].value, Half, Mixed} \subseteq allowed[x]
            BY <2>1 DEF ReadsCovered
        <2>3. content'[thread[x].page] \subseteq allowed[x]
            BY <2>1, <2>2
        <2>4. ASSUME NEW y \in Callers, Writing(y)', thread'[y].page = thread'[x].page
              PROVE  {thread'[y].value, Half, Mixed} \subseteq allowed'[x]
            <3>1. y \in Writers(thread[x].page) /\ thread'[y].value = thread[y].value
                BY <1>3, <2>1, <2>4 DEF Writers
            <3> QED BY <2>1, <2>2, <3>1
        <2> QED BY <2>1, <2>3, <2>4
    <1>6. ReadsRegular'
        <2> SUFFICES ASSUME NEW x \in Callers, thread'[x].pc \in {"unpin", "drop"},
                            thread'[x].op = "READ"
                     PROVE  thread'[x].value \in allowed'[x]
            BY DEF ReadsRegular, At
        <2>1. CASE x = c
            BY <1>1, <2>1
        <2>2. CASE x # c
            <3>1. thread'[x] = thread[x] /\ allowed'[x] = allowed[x]
                BY <1>1, <2>2
            <3> QED BY <3>1 DEF ReadsRegular, At
        <2> QED BY <2>1, <2>2
    <1> QED BY <1>4, <1>5, <1>6

\* A page whose content stays, when no copy into it begins or ends.
LEMMA KeptStep ==
    ASSUME ServiceInv, NEW p, PageKept(p), NEW c \in Callers, NEW t,
           thread' = [thread EXCEPT ![c] = t],
           c \notin Copiers(p),
           t.pc # "copy" \/ t.page # p,
           \A x \in Callers : x # c => allowed[x] \subseteq allowed'[x],
           ContentOf(p)' = ContentOf(p),
           content'[p] = content[p]
    PROVE  PageKept(p)'
    <1>1. /\ thread'[c] = t
          /\ \A x \in Callers : x # c => thread'[x] = thread[x]
        BY ThreadAfter
    <1>2. Copiers(p)' = Copiers(p)
        <2>1. ASSUME NEW x \in Callers
              PROVE  x \in Copiers(p)' <=> x \in Copiers(p)
            <3>1. CASE x = c
                BY <1>1, <3>1 DEF Copiers, At
            <3>2. CASE x # c
                BY <1>1, <3>2 DEF Copiers, At
            <3> QED BY <3>1, <3>2
        <2>2. Copiers(p)' \subseteq Callers /\ Copiers(p) \subseteq Callers
            BY DEF Copiers
        <2> QED BY <2>1, <2>2
    <1>3. \A x \in Copiers(p) : x \in Callers /\ x # c
        BY DEF Copiers
    <1> QED BY <1>2, <1>3 DEF PageKept

\* A step of one handler that leaves every page's content as it is.
LEMMA PlainStep ==
    ASSUME ContractInv, ContentSame, NEW c \in Callers, NEW t, Steady(c, t),
           thread' = [thread EXCEPT ![c] = t],
           UNCHANGED <<live, content, stop>>,
           PoolExists => thread[c].pc # "copy" /\ t.pc # "copy",
           \/ allowed' = allowed
           \/ allowed' = [allowed EXCEPT ![c] = {}] /\ t.pc \in Idle,
           t.pc \in {"unpin", "drop"} /\ t.op = "READ" => t.value \in allowed[c]
    PROVE  RequestsSound'
    <1>1. /\ ServiceInv
          /\ RequestsExclusive
          /\ ContentKept
          /\ WritesCovered
          /\ ReadsCovered
          /\ ReadsRegular
          /\ live \subseteq PageIds
          /\ allowed \in [Callers -> SUBSET Word]
        BY DEF ContractInv, RequestsSound, ServiceInv, ClientsSane
    <1>2. RequestsExclusive'
        BY <1>1, ExclusiveStep
    <1>3. /\ \A x \in Callers : x # c => allowed'[x] = allowed[x]
          /\ allowed'[c] = allowed[c] \/ t.pc \in Idle
          /\ t.pc \in {"unpin", "drop"} => allowed'[c] = allowed[c]
        BY <1>1 DEF Idle
    <1>4. ContentKept'
        <2> SUFFICES ASSUME PoolExists, NEW p \in live
                     PROVE  PageKept(p)'
            BY DEF ContentKept, PoolExists
        <2>1. PageKept(p) /\ ContentOf(p)' = ContentOf(p)
            BY <1>1 DEF ContentKept, ContentSame
        <2>2. c \notin Copiers(p)
            BY DEF Copiers, At
        <2> QED BY <1>1, <1>3, <2>1, <2>2, KeptStep
    <1>5. WritesCovered' /\ ReadsCovered' /\ ReadsRegular'
        BY <1>1, <1>3, ReadsStep
    <1> QED BY <1>2, <1>4, <1>5 DEF RequestsSound

\* A step of one handler that gives the clients a new page q.
LEMMA NewPageKept ==
    ASSUME ContractInv, NEW c \in Callers, NEW t, Steady(c, t),
           thread' = [thread EXCEPT ![c] = t],
           UNCHANGED <<allowed, stop>>,
           t.op # "READ",
           thread[c].pc # "copy", t.pc # "copy",
           NEW q \in PageIds \ live,
           ContentBecomes(q, Blank),
           content' = [content EXCEPT ![q] = {Blank}],
           live' = live \union {q}
    PROVE  RequestsSound'
    <1>1. /\ IInv
          /\ ServiceInv
          /\ RequestsExclusive
          /\ ContentKept
          /\ WritesCovered
          /\ ReadsCovered
          /\ ReadsRegular
          /\ live \subseteq PageIds
          /\ content \in [PageIds -> SUBSET Word]
        BY DEF ContractInv, RequestsSound, ServiceInv, ClientsSane
    <1>2. RequestsExclusive'
        BY <1>1, ExclusiveStep
    <1>3. ContentKept'
        <2> SUFFICES ASSUME PoolExists, NEW p \in live'
                     PROVE  PageKept(p)'
            BY DEF ContentKept, PoolExists
        <2>1. CASE p = q
            <3>1. Copiers(p)' = {}
                <4> SUFFICES ASSUME NEW x \in Callers, thread'[x].pc = "copy", thread'[x].page = q
                             PROVE  FALSE
                    BY <2>1 DEF Copiers, At
                <4>1. thread'[x] = thread[x]
                    BY <1>1, ThreadAfter
                <4>2. thread[x].page \in live
                    BY <1>1, <4>1, HeldPage
                <4> QED BY <4>1, <4>2
            <3>2. ContentOf(p)' = Blank /\ content'[p] = {Blank}
                BY <1>1, <2>1 DEF ContentBecomes
            <3> QED BY <3>1, <3>2 DEF PageKept
        <2>2. CASE p # q
            <3>1. p \in live /\ p \in PageIds
                BY <1>1, <2>2
            <3>2. PageKept(p) /\ ContentOf(p)' = ContentOf(p) /\ content'[p] = content[p]
                BY <1>1, <2>2, <3>1 DEF ContentBecomes, ContentKept
            <3>3. c \notin Copiers(p)
                BY DEF Copiers, At
            <3> QED BY <1>1, <3>2, <3>3, KeptStep
        <2> QED BY <2>1, <2>2
    <1>4. \A x \in Callers : Reading(x) => content'[thread[x].page] = content[thread[x].page]
        <2> SUFFICES ASSUME NEW x \in Callers, Reading(x)
                     PROVE  content'[thread[x].page] = content[thread[x].page]
            OBVIOUS
        <2>1. thread[x].page \in live
            BY ReadersPage
        <2> QED BY <1>1, <2>1
    <1>5. WritesCovered' /\ ReadsCovered' /\ ReadsRegular'
        BY <1>1, <1>4, ReadsStep
    <1> QED BY <1>2, <1>3, <1>5 DEF RequestsSound

\* A step of a handler that copies w into its page.
LEMMA CopyStep ==
    ASSUME ContractInv, NEW c \in Callers, NEW t, Steady(c, t),
           thread' = [thread EXCEPT ![c] = t],
           UNCHANGED <<allowed, stop, live>>,
           t.op # "READ",
           t.page = thread[c].page,
           Writing(c),
           NEW q \in PageIds, q = thread[c].page, NEW w,
           ContentBecomes(q, w),
           content' = content \/ content' = [content EXCEPT ![q] = allowed[c]],
           PoolExists => PageKept(q)'
    PROVE  RequestsSound'
    <1>1. /\ IInv
          /\ ServiceInv
          /\ RequestsExclusive
          /\ ContentKept
          /\ WritesCovered
          /\ ReadsCovered
          /\ ReadsRegular
          /\ live \subseteq PageIds
          /\ content \in [PageIds -> SUBSET Word]
        BY DEF ContractInv, RequestsSound, ServiceInv, ClientsSane
    <1>2. RequestsExclusive'
        BY <1>1, ExclusiveStep
    <1>3. ContentKept'
        <2> SUFFICES ASSUME PoolExists, NEW p \in live, p # q
                     PROVE  PageKept(p)'
            BY DEF ContentKept, PoolExists
        <2>1. PageKept(p) /\ ContentOf(p)' = ContentOf(p) /\ content'[p] = content[p]
            BY <1>1 DEF ContentBecomes, ContentKept
        <2>2. c \notin Copiers(p) /\ t.page # p
            BY DEF Copiers
        <2> QED BY <1>1, <2>1, <2>2, KeptStep
    <1>4. \A x \in Callers : Reading(x) =>
            \/ content'[thread[x].page] = content[thread[x].page]
            \/ \E y \in Writers(thread[x].page) :
                    content'[thread[x].page] \subseteq {thread[y].value, Mixed}
        <2> SUFFICES ASSUME NEW x \in Callers, Reading(x),
                            content'[thread[x].page] # content[thread[x].page]
                     PROVE  \E y \in Writers(thread[x].page) :
                                content'[thread[x].page] \subseteq {thread[y].value, Mixed}
            OBVIOUS
        <2>1. thread[x].page \in live
            BY ReadersPage
        <2>2. thread[x].page = q /\ content'[q] = allowed[c]
            BY <1>1, <2>1
        <2>3. c \in Writers(q) /\ allowed[c] \subseteq {thread[c].value, Mixed}
            BY <1>1 DEF Writers, WritesCovered
        <2> QED BY <2>2, <2>3
    <1>5. WritesCovered' /\ ReadsCovered' /\ ReadsRegular'
        BY <1>1, <1>4, ReadsStep
    <1> QED BY <1>2, <1>3, <1>5 DEF RequestsSound

\* A step of one handler that deallocates its page.
LEMMA DropStep ==
    ASSUME ContractInv, NEW c \in Callers, NEW t, Steady(c, t), t.pc \in Idle,
           thread' = [thread EXCEPT ![c] = t],
           UNCHANGED <<allowed, content, stop>>,
           At(c, "exec", {"DEALLOCATE"}),
           ContentBecomes(thread[c].page, Blank),
           live' = live \ {thread[c].page}
    PROVE  RequestsSound'
    <1>1. /\ ServiceInv
          /\ RequestsExclusive
          /\ ContentKept
          /\ WritesCovered
          /\ ReadsCovered
          /\ ReadsRegular
          /\ live \subseteq PageIds
        BY DEF ContractInv, RequestsSound, ServiceInv, ClientsSane
    <1>2. RequestsExclusive'
        BY <1>1, ExclusiveStep
    <1>3. ContentKept'
        <2> SUFFICES ASSUME PoolExists, NEW p \in live, p # thread[c].page
                     PROVE  PageKept(p)'
            BY DEF ContentKept, PoolExists
        <2>1. PageKept(p) /\ ContentOf(p)' = ContentOf(p)
            BY <1>1 DEF ContentBecomes, ContentKept
        <2>2. c \notin Copiers(p) /\ t.pc # "copy"
            BY DEF Copiers, At, Idle
        <2> QED BY <1>1, <2>1, <2>2, KeptStep
    <1>4. t.pc \notin {"unpin", "drop"}
        BY DEF Idle
    <1>5. WritesCovered' /\ ReadsCovered' /\ ReadsRegular'
        BY <1>1, <1>4, ReadsStep
    <1> QED BY <1>2, <1>3, <1>5 DEF RequestsSound

\* The steps that touch neither the pool nor a pin, for exclusive clients.
LEMMA QuietContract ==
    ASSUME ContractInv, NEW c \in Callers,
           \/ Accept(c) \/ Disconnect(c) \/ FetchGivesNull(c)
           \/ AllocateGivesNull(c) \/ DeallocateRefused(c) \/ Reply(c) \/ TouchesFreedPool(c)
    PROVE  IInv' /\ RequestsSound' /\ UNCHANGED vars
    <1>1. UNCHANGED vars /\ UNCHANGED <<content, stop>>
        BY DEF Accept, Disconnect, FetchGivesNull, AllocateGivesNull,
               DeallocateRefused, Reply, TouchesFreedPool
    <1>2. IInv' /\ ContentSame /\ live' = live
        BY <1>1, StutterStep DEF ContractInv, vars
    <1>3. ClientsSane
        BY DEF ContractInv, ServiceInv
    <1>4. CASE \/ Disconnect(c) \/ FetchGivesNull(c) \/ AllocateGivesNull(c)
               \/ DeallocateRefused(c) \/ Reply(c)
        <2>1. /\ Ends(c)
              /\ thread[c].pc # "copy"
              /\ allowed' = allowed \/ allowed' = [allowed EXCEPT ![c] = {}]
            BY <1>4, EndsFacts DEF Disconnect, Reply, FetchGivesNull, AllocateGivesNull,
                DeallocateRefused, Fails, At
        <2>2. PICK t : thread' = [thread EXCEPT ![c] = t] /\ Steady(c, t) /\ t.pc \in Idle
            BY <1>3, <2>1, EndSteady
        <2>3. t.pc \notin {"copy", "unpin", "drop"}
            BY <2>2 DEF Idle
        <2> QED BY <1>1, <1>2, <2>1, <2>2, <2>3, PlainStep
    <1>5. CASE Accept(c) \/ TouchesFreedPool(c)
        <2>1. PICK pc \in {"recv", "crashed"} :
                Goto(c, pc) /\ allowed' = allowed /\ (PoolExists => thread[c].pc # "copy")
            BY <1>5 DEF Accept, TouchesFreedPool
        <2>2. PICK t \in ThreadType : thread' = [thread EXCEPT ![c] = t] /\ t.pc = pc
            BY <1>3, <2>1, GotoFacts DEF Pcs
        <2>3. Steady(c, t)
            BY <2>2 DEF Steady
        <2> QED BY <1>1, <1>2, <2>1, <2>2, <2>3, PlainStep
    <1> QED BY <1>1, <1>2, <1>4, <1>5

\* The page a READ sends: what the last WRITE left, or what a WRITE of the same
\* page that is copying has made of it.
LEMMA ReadSendContract ==
    ASSUME ContractInv, NEW c \in Callers, ReadSend(c)
    PROVE  IInv' /\ RequestsSound' /\ UNCHANGED vars
    <1>1. UNCHANGED vars /\ UNCHANGED <<content, allowed, stop>> /\ PoolExists
        BY DEF ReadSend
    <1>2. IInv' /\ ContentSame /\ live' = live
        BY <1>1, StutterStep DEF ContractInv, vars
    <1>3. /\ IInv
          /\ ServiceInv
          /\ ReadsCovered
          /\ ContentKept
          /\ thread \in [Callers -> ThreadType]
        BY DEF ContractInv, RequestsSound, ServiceInv, ClientsSane
    <1>4. thread[c].pc = "use" /\ thread[c].op = "READ" /\ Reading(c)
        BY DEF ReadSend, At, Reading
    <1>5. PICK p \in PageIds : p = thread[c].page
        BY <1>3, <1>4, HeldPage
    <1>6. /\ page_table_[p] = handle[c].frame
          /\ Cached(p)
          /\ p \in live
        BY <1>3, <1>4, <1>5, HeldPage
    <1>7. /\ content[p] \subseteq allowed[c]
          /\ \A x \in Writers(p) : {thread[x].value, Half, Mixed} \subseteq allowed[c]
        BY <1>3, <1>4, <1>5 DEF ReadsCovered
    <1> DEFINE v == pages_[handle[c].frame].data_
    <1>8. v \in allowed[c]
        <2>1. v = ContentOf(p) /\ PageKept(p)
            BY <1>1, <1>3, <1>6 DEF ContentOf, ContentKept
        <2>2. Copiers(p) \subseteq Writers(p)
            BY DEF Copiers, Writers, Writing, At
        <2>3. CASE Copiers(p) = {}
            BY <1>7, <2>1, <2>3 DEF PageKept
        <2>4. CASE Copiers(p) # {}
            <3>1. {Half, Mixed} \subseteq allowed[c]
                BY <1>7, <2>2, <2>4
            <3> QED BY <2>1, <2>4, <3>1 DEF PageKept
        <2> QED BY <2>3, <2>4
    <1>9. PICK after \in {"unpin", "drop"} :
            thread' = [thread EXCEPT ![c].pc = after, ![c].value = v]
        BY DEF ReadSend
    <1> HIDE DEF v
    <1> DEFINE t == [thread[c] EXCEPT !.pc = after, !.value = v]
    <1>10. thread' = [thread EXCEPT ![c] = t]
        BY <1>3, <1>9
    <1>11. /\ t.pc = after
           /\ t.op = "READ"
           /\ t.page = thread[c].page
           /\ t.value = v
        BY <1>3, <1>4 DEF ThreadType
    <1> HIDE DEF t
    <1>12. Steady(c, t)
        BY <1>4, <1>11 DEF Steady, Busy
    <1>13. RequestsSound'
        BY <1>1, <1>2, <1>4, <1>8, <1>10, <1>11, <1>12, PlainStep
    <1> QED BY <1>1, <1>2, <1>13

\* FetchPage by a handler of exclusive clients is FetchPage by a caller that
\* follows the contract, and it never throws.
LEMMA FetchContract ==
    ASSUME ContractInv, NEW c \in Callers, FetchPins(c) \/ FetchThrows(c)
    PROVE  IInv' /\ RequestsSound' /\ Next
    <1>1. /\ IInv
          /\ ServiceInv
          /\ ClientsSane
          /\ RequestsExclusive
          /\ handle[c].frame = NoFrame
        <2>1. HandlerSound(thread[c], handle[c]) /\ thread[c].pc = "exec"
            BY ClientTypes DEF ContractInv, ServiceInv, FetchPins, FetchThrows, At
        <2> QED BY <2>1 DEF ContractInv, RequestsSound, ServiceInv, HandlerSound, NoHandle
    <1>2. At(c, "exec", {"READ", "WRITE"})
        BY DEF FetchPins, FetchThrows
    <1>3. thread[c].page \in live /\ live \subseteq PageIds
        BY <1>1, <1>2 DEF RequestsExclusive, ClientsSane, At
    <1>4. PICK p \in PageIds : p = thread[c].page
        BY <1>3
    <1>5. ~FetchThrows(c)
        <2>1. disk.num_pages_ \in Nat /\ p \in 1 .. (disk.num_pages_ - 1)
            BY <1>1, <1>3, <1>4 DEF IInv, TypeOK, DiskType, PagesAccounted
        <2>2. InBounds(disk, p)
            BY <2>1 DEF InBounds
        <2> QED BY <1>4, <2>2 DEF FetchThrows
    <1>6. FetchPage(c, p)
        BY <1>1, <1>3, <1>4, <1>5 DEF FetchPage, FetchPins, Holds
    <1>7. IInv' /\ ContentSame
        BY <1>1, <1>6, FetchStep
    <1>8. Goto(c, "use") /\ UNCHANGED <<live, content, allowed, stop>>
        BY <1>5 DEF FetchPins
    <1>9. PICK t \in ThreadType :
            /\ thread' = [thread EXCEPT ![c] = t]
            /\ t.pc = "use"
            /\ t.op = thread[c].op
            /\ t.page = thread[c].page
            /\ t.value = thread[c].value
        BY <1>1, <1>8, GotoFacts DEF Pcs
    <1>10. Steady(c, t)
        BY <1>2, <1>9 DEF Steady, Busy, At
    <1>11. RequestsSound'
        BY <1>2, <1>7, <1>8, <1>9, <1>10, PlainStep DEF At
    <1> QED BY <1>6, <1>7, <1>11 DEF Next

\* Who holds the same frame holds the same page.
LEMMA RivalsCopy ==
    ASSUME ContractInv, NEW c \in Callers, thread[c].pc \in {"use", "copy"}
    PROVE  Rivals(c) = Copiers(thread[c].page) \ {c}
    <1>1. IInv /\ ServiceInv
        BY DEF ContractInv
    <1>2. PICK p \in PageIds : p = thread[c].page
        BY <1>1, HeldPage
    <1>3. page_table_[p] = handle[c].frame /\ Cached(p)
        BY <1>1, <1>2, HeldPage
    <1>4. ASSUME NEW x \in Callers, At(x, "copy", {"WRITE"})
          PROVE  handle[x].frame = handle[c].frame <=> thread[x].page = p
        <2>1. PICK q \in PageIds : q = thread[x].page
            BY <1>1, <1>4, HeldPage DEF At
        <2>2. page_table_[q] = handle[x].frame
            BY <1>1, <1>4, <2>1, HeldPage DEF At
        <2>3. page_table_[p] = page_table_[q] => p = q
            BY <1>1, <1>3, OnePagePerFrame
        <2> QED BY <1>3, <2>1, <2>2, <2>3
    <1> QED BY <1>2, <1>4 DEF Rivals, Copiers

\* The begin of a memcpy is a store through a pointer that is pinned.
LEMMA CopyBeginsContract ==
    ASSUME ContractInv, NEW c \in Callers, CopyBegins(c)
    PROVE  IInv' /\ RequestsSound' /\ Next
    <1>1. /\ IInv
          /\ ServiceInv
          /\ ClientsSane
          /\ WritesCovered
        BY DEF ContractInv, RequestsSound, ServiceInv
    <1> DEFINE v == IF Rivals(c) = {} THEN Half ELSE Mixed
    <1>2. /\ thread[c].pc = "use"
          /\ thread[c].op = "WRITE"
          /\ WriteThrough(c, v)
          /\ Goto(c, "copy")
          /\ UNCHANGED <<content, allowed, stop>>
        BY DEF CopyBegins, At
    <1>3. PICK w \in Values : w = v
        BY WordFacts
    <1>4. /\ Rivals(c) = {} => w = Half
          /\ Rivals(c) # {} => w = Mixed
        BY <1>3
    <1>5. WriteThrough(c, w)
        BY <1>2, <1>3
    <1> HIDE DEF v
    <1>6. /\ IInv'
          /\ handle[c].page \in PageIds
          /\ ContentBecomes(handle[c].page, w)
        BY <1>1, <1>5, WriteThroughStep
    <1>7. PICK q \in PageIds : q = handle[c].page /\ q = thread[c].page
        BY <1>1, <1>2, <1>6, HeldPage
    <1>8. PICK t \in ThreadType :
            /\ thread' = [thread EXCEPT ![c] = t]
            /\ t.pc = "copy"
            /\ t.op = thread[c].op
            /\ t.page = thread[c].page
            /\ t.value = thread[c].value
        BY <1>1, <1>2, GotoFacts DEF Pcs
    <1>9. Steady(c, t) /\ t.op # "READ" /\ Writing(c)
        BY <1>2, <1>8 DEF Steady, Busy, Writing
    <1>10. PageKept(q)'
        <2>1. /\ thread'[c] = t
              /\ \A x \in Callers : x # c => thread'[x] = thread[x]
            BY <1>1, <1>8, ThreadAfter
        <2>2. c \in Copiers(q)'
            BY <1>2, <1>7, <1>8, <2>1 DEF Copiers, At
        <2>3. ContentOf(q)' = w
            BY <1>6, <1>7 DEF ContentBecomes
        <2>4. ASSUME w = Mixed, NEW x \in Copiers(q)'
              PROVE  Mixed \in allowed[x]
            <3>1. PICK r \in Rivals(c) : TRUE
                BY <1>4, <2>4, WordFacts
            <3>2. r # c /\ r \in Callers /\ r \in Writers(q)
                BY <1>2, <1>7, <3>1, RivalsCopy DEF Copiers, Writers, Writing, At
            <3>3. CASE x = c
                BY <1>1, <1>7, <1>9, <3>2, <3>3 DEF WritesCovered
            <3>4. CASE x # c
                <4>1. x \in Callers /\ thread'[x] = thread[x]
                    BY <2>1, <2>4, <3>4 DEF Copiers
                <4>2. Writing(x) /\ thread[x].page = q
                    BY <2>4, <4>1 DEF Copiers, Writing, At
                <4>3. c \in Writers(q)
                    BY <1>7, <1>9 DEF Writers
                <4> QED BY <1>1, <3>4, <4>1, <4>2, <4>3 DEF WritesCovered
            <3> QED BY <3>3, <3>4
        <2>5. w \in {Half, Mixed}
            BY <1>4
        <2> QED BY <1>2, <2>2, <2>3, <2>4, <2>5 DEF PageKept
    <1>11. live' = live
        BY <1>2 DEF WriteThrough
    <1>12. RequestsSound'
        BY <1>2, <1>6, <1>7, <1>8, <1>9, <1>10, <1>11, CopyStep
    <1>13. Next
        BY <1>5 DEF Next
    <1> QED BY <1>6, <1>12, <1>13

\* So is its end: of copies that overlapped it leaves a mixture, which the
\* histories of both WRITEs allow.
LEMMA CopyEndsContract ==
    ASSUME ContractInv, NEW c \in Callers, CopyEnds(c)
    PROVE  IInv' /\ RequestsSound' /\ Next
    <1>1. /\ IInv
          /\ ServiceInv
          /\ ClientsSane
          /\ WritesCovered
          /\ ContentKept
        BY DEF ContractInv, RequestsSound, ServiceInv
    <1>2. /\ thread[c].pc = "copy"
          /\ thread[c].op = "WRITE"
          /\ PoolExists
          /\ content' = [content EXCEPT ![thread[c].page] = allowed[c]]
          /\ Goto(c, "unpin")
          /\ UNCHANGED <<allowed, stop>>
        BY DEF CopyEnds, At
    <1>3. PICK w \in CopyLeaves(c) : WriteThrough(c, w)
        BY DEF CopyEnds
    <1>4. w \in Values
        <2>1. HandlerSound(thread[c], handle[c])
            BY <1>1, ClientTypes
        <2> QED BY <1>2, <1>3, <2>1, WordFacts DEF HandlerSound, CopyLeaves
    <1>5. /\ IInv'
          /\ handle[c].page \in PageIds
          /\ handle[c].page \in live
          /\ ContentBecomes(handle[c].page, w)
        BY <1>1, <1>3, <1>4, WriteThroughStep
    <1>6. PICK q \in PageIds : q = handle[c].page /\ q = thread[c].page
        BY <1>1, <1>2, <1>5, HeldPage
    <1>7. PICK t \in ThreadType :
            /\ thread' = [thread EXCEPT ![c] = t]
            /\ t.pc = "unpin"
            /\ t.op = thread[c].op
            /\ t.page = thread[c].page
            /\ t.value = thread[c].value
        BY <1>1, <1>2, GotoFacts DEF Pcs
    <1>8. Steady(c, t) /\ t.op # "READ" /\ Writing(c) /\ c \in Writers(q) /\ c \in Copiers(q)
        BY <1>2, <1>6, <1>7 DEF Steady, Busy, Writing, Writers, Copiers, At
    <1>9. /\ thread[c].value \in allowed[c]
          /\ Rivals(c) = Copiers(q) \ {c}
        BY <1>1, <1>2, <1>6, <1>8, RivalsCopy DEF WritesCovered
    <1>10. PageKept(q)'
        <2>1. /\ thread'[c] = t
              /\ \A x \in Callers : x # c => thread'[x] = thread[x]
            BY <1>1, <1>7, ThreadAfter
        <2>2. Copiers(q)' = Rivals(c)
            <3>1. ASSUME NEW x \in Callers
                  PROVE  x \in Copiers(q)' <=> x \in Copiers(q) \ {c}
                <4>1. CASE x = c
                    BY <1>7, <2>1, <4>1 DEF Copiers, At
                <4>2. CASE x # c
                    BY <2>1, <4>2 DEF Copiers, At
                <4> QED BY <4>1, <4>2
            <3>2. Copiers(q)' \subseteq Callers /\ Copiers(q) \subseteq Callers
                BY DEF Copiers
            <3> QED BY <1>9, <3>1, <3>2
        <2>3. ContentOf(q)' = w /\ content'[q] = allowed[c]
            BY <1>1, <1>2, <1>5, <1>6 DEF ContentBecomes, ClientsSane
        <2>4. CASE Rivals(c) # {}
            <3>1. w = Mixed
                BY <1>3, <2>4 DEF CopyLeaves
            <3>2. ASSUME NEW x \in Rivals(c)
                  PROVE  Mixed \in allowed[x]
                <4>1. x \in Callers /\ x # c /\ Writing(x) /\ thread[x].page = q
                    BY <1>9, <3>2 DEF Copiers, Writing, At
                <4> QED BY <1>1, <1>8, <4>1 DEF WritesCovered
            <3> QED BY <1>2, <2>2, <2>3, <2>4, <3>1, <3>2 DEF PageKept
        <2>5. CASE Rivals(c) = {}
            <3>1. w \in allowed[c]
                <4>1. CASE pages_[handle[c].frame].data_ = Half
                    BY <1>3, <1>9, <2>5, <4>1 DEF CopyLeaves
                <4>2. CASE pages_[handle[c].frame].data_ # Half
                    <5>1. ContentOf(q) = pages_[handle[c].frame].data_
                        BY <1>1, <1>2, <1>6, HeldPage DEF ContentOf
                    <5>2. PageKept(q)
                        BY <1>1, <1>2, <1>5, <1>6 DEF ContentKept
                    <5>3. Mixed \in allowed[c]
                        BY <1>8, <4>2, <5>1, <5>2 DEF PageKept
                    <5> QED BY <1>3, <1>9, <2>5, <4>2, <5>3 DEF CopyLeaves
                <4> QED BY <4>1, <4>2
            <3> QED BY <2>2, <2>3, <2>5, <3>1 DEF PageKept
        <2> QED BY <2>4, <2>5
    <1>11. live' = live
        BY <1>3 DEF WriteThrough
    <1>12. RequestsSound'
        BY <1>2, <1>5, <1>6, <1>7, <1>8, <1>10, <1>11, CopyStep
    <1>13. Next
        BY <1>3, <1>4 DEF Next
    <1> QED BY <1>5, <1>12, <1>13

\* A handler unpins the page it holds, and says is_dirty if it may have
\* written: the call always finds the page pinned.
LEMMA UnpinContract ==
    ASSUME ContractInv, NEW c \in Callers, Unpin(c)
    PROVE  IInv' /\ RequestsSound' /\ Next
    <1>1. /\ IInv
          /\ ServiceInv
          /\ ClientsSane
        BY DEF ContractInv, ServiceInv
    <1>2. thread[c].pc \in {"unpin", "drop"}
        BY DEF Unpin
    <1>3. PICK p \in PageIds : p = thread[c].page
        BY <1>1, <1>2, HeldPage
    <1>4. /\ Holds(c)
          /\ handle[c].page = p
          /\ Cached(p)
          /\ pages_[page_table_[p]].pin_count_ > 0
        BY <1>1, <1>2, <1>3, HeldPage
    <1>5. handle[c].wrote => MarksDirty(c)
        <2>1. HandlerSound(thread[c], handle[c])
            BY <1>1, ClientTypes
        <2> QED BY <2>1 DEF HandlerSound, MarksDirty
    <1>6. PoolUnpin(p, MarksDirty(c))
        <2>1. pages_[page_table_[p]].pin_count_ \in Int
            BY <1>1, <1>3, <1>4, CachedPage DEF IInv, TypeOK, FrameType
        <2>2. ~(pages_[page_table_[p]].pin_count_ <= 0)
            BY <1>4, <2>1
        <2> QED BY <1>3, <1>4, <2>2 DEF Unpin
    <1>7. UnpinPage(c)
        <2>1. MarksDirty(c) \in BOOLEAN
            BY DEF MarksDirty
        <2>2. /\ handle' = [handle EXCEPT ![c] = NoHandle]
              /\ UNCHANGED <<live, freeChain>>
            BY DEF Unpin
        <2>3. PoolUnpin(handle[c].page, MarksDirty(c))
            BY <1>4, <1>6
        <2> QED BY <1>4, <1>5, <2>1, <2>2, <2>3, Zenon DEF UnpinPage
    <1>8. IInv' /\ ContentSame
        BY <1>1, <1>7, UnpinStep
    <1>9. /\ Ends(c) \/ (thread[c].op = "ALLOCATE" /\ Goto(c, "reply"))
          /\ allowed' = [allowed EXCEPT ![c] = {}]
          /\ UNCHANGED <<live, content, stop>>
        BY EndsFacts DEF Unpin
    <1>10. PICK t : /\ thread' = [thread EXCEPT ![c] = t]
                    /\ Steady(c, t)
                    /\ t.pc \in Idle
        <2>1. CASE Ends(c)
            BY <1>1, <2>1, EndSteady
        <2>2. CASE Goto(c, "reply")
            <3>1. PICK t \in ThreadType :
                    /\ thread' = [thread EXCEPT ![c] = t]
                    /\ t.pc = "reply"
                    /\ t.op = thread[c].op
                    /\ t.page = thread[c].page
                    /\ t.value = thread[c].value
                BY <1>1, <2>2, GotoFacts DEF Pcs
            <3> QED BY <1>2, <3>1 DEF Steady, Busy, Idle
        <2> QED BY <1>9, <2>1, <2>2
    <1>11. t.pc \notin {"copy", "unpin", "drop"}
        BY <1>10 DEF Idle
    <1>12. RequestsSound'
        BY <1>2, <1>8, <1>9, <1>10, <1>11, PlainStep
    <1> QED BY <1>7, <1>8, <1>12 DEF Next

\* ALLOCATE gives a page nobody uses, and the free list never leads astray.
LEMMA AllocateContract ==
    ASSUME ContractInv, NEW c \in Callers, AllocatePins(c) \/ AllocateThrows(c)
    PROVE  IInv' /\ RequestsSound' /\ Next
    <1>1. /\ IInv
          /\ ServiceInv
          /\ ClientsSane
          /\ handle[c].frame = NoFrame
          /\ thread[c].pc = "exec"
          /\ thread[c].op = "ALLOCATE"
        <2>1. /\ HandlerSound(thread[c], handle[c])
              /\ thread[c].pc = "exec"
              /\ thread[c].op = "ALLOCATE"
            BY ClientTypes DEF ContractInv, ServiceInv, AllocatePins, AllocateThrows, At
        <2> QED BY <2>1 DEF ContractInv, ServiceInv, HandlerSound, NoHandle
    <1>2. ~AllocateThrows(c)
        <2>1. CASE freeChain = <<>>
            BY <1>1, <2>1 DEF IInv, FreeListSound, Top, AllocateThrows, FreeListEmpty
        <2>2. CASE freeChain # <<>>
            <3>1. Len(freeChain) \in DOMAIN freeChain
                BY <1>1, <2>2 DEF IInv, TypeOK
            <3>2. freeChain[Len(freeChain)] < disk.extent
                BY <1>1, <3>1 DEF IInv, FreeListSound, LinksSpell
            <3>3. LinkReadable(disk)
                BY <1>1, <2>2, <3>2 DEF IInv, FreeListSound, Top, LinkReadable
            <3> QED BY <3>3 DEF AllocateThrows
        <2> QED BY <2>1, <2>2
    <1>3. AllocatePins(c)
        BY <1>2
    <1>4. NewPage(c)
        BY <1>1, <1>3 DEF AllocatePins, NewPage, Holds
    <1>5. IInv'
        BY <1>1, <1>4, NewPageStep
    <1>6. PICK p \in PageIds : /\ p \notin live
                               /\ live' = live \union {p}
                               /\ ContentBecomes(p, Blank)
        BY <1>1, <1>4, NewPageStep
    <1>7. p = AllocatedId(disk)
        <2>1. PICK f \in Obtainable : FreeListEmpty(disk) => CanGrow(disk)
            BY <1>3 DEF AllocatePins, PoolNewPage
        <2>2. AllocatedId(disk) \notin live
            BY <1>1, <2>1, NewPageFresh
        <2>3. live' = live \union {AllocatedId(disk)}
            BY <1>3 DEF AllocatePins
        <2> QED BY <1>6, <2>2, <2>3
    <1>8. /\ content' = [content EXCEPT ![p] = {Blank}]
          /\ thread' = [thread EXCEPT ![c].pc = "unpin", ![c].page = p]
          /\ UNCHANGED <<allowed, stop>>
        BY <1>3, <1>7 DEF AllocatePins
    <1> DEFINE t == [thread[c] EXCEPT !.pc = "unpin", !.page = p]
    <1>9. /\ thread' = [thread EXCEPT ![c] = t]
          /\ t.pc = "unpin"
          /\ t.op = "ALLOCATE"
          /\ t.page = p
        BY <1>1, <1>8 DEF ClientsSane, ThreadType
    <1> HIDE DEF t
    <1>10. Steady(c, t)
        BY <1>1, <1>6, <1>9 DEF Steady, Busy
    <1>11. RequestsSound'
        BY <1>1, <1>6, <1>8, <1>9, <1>10, NewPageKept
    <1> QED BY <1>4, <1>5, <1>11 DEF Next

\* DEALLOCATE deletes a page that is in use and that nobody else names.
LEMMA DeallocateContract ==
    ASSUME ContractInv, NEW c \in Callers, Deallocates(c)
    PROVE  IInv' /\ RequestsSound' /\ Next
    <1>1. /\ IInv
          /\ ServiceInv
          /\ ClientsSane
          /\ RequestsExclusive
        BY DEF ContractInv, RequestsSound, ServiceInv
    <1>2. At(c, "exec", {"DEALLOCATE"})
        BY DEF Deallocates
    <1>3. thread[c].page \in live /\ live \subseteq PageIds
        BY <1>1, <1>2 DEF RequestsExclusive, ClientsSane, At
    <1>4. PICK p \in PageIds : p = thread[c].page
        BY <1>3
    <1>5. p \in 1 .. (disk.num_pages_ - 1) /\ disk.num_pages_ \in Nat
        BY <1>1, <1>3, <1>4 DEF IInv, TypeOK, DiskType, PagesAccounted
    <1>6. ~DeallocateRejects(disk, p)
        BY <1>5 DEF DeallocateRejects
    <1>7. ~InChain(freeChain, p)
        BY <1>1, <1>3, <1>4, <1>5 DEF IInv, PagesAccounted
    <1>8. /\ PoolDeleteCached(p) \/ PoolDeleteUncached(p)
          /\ live' = live \ {p}
          /\ freeChain' = Append(freeChain, p)
          /\ Ends(c)
          /\ UNCHANGED <<handle, content, allowed, stop>>
        BY <1>2, <1>4, <1>6, <1>7, EndsFacts DEF Deallocates, At
    <1>9. DeletePage(p)
        BY <1>3, <1>4, <1>8 DEF DeletePage
    <1>10. IInv' /\ ContentBecomes(p, Blank)
        BY <1>1, <1>9, DeleteStep
    <1>11. PICK t : thread' = [thread EXCEPT ![c] = t] /\ Steady(c, t) /\ t.pc \in Idle
        BY <1>1, <1>8, EndSteady
    <1>12. ContentBecomes(thread[c].page, Blank) /\ live' = live \ {thread[c].page}
        BY <1>4, <1>8, <1>10
    <1>13. RequestsSound'
        BY <1>2, <1>8, <1>11, <1>12, DropStep
    <1> QED BY <1>9, <1>10, <1>13 DEF Next

\* What a READ may answer and a WRITE may leave covers what they meet.
LEMMA AllowedFacts ==
    ASSUME NEW p, NEW w
    PROVE  /\ content[p] \subseteq Allowed("READ", p, w)
           /\ \A x \in InFlight("WRITE", p) :
                {thread[x].value, Half, Mixed} \subseteq Allowed("READ", p, w)
           /\ w \in Allowed("WRITE", p, w)
           /\ Allowed("WRITE", p, w) \subseteq {w, Mixed}
           /\ \A x \in InFlight("WRITE", p) : Mixed \in Allowed("WRITE", p, w)
    BY DEF Allowed, Overlap

\* A request of an exclusive client names a page in use, and joins no other
\* request of a page one of them deallocates.
LEMMA RequestContract ==
    ASSUME ContractInv, Discipline = "exclusive",
           NEW c \in Callers, NEW op \in Ops, NEW p \in Word, NEW w \in Payloads \union {Blank},
           Request(c, op, p, w)
    PROVE  IInv' /\ RequestsSound' /\ UNCHANGED vars
    <1>1. /\ ServiceInv
          /\ RequestsExclusive
          /\ ContentKept
          /\ WritesCovered
          /\ ReadsCovered
          /\ ReadsRegular
          /\ live \subseteq PageIds
          /\ thread \in [Callers -> ThreadType]
        BY DEF ContractInv, RequestsSound, ServiceInv, ClientsSane
    <1>2. UNCHANGED vars /\ UNCHANGED <<content, stop>>
        BY DEF Request
    <1>3. IInv' /\ ContentSame /\ live' = live
        BY <1>2, StutterStep DEF ContractInv, vars
    <1> DEFINE t == Requested(op, p, w)
    <1>4. /\ thread' = [thread EXCEPT ![c] = t]
          /\ t.pc = IF op = "UNKNOWN" THEN "error" ELSE "exec"
          /\ t.op = op
          /\ t.page = p
          /\ t.value = w
          /\ thread[c].pc = "recv"
        BY DEF Request, Requested
    <1>5. /\ op \in {"ALLOCATE", "UNKNOWN"} => p \notin live
          /\ op \notin {"ALLOCATE", "UNKNOWN"} => p \in live
          /\ op = "DEALLOCATE" => Using(p) = {}
          /\ op \in {"READ", "WRITE"} => InFlight("DEALLOCATE", p) = {}
        BY <1>1, WordFacts DEF Request, MaySend, Known
    <1> HIDE DEF t
    <1>6. /\ thread'[c] = t
          /\ \A x \in Callers : x # c => thread'[x] = thread[x]
        BY <1>1, <1>4, ThreadAfter
    <1>7. RequestsExclusive'
        <2>1. ASSUME NEW x \in Callers, thread'[x].pc = "exec",
                     thread'[x].op \in {"READ", "WRITE", "DEALLOCATE"}
              PROVE  thread'[x].page \in live'
            <3>1. CASE x = c
                BY <1>3, <1>4, <1>5, <1>6, <2>1, <3>1
            <3>2. CASE x # c
                BY <1>1, <1>3, <1>6, <2>1, <3>2 DEF RequestsExclusive, At
            <3> QED BY <3>1, <3>2
        <2>2. ASSUME NEW x \in Callers, NEW d \in Callers, x # d,
                     thread'[x].pc = "exec", thread'[x].op \in {"DEALLOCATE"},
                     thread'[d].pc \notin {"closed", "recv", "crashed"}
              PROVE  thread'[d].page # thread'[x].page
            <3>1. CASE x = c
                <4>1. op = "DEALLOCATE" /\ thread'[x].page = p
                    BY <1>4, <1>6, <2>2, <3>1
                <4>2. thread'[d] = thread[d] /\ Busy(d)
                    BY <1>6, <2>2, <3>1 DEF Busy
                <4> QED BY <1>5, <4>1, <4>2 DEF Using
            <3>2. CASE x # c /\ d = c
                <4>1. /\ thread'[x] = thread[x]
                      /\ At(x, "exec", {"DEALLOCATE"})
                      /\ Busy(x)
                      /\ thread'[d].page = p
                    BY <1>4, <1>6, <2>2, <3>2 DEF At, Busy
                <4>2. thread[x].page \in live /\ thread[x].op = "DEALLOCATE"
                    BY <1>1, <4>1 DEF RequestsExclusive, At
                <4>3. CASE op \in {"ALLOCATE", "UNKNOWN"}
                    BY <1>5, <4>1, <4>2, <4>3
                <4>4. CASE op = "DEALLOCATE"
                    BY <1>5, <4>1, <4>4 DEF Using
                <4>5. CASE op \in {"READ", "WRITE"}
                    BY <1>5, <4>1, <4>2, <4>5 DEF InFlight
                <4> QED BY <4>3, <4>4, <4>5 DEF Ops
            <3>3. CASE x # c /\ d # c
                <4>1. thread'[x] = thread[x] /\ thread'[d] = thread[d]
                    BY <1>6, <3>3
                <4> QED BY <1>1, <2>2, <4>1 DEF RequestsExclusive, At, Busy
            <3> QED BY <3>1, <3>2, <3>3
        <2> QED BY <2>1, <2>2 DEF RequestsExclusive, At, Busy
    <1>8. /\ p \in PageIds => allowed'[c] = Allowed(op, p, w)
          /\ \A r \in Callers : r # c =>
                allowed'[r] = IF op = "WRITE" /\ r \in Using(p)
                              THEN allowed[r] \union Overlap(thread[r].op, w)
                              ELSE allowed[r]
        BY DEF Request
    <1>9. ContentKept'
        <2> SUFFICES ASSUME PoolExists, NEW q \in live
                     PROVE  PageKept(q)'
            BY <1>2, <1>3 DEF ContentKept, PoolExists
        <2>1. PageKept(q) /\ ContentOf(q)' = ContentOf(q) /\ content'[q] = content[q]
            BY <1>1, <1>2, <1>3 DEF ContentSame, ContentKept
        <2>2. c \notin Copiers(q) /\ t.pc # "copy"
            BY <1>4 DEF Copiers, At
        <2>3. \A x \in Callers : x # c => allowed[x] \subseteq allowed'[x]
            BY <1>8
        <2> QED BY <1>1, <1>4, <2>1, <2>2, <2>3, KeptStep
    <1>10. ASSUME NEW y \in Callers, Writing(y)'
           PROVE  \/ y # c /\ Writing(y) /\ thread'[y] = thread[y] /\ y \in InFlight("WRITE", thread[y].page)
                  \/ y = c /\ op = "WRITE" /\ thread'[y].page = p /\ thread'[y].value = w /\ p \in PageIds
        <2>1. CASE y = c
            BY <1>1, <1>4, <1>5, <1>6, <1>10, <2>1 DEF Writing
        <2>2. CASE y # c
            BY <1>6, <1>10, <2>2 DEF Writing, InFlight, Busy
        <2> QED BY <2>1, <2>2
    <1>11. WritesCovered'
        <2> SUFFICES ASSUME NEW x \in Callers, Writing(x)'
                     PROVE  /\ thread'[x].value \in allowed'[x]
                            /\ allowed'[x] \subseteq {thread'[x].value, Mixed}
                            /\ \A y \in Callers :
                                Writing(y)' /\ thread'[y].page = thread'[x].page /\ y # x
                                    => Mixed \in allowed'[x]
            BY DEF WritesCovered, Writers
        <2>1. CASE x = c
            <3>1. op = "WRITE" /\ thread'[x].page = p /\ thread'[x].value = w /\ p \in PageIds
                BY <1>10, <2>1
            <3>2. allowed'[x] = Allowed("WRITE", p, w)
                BY <1>8, <2>1, <3>1
            <3>3. ASSUME NEW y \in Callers, Writing(y)', thread'[y].page = p, y # x
                  PROVE  Mixed \in allowed'[x]
                <4>1. y \in InFlight("WRITE", p)
                    BY <1>10, <2>1, <3>3
                <4> QED BY <3>2, <4>1, AllowedFacts
            <3>4. w \in allowed'[x] /\ allowed'[x] \subseteq {w, Mixed}
                BY <3>2, AllowedFacts
            <3> QED BY <3>1, <3>3, <3>4
        <2>2. CASE x # c
            <3>1. Writing(x) /\ thread'[x] = thread[x]
                BY <1>10, <2>2
            <3>2. /\ thread[x].value \in allowed[x]
                  /\ allowed[x] \subseteq {thread[x].value, Mixed}
                  /\ \A y \in Writers(thread[x].page) : y # x => Mixed \in allowed[x]
                BY <1>1, <3>1 DEF WritesCovered
            <3>3. /\ allowed[x] \subseteq allowed'[x]
                  /\ allowed'[x] \subseteq allowed[x] \union {Mixed}
                BY <1>8, <2>2, <3>1 DEF Overlap, Writing
            <3>4. ASSUME NEW y \in Callers, Writing(y)', thread'[y].page = thread[x].page, y # x
                  PROVE  Mixed \in allowed'[x]
                <4>1. CASE y = c
                    <5>1. op = "WRITE" /\ thread[x].page = p
                        BY <1>10, <3>4, <4>1
                    <5>2. x \in Using(p)
                        BY <3>1, <5>1 DEF Using, Busy, Writing
                    <5> QED BY <1>8, <2>2, <3>1, <5>1, <5>2 DEF Overlap, Writing
                <4>2. CASE y # c
                    <5>1. y \in Writers(thread[x].page)
                        BY <1>10, <3>4, <4>2 DEF Writers
                    <5> QED BY <3>2, <3>3, <3>4, <5>1
                <4> QED BY <4>1, <4>2
            <3> QED BY <3>1, <3>2, <3>3, <3>4
        <2> QED BY <2>1, <2>2
    <1>12. ReadsCovered'
        <2> SUFFICES ASSUME NEW x \in Callers, Reading(x)'
                     PROVE  /\ content[thread'[x].page] \subseteq allowed'[x]
                            /\ \A y \in Callers :
                                Writing(y)' /\ thread'[y].page = thread'[x].page
                                    => {thread'[y].value, Half, Mixed} \subseteq allowed'[x]
            BY <1>2 DEF ReadsCovered, Writers
        <2>1. CASE x = c
            <3>1. op = "READ" /\ thread'[x].page = p
                BY <1>4, <1>6, <2>1 DEF Reading
            <3>2. allowed'[c] = Allowed("READ", p, w)
                BY <1>1, <1>5, <1>8, <3>1
            <3>3. ASSUME NEW y \in Callers, Writing(y)', thread'[y].page = p
                  PROVE  {thread'[y].value, Half, Mixed} \subseteq allowed'[c]
                <4>1. y \in InFlight("WRITE", p) /\ thread'[y] = thread[y]
                    BY <1>10, <3>1, <3>3
                <4> QED BY <3>2, <4>1, AllowedFacts
            <3>4. content[p] \subseteq allowed'[c]
                BY <3>2, AllowedFacts
            <3> QED BY <2>1, <3>1, <3>3, <3>4
        <2>2. CASE x # c
            <3>1. /\ thread'[x] = thread[x]
                  /\ allowed[x] \subseteq allowed'[x]
                  /\ Reading(x)
                BY <1>6, <1>8, <2>2 DEF Reading
            <3>2. /\ content[thread[x].page] \subseteq allowed[x]
                  /\ \A y \in Writers(thread[x].page) :
                        {thread[y].value, Half, Mixed} \subseteq allowed[x]
                BY <1>1, <3>1 DEF ReadsCovered
            <3>3. ASSUME NEW y \in Callers, Writing(y)', thread'[y].page = thread[x].page
                  PROVE  {thread'[y].value, Half, Mixed} \subseteq allowed'[x]
                <4>1. CASE y = c
                    <5>1. op = "WRITE" /\ p = thread[x].page /\ thread'[y].value = w
                        BY <1>10, <3>3, <4>1
                    <5>2. x \in Using(p)
                        BY <3>1, <5>1 DEF Using, Reading, Busy
                    <5> QED BY <1>8, <2>2, <3>1, <5>1, <5>2 DEF Overlap, Reading
                <4>2. CASE y # c
                    <5>1. y \in Writers(thread[x].page) /\ thread'[y] = thread[y]
                        BY <1>10, <3>3, <4>2 DEF Writers
                    <5> QED BY <3>1, <3>2, <5>1
                <4> QED BY <4>1, <4>2
            <3> QED BY <3>1, <3>2, <3>3
        <2> QED BY <2>1, <2>2
    <1>13. ReadsRegular'
        <2> SUFFICES ASSUME NEW x \in Callers, thread'[x].pc \in {"unpin", "drop"},
                            thread'[x].op = "READ"
                     PROVE  thread'[x].value \in allowed'[x]
            BY DEF ReadsRegular, At
        <2>1. x # c
            BY <1>4, <1>6
        <2>2. thread'[x] = thread[x] /\ allowed[x] \subseteq allowed'[x]
            BY <1>6, <1>8, <2>1
        <2> QED BY <1>1, <2>2 DEF ReadsRegular, At
    <1>14. RequestsSound'
        BY <1>7, <1>9, <1>11, <1>12, <1>13 DEF RequestsSound
    <1> QED BY <1>2, <1>3, <1>14

\* Stop writes back, and changes no page's content.
LEMMA StopContract ==
    ASSUME ContractInv, Stop \/ UNCHANGED allVars
    PROVE  IInv' /\ RequestsSound' /\ [Next]_vars
    <1>1. /\ UNCHANGED vars \/ FlushAllPages
          /\ UNCHANGED <<thread, content, allowed>>
        BY DEF Stop, StopSignals, StopFlushes, StopCloses, allVars, vars
    <1>2. IInv' /\ ContentSame /\ live' = live
        BY <1>1, StutterStep, FlushAllStep DEF ContractInv, vars, FlushAllPages
    <1>3. [Next]_vars
        BY <1>1 DEF Next
    <1>4. /\ RequestsExclusive
          /\ ContentKept
          /\ WritesCovered
          /\ ReadsCovered
          /\ ReadsRegular
          /\ live \subseteq PageIds
        BY DEF ContractInv, RequestsSound, ServiceInv, ClientsSane
    <1>5. RequestsExclusive'
        BY <1>1, <1>2, <1>4 DEF RequestsExclusive, At, Busy
    <1>6. ContentKept'
        <2>1. PoolExists' => PoolExists
            BY DEF Stop, StopSignals, StopFlushes, StopCloses, allVars, PoolExists
        <2> SUFFICES ASSUME PoolExists, NEW q \in live
                     PROVE  PageKept(q)'
            BY <1>2, <2>1 DEF ContentKept
        <2>2. PageKept(q) /\ ContentOf(q)' = ContentOf(q)
            BY <1>2, <1>4 DEF ContentSame, ContentKept
        <2>3. Copiers(q)' = Copiers(q)
            BY <1>1 DEF Copiers, At
        <2> QED BY <1>1, <2>2, <2>3 DEF PageKept
    <1>7. WritesCovered' /\ ReadsCovered'
        BY <1>1, <1>4 DEF WritesCovered, ReadsCovered, Writers, Writing, Reading
    <1>8. ReadsRegular'
        BY <1>1, <1>4 DEF ReadsRegular, At
    <1> QED BY <1>2, <1>3, <1>5, <1>6, <1>7, <1>8 DEF RequestsSound

LEMMA ContractInvInit == ServiceInit => ContractInv
    <1> SUFFICES ASSUME ServiceInit
                 PROVE  ContractInv
        OBVIOUS
    <1>1. IInv /\ ServiceInv /\ live = {}
        BY InitIInv, ServiceInvInit DEF ServiceInit, Init
    <1>2. \A c \in Callers : thread[c].pc = "closed"
        BY DEF ServiceInit, NoRequest
    <1>3. RequestsExclusive /\ WritesCovered /\ ReadsCovered /\ ReadsRegular
        BY <1>2 DEF RequestsExclusive, WritesCovered, ReadsCovered, ReadsRegular,
            Writing, Reading, At, Busy
    <1>4. ContentKept
        BY <1>1 DEF ContentKept
    <1> QED BY <1>1, <1>3, <1>4 DEF ContractInv, RequestsSound

\* Every step of the service is a step of the pool that follows its contract,
\* or none of the pool's.
LEMMA ContractStep ==
    ASSUME ContractInv, Discipline = "exclusive", [ServiceNext]_allVars
    PROVE  ContractInv' /\ [Next]_vars
    <1>1. ServiceInv'
        BY ServiceInvStep DEF ContractInv
    <1>2. ASSUME NEW c \in Callers, Accept(c) \/ Disconnect(c) \/ Works(c) \/ Sends(c)
          PROVE  IInv' /\ RequestsSound' /\ [Next]_vars
        BY <1>2, QuietContract, ReadSendContract, FetchContract, CopyBeginsContract,
           CopyEndsContract, UnpinContract, AllocateContract, DeallocateContract
           DEF Works, Sends
    <1>3. ASSUME NEW c \in Callers, NEW op \in Ops, NEW p \in Word, NEW w \in Payloads \union {Blank},
                 Request(c, op, p, w)
          PROVE  IInv' /\ RequestsSound' /\ [Next]_vars
        BY <1>3, RequestContract
    <1>4. ASSUME Stop \/ UNCHANGED allVars
          PROVE  IInv' /\ RequestsSound' /\ [Next]_vars
        BY <1>4, StopContract
    <1>5. IInv' /\ RequestsSound' /\ [Next]_vars
        BY <1>2, <1>3, <1>4 DEF ServiceNext
    <1> QED BY <1>1, <1>5 DEF ContractInv

\* What the handlers of exclusive clients keep, at every step: the pool's own
\* invariant, and in every page what the last WRITE of it may have left, mixtures
\* and pages in the middle of a copy only where WRITEs overlap.
THEOREM ServiceContractInvariant ==
    ASSUME Discipline = "exclusive"
    PROVE  ServiceSpec => []ContractInv
    <1>1. ContractInv /\ [ServiceNext]_allVars => ContractInv'
        BY ContractStep
    <1> QED BY <1>1, ContractInvInit, PTL DEF ServiceSpec

\* The handlers of exclusive clients use the pool as its contract asks: they
\* fetch pages in use, unpin what they pinned, say is_dirty when they wrote,
\* and delete only pages nobody else names.  So every behaviour of the service
\* is one of BufferPool's, and all that is proved of the pool holds of it.
THEOREM ServiceKeepsContract ==
    ASSUME Discipline = "exclusive"
    PROVE  ServiceSpec => KeepsPoolContract
    <1>1. ServiceInit => Init
        BY DEF ServiceInit
    <1>2. ContractInv /\ [ServiceNext]_allVars => [Next]_vars
        BY ContractStep
    <1> QED BY <1>1, <1>2, ServiceContractInvariant, PTL DEF ServiceSpec, KeepsPoolContract, Spec

\* A READ answers what the last WRITE of its page left, whatever was evicted,
\* written back or refetched meanwhile: its payload, or a mixture of payloads
\* only if it overlapped another WRITE.  Only a READ that itself overlaps a
\* WRITE may answer that one's payload or a page in the middle of a copy.
THEOREM ServiceReadsRegular ==
    ASSUME Discipline = "exclusive"
    PROVE  ServiceSpec => []ReadsRegular
    <1>1. ContractInv => ReadsRegular
        BY DEF ContractInv, RequestsSound
    <1> QED BY <1>1, ServiceContractInvariant, PTL

-----------------------------------------------------------------------------
(***************************************************************************)
(* Stop, when it waits for the traffic to end.                             *)
(***************************************************************************)
\* From the signal on nobody is busy, so what FlushAllPages wrote stays.
QuietInv ==
    /\ NoUseAfterStop
    /\ ~is_running_ => \A c \in Callers : thread[c].pc \in {"closed", "recv"}
    /\ StopPersists

LEMMA QuietInvStep ==
    ASSUME ContractInv, QuietInv, QuietStop, [ServiceNext]_allVars
    PROVE  QuietInv'
    <1>1. /\ IInv
          /\ ClientsSane
          /\ ContentKept
        BY DEF ContractInv, RequestsSound, ServiceInv
    <1>2. ASSUME NEW c \in Callers, Disconnect(c)
          PROVE  QuietInv'
        <2>1. UNCHANGED <<vars, stop, content>>
            BY <1>2 DEF Disconnect
        <2>2. PICK t : thread' = [thread EXCEPT ![c] = t] /\ t.pc = "closed"
            <3>1. thread' = [thread EXCEPT ![c] = NoRequest]
                BY <1>2 DEF Disconnect, Leave
            <3>2. NoRequest.pc = "closed"
                BY DEF NoRequest
            <3> QED BY <3>1, <3>2
        <2>3. /\ thread'[c] = t
              /\ \A x \in Callers : x # c => thread'[x] = thread[x]
            BY <2>2, ThreadAfter DEF ContractInv
        <2>4. NoUseAfterStop'
            BY <2>2, <2>3 DEF QuietInv, NoUseAfterStop
        <2>5. ~is_running_' => \A x \in Callers : thread'[x].pc \in {"closed", "recv"}
            BY <2>1, <2>2, <2>3 DEF QuietInv, is_running_
        <2>6. StopPersists'
            BY <2>1 DEF QuietInv, StopPersists, vars, ReadPage
        <2> QED BY <2>4, <2>5, <2>6 DEF QuietInv
    <1>3. ASSUME is_running_, is_running_', NEW c \in Callers, NEW t, t.pc # "crashed",
                 thread' = [thread EXCEPT ![c] = t]
          PROVE  QuietInv'
        <2>1. /\ thread'[c] = t
              /\ \A x \in Callers : x # c => thread'[x] = thread[x]
            BY <1>3, ThreadAfter DEF ContractInv
        <2>2. NoUseAfterStop'
            BY <1>3, <2>1 DEF QuietInv, NoUseAfterStop
        <2> QED BY <1>3, <2>2 DEF QuietInv, StopPersists, is_running_
    <1>4. ASSUME NEW c \in Callers, Accept(c) \/ Works(c) \/ Sends(c)
          PROVE  QuietInv'
        <2>1. is_running_
            <3>1. CASE Accept(c)
                BY <3>1 DEF Accept
            <3>2. CASE Works(c) \/ Sends(c)
                <4>1. thread[c].pc \notin {"closed", "recv"}
                    BY <3>2 DEF Works, Sends, FetchPins, FetchGivesNull, FetchThrows, ReadSend, CopyBegins,
                        CopyEnds, Unpin, AllocatePins, AllocateGivesNull, AllocateThrows,
                        Deallocates, DeallocateRefused, Reply, TouchesFreedPool, At
                <4> QED BY <4>1 DEF QuietInv
            <3> QED BY <1>4, <3>1, <3>2
        <2>2. stop' = stop
            BY <1>4 DEF Accept, Works, Sends, FetchPins, FetchGivesNull, FetchThrows, ReadSend, CopyBegins,
                CopyEnds, Unpin, AllocatePins, AllocateGivesNull, AllocateThrows,
                Deallocates, DeallocateRefused, Reply, TouchesFreedPool
        <2>3. is_running_'
            BY <2>1, <2>2 DEF is_running_
        <2>4. ASSUME NEW pc \in Pcs \ {"crashed"}, Goto(c, pc)
              PROVE  QuietInv'
            <3>1. PICK t \in ThreadType : thread' = [thread EXCEPT ![c] = t] /\ t.pc = pc
                BY <1>1, <2>4, GotoFacts
            <3> QED BY <1>3, <2>1, <2>3, <3>1
        <2>5. CASE Ends(c)
            <3>1. PICK t : thread' = [thread EXCEPT ![c] = t] /\ t.pc \in Idle
                BY <2>5, NoRequestFacts DEF Ends
            <3> QED BY <1>3, <2>1, <2>3, <3>1 DEF Idle
        <2>6. CASE ReadSend(c) \/ AllocatePins(c)
            <3>1. thread \in [Callers -> ThreadType]
                BY <1>1 DEF ClientsSane
            <3>2. CASE ReadSend(c)
                <4>1. PICK after \in {"unpin", "drop"} :
                        \E v : thread' = [thread EXCEPT ![c].pc = after, ![c].value = v]
                    BY <3>2 DEF ReadSend
                <4>2. PICK v : thread' = [thread EXCEPT ![c].pc = after, ![c].value = v]
                    BY <4>1
                <4> DEFINE t == [thread[c] EXCEPT !.pc = after, !.value = v]
                <4>3. thread' = [thread EXCEPT ![c] = t] /\ t.pc = after
                    BY <3>1, <4>2 DEF ThreadType
                <4> HIDE DEF t
                <4> QED BY <1>3, <2>1, <2>3, <4>3
            <3>3. CASE AllocatePins(c)
                <4>1. PICK p : thread' = [thread EXCEPT ![c].pc = "unpin", ![c].page = p]
                    BY <3>3 DEF AllocatePins
                <4> DEFINE t == [thread[c] EXCEPT !.pc = "unpin", !.page = p]
                <4>2. thread' = [thread EXCEPT ![c] = t] /\ t.pc = "unpin"
                    BY <3>1, <4>1 DEF ThreadType
                <4> HIDE DEF t
                <4> QED BY <1>3, <2>1, <2>3, <4>2
            <3> QED BY <2>6, <3>2, <3>3
        <2>7. ~TouchesFreedPool(c)
            BY <2>1 DEF TouchesFreedPool, PoolExists, is_running_
        <2>8. \/ ReadSend(c) \/ AllocatePins(c) \/ Ends(c)
              \/ \E pc \in {"recv", "use", "copy", "unpin", "reply"} : Goto(c, pc)
            BY <1>4, <2>7, EndsFacts DEF Accept, Works, Sends, FetchPins, FetchGivesNull, FetchThrows,
                CopyBegins, CopyEnds, Unpin, AllocateGivesNull, AllocateThrows,
                Deallocates, DeallocateRefused, Reply
        <2> QED BY <2>4, <2>5, <2>6, <2>8 DEF Pcs
    <1>5. ASSUME NEW c \in Callers, NEW op \in Ops, NEW p \in Word, NEW w \in Payloads \union {Blank},
                 Request(c, op, p, w)
          PROVE  QuietInv'
        <2> DEFINE t == Requested(op, p, w)
        <2>1. /\ thread' = [thread EXCEPT ![c] = t]
              /\ t.pc # "crashed"
              /\ is_running_
              /\ is_running_'
            BY <1>5 DEF Request, Requested, is_running_
        <2> HIDE DEF t
        <2> QED BY <1>3, <2>1
    <1>6. CASE StopSignals
        <2>1. \A c \in Callers : thread[c].pc \in {"closed", "recv"}
            BY <1>6 DEF StopSignals, Busy, QuietInv, NoUseAfterStop
        <2>2. thread' = thread /\ stop' = "signalled"
            BY <1>6 DEF StopSignals
        <2> QED BY <2>1, <2>2 DEF QuietInv, NoUseAfterStop, StopPersists
    <1>7. CASE StopFlushes
        <2>1. /\ thread' = thread /\ content' = content /\ live' = live
              /\ FlushAllPages
              /\ ~is_running_
              /\ stop' \in {"flushed", "reset"}
            BY <1>7 DEF StopFlushes, FlushAllPages, is_running_
        <2>2. \A c \in Callers : ~handle[c].wrote
            <3> SUFFICES ASSUME NEW c \in Callers
                         PROVE  ~handle[c].wrote
                OBVIOUS
            <3>1. HandlerSound(thread[c], handle[c])
                BY <1>1, ClientTypes
            <3>2. handle[c] = NoHandle
                BY <2>1, <3>1 DEF QuietInv, HandlerSound
            <3> QED BY <3>2 DEF NoHandle
        <2>3. ASSUME NEW p \in live
              PROVE  ReadPage(disk', p) \in content[p]
            <3>1. ReadPage(disk', p) = ContentOf(p)
                BY <1>1, <2>1, <2>2, FlushAllWrites DEF ContentOf
            <3>2. PoolExists
                BY <1>7 DEF StopFlushes, PoolExists
            <3>3. Copiers(p) = {}
                BY <2>1 DEF Copiers, At, QuietInv
            <3> QED BY <1>1, <3>1, <3>2, <3>3 DEF ContentKept, PageKept
        <2>4. StopPersists'
            BY <2>1, <2>3 DEF StopPersists, ReadPage
        <2> QED BY <2>1, <2>4 DEF QuietInv, NoUseAfterStop
    <1>8. CASE StopCloses \/ UNCHANGED allVars
        <2>1. /\ thread' = thread /\ content' = content /\ live' = live /\ disk' = disk
              /\ stop' = stop \/ (stop = "reset" /\ stop' = "closed")
            BY <1>8 DEF StopCloses, vars, allVars
        <2>2. StopPersists'
            BY <2>1 DEF QuietInv, StopPersists, ReadPage
        <2> QED BY <2>1, <2>2 DEF QuietInv, NoUseAfterStop, is_running_
    <1> QED BY <1>2, <1>4, <1>5, <1>6, <1>7, <1>8 DEF ServiceNext, Stop

LEMMA QuietInvInit == ServiceInit => QuietInv
    BY DEF ServiceInit, QuietInv, NoRequest, NoUseAfterStop, StopPersists, is_running_

\* After a Stop that finds no client busy, the file holds every page as the last
\* WRITE left it: its payload, or a mixture only if it overlapped another WRITE.
\* What the two FlushAllPages of Stop leave unwritten was on disk already.
THEOREM ServiceStopPersists ==
    ASSUME Discipline = "exclusive", QuietStop
    PROVE  ServiceSpec => []StopPersists
    <1>1. ContractInv /\ QuietInv /\ [ServiceNext]_allVars => QuietInv'
        BY QuietInvStep
    <1>2. QuietInv => StopPersists
        BY DEF QuietInv
    <1> QED BY <1>1, <1>2, QuietInvInit, ServiceContractInvariant, PTL DEF ServiceSpec

\* Such a Stop leaves no handler to reach for the pool it frees: a traffic
\* that ends before Stop is what the code lacks.
THEOREM ServiceQuietStopSafe ==
    ASSUME Discipline = "exclusive", QuietStop
    PROVE  ServiceSpec => []NoUseAfterStop
    <1>1. ContractInv /\ QuietInv /\ [ServiceNext]_allVars => QuietInv'
        BY QuietInvStep
    <1>2. QuietInv => NoUseAfterStop
        BY DEF QuietInv
    <1> QED BY <1>1, <1>2, QuietInvInit, ServiceContractInvariant, PTL DEF ServiceSpec
=============================================================================
