-------------------------- MODULE DiskPagesProofs --------------------------
(***************************************************************************)
(* What the flushes of DiskPages do to the fields of the disk and to the   *)
(* free list threaded through it, for a file of any size.                  *)
(***************************************************************************)
EXTENDS DiskPages, SequenceTheorems, TLAPS

\* A disk whose free list is the stack chain, and whose file is complete.
FreeListIs(d, chain) ==
    /\ d.extent = d.num_pages_
    /\ d.num_pages_ >= 1
    /\ d.free_list_head_ = Top(chain)
    /\ LinksSpell(d, chain)
    /\ NoRepeats(chain)

\* The two flushes every operation is made of: one page, or the metadata.
LEMMA PutPageEffect ==
    ASSUME NEW d \in DiskType, NEW p \in PageIds, NEW w \in Word
    PROVE  LET e == PutPage(d, p, w) IN
           /\ e \in DiskType
           /\ e.page = [d.page EXCEPT ![p] = w]
           /\ e.extent = IF p < d.extent THEN d.extent ELSE p + 1
           /\ e.disk_num = d.disk_num
           /\ e.num_pages_ = d.num_pages_
           /\ e.free_list_head_ = d.free_list_head_
    <1>1. /\ d.page \in [PageIds -> Word]
          /\ (IF p < d.extent THEN d.extent ELSE p + 1) \in 0 .. MaxPages
        BY PagesAssumption DEF DiskType, PageIds
    <1> QED BY <1>1 DEF PutPage, DiskType

\* Writing the metadata changes page 0 and nothing else of the file.
LEMMA WriteMetadataEffect ==
    ASSUME NEW d \in DiskType
    PROVE  LET e == WriteMetadata(d) IN
           /\ e \in DiskType
           /\ e.page = [d.page EXCEPT ![0] = d.free_list_head_]
           /\ e.extent = d.extent
           /\ e.disk_num = d.num_pages_
           /\ e.num_pages_ = d.num_pages_
           /\ e.free_list_head_ = d.free_list_head_
    BY PagesAssumption DEF WriteMetadata, DiskType, PageIds

\* WritePage of a data page inside the file changes that page and no other
\* word of the file or of the cache.
LEMMA WritePageEffect ==
    ASSUME NEW d \in DiskType, NEW p \in PageIds, NEW w \in Word,
           p # 0, p < d.extent
    PROVE  LET e == WritePage(d, p, w) IN
           /\ e \in DiskType
           /\ e.page = [d.page EXCEPT ![p] = w]
           /\ e.extent = d.extent
           /\ e.num_pages_ = d.num_pages_
           /\ e.free_list_head_ = d.free_list_head_
    BY PutPageEffect DEF WritePage

\* Writing a page that is not free leaves the free list as it was.
LEMMA WritePageKeepsFreeList ==
    ASSUME NEW d \in DiskType, NEW p \in PageIds, NEW w \in Word,
           NEW chain \in Seq(PageIds),
           p # 0, p < d.extent, ~InChain(chain, p), FreeListIs(d, chain)
    PROVE  FreeListIs(WritePage(d, p, w), chain)
    <1> DEFINE e == WritePage(d, p, w)
    <1>1. /\ e \in DiskType
          /\ e.page = [d.page EXCEPT ![p] = w]
          /\ e.extent = d.extent
          /\ e.num_pages_ = d.num_pages_
          /\ e.free_list_head_ = d.free_list_head_
        BY WritePageEffect
    <1> HIDE DEF e
    <1>2. LinksSpell(e, chain)
        <2> SUFFICES ASSUME NEW i \in DOMAIN chain
                     PROVE  /\ chain[i] \in 1 .. (e.num_pages_ - 1)
                            /\ chain[i] < e.extent
                            /\ e.page[chain[i]] = Below(chain, i)
            BY DEF LinksSpell
        <2>1. /\ chain[i] \in 1 .. (d.num_pages_ - 1)
              /\ chain[i] < d.extent
              /\ d.page[chain[i]] = Below(chain, i)
            BY DEF FreeListIs, LinksSpell
        <2>2. chain[i] # p
            BY DEF InChain
        <2>3. chain[i] \in PageIds
            OBVIOUS
        <2>4. d.page \in [PageIds -> Word]
            BY DEF DiskType
        <2> QED BY <1>1, <2>1, <2>2, <2>3, <2>4
    <1> QED BY <1>1, <1>2 DEF FreeListIs, e

\* The effect of the flushes that allocate.
LEMMA GrowEffect ==
    ASSUME NEW d \in DiskType, FreeListEmpty(d), CanGrow(d), d.extent = d.num_pages_
    PROVE  LET e == AllocatePage(d) IN
           /\ e \in DiskType
           /\ e.page = [[d.page EXCEPT ![0] = d.free_list_head_]
                            EXCEPT ![d.num_pages_] = Blank]
           /\ e.extent = d.num_pages_ + 1
           /\ e.num_pages_ = d.num_pages_ + 1
           /\ e.free_list_head_ = d.free_list_head_
    <1> DEFINE a == [d EXCEPT !.num_pages_ = d.num_pages_ + 1]
               b == WriteMetadata(a)
               p == d.num_pages_
               e == PutPage(b, p, Blank)
    <1>1. /\ a \in DiskType
          /\ a.page = d.page
          /\ a.extent = d.extent
          /\ a.num_pages_ = d.num_pages_ + 1
          /\ a.free_list_head_ = d.free_list_head_
        BY PagesAssumption DEF DiskType, CanGrow
    <1>2. /\ p \in PageIds
          /\ Blank \in Word
        BY PagesAssumption DEF DiskType, CanGrow, PageIds, Word, Blank
    <1>3. AllocatePage(d) = e
        BY DEF AllocatePage, AllocateGrowBlank, AllocateGrowCount, AllocatedId
    <1> HIDE DEF a
    <1>4. /\ b \in DiskType
          /\ b.page = [a.page EXCEPT ![0] = a.free_list_head_]
          /\ b.extent = a.extent
          /\ b.num_pages_ = a.num_pages_
          /\ b.free_list_head_ = a.free_list_head_
        BY <1>1, WriteMetadataEffect
    <1> HIDE DEF b
    <1>5. /\ e \in DiskType
          /\ e.page = [b.page EXCEPT ![p] = Blank]
          /\ e.extent = IF p < b.extent THEN b.extent ELSE p + 1
          /\ e.num_pages_ = b.num_pages_
          /\ e.free_list_head_ = b.free_list_head_
        BY <1>2, <1>4, PutPageEffect
    <1>6. ~(p < b.extent)
        BY <1>1, <1>4, <1>2 DEF PageIds
    <1> QED BY <1>1, <1>3, <1>4, <1>5, <1>6

\* AllocatePage from the free list: the head moves on, no data page changes.
LEMMA ReuseEffect ==
    ASSUME NEW d \in DiskType, ~FreeListEmpty(d), d.free_list_head_ \in PageIds
    PROVE  LET e == AllocatePage(d) IN
           /\ e \in DiskType
           /\ e.page = [d.page EXCEPT ![0] = d.page[d.free_list_head_]]
           /\ e.extent = d.extent
           /\ e.num_pages_ = d.num_pages_
           /\ e.free_list_head_ = d.page[d.free_list_head_]
    BY PagesAssumption
       DEF AllocatePage, AllocateReuse, FreeListEmpty, WriteMetadata, DiskType,
           PageIds, Word

\* DeallocatePage: the page links to the old head and becomes the head.
LEMMA DeallocateEffect ==
    ASSUME NEW d \in DiskType, NEW p \in PageIds,
           p # 0, p < d.num_pages_, d.extent = d.num_pages_
    PROVE  LET e == DeallocatePage(d, p) IN
           /\ e \in DiskType
           /\ e.page = [[d.page EXCEPT ![p] = d.free_list_head_] EXCEPT ![0] = p]
           /\ e.extent = d.extent
           /\ e.num_pages_ = d.num_pages_
           /\ e.free_list_head_ = p
    <1> DEFINE a == PutPage(d, p, d.free_list_head_)
               b == [a EXCEPT !.free_list_head_ = p]
               e == WriteMetadata(b)
    <1>1. d.free_list_head_ \in Word /\ p \in Word
        BY PagesAssumption DEF DiskType, PageIds, Word
    <1>2. /\ a \in DiskType
          /\ a.page = [d.page EXCEPT ![p] = d.free_list_head_]
          /\ a.extent = d.extent
          /\ a.num_pages_ = d.num_pages_
        BY <1>1, PutPageEffect
    <1>3. DeallocatePage(d, p) = e
        BY DEF DeallocatePage, DeallocateRejects, DeallocateHead, DeallocateLink,
               DiskType, PageIds
    <1> HIDE DEF a
    <1>4. /\ b \in DiskType
          /\ b.page = a.page
          /\ b.extent = a.extent
          /\ b.num_pages_ = a.num_pages_
          /\ b.free_list_head_ = p
        BY <1>1, <1>2 DEF DiskType
    <1> HIDE DEF b
    <1>5. /\ e \in DiskType
          /\ e.page = [b.page EXCEPT ![0] = b.free_list_head_]
          /\ e.extent = b.extent
          /\ e.num_pages_ = b.num_pages_
          /\ e.free_list_head_ = b.free_list_head_
        BY <1>4, WriteMetadataEffect
    <1> QED BY <1>2, <1>3, <1>4, <1>5

\* The stack without its top.
LEMMA PopFacts ==
    ASSUME NEW chain \in Seq(PageIds), chain # <<>>
    PROVE  LET rest == Pop(chain)
               n == Len(chain)
           IN  /\ n \in Nat \ {0}
               /\ rest \in Seq(PageIds)
               /\ Len(rest) = n - 1
               /\ \A i \in 1 .. (n - 1) : rest[i] = chain[i]
               /\ \A i \in 1 .. (n - 1) : Below(rest, i) = Below(chain, i)
               /\ Below(chain, n) = Top(rest)
    <1> DEFINE rest == Pop(chain)
               n == Len(chain)
    <1>1. n \in Nat \ {0}
        OBVIOUS
    <1>2. 1 \in Int /\ n - 1 \in Int /\ n - 1 >= 0
        BY <1>1
    <1>3. \A i \in 1 .. (n - 1) : chain[i] \in PageIds
        BY <1>1
    <1>4. /\ rest \in Seq(PageIds)
          /\ Len(rest) = IF 1 <= n - 1 THEN (n - 1) - 1 + 1 ELSE 0
          /\ \A i \in 1 .. ((n - 1) - 1 + 1) : rest[i] = chain[1 + i - 1]
        BY <1>2, <1>3, SubSeqProperties DEF Pop
    <1> HIDE DEF rest, n
    <1>5. ASSUME NEW i \in 1 .. (n - 1) PROVE rest[i] = chain[i]
        <2>1. i \in 1 .. ((n - 1) - 1 + 1) /\ 1 + i - 1 = i
            BY <1>1
        <2> QED BY <1>4, <2>1
    <1>6. Len(rest) = n - 1
        BY <1>1, <1>4
    <1>7. \A i \in 1 .. (n - 1) : Below(rest, i) = Below(chain, i)
        BY <1>1, <1>5 DEF Below
    <1>8. Below(chain, n) = Top(rest)
        <2>1. rest = <<>> <=> n = 1
            BY <1>1, <1>4, <1>6
        <2> QED BY <1>1, <1>5, <1>6, <2>1 DEF Below, Top
    <1> QED BY <1>1, <1>4, <1>5, <1>6, <1>7, <1>8 DEF rest, n

\* Reuse pops the stack, growing leaves it, deallocating pushes.
LEMMA AllocateFreeList ==
    ASSUME NEW d \in DiskType, NEW chain \in Seq(PageIds),
           FreeListIs(d, chain), FreeListEmpty(d) => CanGrow(d)
    PROVE  LET e == AllocatePage(d)
               rest == IF FreeListEmpty(d) THEN chain ELSE Pop(chain)
           IN  /\ rest \in Seq(PageIds)
               /\ FreeListIs(e, rest)
               /\ ~InChain(rest, AllocatedId(d))
               /\ \A q : InChain(chain, q) <=> InChain(rest, q) \/ (~FreeListEmpty(d) /\ q = AllocatedId(d))
               /\ AllocatedId(d) \in PageIds \ {0}
               /\ AllocatedId(d) < e.num_pages_
    <1> DEFINE e == AllocatePage(d)
               n == Len(chain)
    <1>1. CASE FreeListEmpty(d)
        <2>1. /\ e \in DiskType
              /\ e.page = [[d.page EXCEPT ![0] = d.free_list_head_]
                              EXCEPT ![d.num_pages_] = Blank]
              /\ e.extent = d.num_pages_ + 1
              /\ e.num_pages_ = d.num_pages_ + 1
              /\ e.free_list_head_ = d.free_list_head_
            BY <1>1, GrowEffect DEF FreeListIs
        <2>2. /\ AllocatedId(d) = d.num_pages_
              /\ d.num_pages_ \in PageIds \ {0}
            BY <1>1, PagesAssumption
               DEF AllocatedId, FreeListIs, CanGrow, PageIds, DiskType
        <2>3. \A i \in DOMAIN chain : /\ chain[i] \in 1 .. (d.num_pages_ - 1)
                                      /\ chain[i] \in PageIds
                                      /\ d.page[chain[i]] = Below(chain, i)
            BY DEF FreeListIs, LinksSpell
        <2>4. d.page \in [PageIds -> Word] /\ d.num_pages_ \in Nat
            BY DEF DiskType
        <2> HIDE DEF e
        <2>5. LinksSpell(e, chain)
            BY <2>1, <2>2, <2>3, <2>4 DEF LinksSpell
        <2>6. ~InChain(chain, AllocatedId(d))
            BY <2>2, <2>3, <2>4 DEF InChain
        <2>7. FreeListIs(e, chain)
            BY <2>1, <2>5, <2>4 DEF FreeListIs
        <2> QED BY <1>1, <2>1, <2>2, <2>4, <2>6, <2>7 DEF e
    <1>2. CASE ~FreeListEmpty(d)
        <2> DEFINE rest == Pop(chain)
        <2>1. n \in Nat \ {0} /\ d.free_list_head_ = chain[n] /\ chain # <<>>
            BY <1>2 DEF FreeListIs, FreeListEmpty, Top
        <2>2. /\ rest \in Seq(PageIds)
              /\ Len(rest) = n - 1
              /\ \A i \in 1 .. (n - 1) : rest[i] = chain[i]
            BY <2>1, PopFacts
        <2>3. \A i \in 1 .. n : /\ chain[i] \in 1 .. (d.num_pages_ - 1)
                               /\ chain[i] \in PageIds
                               /\ chain[i] < d.extent
                               /\ d.page[chain[i]] = Below(chain, i)
            BY DEF FreeListIs, LinksSpell
        <2>4. /\ e \in DiskType
              /\ e.page = [d.page EXCEPT ![0] = d.page[d.free_list_head_]]
              /\ e.extent = d.extent
              /\ e.num_pages_ = d.num_pages_
              /\ e.free_list_head_ = d.page[d.free_list_head_]
            BY <1>2, <2>1, <2>3, ReuseEffect
        <2>5. d.page \in [PageIds -> Word] /\ d.num_pages_ \in Nat
            BY DEF DiskType
        <2> HIDE DEF e, rest
        <2>6. \A i \in 1 .. (n - 1) : Below(rest, i) = Below(chain, i)
            BY <2>1, PopFacts DEF rest
        <2>7. Below(chain, n) = Top(rest)
            BY <2>1, PopFacts DEF rest
        <2>8. LinksSpell(e, rest)
            <3> SUFFICES ASSUME NEW i \in 1 .. (n - 1)
                         PROVE  /\ rest[i] \in 1 .. (e.num_pages_ - 1)
                                /\ rest[i] < e.extent
                                /\ e.page[rest[i]] = Below(rest, i)
                BY <2>2, <2>1 DEF LinksSpell
            <3>1. i \in 1 .. n /\ rest[i] = chain[i]
                BY <2>1, <2>2
            <3> QED BY <3>1, <2>3, <2>4, <2>5, <2>6
        <2>9. NoRepeats(rest)
            BY <2>1, <2>2 DEF NoRepeats, FreeListIs
        <2>10. FreeListIs(e, rest)
            BY <2>1, <2>3, <2>4, <2>7, <2>8, <2>9 DEF FreeListIs
        <2>11. AllocatedId(d) = chain[n]
            BY <1>2, <2>1 DEF AllocatedId
        <2>12. ~InChain(rest, chain[n])
            BY <2>1, <2>2 DEF InChain, NoRepeats, FreeListIs
        <2>13. \A q : InChain(chain, q) <=> InChain(rest, q) \/ q = chain[n]
            BY <2>1, <2>2 DEF InChain
        <2> QED BY <1>2, <2>1, <2>2, <2>3, <2>4, <2>5, <2>10, <2>11, <2>12, <2>13 DEF e, rest
    <1> QED BY <1>1, <1>2

\* Allocating leaves every other data page alone.
LEMMA AllocateKeepsOthers ==
    ASSUME NEW d \in DiskType, NEW chain \in Seq(PageIds),
           FreeListIs(d, chain), FreeListEmpty(d) => CanGrow(d)
    PROVE  LET e == AllocatePage(d) IN
           /\ e \in DiskType
           /\ e.num_pages_ = IF FreeListEmpty(d) THEN d.num_pages_ + 1 ELSE d.num_pages_
           /\ \A q \in PageIds : q # 0 /\ q # AllocatedId(d) /\ q < d.extent
                => ReadPage(e, q) = ReadPage(d, q)
    <1> DEFINE e == AllocatePage(d)
    <1>0. d.page \in [PageIds -> Word] /\ d.num_pages_ \in Nat /\ d.extent = d.num_pages_
        BY DEF DiskType, FreeListIs
    <1>1. CASE FreeListEmpty(d)
        <2>1. /\ e \in DiskType
              /\ e.page = [[d.page EXCEPT ![0] = d.free_list_head_]
                              EXCEPT ![d.num_pages_] = Blank]
              /\ e.extent = d.num_pages_ + 1
              /\ e.num_pages_ = d.num_pages_ + 1
            BY <1>0, <1>1, GrowEffect
        <2>2. AllocatedId(d) = d.num_pages_
            BY <1>1 DEF AllocatedId
        <2> HIDE DEF e
        <2>3. ASSUME NEW q \in PageIds, q # 0, q # AllocatedId(d), q < d.extent
              PROVE  ReadPage(e, q) = ReadPage(d, q)
            <3>1. q < e.extent
                BY <1>0, <2>1, <2>3 DEF PageIds
            <3>2. e.page[q] = d.page[q]
                BY <1>0, <2>1, <2>2, <2>3
            <3> QED BY <2>3, <3>1, <3>2 DEF ReadPage
        <2> QED BY <1>1, <2>1, <2>3 DEF e
    <1>2. CASE ~FreeListEmpty(d)
        <2>1. d.free_list_head_ \in PageIds
            BY <1>2, AllocateFreeList DEF AllocatedId
        <2>2. /\ e \in DiskType
              /\ e.page = [d.page EXCEPT ![0] = d.page[d.free_list_head_]]
              /\ e.extent = d.extent
              /\ e.num_pages_ = d.num_pages_
            BY <1>2, <2>1, ReuseEffect
        <2> HIDE DEF e
        <2>3. \A q \in PageIds : q # 0 => ReadPage(e, q) = ReadPage(d, q)
            BY <1>0, <2>2 DEF ReadPage
        <2> QED BY <1>2, <2>2, <2>3 DEF e
    <1> QED BY <1>1, <1>2

\* DeallocatePage pushes the page on the free list.
LEMMA DeallocateFreeList ==
    ASSUME NEW d \in DiskType, NEW chain \in Seq(PageIds), NEW p \in PageIds,
           FreeListIs(d, chain), p # 0, p < d.num_pages_, ~InChain(chain, p)
    PROVE  FreeListIs(DeallocatePage(d, p), Append(chain, p))
    <1> DEFINE e == DeallocatePage(d, p)
               more == Append(chain, p)
               n == Len(chain)
    <1>1. /\ e \in DiskType
          /\ e.page = [[d.page EXCEPT ![p] = d.free_list_head_] EXCEPT ![0] = p]
          /\ e.extent = d.extent
          /\ e.num_pages_ = d.num_pages_
          /\ e.free_list_head_ = p
        BY DeallocateEffect DEF FreeListIs
    <1>2. /\ more \in Seq(PageIds)
          /\ Len(more) = n + 1
          /\ n \in Nat
          /\ more[n + 1] = p
          /\ \A i \in 1 .. n : more[i] = chain[i]
        OBVIOUS
    <1>3. \A i \in 1 .. n : /\ chain[i] \in 1 .. (d.num_pages_ - 1)
                           /\ chain[i] \in PageIds
                           /\ chain[i] < d.extent
                           /\ d.page[chain[i]] = Below(chain, i)
                           /\ chain[i] # p
        BY DEF FreeListIs, LinksSpell, InChain
    <1>4. /\ d.page \in [PageIds -> Word]
          /\ d.num_pages_ \in Nat
          /\ d.extent = d.num_pages_
          /\ d.num_pages_ >= 1
          /\ d.free_list_head_ = Top(chain)
          /\ p \in Nat
        BY DEF DiskType, FreeListIs, PageIds
    <1> HIDE DEF e, more
    <1>5. \A i \in 1 .. n : Below(more, i) = Below(chain, i)
        BY <1>2 DEF Below
    <1>6. Below(more, n + 1) = Top(chain)
        BY <1>2 DEF Below, Top
    <1>7. LinksSpell(e, more)
        <2> SUFFICES ASSUME NEW i \in 1 .. (n + 1)
                     PROVE  /\ more[i] \in 1 .. (e.num_pages_ - 1)
                            /\ more[i] < e.extent
                            /\ e.page[more[i]] = Below(more, i)
            BY <1>2 DEF LinksSpell
        <2>1. CASE i \in 1 .. n
            BY <2>1, <1>1, <1>2, <1>3, <1>4, <1>5
        <2>2. CASE i = n + 1
            BY <2>2, <1>1, <1>2, <1>4, <1>6
        <2> QED BY <2>1, <2>2, <1>2
    <1>8. NoRepeats(more)
        <2> SUFFICES ASSUME NEW i \in 1 .. (n + 1), NEW j \in 1 .. (n + 1),
                            more[i] = more[j]
                     PROVE  i = j
            BY <1>2 DEF NoRepeats
        <2>1. NoRepeats(chain)
            BY DEF FreeListIs
        <2> QED BY <2>1, <1>2, <1>3 DEF NoRepeats
    <1>9. Top(more) = p
        BY <1>2 DEF Top
    <1> QED BY <1>1, <1>4, <1>7, <1>8, <1>9 DEF FreeListIs, e, more
=============================================================================
