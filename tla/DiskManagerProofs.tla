------------------------- MODULE DiskManagerProofs -------------------------
(***************************************************************************)
(* The DiskManager for a file of any size, any values and any number of    *)
(* crashes, when callers write their own pages only (0 \notin CallerPages: *)
(* WritePage accepts page 0 and would destroy the metadata).               *)
(*                                                                         *)
(* Every operation orders its flushes so that the file alone is enough to  *)
(* go on from.  The invariant therefore speaks of the file: DiskSound says *)
(* that page 0 and the links spell the free list in every state, between   *)
(* two flushes too, and that an open cache equals page 0 even then;        *)
(* OwnersSound that the pages of callers and of the operation in flight    *)
(* are data pages page 0 counts, disjoint from each other and from the     *)
(* free list.  The file may be shorter than page 0 says: every crash       *)
(* between the two flushes of a growing AllocatePage makes it one page     *)
(* shorter still, until the next one fills the hole.  So what the          *)
(* invariant needs of a page is that the file holds it, not that the file  *)
(* is complete.                                                            *)
(***************************************************************************)
EXTENDS DiskManager, DiskPagesProofs, FiniteSetTheorems

\* Page 0 and the links, as they are in the file.
FileSpells ==
    /\ disk.extent > 0 => disk.page[0] = Top(freeChain) /\ disk.disk_num >= 1
    /\ \A i \in DOMAIN freeChain :
        /\ freeChain[i] \in 1 .. (disk.disk_num - 1)
        /\ freeChain[i] < disk.extent
        /\ disk.page[freeChain[i]] = Below(freeChain, i)
    /\ NoRepeats(freeChain)

DiskSound ==
    /\ FileSpells
    /\ disk.extent = 0 =>
        /\ mode # "open"
        /\ live = {}
        /\ freeChain = <<>>
        /\ disk.disk_num = 0
    /\ disk.extent > 0 => mode \in {"open", "down"}
    /\ mode = "open" => /\ disk.free_list_head_ = disk.page[0]
                        /\ disk.num_pages_ = disk.disk_num

OwnersSound ==
    /\ pc # "idle" => mode = "open" /\ target \notin live
    /\ \A p \in live \union InFlight :
        p \in 1 .. (disk.disk_num - 1) /\ ~InChain(freeChain, p)
    /\ \A p \in live :
        /\ p < disk.extent
        /\ written[p] # Unwritten => disk.page[p] = written[p]
    /\ pc \in {"return", "deallocHead"} => target < disk.extent
    /\ pc = "deallocHead" => disk.page[target] = Top(freeChain)

IInv == TypeOK /\ DiskSound /\ OwnersSound

-----------------------------------------------------------------------------
(***************************************************************************)
(* What every flush does to the five fields of the disk.                   *)
(***************************************************************************)
LEMMA FieldTypes ==
    ASSUME NEW d \in DiskType
    PROVE  /\ d.page \in [PageIds -> Word]
           /\ d.extent \in Nat
           /\ d.extent <= MaxPages
           /\ d.disk_num \in Nat
           /\ d.disk_num <= MaxPages
           /\ d.num_pages_ \in Nat
           /\ d.num_pages_ <= MaxPages
           /\ d.free_list_head_ \in Word
           /\ MaxPages \in Nat \ {0}
           /\ 0 \in PageIds
    BY PagesAssumption DEF DiskType, PageIds

LEMMA EmptyFileFields ==
    /\ EmptyFile \in DiskType
    /\ EmptyFile.extent = 0
    /\ EmptyFile.disk_num = 0
    BY PagesAssumption DEF EmptyFile, DiskType, PageIds, Word, Blank

LEMMA InitializeFields ==
    ASSUME NEW d \in DiskType
    PROVE  LET e == InitializeFile(d) IN
           /\ e \in DiskType
           /\ e.page[0] = INVALID_PAGE_ID
           /\ e.extent > 0
           /\ e.disk_num = 1
           /\ e.num_pages_ = 1
           /\ e.free_list_head_ = INVALID_PAGE_ID
    <1> DEFINE m == [d EXCEPT !.free_list_head_ = INVALID_PAGE_ID, !.num_pages_ = 1]
               a == PutPage(m, 0, INVALID_PAGE_ID)
               e == WriteMetadata(a)
    <1>1. INVALID_PAGE_ID \in Word /\ 0 \in PageIds /\ 1 \in 0 .. MaxPages
        BY PagesAssumption DEF Word, PageIds
    <1>2. /\ m \in DiskType
          /\ m.free_list_head_ = INVALID_PAGE_ID
          /\ m.num_pages_ = 1
        BY <1>1 DEF DiskType
    <1> HIDE DEF m
    <1>3. /\ a \in DiskType
          /\ a.extent = IF 0 < m.extent THEN m.extent ELSE 0 + 1
          /\ a.num_pages_ = 1
          /\ a.free_list_head_ = INVALID_PAGE_ID
        BY <1>1, <1>2, PutPageEffect
    <1> HIDE DEF a
    <1>4. /\ e \in DiskType
          /\ e.page = [a.page EXCEPT ![0] = a.free_list_head_]
          /\ e.extent = a.extent
          /\ e.disk_num = a.num_pages_
          /\ e.num_pages_ = a.num_pages_
          /\ e.free_list_head_ = a.free_list_head_
        BY <1>3, WriteMetadataEffect
    <1>5. e.extent > 0
        BY <1>2, <1>3, <1>4, FieldTypes
    <1>6. e.page[0] = INVALID_PAGE_ID
        BY <1>1, <1>3, <1>4, FieldTypes
    <1>7. InitializeFile(d) = e
        BY DEF InitializeFile, m, a
    <1> HIDE DEF e
    <1> QED BY <1>3, <1>4, <1>5, <1>6, <1>7

LEMMA ReadMetadataFields ==
    ASSUME NEW d \in DiskType
    PROVE  LET e == ReadMetadata(d) IN
           /\ e \in DiskType
           /\ e.page = d.page
           /\ e.extent = d.extent
           /\ e.disk_num = d.disk_num
           /\ e.num_pages_ = d.disk_num
           /\ e.free_list_head_ = d.page[0]
    <1>1. d.page[0] \in Word
        BY FieldTypes
    <1> QED BY <1>1 DEF ReadMetadata, DiskType

LEMMA ReuseFields ==
    ASSUME NEW d \in DiskType, d.free_list_head_ \in PageIds
    PROVE  LET e == AllocateReuse(d) IN
           /\ e \in DiskType
           /\ e.page = [d.page EXCEPT ![0] = d.page[d.free_list_head_]]
           /\ e.extent = d.extent
           /\ e.disk_num = d.num_pages_
           /\ e.num_pages_ = d.num_pages_
           /\ e.free_list_head_ = d.page[d.free_list_head_]
    <1> DEFINE w == d.page[d.free_list_head_]
               a == [d EXCEPT !.free_list_head_ = w]
    <1>1. w \in Word
        BY FieldTypes
    <1> HIDE DEF w
    <1>2. /\ a \in DiskType
          /\ a.page = d.page
          /\ a.extent = d.extent
          /\ a.num_pages_ = d.num_pages_
          /\ a.free_list_head_ = w
        BY <1>1 DEF DiskType
    <1>3. AllocateReuse(d) = WriteMetadata(a)
        BY DEF AllocateReuse, w
    <1> HIDE DEF a
    <1> QED BY <1>2, <1>3, WriteMetadataEffect DEF w

LEMMA GrowCountFields ==
    ASSUME NEW d \in DiskType, CanGrow(d)
    PROVE  LET e == AllocateGrowCount(d) IN
           /\ e \in DiskType
           /\ e.page = [d.page EXCEPT ![0] = d.free_list_head_]
           /\ e.extent = d.extent
           /\ e.disk_num = d.num_pages_ + 1
           /\ e.num_pages_ = d.num_pages_ + 1
           /\ e.free_list_head_ = d.free_list_head_
           /\ d.num_pages_ \in PageIds
    <1> DEFINE a == [d EXCEPT !.num_pages_ = d.num_pages_ + 1]
    <1>1. /\ a \in DiskType
          /\ a.page = d.page
          /\ a.extent = d.extent
          /\ a.num_pages_ = d.num_pages_ + 1
          /\ a.free_list_head_ = d.free_list_head_
        BY PagesAssumption DEF DiskType, CanGrow
    <1>2. d.num_pages_ \in PageIds
        BY PagesAssumption DEF DiskType, CanGrow, PageIds
    <1>3. AllocateGrowCount(d) = WriteMetadata(a)
        BY DEF AllocateGrowCount
    <1> HIDE DEF a
    <1> QED BY <1>1, <1>2, <1>3, WriteMetadataEffect

LEMMA DeallocateHeadFields ==
    ASSUME NEW d \in DiskType, NEW p \in PageIds
    PROVE  LET e == DeallocateHead(d, p) IN
           /\ e \in DiskType
           /\ e.page = [d.page EXCEPT ![0] = p]
           /\ e.extent = d.extent
           /\ e.disk_num = d.num_pages_
           /\ e.num_pages_ = d.num_pages_
           /\ e.free_list_head_ = p
    <1> DEFINE a == [d EXCEPT !.free_list_head_ = p]
    <1>1. /\ a \in DiskType
          /\ a.page = d.page
          /\ a.extent = d.extent
          /\ a.num_pages_ = d.num_pages_
          /\ a.free_list_head_ = p
        BY PagesAssumption DEF DiskType, PageIds, Word
    <1>2. DeallocateHead(d, p) = WriteMetadata(a)
        BY DEF DeallocateHead
    <1> HIDE DEF a
    <1> QED BY <1>1, <1>2, WriteMetadataEffect

\* A write of whatever page keeps the type; page 0 loses its count.
LEMMA WriteType ==
    ASSUME NEW d \in DiskType, NEW p \in PageIds, NEW w \in Word
    PROVE  WritePage(d, p, w) \in DiskType
    <1>1. PutPage(d, p, w) \in DiskType
        BY PutPageEffect
    <1>2. [PutPage(d, p, w) EXCEPT !.disk_num = 0] \in DiskType
        BY <1>1, PagesAssumption DEF DiskType
    <1> QED BY <1>1, <1>2 DEF WritePage

\* A page the free list can name is a page of the file.
LEMMA ReadableHead ==
    ASSUME NEW d \in DiskType, LinkReadable(d)
    PROVE  d.free_list_head_ \in PageIds
    BY PagesAssumption DEF LinkReadable, DiskType, PageIds, Word

LEMMA PopType ==
    ASSUME NEW chain \in Seq(PageIds)
    PROVE  Pop(chain) \in Seq(PageIds)
    <1>1. CASE chain = <<>>
        BY <1>1, SubSeqEmpty, EmptySeq DEF Pop
    <1>2. CASE chain # <<>>
        BY <1>2, PopFacts
    <1> QED BY <1>1, <1>2

-----------------------------------------------------------------------------
(***************************************************************************)
(* Type correctness, whatever pages callers write.                         *)
(***************************************************************************)
LEMMA TypeStep ==
    ASSUME TypeOK, [Next]_vars
    PROVE  TypeOK'
    <1>1. /\ disk \in DiskType
          /\ target \in PageIds
          /\ freeChain \in Seq(PageIds)
          /\ live \subseteq PageIds
          /\ written \in [PageIds -> Word \union {Unwritten}]
          /\ crashes \in 0 .. MaxCrashes
        BY DEF TypeOK
    <1>2. CASE CreateFile
        BY <1>2, EmptyFileFields DEF CreateFile, TypeOK, Modes
    <1>3. CASE WritePageZero
        BY <1>1, <1>3, InitializeFields DEF WritePageZero, TypeOK, Modes
    <1>4. CASE OpenExisting
        BY <1>1, <1>4, ReadMetadataFields DEF OpenExisting, TypeOK, Modes
    <1>5. CASE OpenThrows
        BY <1>5 DEF OpenThrows, TypeOK, Modes
    <1>6. CASE Close
        BY <1>6 DEF Close, TypeOK, Modes
    <1>7. CASE Crash
        <2>1. crashes' \in 0 .. MaxCrashes
            BY <1>1, <1>7, CallerAssumption DEF Crash
        <2> QED BY <1>7, <2>1 DEF Crash, TypeOK, Modes, Steps
    <1>8. CASE AllocateFromFreeList
        <2>1. disk.free_list_head_ \in PageIds
            BY <1>1, <1>8, ReadableHead DEF AllocateFromFreeList
        <2>2. target' \in PageIds
            BY <1>8, <2>1 DEF AllocateFromFreeList, AllocatedId
        <2>3. disk' \in DiskType
            BY <1>1, <1>8, <2>1, ReuseFields DEF AllocateFromFreeList
        <2>4. freeChain' \in Seq(PageIds)
            BY <1>1, <1>8, PopType DEF AllocateFromFreeList
        <2> QED BY <1>8, <2>2, <2>3, <2>4 DEF AllocateFromFreeList, TypeOK, Steps
    <1>9. CASE AllocateGrow
        <2>1. disk' \in DiskType /\ target' \in PageIds
            BY <1>1, <1>9, GrowCountFields DEF AllocateGrow, AllocatedId
        <2> QED BY <1>9, <2>1 DEF AllocateGrow, TypeOK, Steps
    <1>10. CASE AllocateBlank
        <2>1. Blank \in Word
            BY PagesAssumption DEF Blank, Word
        <2>2. disk' \in DiskType
            BY <1>1, <1>10, <2>1, PutPageEffect DEF AllocateBlank, AllocateGrowBlank
        <2> QED BY <1>10, <2>2 DEF AllocateBlank, TypeOK, Steps
    <1>11. CASE AllocateReturn
        <2>1. live' \subseteq PageIds
            BY <1>1, <1>11 DEF AllocateReturn
        <2>2. written' \in [PageIds -> Word \union {Unwritten}]
            BY <1>1, <1>11 DEF AllocateReturn
        <2> QED BY <1>11, <2>1, <2>2 DEF AllocateReturn, TypeOK, Steps
    <1>12. ASSUME NEW p \in PageIds, Deallocate(p)
           PROVE  TypeOK'
        <2>1. disk.free_list_head_ \in Word
            BY <1>1, FieldTypes
        <2>2. disk' \in DiskType
            BY <1>1, <1>12, <2>1, PutPageEffect DEF Deallocate, DeallocateLink
        <2>3. live' \subseteq PageIds
            BY <1>1, <1>12 DEF Deallocate
        <2> QED BY <1>12, <2>2, <2>3 DEF Deallocate, TypeOK, Steps
    <1>13. CASE DeallocateFinish
        <2>1. disk' \in DiskType
            BY <1>1, <1>13, DeallocateHeadFields DEF DeallocateFinish
        <2>2. freeChain' \in Seq(PageIds)
            BY <1>1, <1>13, AppendProperties DEF DeallocateFinish
        <2> QED BY <1>13, <2>1, <2>2 DEF DeallocateFinish, TypeOK, Steps
    <1>14. ASSUME NEW p \in PageIds, NEW w \in Values, Write(p, w)
           PROVE  TypeOK'
        <2>1. w \in Word
            BY CallerAssumption
        <2>2. disk' \in DiskType
            BY <1>1, <1>14, <2>1, WriteType DEF Write
        <2>3. written' \in [PageIds -> Word \union {Unwritten}]
            BY <1>1, <1>14, <2>1 DEF Write
        <2> QED BY <1>14, <2>2, <2>3 DEF Write, TypeOK
    <1>15. CASE UNCHANGED vars
        BY <1>15 DEF vars, TypeOK
    <1> QED BY <1>2, <1>3, <1>4, <1>5, <1>6, <1>7, <1>8, <1>9, <1>10, <1>11,
               <1>12, <1>13, <1>14, <1>15 DEF Next

LEMMA TypeInit ==
    ASSUME Init
    PROVE  TypeOK
    <1>1. 0 \in PageIds /\ 0 \in 0 .. MaxCrashes
        BY PagesAssumption, CallerAssumption DEF PageIds
    <1>2. <<>> \in Seq(PageIds)
        BY EmptySeq
    <1> QED BY <1>1, <1>2, EmptyFileFields DEF Init, TypeOK, Modes, Steps

\* Type correctness of the disk, of the operation in flight and of the
\* history, even when callers write to page 0.
THEOREM DiskTypeCorrect == Spec => []TypeOK
    <1>1. Init => TypeOK
        BY TypeInit
    <1>2. TypeOK /\ [Next]_vars => TypeOK'
        BY TypeStep
    <1> QED BY <1>1, <1>2, PTL DEF Spec

-----------------------------------------------------------------------------
(***************************************************************************)
(* Facts about one state.                                                  *)
(***************************************************************************)
\* What an operation that holds db_io_lck_ may rely on.
LEMMA OpenFacts ==
    ASSUME IInv, mode = "open"
    PROVE  /\ disk.extent > 0
           /\ disk.disk_num >= 1
           /\ disk.page[0] = Top(freeChain)
           /\ disk.free_list_head_ = Top(freeChain)
           /\ disk.num_pages_ = disk.disk_num
    <1>1. disk.extent # 0
        BY DEF IInv, DiskSound
    <1>2. disk.extent > 0
        BY <1>1, FieldTypes DEF IInv, TypeOK
    <1> QED BY <1>2 DEF IInv, DiskSound, FileSpells

\* The list is empty exactly when its head names no page.
LEMMA TopNamesPage ==
    ASSUME NEW chain \in Seq(PageIds)
    PROVE  /\ chain = <<>> => Top(chain) = INVALID_PAGE_ID
           /\ chain # <<>> => /\ Len(chain) \in Nat \ {0}
                              /\ Top(chain) = chain[Len(chain)]
                              /\ Top(chain) \in PageIds
                              /\ Top(chain) # INVALID_PAGE_ID
    <1>1. CASE chain = <<>>
        BY <1>1 DEF Top
    <1>2. CASE chain # <<>>
        <2>1. Len(chain) \in Nat \ {0} /\ Len(chain) \in 1 .. Len(chain)
            BY <1>2, EmptySeq
        <2>2. chain[Len(chain)] \in PageIds
            BY <2>1, ElementOfSeq
        <2>3. \A p \in PageIds : p # INVALID_PAGE_ID
            BY PagesAssumption DEF PageIds
        <2> QED BY <1>2, <2>1, <2>2, <2>3 DEF Top
    <1> QED BY <1>1, <1>2

\* A flush that changes no page of the free list keeps the list.
LEMMA SpellsKept ==
    ASSUME IInv, TypeOK', disk.extent > 0, freeChain' = freeChain,
           disk'.page[0] = disk.page[0],
           disk'.disk_num >= disk.disk_num,
           disk'.extent >= disk.extent,
           \A q \in PageIds : InChain(freeChain, q) => disk'.page[q] = disk.page[q]
    PROVE  FileSpells'
    <1>1. /\ disk.extent \in Nat
          /\ disk.disk_num \in Nat
          /\ disk'.extent \in Nat
          /\ disk'.disk_num \in Nat
        BY FieldTypes DEF IInv, TypeOK
    <1>2. disk'.page[0] = Top(freeChain) /\ disk'.disk_num >= 1
        BY <1>1 DEF IInv, DiskSound, FileSpells
    <1>3. ASSUME NEW i \in DOMAIN freeChain
          PROVE  /\ freeChain[i] \in 1 .. (disk'.disk_num - 1)
                 /\ freeChain[i] < disk'.extent
                 /\ disk'.page[freeChain[i]] = Below(freeChain, i)
        <2>1. /\ freeChain[i] \in 1 .. (disk.disk_num - 1)
              /\ freeChain[i] < disk.extent
              /\ disk.page[freeChain[i]] = Below(freeChain, i)
            BY DEF IInv, DiskSound, FileSpells
        <2>2. freeChain[i] \in PageIds /\ InChain(freeChain, freeChain[i])
            BY DEF IInv, TypeOK, InChain
        <2> QED BY <1>1, <2>1, <2>2
    <1>4. NoRepeats(freeChain)
        BY DEF IInv, DiskSound, FileSpells
    <1> QED BY <1>2, <1>3, <1>4 DEF FileSpells

\* A flush that changes no page of a caller keeps what callers wrote.
LEMMA OwnedKept ==
    ASSUME IInv, TypeOK', live' \subseteq live,
           disk'.disk_num >= disk.disk_num,
           disk'.extent >= disk.extent,
           \A p \in live' : /\ disk'.page[p] = disk.page[p]
                            /\ written'[p] = written[p]
                            /\ InChain(freeChain, p)' => InChain(freeChain, p)
    PROVE  \A p \in live' : /\ p \in 1 .. (disk'.disk_num - 1)
                            /\ ~InChain(freeChain, p)'
                            /\ p < disk'.extent
                            /\ written'[p] # Unwritten => disk'.page[p] = written'[p]
    <1>1. /\ disk.extent \in Nat
          /\ disk.disk_num \in Nat
          /\ disk'.extent \in Nat
          /\ disk'.disk_num \in Nat
        BY FieldTypes DEF IInv, TypeOK
    <1> SUFFICES ASSUME NEW p \in live'
                 PROVE  /\ p \in 1 .. (disk'.disk_num - 1)
                        /\ ~InChain(freeChain, p)'
                        /\ p < disk'.extent
                        /\ written'[p] # Unwritten => disk'.page[p] = written'[p]
        OBVIOUS
    <1>2. /\ p \in 1 .. (disk.disk_num - 1)
          /\ ~InChain(freeChain, p)
          /\ p < disk.extent
          /\ written[p] # Unwritten => disk.page[p] = written[p]
        BY DEF IInv, OwnersSound
    <1> QED BY <1>1, <1>2

-----------------------------------------------------------------------------
(***************************************************************************)
(* The constructor, Close and a crash.                                     *)
(***************************************************************************)
LEMMA CreateFileStep ==
    ASSUME IInv, TypeOK', CreateFile
    PROVE  IInv'
    <1>1. /\ disk'.extent = 0
          /\ disk'.disk_num = 0
          /\ mode' = "created"
          /\ UNCHANGED <<pc, target, live, freeChain, written, crashes>>
        BY EmptyFileFields DEF CreateFile
    <1>2. disk.extent = 0
        BY FieldTypes DEF IInv, DiskSound, TypeOK, CreateFile
    <1>3. live = {} /\ freeChain = <<>> /\ pc = "idle"
        BY <1>2 DEF IInv, DiskSound, OwnersSound, CreateFile
    <1>4. FileSpells'
        BY <1>1, <1>3 DEF FileSpells, NoRepeats
    <1>5. DiskSound'
        BY <1>1, <1>3, <1>4 DEF DiskSound
    <1>6. OwnersSound'
        BY <1>1, <1>3 DEF OwnersSound, InFlight
    <1> QED BY <1>5, <1>6 DEF IInv

LEMMA WritePageZeroStep ==
    ASSUME IInv, TypeOK', WritePageZero
    PROVE  IInv'
    <1>1. /\ mode = "created"
          /\ mode' = "open"
          /\ disk' = InitializeFile(disk)
          /\ UNCHANGED <<pc, target, live, freeChain, written, crashes>>
        BY DEF WritePageZero
    <1>2. /\ disk'.page[0] = INVALID_PAGE_ID
          /\ disk'.extent > 0
          /\ disk'.disk_num = 1
          /\ disk'.num_pages_ = 1
          /\ disk'.free_list_head_ = INVALID_PAGE_ID
        BY <1>1, InitializeFields DEF IInv, TypeOK
    <1>3. disk.extent = 0
        BY <1>1, FieldTypes DEF IInv, DiskSound, TypeOK
    <1>4. live = {} /\ freeChain = <<>> /\ pc = "idle"
        BY <1>1, <1>3 DEF IInv, DiskSound, OwnersSound
    <1>5. FileSpells'
        BY <1>1, <1>2, <1>4 DEF FileSpells, NoRepeats, Top
    <1>6. disk'.extent # 0
        BY <1>2, FieldTypes DEF TypeOK
    <1>7. DiskSound'
        BY <1>1, <1>2, <1>5, <1>6 DEF DiskSound
    <1>8. OwnersSound'
        BY <1>1, <1>4 DEF OwnersSound, InFlight
    <1> QED BY <1>7, <1>8 DEF IInv

LEMMA OpenExistingStep ==
    ASSUME IInv, TypeOK', OpenExisting
    PROVE  IInv'
    <1>1. /\ mode = "down"
          /\ disk.extent > 0
          /\ mode' = "open"
          /\ disk' = ReadMetadata(disk)
          /\ UNCHANGED <<pc, target, live, freeChain, written, crashes>>
        BY DEF OpenExisting
    <1>2. /\ disk'.page = disk.page
          /\ disk'.extent = disk.extent
          /\ disk'.disk_num = disk.disk_num
          /\ disk'.num_pages_ = disk.disk_num
          /\ disk'.free_list_head_ = disk.page[0]
        BY <1>1, ReadMetadataFields DEF IInv, TypeOK
    <1>3. FileSpells'
        BY <1>1, <1>2 DEF IInv, DiskSound, FileSpells
    <1>4. disk'.extent # 0
        BY <1>1, <1>2, FieldTypes DEF TypeOK
    <1>5. DiskSound'
        BY <1>1, <1>2, <1>3, <1>4 DEF DiskSound
    <1>6. pc = "idle"
        BY <1>1 DEF IInv, OwnersSound
    <1>7. OwnersSound'
        BY <1>1, <1>2, <1>6 DEF IInv, OwnersSound, InFlight
    <1> QED BY <1>5, <1>7 DEF IInv

\* The object goes away: what the invariant says of the file stays true.
LEMMA GoesDown ==
    ASSUME IInv, TypeOK', pc' = "idle", mode' \in {"down", "failed"},
           mode' = "failed" => disk.extent = 0,
           UNCHANGED <<disk, live, freeChain, written>>
    PROVE  IInv'
    <1>1. FileSpells'
        BY DEF IInv, DiskSound, FileSpells
    <1>2. disk.extent = 0 => ~(disk.extent > 0)
        BY FieldTypes DEF IInv, TypeOK
    <1>3. DiskSound'
        BY <1>1, <1>2 DEF IInv, DiskSound
    <1>4. OwnersSound'
        BY DEF IInv, OwnersSound, InFlight
    <1> QED BY <1>3, <1>4 DEF IInv

-----------------------------------------------------------------------------
(***************************************************************************)
(* AllocatePage.                                                           *)
(***************************************************************************)
\* The head leaves the list and is in flight.
LEMMA AllocateFromFreeListStep ==
    ASSUME IInv, TypeOK', AllocateFromFreeList
    PROVE  /\ IInv'
           /\ \A q : InChain(freeChain, q) => InChain(freeChain, q)' \/ q = target'
           /\ disk'.disk_num = disk.disk_num
    <1> DEFINE n == Len(freeChain)
               h == disk.free_list_head_
    <1>1. /\ mode = "open"
          /\ pc = "idle"
          /\ ~FreeListEmpty(disk)
          /\ target' = h
          /\ disk' = AllocateReuse(disk)
          /\ freeChain' = Pop(freeChain)
          /\ pc' = "return"
          /\ UNCHANGED <<mode, live, written, crashes>>
        BY DEF AllocateFromFreeList, Idle, AllocatedId
    <1>2. /\ disk.extent > 0
          /\ disk.disk_num >= 1
          /\ h = Top(freeChain)
          /\ disk.page[0] = h
          /\ disk.num_pages_ = disk.disk_num
        BY <1>1, OpenFacts
    <1>3. /\ freeChain # <<>>
          /\ n \in Nat \ {0}
          /\ h = freeChain[n]
          /\ h \in PageIds
        BY <1>1, <1>2, TopNamesPage DEF FreeListEmpty, IInv, TypeOK
    <1>4. /\ disk'.page = [disk.page EXCEPT ![0] = disk.page[h]]
          /\ disk'.extent = disk.extent
          /\ disk'.disk_num = disk.num_pages_
          /\ disk'.num_pages_ = disk.num_pages_
          /\ disk'.free_list_head_ = disk.page[h]
        BY <1>1, <1>3, ReuseFields DEF IInv, TypeOK
    <1>5. /\ freeChain' \in Seq(PageIds)
          /\ Len(freeChain') = n - 1
          /\ \A i \in 1 .. (n - 1) : freeChain'[i] = freeChain[i]
          /\ \A i \in 1 .. (n - 1) : Below(freeChain', i) = Below(freeChain, i)
          /\ Below(freeChain, n) = Top(freeChain')
        BY <1>1, <1>3, PopFacts DEF IInv, TypeOK
    <1>6. /\ DOMAIN freeChain = 1 .. n
          /\ DOMAIN freeChain' = 1 .. (n - 1)
        BY <1>5, LenProperties DEF IInv, TypeOK
    <1>7. \A i \in 1 .. n : /\ freeChain[i] \in 1 .. (disk.disk_num - 1)
                            /\ freeChain[i] \in PageIds
                            /\ freeChain[i] < disk.extent
                            /\ disk.page[freeChain[i]] = Below(freeChain, i)
        BY <1>6 DEF IInv, TypeOK, DiskSound, FileSpells
    <1>8. /\ disk.page \in [PageIds -> Word]
          /\ disk.disk_num \in Nat
          /\ disk.extent \in Nat
          /\ 0 \in PageIds
        BY FieldTypes DEF IInv, TypeOK
    <1>9. \A i, j \in 1 .. n : freeChain[i] = freeChain[j] => i = j
        BY <1>6 DEF IInv, DiskSound, FileSpells, NoRepeats
    <1>10. n \in 1 .. n /\ \A i \in 1 .. (n - 1) : i \in 1 .. n /\ i # n
        BY <1>3
    <1>11. \A i \in 1 .. n : i \in 1 .. (n - 1) \/ i = n
        BY <1>3
    <1> HIDE DEF n, h
    <1>12. /\ \A q : InChain(freeChain, q) <=> \E i \in 1 .. n : freeChain[i] = q
           /\ \A q : InChain(freeChain, q)' <=> \E i \in 1 .. (n - 1) : freeChain'[i] = q
        BY <1>6 DEF InChain
    <1>13. \A q : InChain(freeChain, q) => InChain(freeChain, q)' \/ q = h
        BY <1>3, <1>5, <1>11, <1>12
    <1>14. \A q : InChain(freeChain, q)' => InChain(freeChain, q) /\ q # h
        BY <1>3, <1>5, <1>9, <1>10, <1>12
    <1>15. \A q \in PageIds : q # 0 => disk'.page[q] = disk.page[q]
        BY <1>4, <1>8
    <1>16. disk'.page[0] = Top(freeChain')
        BY <1>3, <1>4, <1>5, <1>7, <1>8, <1>10
    <1>17. FileSpells'
        <2>1. ASSUME NEW i \in 1 .. (n - 1)
              PROVE  /\ freeChain'[i] \in 1 .. (disk'.disk_num - 1)
                     /\ freeChain'[i] < disk'.extent
                     /\ disk'.page[freeChain'[i]] = Below(freeChain', i)
            <3>1. i \in 1 .. n /\ freeChain'[i] = freeChain[i]
                BY <1>5, <1>10
            <3>2. freeChain[i] # 0
                BY <1>7, <1>8, <3>1
            <3> QED BY <1>2, <1>4, <1>5, <1>7, <1>15, <3>1, <3>2
        <2>2. NoRepeats(freeChain')
            BY <1>5, <1>6, <1>9, <1>10 DEF NoRepeats
        <2> QED BY <1>2, <1>4, <1>6, <1>16, <2>1, <2>2 DEF FileSpells
    <1>18. DiskSound'
        <2>1. disk.extent # 0
            BY <1>2, <1>8
        <2>2. disk'.free_list_head_ = disk'.page[0]
            BY <1>3, <1>4, <1>8
        <2> QED BY <1>1, <1>4, <1>17, <2>1, <2>2 DEF DiskSound
    <1>19. OwnersSound'
        <2>1. h \notin live
            BY <1>3, <1>10, <1>12 DEF IInv, OwnersSound
        <2>2. h \in 1 .. (disk'.disk_num - 1) /\ h < disk'.extent /\ ~InChain(freeChain', h)
            BY <1>2, <1>3, <1>4, <1>7, <1>10, <1>14
        <2>3. \A p \in live : p # 0 /\ p \in PageIds
            BY <1>8 DEF IInv, OwnersSound, TypeOK
        <2>4. \A p \in live' : /\ p \in 1 .. (disk'.disk_num - 1)
                               /\ ~InChain(freeChain, p)'
                               /\ p < disk'.extent
                               /\ written'[p] # Unwritten => disk'.page[p] = written'[p]
            BY <1>1, <1>2, <1>4, <1>8, <1>14, <1>15, <2>3, OwnedKept
        <2>5. InFlight' = {h}
            BY <1>1 DEF InFlight, h
        <2> QED BY <1>1, <2>1, <2>2, <2>4, <2>5 DEF OwnersSound, h
    <1> QED BY <1>1, <1>2, <1>4, <1>13, <1>18, <1>19 DEF IInv, h

\* The new count is flushed; the page it counts is in flight and may not be
\* in the file yet.
LEMMA AllocateGrowStep ==
    ASSUME IInv, TypeOK', AllocateGrow
    PROVE  /\ IInv'
           /\ target' = disk.disk_num
           /\ disk'.disk_num = disk.disk_num + 1
    <1> DEFINE p == disk.num_pages_
    <1>1. /\ mode = "open"
          /\ pc = "idle"
          /\ CanGrow(disk)
          /\ target' = p
          /\ disk' = AllocateGrowCount(disk)
          /\ pc' = "growBlank"
          /\ UNCHANGED <<mode, live, freeChain, written, crashes>>
        BY DEF AllocateGrow, Idle, AllocatedId
    <1>2. /\ disk.extent > 0
          /\ disk.disk_num >= 1
          /\ disk.free_list_head_ = Top(freeChain)
          /\ disk.page[0] = Top(freeChain)
          /\ p = disk.disk_num
        BY <1>1, OpenFacts
    <1>3. /\ disk'.page = [disk.page EXCEPT ![0] = disk.free_list_head_]
          /\ disk'.extent = disk.extent
          /\ disk'.disk_num = p + 1
          /\ disk'.num_pages_ = p + 1
          /\ disk'.free_list_head_ = disk.free_list_head_
        BY <1>1, GrowCountFields DEF IInv, TypeOK
    <1>4. /\ disk.page \in [PageIds -> Word]
          /\ disk.disk_num \in Nat
          /\ disk.extent \in Nat
          /\ 0 \in PageIds
        BY FieldTypes DEF IInv, TypeOK
    <1>5. disk'.page = disk.page
        BY <1>2, <1>3, <1>4
    <1> HIDE DEF p
    <1>6. FileSpells'
        BY <1>1, <1>2, <1>3, <1>4, <1>5, SpellsKept
    <1>7. DiskSound'
        <2>1. disk.extent # 0
            BY <1>2, <1>4
        <2> QED BY <1>1, <1>2, <1>3, <1>5, <1>6, <2>1 DEF DiskSound
    <1>8. OwnersSound'
        <2>1. p \notin live
            BY <1>2, <1>4 DEF IInv, OwnersSound
        <2>2. ~InChain(freeChain, p)
            <3>1. \A i \in DOMAIN freeChain : freeChain[i] \in 1 .. (disk.disk_num - 1)
                BY DEF IInv, DiskSound, FileSpells
            <3> QED BY <1>2, <1>4, <3>1 DEF InChain
        <2>3. \A q \in live' : /\ q \in 1 .. (disk'.disk_num - 1)
                               /\ ~InChain(freeChain, q)'
                               /\ q < disk'.extent
                               /\ written'[q] # Unwritten => disk'.page[q] = written'[q]
            BY <1>1, <1>2, <1>3, <1>4, <1>5, OwnedKept DEF InChain
        <2>4. p \in 1 .. (disk'.disk_num - 1)
            BY <1>2, <1>3, <1>4
        <2>5. InFlight' = {p}
            BY <1>1 DEF InFlight
        <2>6. InChain(freeChain', p) <=> InChain(freeChain, p)
            BY <1>1
        <2> QED BY <1>1, <2>1, <2>2, <2>3, <2>4, <2>5, <2>6 DEF OwnersSound
    <1> QED BY <1>1, <1>2, <1>3, <1>7, <1>8 DEF IInv

\* The blank page is written where the file ends, or into the hole that
\* crashes left there; in either case to no page anyone holds.
LEMMA AllocateBlankStep ==
    ASSUME IInv, TypeOK', AllocateBlank
    PROVE  IInv' /\ disk'.disk_num = disk.disk_num
    <1>1. /\ mode = "open"
          /\ pc = "growBlank"
          /\ disk' = PutPage(disk, target, Blank)
          /\ pc' = "return"
          /\ UNCHANGED <<mode, target, live, freeChain, written, crashes>>
        BY DEF AllocateBlank, AllocateGrowBlank
    <1>2. /\ disk.extent > 0
          /\ disk.free_list_head_ = disk.page[0]
          /\ disk.num_pages_ = disk.disk_num
        BY <1>1, OpenFacts
    <1>3. /\ target \in PageIds
          /\ Blank \in Word
          /\ disk \in DiskType
        BY PagesAssumption DEF IInv, TypeOK, Blank, Word
    <1>4. /\ disk'.page = [disk.page EXCEPT ![target] = Blank]
          /\ disk'.extent = IF target < disk.extent THEN disk.extent ELSE target + 1
          /\ disk'.disk_num = disk.disk_num
          /\ disk'.num_pages_ = disk.num_pages_
          /\ disk'.free_list_head_ = disk.free_list_head_
        BY <1>1, <1>3, PutPageEffect
    <1>5. /\ disk.page \in [PageIds -> Word]
          /\ disk.disk_num \in Nat
          /\ disk.extent \in Nat
          /\ 0 \in PageIds
          /\ target \in Nat
        BY <1>3, FieldTypes DEF PageIds
    <1>6. /\ target \in 1 .. (disk.disk_num - 1)
          /\ ~InChain(freeChain, target)
          /\ target \notin live
        BY <1>1 DEF IInv, OwnersSound, InFlight
    <1>7. \A q \in PageIds : q # target => disk'.page[q] = disk.page[q]
        BY <1>4, <1>5
    <1>8. /\ disk'.extent >= disk.extent
          /\ target < disk'.extent
          /\ disk'.extent # 0
          /\ disk'.page[0] = disk.page[0]
        BY <1>2, <1>4, <1>5, <1>6, <1>7
    <1>9. FileSpells'
        BY <1>1, <1>2, <1>4, <1>5, <1>6, <1>7, <1>8, SpellsKept
    <1>10. DiskSound'
        BY <1>1, <1>2, <1>4, <1>8, <1>9 DEF DiskSound
    <1>11. \A q \in live' : /\ q \in 1 .. (disk'.disk_num - 1)
                            /\ ~InChain(freeChain, q)'
                            /\ q < disk'.extent
                            /\ written'[q] # Unwritten => disk'.page[q] = written'[q]
        <2>1. \A q \in live : q \in PageIds /\ q # target
            BY <1>6 DEF IInv, TypeOK
        <2> QED BY <1>1, <1>4, <1>5, <1>7, <1>8, <2>1, OwnedKept DEF InChain
    <1>12. OwnersSound'
        <2>1. InFlight' = {target}
            BY <1>1 DEF InFlight
        <2> QED BY <1>1, <1>4, <1>6, <1>8, <1>11, <2>1 DEF OwnersSound
    <1> QED BY <1>4, <1>10, <1>12 DEF IInv

\* The call returns: the page passes to the caller.
LEMMA AllocateReturnStep ==
    ASSUME IInv, TypeOK', AllocateReturn
    PROVE  IInv'
    <1>1. /\ mode = "open"
          /\ pc = "return"
          /\ live' = live \union {target}
          /\ written' = [written EXCEPT ![target] = Unwritten]
          /\ pc' = "idle"
          /\ UNCHANGED <<disk, mode, target, freeChain, crashes>>
        BY DEF AllocateReturn
    <1>2. /\ target \in 1 .. (disk.disk_num - 1)
          /\ ~InChain(freeChain, target)
          /\ target < disk.extent
        BY <1>1 DEF IInv, OwnersSound, InFlight
    <1>3. FileSpells'
        BY <1>1 DEF IInv, DiskSound, FileSpells
    <1>4. disk.extent # 0
        BY <1>1 DEF IInv, DiskSound
    <1>5. DiskSound'
        BY <1>1, <1>3, <1>4 DEF IInv, DiskSound
    <1>6. \A q \in live' : written'[q] # Unwritten => q \in live /\ written'[q] = written[q]
        BY <1>1 DEF IInv, TypeOK
    <1>7. OwnersSound'
        <2>1. InFlight' = {}
            BY <1>1 DEF InFlight
        <2> QED BY <1>1, <1>2, <1>6, <2>1 DEF IInv, OwnersSound
    <1> QED BY <1>5, <1>7 DEF IInv

-----------------------------------------------------------------------------
(***************************************************************************)
(* DeallocatePage and WritePage.                                           *)
(***************************************************************************)
\* The link is flushed first: until the head is, the page is in flight and
\* the list is what it was.
LEMMA DeallocateStep ==
    ASSUME IInv, TypeOK', NEW p \in PageIds, Deallocate(p)
    PROVE  IInv' /\ disk'.disk_num = disk.disk_num
    <1>1. /\ mode = "open"
          /\ pc = "idle"
          /\ p \in live
          /\ target' = p
          /\ disk' = PutPage(disk, p, disk.free_list_head_)
          /\ live' = live \ {p}
          /\ pc' = "deallocHead"
          /\ UNCHANGED <<mode, freeChain, written, crashes>>
        BY DEF Deallocate, Idle, DeallocateLink
    <1>2. /\ disk.extent > 0
          /\ disk.page[0] = Top(freeChain)
          /\ disk.free_list_head_ = Top(freeChain)
          /\ disk.num_pages_ = disk.disk_num
        BY <1>1, OpenFacts
    <1>3. /\ disk.page \in [PageIds -> Word]
          /\ disk.disk_num \in Nat
          /\ disk.extent \in Nat
          /\ disk.free_list_head_ \in Word
          /\ 0 \in PageIds
        BY FieldTypes DEF IInv, TypeOK
    <1>4. /\ p \in 1 .. (disk.disk_num - 1)
          /\ ~InChain(freeChain, p)
          /\ p < disk.extent
        BY <1>1 DEF IInv, OwnersSound
    <1>5. /\ disk'.page = [disk.page EXCEPT ![p] = disk.free_list_head_]
          /\ disk'.extent = disk.extent
          /\ disk'.disk_num = disk.disk_num
          /\ disk'.num_pages_ = disk.num_pages_
          /\ disk'.free_list_head_ = disk.free_list_head_
        BY <1>1, <1>3, <1>4, PutPageEffect DEF IInv, TypeOK
    <1>6. /\ \A q \in PageIds : q # p => disk'.page[q] = disk.page[q]
          /\ disk'.page[p] = Top(freeChain)
          /\ disk'.page[0] = disk.page[0]
        BY <1>2, <1>3, <1>4, <1>5
    <1>7. FileSpells'
        BY <1>1, <1>2, <1>3, <1>4, <1>5, <1>6, SpellsKept
    <1>8. DiskSound'
        <2>1. disk.extent # 0
            BY <1>2, <1>3
        <2> QED BY <1>1, <1>2, <1>5, <1>6, <1>7, <2>1 DEF DiskSound
    <1>9. \A q \in live' : /\ q \in 1 .. (disk'.disk_num - 1)
                           /\ ~InChain(freeChain, q)'
                           /\ q < disk'.extent
                           /\ written'[q] # Unwritten => disk'.page[q] = written'[q]
        <2>1. \A q \in live' : q \in live /\ q \in PageIds /\ q # p
            BY <1>1 DEF IInv, TypeOK
        <2> QED BY <1>1, <1>3, <1>5, <1>6, <2>1, OwnedKept DEF InChain
    <1>10. OwnersSound'
        <2>1. InFlight' = {p}
            BY <1>1 DEF InFlight
        <2>2. InChain(freeChain, p)' <=> InChain(freeChain, p)
            BY <1>1 DEF InChain
        <2> QED BY <1>1, <1>4, <1>5, <1>6, <1>9, <2>1, <2>2 DEF OwnersSound
    <1> QED BY <1>5, <1>8, <1>10 DEF IInv

\* The head is flushed: the page in flight becomes the top of the list.
LEMMA DeallocateFinishStep ==
    ASSUME IInv, TypeOK', DeallocateFinish
    PROVE  /\ IInv'
           /\ \A q : InChain(freeChain, q) \/ q = target => InChain(freeChain, q)'
           /\ disk'.disk_num = disk.disk_num
    <1> DEFINE n == Len(freeChain)
    <1>1. /\ mode = "open"
          /\ pc = "deallocHead"
          /\ disk' = DeallocateHead(disk, target)
          /\ freeChain' = Append(freeChain, target)
          /\ pc' = "idle"
          /\ UNCHANGED <<mode, target, live, written, crashes>>
        BY DEF DeallocateFinish
    <1>2. /\ disk.extent > 0
          /\ disk.disk_num >= 1
          /\ disk.num_pages_ = disk.disk_num
        BY <1>1, OpenFacts
    <1>3. /\ disk.page \in [PageIds -> Word]
          /\ disk.disk_num \in Nat
          /\ disk.extent \in Nat
          /\ 0 \in PageIds
          /\ target \in PageIds
        BY FieldTypes DEF IInv, TypeOK
    <1>4. /\ target \in 1 .. (disk.disk_num - 1)
          /\ ~InChain(freeChain, target)
          /\ target \notin live
          /\ target < disk.extent
          /\ disk.page[target] = Top(freeChain)
        BY <1>1 DEF IInv, OwnersSound, InFlight
    <1>5. /\ disk'.page = [disk.page EXCEPT ![0] = target]
          /\ disk'.extent = disk.extent
          /\ disk'.disk_num = disk.num_pages_
          /\ disk'.num_pages_ = disk.num_pages_
          /\ disk'.free_list_head_ = target
        BY <1>1, <1>3, DeallocateHeadFields DEF IInv, TypeOK
    <1>6. /\ n \in Nat
          /\ DOMAIN freeChain = 1 .. n
          /\ freeChain' \in Seq(PageIds)
          /\ freeChain' # <<>>
          /\ Len(freeChain') = n + 1
          /\ DOMAIN freeChain' = 1 .. n + 1
          /\ \A i \in 1 .. n : freeChain'[i] = freeChain[i]
          /\ freeChain'[n + 1] = target
        BY <1>1, <1>3, AppendProperties, LenProperties DEF IInv, TypeOK
    <1>7. \A i \in 1 .. n : /\ freeChain[i] \in 1 .. (disk.disk_num - 1)
                            /\ freeChain[i] \in PageIds
                            /\ freeChain[i] < disk.extent
                            /\ disk.page[freeChain[i]] = Below(freeChain, i)
                            /\ freeChain[i] # target
        BY <1>4, <1>6, ElementOfSeq DEF IInv, TypeOK, DiskSound, FileSpells, InChain
    <1>8. \A i \in 1 .. n : Below(freeChain', i) = Below(freeChain, i)
        BY <1>6 DEF Below
    <1>9. Below(freeChain', n + 1) = Top(freeChain)
        <2>1. freeChain = <<>> <=> n = 0
            BY EmptySeq DEF IInv, TypeOK
        <2> QED BY <1>6, <2>1 DEF Below, Top
    <1>10. Top(freeChain') = target
        BY <1>6 DEF Top
    <1>11. \A i \in 1 .. n + 1 : i \in 1 .. n \/ i = n + 1
        BY <1>6
    <1>12. \A i, j \in 1 .. n : freeChain[i] = freeChain[j] => i = j
        BY <1>6 DEF IInv, DiskSound, FileSpells, NoRepeats
    <1>13. n + 1 \in 1 .. n + 1 /\ \A i \in 1 .. n : i \in 1 .. n + 1
        BY <1>6
    <1>14. /\ \A q \in PageIds : q # 0 => disk'.page[q] = disk.page[q]
           /\ disk'.page[0] = target
        BY <1>3, <1>5
    <1> HIDE DEF n
    <1>15. /\ \A q : InChain(freeChain, q) <=> \E i \in 1 .. n : freeChain[i] = q
           /\ \A q : InChain(freeChain, q)' <=> \E i \in 1 .. n + 1 : freeChain'[i] = q
        BY <1>6 DEF InChain
    <1>16. \A q : InChain(freeChain, q)' <=> InChain(freeChain, q) \/ q = target
        BY <1>6, <1>11, <1>13, <1>15
    <1>17. FileSpells'
        <2>1. ASSUME NEW i \in 1 .. n + 1
              PROVE  /\ freeChain'[i] \in 1 .. (disk'.disk_num - 1)
                     /\ freeChain'[i] < disk'.extent
                     /\ disk'.page[freeChain'[i]] = Below(freeChain', i)
            <3>1. CASE i \in 1 .. n
                <4>1. freeChain[i] # 0
                    BY <1>3, <1>7, <3>1
                <4> QED BY <1>2, <1>5, <1>6, <1>7, <1>8, <1>14, <3>1, <4>1
            <3>2. CASE i = n + 1
                <4>1. target # 0
                    BY <1>3, <1>4
                <4> QED BY <1>2, <1>3, <1>4, <1>5, <1>6, <1>9, <1>14, <3>2, <4>1
            <3> QED BY <1>11, <3>1, <3>2
        <2>2. NoRepeats(freeChain')
            BY <1>6, <1>7, <1>11, <1>12 DEF NoRepeats
        <2> QED BY <1>2, <1>5, <1>6, <1>10, <1>14, <2>1, <2>2 DEF FileSpells
    <1>18. DiskSound'
        <2>1. disk.extent # 0
            BY <1>2, <1>3
        <2> QED BY <1>1, <1>5, <1>14, <1>17, <2>1 DEF DiskSound
    <1>19. OwnersSound'
        <2>1. \A q \in live : q # 0 /\ q # target /\ q \in PageIds
            BY <1>3, <1>4 DEF IInv, OwnersSound, TypeOK
        <2>2. \A q \in live' : /\ q \in 1 .. (disk'.disk_num - 1)
                               /\ ~InChain(freeChain, q)'
                               /\ q < disk'.extent
                               /\ written'[q] # Unwritten => disk'.page[q] = written'[q]
            BY <1>1, <1>2, <1>3, <1>5, <1>14, <1>16, <2>1, OwnedKept
        <2>3. InFlight' = {}
            BY <1>1 DEF InFlight
        <2> QED BY <1>1, <2>2, <2>3 DEF OwnersSound
    <1> QED BY <1>2, <1>5, <1>16, <1>18, <1>19 DEF IInv

\* A caller writes a page of its own.
LEMMA WriteStep ==
    ASSUME IInv, TypeOK', 0 \notin CallerPages,
           NEW p \in PageIds, NEW w \in Values, Write(p, w)
    PROVE  IInv' /\ disk'.disk_num = disk.disk_num
    <1>1. /\ mode = "open"
          /\ pc = "idle"
          /\ p # 0
          /\ p \in live
          /\ disk' = PutPage(disk, p, w)
          /\ written' = [written EXCEPT ![p] = w]
          /\ UNCHANGED <<mode, pc, target, live, freeChain, crashes>>
        BY DEF Write, Idle, WritePage
    <1>2. /\ disk.extent > 0
          /\ disk.free_list_head_ = disk.page[0]
          /\ disk.num_pages_ = disk.disk_num
        BY <1>1, OpenFacts
    <1>3. /\ disk.page \in [PageIds -> Word]
          /\ disk.disk_num \in Nat
          /\ disk.extent \in Nat
          /\ 0 \in PageIds
        BY FieldTypes DEF IInv, TypeOK
    <1>4. /\ ~InChain(freeChain, p)
          /\ p < disk.extent
        BY <1>1 DEF IInv, OwnersSound
    <1>5. /\ disk'.page = [disk.page EXCEPT ![p] = w]
          /\ disk'.extent = disk.extent
          /\ disk'.disk_num = disk.disk_num
          /\ disk'.num_pages_ = disk.num_pages_
          /\ disk'.free_list_head_ = disk.free_list_head_
        BY <1>1, <1>4, PutPageEffect, CallerAssumption DEF IInv, TypeOK
    <1>6. /\ \A q \in PageIds : q # p => disk'.page[q] = disk.page[q]
          /\ disk'.page[p] = w
          /\ disk'.page[0] = disk.page[0]
        BY <1>1, <1>3, <1>5
    <1>7. FileSpells'
        BY <1>1, <1>2, <1>3, <1>4, <1>5, <1>6, SpellsKept
    <1>8. DiskSound'
        <2>1. disk.extent # 0
            BY <1>2, <1>3
        <2> QED BY <1>1, <1>2, <1>5, <1>6, <1>7, <2>1 DEF DiskSound
    <1>9. \A q \in live : written'[q] # Unwritten => disk'.page[q] = written'[q]
        <2> SUFFICES ASSUME NEW q \in live, written'[q] # Unwritten
                     PROVE  disk'.page[q] = written'[q]
            OBVIOUS
        <2>1. q \in PageIds /\ written \in [PageIds -> Word \union {Unwritten}]
            BY DEF IInv, TypeOK
        <2>2. CASE q = p
            BY <1>1, <1>6, <2>1, <2>2
        <2>3. CASE q # p
            <3>1. written'[q] = written[q]
                BY <1>1, <2>1, <2>3
            <3> QED BY <1>6, <2>1, <2>3, <3>1 DEF IInv, OwnersSound
        <2> QED BY <2>2, <2>3
    <1>10. OwnersSound'
        <2>1. InFlight' = {} /\ InFlight = {}
            BY <1>1 DEF InFlight
        <2> QED BY <1>1, <1>5, <1>9, <2>1 DEF IInv, OwnersSound
    <1> QED BY <1>5, <1>8, <1>10 DEF IInv

-----------------------------------------------------------------------------
(***************************************************************************)
(* The invariant, and the properties that follow from it.                  *)
(***************************************************************************)
LEMMA InvariantStep ==
    ASSUME 0 \notin CallerPages, IInv, [Next]_vars
    PROVE  IInv'
    <1>0. TypeOK'
        BY TypeStep DEF IInv
    <1>1. CASE CreateFile
        BY <1>0, <1>1, CreateFileStep
    <1>2. CASE WritePageZero
        BY <1>0, <1>2, WritePageZeroStep
    <1>3. CASE OpenExisting
        BY <1>0, <1>3, OpenExistingStep
    <1>4. CASE OpenThrows
        <2>1. pc = "idle"
            BY <1>4 DEF OpenThrows, IInv, OwnersSound
        <2> QED BY <1>0, <1>4, <2>1, GoesDown DEF OpenThrows
    <1>5. CASE Close
        BY <1>0, <1>5, GoesDown DEF Close, Idle
    <1>6. CASE Crash
        BY <1>0, <1>6, GoesDown DEF Crash
    <1>7. CASE AllocateFromFreeList
        BY <1>0, <1>7, AllocateFromFreeListStep
    <1>8. CASE AllocateGrow
        BY <1>0, <1>8, AllocateGrowStep
    <1>9. CASE AllocateBlank
        BY <1>0, <1>9, AllocateBlankStep
    <1>10. CASE AllocateReturn
        BY <1>0, <1>10, AllocateReturnStep
    <1>11. ASSUME NEW p \in PageIds, Deallocate(p)
           PROVE  IInv'
        BY <1>0, <1>11, DeallocateStep
    <1>12. CASE DeallocateFinish
        BY <1>0, <1>12, DeallocateFinishStep
    <1>13. ASSUME NEW p \in PageIds, NEW w \in Values, Write(p, w)
           PROVE  IInv'
        BY <1>0, <1>13, WriteStep
    <1>14. CASE UNCHANGED vars
        BY <1>0, <1>14 DEF vars, IInv, DiskSound, FileSpells, OwnersSound, InFlight
    <1> QED BY <1>1, <1>2, <1>3, <1>4, <1>5, <1>6, <1>7, <1>8, <1>9, <1>10, <1>11,
               <1>12, <1>13, <1>14 DEF Next

LEMMA InvariantInit ==
    ASSUME Init
    PROVE  IInv
    <1>1. TypeOK /\ disk.extent = 0 /\ disk.disk_num = 0
        BY TypeInit, EmptyFileFields DEF Init
    <1>2. FileSpells
        BY <1>1 DEF Init, FileSpells, NoRepeats
    <1> QED BY <1>1, <1>2 DEF Init, IInv, DiskSound, OwnersSound, InFlight

\* Page 0 is what the next open finds, and what an open cache holds.
LEMMA ReopenIsPageZero ==
    ASSUME IInv
    PROVE  ReopenCount = disk.disk_num /\ ReopenHead = disk.page[0]
    BY DEF IInv, DiskSound, ReopenCount, ReopenHead

LEMMA InvariantImplies ==
    ASSUME IInv
    PROVE  FreeListSound /\ AllocationFresh /\ WritesDurable /\ MetadataSynchronized
    <1>1. /\ disk \in DiskType
          /\ disk.extent \in Nat
          /\ disk.disk_num \in Nat
        BY FieldTypes DEF IInv, TypeOK
    <1>2. FreeListSound
        <2> DEFINE d == [disk EXCEPT !.num_pages_ = ReopenCount]
        <2>1. /\ d.num_pages_ = disk.disk_num
              /\ d.extent = disk.extent
              /\ d.page = disk.page
            BY <1>1, ReopenIsPageZero DEF DiskType
        <2> HIDE DEF d
        <2>2. LinksSpell(d, freeChain)
            BY <2>1 DEF LinksSpell, IInv, DiskSound, FileSpells
        <2>3. ReopenHead = Top(freeChain) \/ disk.extent = 0
            BY <1>1, ReopenIsPageZero DEF IInv, DiskSound, FileSpells
        <2>4. NoRepeats(freeChain)
            BY DEF IInv, DiskSound, FileSpells
        <2>5. \A p \in live \union InFlight : ~InChain(freeChain, p)
            BY DEF IInv, OwnersSound
        <2> QED BY <2>2, <2>3, <2>4, <2>5 DEF FreeListSound, d
    <1>3. AllocationFresh
        <2> SUFFICES ASSUME pc = "return"
                     PROVE  /\ target \notin live \union {0}
                            /\ target < disk.extent
                            /\ target < disk.disk_num
            BY DEF AllocationFresh
        <2>1. /\ target \in 1 .. (disk.disk_num - 1)
              /\ target \notin live
              /\ target < disk.extent
            BY DEF IInv, OwnersSound, InFlight
        <2> QED BY <1>1, <2>1
    <1>4. WritesDurable
        <2> SUFFICES ASSUME NEW p \in live
                     PROVE  /\ p < disk.disk_num
                            /\ written[p] # Unwritten => ReadPage(disk, p) = written[p]
            BY DEF WritesDurable
        <2>1. /\ p \in 1 .. (disk.disk_num - 1)
              /\ p < disk.extent
              /\ written[p] # Unwritten => disk.page[p] = written[p]
            BY DEF IInv, OwnersSound
        <2> QED BY <1>1, <2>1 DEF ReadPage
    <1>5. MetadataSynchronized
        BY DEF IInv, DiskSound, MetadataSynchronized, Idle
    <1> QED BY <1>2, <1>3, <1>4, <1>5

-----------------------------------------------------------------------------
(***************************************************************************)
(* Pages that are lost.                                                    *)
(***************************************************************************)
Held(p) == p \in live \union InFlight \/ InChain(freeChain, p)

LEMMA LostFacts ==
    ASSUME IInv
    PROVE  /\ Lost = {p \in 1 .. (disk.disk_num - 1) : ~Held(p)}
           /\ IsFiniteSet(Lost)
           /\ Cardinality(Lost) \in Nat
    <1>1. disk.disk_num \in Nat
        BY FieldTypes DEF IInv, TypeOK
    <1>2. Lost = {p \in 1 .. (disk.disk_num - 1) : ~Held(p)}
        BY ReopenIsPageZero DEF Lost, Held
    <1>3. IsFiniteSet(1 .. (disk.disk_num - 1))
        BY <1>1, FS_Interval
    <1>4. Lost \in SUBSET (1 .. (disk.disk_num - 1))
        BY <1>2
    <1> QED BY <1>2, <1>3, <1>4, FS_Subset, FS_CardinalityType

\* Nothing is lost by a step that counts no page nobody holds and drops none.
LEMMA LostShrinks ==
    ASSUME IInv, IInv', LeakBounded, crashes' = crashes,
           \A p \in 1 .. (disk'.disk_num - 1) :
               Held(p)' \/ (p \in 1 .. (disk.disk_num - 1) /\ ~Held(p))
    PROVE  LeakBounded'
    <1>1. Lost' = {p \in 1 .. (disk'.disk_num - 1) : ~Held(p)'}
        <2>1. ReopenCount' = disk'.disk_num
            BY DEF IInv, DiskSound, ReopenCount
        <2> QED BY <2>1 DEF Lost, Held
    <1>2. /\ Lost = {p \in 1 .. (disk.disk_num - 1) : ~Held(p)}
          /\ IsFiniteSet(Lost)
          /\ Cardinality(Lost) \in Nat
        BY LostFacts
    <1>3. Lost' \in SUBSET Lost
        BY <1>1, <1>2
    <1>4. Cardinality(Lost') <= Cardinality(Lost) /\ Cardinality(Lost') \in Nat
        BY <1>2, <1>3, FS_Subset, FS_CardinalityType
    <1>5. crashes \in Nat
        BY CallerAssumption DEF IInv, TypeOK
    <1> QED BY <1>2, <1>4, <1>5 DEF LeakBounded

\* A crash loses the page in flight.
LEMMA CrashLoses ==
    ASSUME IInv, IInv', LeakBounded, Crash
    PROVE  LeakBounded'
    <1>1. Lost' = {p \in 1 .. (disk'.disk_num - 1) : ~Held(p)'}
        <2>1. ReopenCount' = disk'.disk_num
            BY DEF IInv, DiskSound, ReopenCount
        <2> QED BY <2>1 DEF Lost, Held
    <1>2. /\ Lost = {p \in 1 .. (disk.disk_num - 1) : ~Held(p)}
          /\ IsFiniteSet(Lost)
          /\ Cardinality(Lost) \in Nat
        BY LostFacts
    <1>3. /\ crashes' = crashes + 1
          /\ disk' = disk
          /\ live' = live
          /\ freeChain' = freeChain
        BY DEF Crash
    <1>4. \A p : ~Held(p)' => ~Held(p) \/ p = target
        BY <1>3 DEF Held, InFlight, InChain
    <1>5. Lost' \in SUBSET (Lost \union {target})
        BY <1>1, <1>2, <1>3, <1>4
    <1>6. /\ IsFiniteSet(Lost \union {target})
          /\ Cardinality(Lost \union {target}) <= Cardinality(Lost) + 1
          /\ Cardinality(Lost \union {target}) \in Nat
        <2>1. /\ IsFiniteSet(Lost \union {target})
              /\ Cardinality(Lost \union {target}) =
                    IF target \in Lost THEN Cardinality(Lost) ELSE Cardinality(Lost) + 1
            BY <1>2, FS_AddElement
        <2> QED BY <1>2, <2>1
    <1>7. /\ Cardinality(Lost') <= Cardinality(Lost \union {target})
          /\ Cardinality(Lost') \in Nat
        BY <1>5, <1>6, FS_Subset, FS_CardinalityType
    <1>8. crashes \in Nat
        BY CallerAssumption DEF IInv, TypeOK
    <1> QED BY <1>2, <1>3, <1>6, <1>7, <1>8 DEF LeakBounded

LEMMA LeakStep ==
    ASSUME 0 \notin CallerPages, IInv, IInv', LeakBounded, [Next]_vars
    PROVE  LeakBounded'
    <1>0. TypeOK' /\ disk.disk_num \in Nat
        BY FieldTypes DEF IInv, TypeOK
    <1>1. CASE CreateFile
        <2>1. disk'.disk_num = 0 /\ crashes' = crashes
            BY <1>1, EmptyFileFields DEF CreateFile
        <2> QED BY <2>1, LostShrinks
    <1>2. CASE WritePageZero
        <2>1. disk'.disk_num = 1 /\ crashes' = crashes
            BY <1>2, InitializeFields DEF WritePageZero, IInv, TypeOK
        <2> QED BY <2>1, LostShrinks
    <1>3. CASE OpenExisting
        <2>1. /\ disk'.disk_num = disk.disk_num
              /\ UNCHANGED <<pc, target, live, freeChain, crashes>>
            BY <1>3, ReadMetadataFields DEF OpenExisting, IInv, TypeOK
        <2> QED BY <2>1, LostShrinks DEF Held, InFlight
    <1>4. CASE OpenThrows
        BY <1>4, LostShrinks DEF OpenThrows, Held, InFlight
    <1>5. CASE Close
        BY <1>5, LostShrinks DEF Close, Held, InFlight
    <1>6. CASE Crash
        BY <1>6, CrashLoses
    <1>7. CASE AllocateFromFreeList
        <2>1. /\ \A q : InChain(freeChain, q) => InChain(freeChain, q)' \/ q = target'
              /\ disk'.disk_num = disk.disk_num
            BY <1>0, <1>7, AllocateFromFreeListStep
        <2>2. pc = "idle" /\ pc' = "return" /\ live' = live /\ crashes' = crashes
            BY <1>7 DEF AllocateFromFreeList, Idle
        <2> QED BY <2>1, <2>2, LostShrinks DEF Held, InFlight
    <1>8. CASE AllocateGrow
        <2>1. target' = disk.disk_num /\ disk'.disk_num = disk.disk_num + 1
            BY <1>0, <1>8, AllocateGrowStep
        <2>2. /\ pc = "idle"
              /\ pc' = "growBlank"
              /\ UNCHANGED <<live, freeChain, crashes>>
            BY <1>8 DEF AllocateGrow, Idle
        <2>3. \A p \in 1 .. (disk'.disk_num - 1) :
                p \in 1 .. (disk.disk_num - 1) \/ p = target'
            BY <1>0, <2>1
        <2>4. \A p : Held(p)' <=> Held(p) \/ p = target'
            BY <2>2 DEF Held, InFlight, InChain
        <2> QED BY <2>2, <2>3, <2>4, LostShrinks
    <1>9. CASE AllocateBlank
        <2>1. disk'.disk_num = disk.disk_num
            BY <1>0, <1>9, AllocateBlankStep
        <2>2. /\ pc = "growBlank"
              /\ pc' = "return"
              /\ UNCHANGED <<target, live, freeChain, crashes>>
            BY <1>9 DEF AllocateBlank
        <2> QED BY <2>1, <2>2, LostShrinks DEF Held, InFlight
    <1>10. CASE AllocateReturn
        BY <1>10, LostShrinks DEF AllocateReturn, Held, InFlight
    <1>11. ASSUME NEW p \in PageIds, Deallocate(p)
           PROVE  LeakBounded'
        <2>1. disk'.disk_num = disk.disk_num
            BY <1>0, <1>11, DeallocateStep
        <2>2. /\ pc = "idle"
              /\ pc' = "deallocHead"
              /\ target' = p
              /\ live' = live \ {p}
              /\ UNCHANGED <<freeChain, crashes>>
            BY <1>11 DEF Deallocate, Idle
        <2> QED BY <2>1, <2>2, LostShrinks DEF Held, InFlight
    <1>12. CASE DeallocateFinish
        <2>1. /\ \A q : InChain(freeChain, q) \/ q = target => InChain(freeChain, q)'
              /\ disk'.disk_num = disk.disk_num
            BY <1>0, <1>12, DeallocateFinishStep
        <2>2. pc = "deallocHead" /\ live' = live /\ crashes' = crashes
            BY <1>12 DEF DeallocateFinish
        <2> QED BY <2>1, <2>2, LostShrinks DEF Held, InFlight
    <1>13. ASSUME NEW p \in PageIds, NEW w \in Values, Write(p, w)
           PROVE  LeakBounded'
        <2>1. disk'.disk_num = disk.disk_num
            BY <1>0, <1>13, WriteStep
        <2>2. UNCHANGED <<pc, target, live, freeChain, crashes>>
            BY <1>13 DEF Write
        <2> QED BY <2>1, <2>2, LostShrinks DEF Held, InFlight
    <1>14. CASE UNCHANGED vars
        BY <1>14, LostShrinks DEF vars, Held, InFlight
    <1> QED BY <1>1, <1>2, <1>3, <1>4, <1>5, <1>6, <1>7, <1>8, <1>9, <1>10, <1>11,
               <1>12, <1>13, <1>14 DEF Next

-----------------------------------------------------------------------------
(***************************************************************************)
(* The theorems.                                                           *)
(***************************************************************************)
\* The inductive invariant, when callers leave page 0 alone.
THEOREM DiskInvariant ==
    ASSUME 0 \notin CallerPages
    PROVE  Spec => []IInv
    <1>1. Init => IInv
        BY InvariantInit
    <1>2. IInv /\ [Next]_vars => IInv'
        BY InvariantStep
    <1> QED BY <1>1, <1>2, PTL DEF Spec

\* AllocatePage and DeallocatePage keep the free list in the file, at every
\* flush and through every crash: exactly the pages given back, each once,
\* none of them in use.
THEOREM DiskFreeListSound ==
    ASSUME 0 \notin CallerPages
    PROVE  Spec => []FreeListSound
    <1>1. IInv => FreeListSound
        BY InvariantImplies
    <1> QED BY <1>1, DiskInvariant, PTL

\* AllocatePage returns a page that nobody holds, that the file contains and
\* that page 0 counts.
THEOREM DiskAllocationFresh ==
    ASSUME 0 \notin CallerPages
    PROVE  Spec => []AllocationFresh
    <1>1. IInv => AllocationFresh
        BY InvariantImplies
    <1> QED BY <1>1, DiskInvariant, PTL

\* What WritePage wrote to a page in a caller's hands is what ReadPage reads,
\* after any other operations, crashes and reopenings.
THEOREM DiskWritesDurable ==
    ASSUME 0 \notin CallerPages
    PROVE  Spec => []WritesDurable
    <1>1. IInv => WritesDurable
        BY InvariantImplies
    <1> QED BY <1>1, DiskInvariant, PTL

\* The metadata cache equals page 0 whenever no operation is in flight.
THEOREM DiskMetadataSynchronized ==
    ASSUME 0 \notin CallerPages
    PROVE  Spec => []MetadataSynchronized
    <1>1. IInv => MetadataSynchronized
        BY InvariantImplies
    <1> QED BY <1>1, DiskInvariant, PTL

\* A crash leaks at most the page of the operation it interrupts.
THEOREM DiskLeakBounded ==
    ASSUME 0 \notin CallerPages
    PROVE  Spec => []LeakBounded
    <1>1. Init => LeakBounded
        <2> SUFFICES ASSUME Init PROVE LeakBounded
            OBVIOUS
        <2>1. IInv
            BY InvariantInit
        <2>2. disk.disk_num = 0
            BY EmptyFileFields DEF Init
        <2>3. Lost = {}
            BY <2>1, <2>2, LostFacts
        <2> QED BY <2>3, FS_EmptySet DEF Init, LeakBounded
    <1>2. IInv /\ IInv' /\ LeakBounded /\ [Next]_vars => LeakBounded'
        BY LeakStep
    <1> QED BY <1>1, <1>2, DiskInvariant, PTL DEF Spec
=============================================================================
