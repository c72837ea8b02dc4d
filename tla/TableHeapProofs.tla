-------------------------- MODULE TableHeapProofs --------------------------
(***************************************************************************)
(* The table heap for pages, slots and tuples of any size, and any number  *)
(* of pages.                                                               *)
(*                                                                         *)
(* The properties rest on each other.  A row reads back because the bytes  *)
(* of a live slot are written by operations on that slot only, which is so *)
(* because live spans are apart (LayoutSound); they are, because a tuple   *)
(* goes either below everything or inside the span its slot already had.   *)
(* That slots never outnumber slots_ is an accounting of the space that is *)
(* never given back (SpacePaid): a slot costs SlotSize bytes from below    *)
(* and, once in its life, at least one from above.                         *)
(***************************************************************************)
EXTENDS TableHeap, SequenceTheorems, WellFoundedInduction, TLAPS

\* Every slot, tombstones included, was paid for with a byte of tuple space.
SpacePaid(pg) == Len(pg.slots_) + pg.free_space_pointer_ <= PAGE_SIZE

\* Slot i holds tuple t, all of it and nothing more.
Content(pg, i, t) ==
    /\ Live(pg, i)
    /\ pg.slots_[i].length = LengthOf[t]
    /\ Holds(pg.bytes, pg.slots_[i].offset, t)

LiveRid(r) == r[1] \in DOMAIN heap /\ Live(heap[r[1]], r[2])

\* What the callers know is what the slots hold.
RowsKept ==
    \A r \in Rids :
        IF LiveRid(r)
        THEN table[r] \in Tuples /\ Content(heap[r[1]], r[2], table[r])
        ELSE table[r] = NoTuple \/ (table[r] \in Tuples /\ Oversize(table[r]))

IInv ==
    /\ LayoutSound
    /\ \A p \in DOMAIN heap : SpacePaid(heap[p])
    /\ ChainSound
    /\ RowsKept

-----------------------------------------------------------------------------
(***************************************************************************)
(* Arithmetic and types.                                                   *)
(***************************************************************************)
\* A product grows with its first factor.
LEMMA ProductGrows ==
    ASSUME NEW a \in Nat, NEW b \in Nat, NEW c \in Nat, a <= b
    PROVE  a * c <= b * c
    <1>1. PICK k \in Nat : b = a + k
        <2>1. b - a \in Nat /\ b = a + (b - a)
            OBVIOUS
        <2> QED BY <2>1
    <1>2. b * c = a * c + k * c
        BY <1>1
    <1>3. k * c \in Nat /\ a * c \in Nat
        OBVIOUS
    <1> QED BY <1>2, <1>3

SlotType == [offset : 0 .. PAGE_SIZE, length : 0 .. PAGE_SIZE]
ByteType == {Unwritten} \union (Tuples \X Nat)

LEMMA PageFields ==
    ASSUME NEW pg \in PageType
    PROVE  /\ pg.slots_ \in Seq(SlotType)
           /\ Len(pg.slots_) \in Nat
           /\ DOMAIN pg.slots_ = 1 .. Len(pg.slots_)
           /\ \A i \in DOMAIN pg.slots_ : /\ pg.slots_[i] \in SlotType
                                           /\ pg.slots_[i].offset \in Nat
                                           /\ pg.slots_[i].length \in Nat
           /\ pg.free_space_pointer_ \in Nat
           /\ pg.free_space_pointer_ <= PAGE_SIZE
           /\ pg.bytes \in [0 .. (PAGE_SIZE - 1) -> ByteType]
           /\ PAGE_SIZE \in Nat
    <1>1. /\ pg.slots_ \in Seq(SlotType)
          /\ pg.free_space_pointer_ \in 0 .. PAGE_SIZE
          /\ pg.bytes \in [0 .. (PAGE_SIZE - 1) -> ByteType]
        BY DEF PageType, SlotType, ByteType
    <1>2. /\ Len(pg.slots_) \in Nat
          /\ DOMAIN pg.slots_ = 1 .. Len(pg.slots_)
        BY <1>1, LenProperties
    <1>3. \A i \in DOMAIN pg.slots_ : pg.slots_[i] \in SlotType
        BY <1>1, <1>2, ElementOfSeq
    <1>4. \A s \in SlotType : s.offset \in Nat /\ s.length \in Nat
        BY TupleAssumption DEF SlotType
    <1> QED BY <1>1, <1>2, <1>3, <1>4, TupleAssumption

LEMMA LengthType ==
    ASSUME NEW t \in Tuples
    PROVE  LengthOf[t] \in Nat /\ LengthOf[t] >= 1
    BY TupleAssumption

\* The boundary depends on the number of slots and counts at least one.
LEMMA BoundaryFacts ==
    ASSUME NEW pg \in PageType
    PROVE  /\ Boundary(pg) \in Nat
           /\ Len(pg.slots_) >= 1 => Boundary(pg) >= HeaderSize + SlotSize
           /\ \A e \in PageType :
                /\ Len(e.slots_) = Len(pg.slots_) => Boundary(e) = Boundary(pg)
                /\ Len(e.slots_) = Len(pg.slots_) + 1 => Boundary(e) = Boundary(pg) + SlotSize
    <1>1. /\ HeaderSize \in Nat
          /\ SlotSize \in Nat
          /\ Len(pg.slots_) \in Nat
        BY PageFields, TupleAssumption
    <1>2. Boundary(pg) \in Nat
        BY <1>1 DEF Boundary
    <1>3. ASSUME Len(pg.slots_) >= 1
          PROVE  Boundary(pg) >= HeaderSize + SlotSize
        <2>1. 1 * SlotSize <= Len(pg.slots_) * SlotSize
            BY <1>1, <1>3, ProductGrows
        <2>2. Len(pg.slots_) * SlotSize \in Nat
            BY <1>1
        <2> QED BY <1>1, <2>1, <2>2 DEF Boundary
    <1>4. \A n \in Nat : (n + 1) * SlotSize = n * SlotSize + SlotSize
        BY <1>1
    <1>5. \A n \in Nat : n * SlotSize \in Nat
        BY <1>1
    <1>6. ASSUME NEW e \in PageType, Len(e.slots_) = Len(pg.slots_) + 1
          PROVE  Boundary(e) = Boundary(pg) + SlotSize
        BY <1>1, <1>4, <1>5, <1>6 DEF Boundary
    <1> QED BY <1>2, <1>3, <1>6 DEF Boundary

\* Paying for every slot from both ends bounds their number by slots_.
LEMMA SlotsBounded ==
    ASSUME NEW pg \in PageType, LayoutSoundOf(pg), SpacePaid(pg)
    PROVE  Len(pg.slots_) <= MaxSlots
    <1> DEFINE n == Len(pg.slots_)
    <1>1. /\ n \in Nat
          /\ pg.free_space_pointer_ \in Nat
          /\ HeaderSize \in Nat
          /\ SlotSize \in Nat
          /\ MaxSlots \in Nat
          /\ PAGE_SIZE \in Nat
          /\ PAGE_SIZE < HeaderSize + (SlotSize + 1) * (MaxSlots + 1)
        BY PageFields, TupleAssumption
    <1>2. /\ HeaderSize + n * SlotSize <= pg.free_space_pointer_
          /\ n + pg.free_space_pointer_ <= PAGE_SIZE
        BY DEF LayoutSoundOf, Boundary, SpacePaid
    <1> HIDE DEF n
    <1>3. n * (SlotSize + 1) = n * SlotSize + n /\ n * SlotSize \in Nat
        BY <1>1
    <1>4. n * (SlotSize + 1) < (MaxSlots + 1) * (SlotSize + 1)
        <2>1. (SlotSize + 1) * (MaxSlots + 1) = (MaxSlots + 1) * (SlotSize + 1)
            BY <1>1
        <2>2. (MaxSlots + 1) * (SlotSize + 1) \in Nat
            BY <1>1
        <2> QED BY <1>1, <1>2, <1>3, <2>1, <2>2
    <1>5. ASSUME MaxSlots + 1 <= n
          PROVE  FALSE
        <2>1. (MaxSlots + 1) * (SlotSize + 1) <= n * (SlotSize + 1)
            BY <1>1, <1>5, ProductGrows
        <2>2. (MaxSlots + 1) * (SlotSize + 1) \in Nat /\ n * (SlotSize + 1) \in Nat
            BY <1>1
        <2> QED BY <1>4, <2>1, <2>2
    <1> QED BY <1>1, <1>5 DEF n

\* InsertTuple's search: a tombstone, or the slot after the last.
LEMMA TargetSlotFacts ==
    ASSUME NEW pg \in PageType
    PROVE  LET i == TargetSlot(pg) IN
           /\ i \in 1 .. (Len(pg.slots_) + 1)
           /\ ~Live(pg, i)
    <1> DEFINE free == {i \in DOMAIN pg.slots_ : pg.slots_[i].length = 0}
    <1>1. /\ Len(pg.slots_) \in Nat
          /\ DOMAIN pg.slots_ = 1 .. Len(pg.slots_)
        BY PageFields
    <1>2. CASE free = {}
        <2>1. TargetSlot(pg) = Len(pg.slots_) + 1
            BY <1>2 DEF TargetSlot
        <2>2. Len(pg.slots_) + 1 \notin 1 .. Len(pg.slots_)
            BY <1>1
        <2> QED BY <1>1, <2>1, <2>2 DEF Live
    <1>3. CASE free # {}
        <2>1. free \subseteq Nat
            BY <1>1
        <2> HIDE DEF free
        <2>2. PICK x \in free : \A y \in free : ~(<<y, x>> \in OpToRel(<, Nat))
            BY <1>3, <2>1, NatLessThanWellFounded, WFMin
        <2>3. ASSUME NEW y \in free
              PROVE  x <= y
            <3>1. x \in Nat /\ y \in Nat
                BY <2>1
            <3>2. y < x => <<y, x>> \in OpToRel(<, Nat)
                BY <3>1 DEF OpToRel
            <3>3. ~(y < x)
                BY <2>2, <3>2
            <3> QED BY <3>1, <3>3
        <2>4. TargetSlot(pg) = CHOOSE i \in free : \A j \in free : i <= j
            BY <1>3 DEF TargetSlot, free
        <2>5. TargetSlot(pg) \in free
            BY <2>3, <2>4
        <2> QED BY <1>1, <2>5 DEF free, Live
    <1> QED BY <1>2, <1>3

-----------------------------------------------------------------------------
(***************************************************************************)
(* One page.  InsertTuple and both kinds of UpdateTuple overwrite: they    *)
(* write tuple t at offset o, into bytes no other live slot has, and point *)
(* slot i to it.                                                           *)
(***************************************************************************)
Overwrites(pg, e, i, t, o) ==
    /\ e \in PageType
    /\ i \in DOMAIN e.slots_
    /\ \A j \in DOMAIN e.slots_ : j # i => j \in DOMAIN pg.slots_ /\ e.slots_[j] = pg.slots_[j]
    /\ DOMAIN pg.slots_ \subseteq DOMAIN e.slots_
    /\ e.slots_[i] = [offset |-> o, length |-> LengthOf[t]]
    /\ e.bytes = Serialize(pg.bytes, o, t)
    /\ e.free_space_pointer_ <= pg.free_space_pointer_
    /\ Boundary(e) <= e.free_space_pointer_
    /\ e.free_space_pointer_ <= o
    /\ o + LengthOf[t] <= PAGE_SIZE
    /\ \A j \in DOMAIN pg.slots_ :
        j # i /\ Live(pg, j) => Span(o, LengthOf[t]) \intersect SpanOf(pg, j) = {}

LEMMA OverwriteEffect ==
    ASSUME NEW pg \in PageType, NEW e, NEW i, NEW t \in Tuples, NEW o \in Nat,
           LayoutSoundOf(pg), Overwrites(pg, e, i, t, o)
    PROVE  /\ LayoutSoundOf(e)
           /\ Content(e, i, t)
           /\ \A j : j # i => (Live(e, j) <=> Live(pg, j))
           /\ \A j : \A u \in Tuples : j # i /\ Content(pg, j, u) => Content(e, j, u)
    <1> DEFINE n == LengthOf[t]
    <1>1. n \in Nat /\ n >= 1
        BY LengthType
    <1>2. /\ e \in PageType
          /\ i \in DOMAIN e.slots_
          /\ \A j \in DOMAIN e.slots_ : j # i => j \in DOMAIN pg.slots_ /\ e.slots_[j] = pg.slots_[j]
          /\ DOMAIN pg.slots_ \subseteq DOMAIN e.slots_
          /\ e.slots_[i].offset = o
          /\ e.slots_[i].length = n
          /\ e.bytes = Serialize(pg.bytes, o, t)
          /\ e.free_space_pointer_ <= pg.free_space_pointer_
          /\ Boundary(e) <= e.free_space_pointer_
          /\ e.free_space_pointer_ <= o
          /\ o + n <= PAGE_SIZE
          /\ \A j \in DOMAIN pg.slots_ :
                j # i /\ Live(pg, j) => Span(o, n) \intersect SpanOf(pg, j) = {}
        BY DEF Overwrites
    <1>3. /\ e.free_space_pointer_ \in Nat
          /\ pg.free_space_pointer_ \in Nat
          /\ PAGE_SIZE \in Nat
          /\ DOMAIN pg.bytes = 0 .. (PAGE_SIZE - 1)
          /\ \A j \in DOMAIN pg.slots_ : /\ pg.slots_[j].offset \in Nat
                                          /\ pg.slots_[j].length \in Nat
        BY <1>2, PageFields
    <1>4. \A j : j # i => (Live(e, j) <=> Live(pg, j))
        BY <1>2 DEF Live
    <1>5. Live(e, i) /\ SpanOf(e, i) = Span(o, n)
        BY <1>1, <1>2 DEF Live, SpanOf
    <1>6. \A j \in DOMAIN e.slots_ : j # i => SpanOf(e, j) = SpanOf(pg, j)
        BY <1>2 DEF SpanOf
    <1>7. \A j \in DOMAIN pg.slots_ : Live(pg, j) =>
            SpanOf(pg, j) \subseteq pg.free_space_pointer_ .. (PAGE_SIZE - 1)
        BY DEF LayoutSoundOf
    <1>8. \A b : e.bytes[b] = (Serialize(pg.bytes, o, t))[b]
        BY <1>2
    <1>9. \A b \in 0 .. (PAGE_SIZE - 1) :
            e.bytes[b] = IF b \in Span(o, n) THEN <<t, b - o>> ELSE pg.bytes[b]
        BY <1>2, <1>3 DEF Serialize
    <1>10. LayoutSoundOf(e)
        <2>1. ASSUME NEW j \in DOMAIN e.slots_, Live(e, j)
              PROVE  SpanOf(e, j) \subseteq e.free_space_pointer_ .. (PAGE_SIZE - 1)
            <3>1. CASE j = i
                BY <1>1, <1>2, <1>3, <1>5, <3>1 DEF Span
            <3>2. CASE j # i
                <4>1. j \in DOMAIN pg.slots_ /\ Live(pg, j) /\ SpanOf(e, j) = SpanOf(pg, j)
                    BY <1>2, <1>4, <1>6, <2>1, <3>2
                <4>2. pg.free_space_pointer_ .. (PAGE_SIZE - 1)
                        \subseteq e.free_space_pointer_ .. (PAGE_SIZE - 1)
                    BY <1>2, <1>3
                <4> QED BY <1>7, <4>1, <4>2
            <3> QED BY <3>1, <3>2
        <2>2. ASSUME NEW j \in DOMAIN e.slots_, NEW k \in DOMAIN e.slots_,
                     j # k, Live(e, j), Live(e, k)
              PROVE  SpanOf(e, j) \intersect SpanOf(e, k) = {}
            <3>1. CASE j = i
                BY <1>2, <1>4, <1>5, <1>6, <2>2, <3>1
            <3>2. CASE k = i
                BY <1>2, <1>4, <1>5, <1>6, <2>2, <3>2
            <3>3. CASE j # i /\ k # i
                BY <1>2, <1>4, <1>6, <2>2, <3>3 DEF LayoutSoundOf
            <3> QED BY <3>1, <3>2, <3>3
        <2> QED BY <1>2, <2>1, <2>2 DEF LayoutSoundOf
    <1>11. Content(e, i, t)
        <2>1. ASSUME NEW k \in 0 .. (n - 1)
              PROVE  e.bytes[o + k] = <<t, k>>
            <3>1. /\ o + k \in 0 .. (PAGE_SIZE - 1)
                  /\ o + k \in Span(o, n)
                  /\ (o + k) - o = k
                BY <1>1, <1>2, <1>3 DEF Span
            <3> QED BY <1>9, <3>1
        <2> QED BY <1>2, <1>5, <2>1 DEF Content, Holds
    <1>12. ASSUME NEW j, NEW u \in Tuples, j # i, Content(pg, j, u)
           PROVE  Content(e, j, u)
        <2>1. /\ j \in DOMAIN pg.slots_
              /\ Live(pg, j)
              /\ pg.slots_[j].length = LengthOf[u]
              /\ \A k \in 0 .. (LengthOf[u] - 1) : pg.bytes[pg.slots_[j].offset + k] = <<u, k>>
            BY <1>12 DEF Content, Live, Holds
        <2>2. e.slots_[j] = pg.slots_[j] /\ Live(e, j)
            BY <1>2, <1>4, <1>12, <2>1
        <2>3. ASSUME NEW k \in 0 .. (LengthOf[u] - 1)
              PROVE  e.bytes[pg.slots_[j].offset + k] = <<u, k>>
            <3> DEFINE b == pg.slots_[j].offset + k
            <3>1. b \in SpanOf(pg, j)
                BY <1>3, <2>1, LengthType DEF SpanOf, Span
            <3>2. b \notin Span(o, n)
                BY <1>2, <1>12, <2>1, <3>1
            <3>3. b \in 0 .. (PAGE_SIZE - 1)
                <4>1. b \in pg.free_space_pointer_ .. (PAGE_SIZE - 1)
                    BY <1>7, <2>1, <3>1
                <4> QED BY <1>3, <4>1
            <3>4. e.bytes[b] = pg.bytes[b]
                BY <1>9, <3>2, <3>3
            <3> QED BY <2>1, <3>4
        <2> QED BY <2>1, <2>2, <2>3 DEF Content, Holds
    <1> QED BY <1>4, <1>10, <1>11, <1>12

\* The links and the id of a page, which no operation on tuples changes.
SameLinks(pg, e) ==
    /\ e.page_id_ = pg.page_id_
    /\ e.next_page_id_ = pg.next_page_id_
    /\ e.prev_page_id_ = pg.prev_page_id_

\* Bytes stay bytes, whatever tuple is written over them.
LEMMA SerializeType ==
    ASSUME NEW bytes \in [0 .. (PAGE_SIZE - 1) -> ByteType], NEW o \in Nat, NEW t \in Tuples
    PROVE  Serialize(bytes, o, t) \in [0 .. (PAGE_SIZE - 1) -> ByteType]
    <1>1. ASSUME NEW b \in 0 .. (PAGE_SIZE - 1), b \in Span(o, LengthOf[t])
          PROVE  <<t, b - o>> \in ByteType
        <2>1. b - o \in Nat
            BY <1>1, LengthType DEF Span
        <2> QED BY <2>1 DEF ByteType
    <1> QED BY <1>1 DEF Serialize

\* A tuple that fits goes to the top of the free space.
LEMMA PlaceEffect ==
    ASSUME NEW pg \in PageType, LayoutSoundOf(pg), SpacePaid(pg), NEW t \in Tuples,
           NEW i \in 1 .. (Len(pg.slots_) + 1),
           pg.free_space_pointer_ >= Boundary(pg),
           Room(pg) >= IF i <= Len(pg.slots_) THEN LengthOf[t] ELSE LengthOf[t] + SlotSize
    PROVE  LET e == Place(pg, i, t) IN
           /\ Overwrites(pg, e, i, t, pg.free_space_pointer_ - LengthOf[t])
           /\ pg.free_space_pointer_ - LengthOf[t] \in Nat
           /\ SpacePaid(e)
           /\ SameLinks(pg, e)
    <1> DEFINE n == LengthOf[t]
               m == Len(pg.slots_)
               o == pg.free_space_pointer_ - n
               slot == [offset |-> o, length |-> n]
               slots == IF i <= m THEN [pg.slots_ EXCEPT ![i] = slot] ELSE Append(pg.slots_, slot)
               bytes == Serialize(pg.bytes, o, t)
               e == Place(pg, i, t)
    <1>1. n \in Nat /\ n >= 1 /\ SlotSize \in Nat
        BY LengthType, TupleAssumption
    <1>2. /\ m \in Nat
          /\ DOMAIN pg.slots_ = 1 .. m
          /\ pg.slots_ \in Seq(SlotType)
          /\ pg.free_space_pointer_ \in Nat
          /\ pg.free_space_pointer_ <= PAGE_SIZE
          /\ pg.bytes \in [0 .. (PAGE_SIZE - 1) -> ByteType]
          /\ PAGE_SIZE \in Nat
        BY PageFields
    <1>3. Boundary(pg) \in Nat
        BY BoundaryFacts
    <1>4. /\ o \in Nat
          /\ o <= PAGE_SIZE
          /\ o + n = pg.free_space_pointer_
          /\ n <= PAGE_SIZE
          /\ o >= Boundary(pg)
          /\ ~(i <= m) => o >= Boundary(pg) + SlotSize
        <2>1. \A f, b, P, s, k \in Nat :
                f - b >= k /\ f <= P =>
                    /\ f - k \in Nat
                    /\ f - k <= P
                    /\ (f - k) + k = f
                    /\ k <= P
                    /\ f - k >= b
                    /\ f - b >= k + s => f - k >= b + s
            OBVIOUS
        <2>2. \A x \in Int : \A s, k \in Nat :
                x >= (IF i <= m THEN k ELSE k + s) =>
                    x >= k /\ (~(i <= m) => x >= k + s)
            OBVIOUS
        <2>3. Room(pg) \in Int
            BY <1>2, <1>3 DEF Room
        <2>4. Room(pg) >= n /\ (~(i <= m) => Room(pg) >= n + SlotSize)
            BY <1>1, <2>2, <2>3
        <2> QED BY <1>1, <1>2, <1>3, <2>1, <2>4 DEF Room
    <1>5. slot \in SlotType
        BY <1>1, <1>2, <1>4 DEF SlotType
    <1>6. /\ slots \in Seq(SlotType)
          /\ i <= m => Len(slots) = m
          /\ ~(i <= m) => Len(slots) = m + 1
          /\ i \in 1 .. Len(slots)
          /\ DOMAIN slots = 1 .. Len(slots)
          /\ slots[i] = slot
          /\ \A j \in 1 .. Len(slots) : j # i => j \in 1 .. m /\ slots[j] = pg.slots_[j]
        <2> HIDE DEF slot
        <2>1. CASE i <= m
            <3>1. i \in 1 .. m /\ slots = [pg.slots_ EXCEPT ![i] = slot]
                BY <1>2, <2>1
            <3>2. /\ slots \in Seq(SlotType)
                  /\ Len(slots) = m
                  /\ \A j \in 1 .. m : slots[j] = IF j = i THEN slot ELSE pg.slots_[j]
                BY <1>2, <1>5, <3>1, ExceptSeq
            <3>3. DOMAIN slots = 1 .. m
                BY <3>2, LenProperties
            <3> QED BY <2>1, <3>1, <3>2, <3>3
        <2>2. CASE ~(i <= m)
            <3>1. i = m + 1 /\ slots = Append(pg.slots_, slot)
                BY <1>2, <2>2
            <3>2. /\ slots \in Seq(SlotType)
                  /\ Len(slots) = m + 1
                  /\ \A j \in 1 .. m : slots[j] = pg.slots_[j]
                  /\ slots[m + 1] = slot
                BY <1>2, <1>5, <3>1, AppendProperties
            <3>3. DOMAIN slots = 1 .. m + 1
                BY <3>2, LenProperties
            <3>4. \A j \in 1 .. m + 1 : j # m + 1 => j \in 1 .. m
                BY <1>2
            <3> QED BY <1>2, <2>2, <3>1, <3>2, <3>3, <3>4
        <2> QED BY <2>1, <2>2
    <1>6a. Len(slots) \in Nat /\ m <= Len(slots) /\ Len(slots) <= m + 1
        <2>1. CASE i <= m
            BY <1>2, <1>6, <2>1
        <2>2. CASE ~(i <= m)
            <3>1. Len(slots) = m + 1
                BY <1>6, <2>2
            <3> QED BY <1>2, <3>1
        <2> QED BY <2>1, <2>2
    <1>7. bytes \in [0 .. (PAGE_SIZE - 1) -> ByteType]
        BY <1>2, <1>4, SerializeType
    <1>8. e = [pg EXCEPT !.free_space_pointer_ = o, !.bytes = bytes, !.slots_ = slots]
        BY DEF Place
    <1>9. o \in 0 .. PAGE_SIZE
        BY <1>2, <1>4
    <1> HIDE DEF slots, bytes, o
    <1>10. /\ e \in PageType
           /\ e.slots_ = slots
           /\ e.bytes = bytes
           /\ e.free_space_pointer_ = o
           /\ SameLinks(pg, e)
        BY <1>6, <1>7, <1>8, <1>9 DEF PageType, SlotType, ByteType, SameLinks
    <1> HIDE DEF e
    <1>11. Boundary(e) <= o
        <2>1. i <= m => Boundary(e) = Boundary(pg)
            BY <1>6, <1>10, BoundaryFacts
        <2>2. ~(i <= m) => Boundary(e) = Boundary(pg) + SlotSize
            BY <1>6, <1>10, BoundaryFacts
        <2> QED BY <1>4, <2>1, <2>2
    <1>12. SpacePaid(e)
        <2>1. m + pg.free_space_pointer_ <= PAGE_SIZE
            BY DEF SpacePaid
        <2>2. Len(e.slots_) \in Nat /\ Len(e.slots_) <= m + 1
            BY <1>6a, <1>10
        <2>3. Len(e.slots_) + o <= PAGE_SIZE
            <3> HIDE DEF m, n
            <3> QED BY <1>1, <1>2, <1>4, <2>1, <2>2
        <2> QED BY <1>10, <2>3 DEF SpacePaid
    <1>13. \A j \in DOMAIN pg.slots_ :
              Live(pg, j) => Span(o, n) \intersect SpanOf(pg, j) = {}
        <2> SUFFICES ASSUME NEW j \in DOMAIN pg.slots_, Live(pg, j), NEW b \in Span(o, n),
                            b \in SpanOf(pg, j)
                     PROVE  FALSE
            OBVIOUS
        <2>1. b \in pg.free_space_pointer_ .. (PAGE_SIZE - 1)
            BY DEF LayoutSoundOf
        <2> QED BY <1>1, <1>2, <1>4, <2>1 DEF Span
    <1>14. Overwrites(pg, e, i, t, o)
        <2>1. DOMAIN pg.slots_ \subseteq DOMAIN e.slots_
            <3>1. Len(slots) \in Nat /\ m <= Len(slots)
                BY <1>6a
            <3>2. 1 .. m \subseteq 1 .. Len(slots)
                <4> HIDE DEF m
                <4> QED BY <1>2, <3>1
            <3> QED BY <1>2, <1>6, <1>10, <3>2
        <2>2. e.free_space_pointer_ <= pg.free_space_pointer_
            BY <1>1, <1>2, <1>4, <1>10
        <2>3. e.free_space_pointer_ <= o
            BY <1>4, <1>10
        <2>4. o + LengthOf[t] <= PAGE_SIZE
            BY <1>2, <1>4
        <2>5. \A j \in DOMAIN e.slots_ : j # i => j \in DOMAIN pg.slots_ /\ e.slots_[j] = pg.slots_[j]
            BY <1>2, <1>6, <1>10
        <2> QED BY <1>2, <1>6, <1>10, <1>11, <1>13, <2>1, <2>2, <2>3, <2>4, <2>5
            DEF Overwrites, bytes
    <1> QED BY <1>4, <1>10, <1>12, <1>14 DEF o, e

-----------------------------------------------------------------------------
(***************************************************************************)
(* What an operation on slot i may do to a page: it stays sound, its links *)
(* stay, and every other slot keeps its tuple.                             *)
(***************************************************************************)
Keeps(pg, e, i) ==
    /\ e \in PageType
    /\ LayoutSoundOf(e)
    /\ SpacePaid(e)
    /\ SameLinks(pg, e)
    /\ \A j : j # i => (Live(e, j) <=> Live(pg, j))
    /\ \A j : \A u \in Tuples : j # i /\ Content(pg, j, u) => Content(e, j, u)

\* InsertTuple into a page with room.
LEMMA InsertEffect ==
    ASSUME NEW pg \in PageType, LayoutSoundOf(pg), SpacePaid(pg), NEW t \in Tuples,
           InsertFits(pg, t)
    PROVE  /\ Keeps(pg, InsertTuple(pg, t), TargetSlot(pg))
           /\ Content(InsertTuple(pg, t), TargetSlot(pg), t)
    <1> DEFINE i == TargetSlot(pg)
               o == pg.free_space_pointer_ - LengthOf[t]
    <1>1. i \in 1 .. (Len(pg.slots_) + 1)
        BY TargetSlotFacts
    <1>2. /\ pg.free_space_pointer_ >= Boundary(pg)
          /\ Room(pg) >= IF i <= Len(pg.slots_) THEN LengthOf[t] ELSE LengthOf[t] + SlotSize
        BY DEF InsertFits, NeededSpace
    <1> HIDE DEF i
    <1>3. /\ Overwrites(pg, Place(pg, i, t), i, t, o)
          /\ o \in Nat
          /\ SpacePaid(Place(pg, i, t))
          /\ SameLinks(pg, Place(pg, i, t))
        BY <1>1, <1>2, PlaceEffect
    <1>4. Place(pg, i, t) \in PageType
        BY <1>3 DEF Overwrites
    <1> HIDE DEF o
    <1>5. Keeps(pg, Place(pg, i, t), i) /\ Content(Place(pg, i, t), i, t)
        BY <1>3, <1>4, OverwriteEffect DEF Keeps
    <1> QED BY <1>5 DEF InsertTuple, i

\* UpdateTuple, within the span the slot has or relocated.
LEMMA UpdateEffect ==
    ASSUME NEW pg \in PageType, LayoutSoundOf(pg), SpacePaid(pg), NEW t \in Tuples,
           NEW i, Live(pg, i), UpdateFits(pg, i, t)
    PROVE  /\ Keeps(pg, UpdateTuple(pg, i, t), i)
           /\ Content(UpdateTuple(pg, i, t), i, t)
    <1> DEFINE m == Len(pg.slots_)
               e == UpdateTuple(pg, i, t)
               n == LengthOf[t]
    <1>1. /\ m \in Nat
          /\ DOMAIN pg.slots_ = 1 .. m
          /\ i \in 1 .. m
          /\ pg.slots_ \in Seq(SlotType)
          /\ pg.slots_[i] \in SlotType
          /\ pg.slots_[i].offset \in Nat
          /\ pg.slots_[i].length \in Nat
          /\ pg.free_space_pointer_ \in Nat
          /\ pg.bytes \in [0 .. (PAGE_SIZE - 1) -> ByteType]
          /\ PAGE_SIZE \in Nat
        BY PageFields DEF Live
    <1>2. n \in Nat /\ n >= 1
        BY LengthType
    <1>3. CASE UpdateInPlace(pg, i, t)
        <2> DEFINE o == pg.slots_[i].offset
                   slot == [offset |-> o, length |-> n]
                   slots == [pg.slots_ EXCEPT ![i] = slot]
                   bytes == Serialize(pg.bytes, o, t)
        <2>1. n <= pg.slots_[i].length
            BY <1>3 DEF UpdateInPlace
        <2>2. /\ pg.free_space_pointer_ <= o
              /\ o + pg.slots_[i].length <= PAGE_SIZE
            <3>1. Span(o, pg.slots_[i].length) \subseteq pg.free_space_pointer_ .. (PAGE_SIZE - 1)
                BY <1>1 DEF LayoutSoundOf, SpanOf
            <3>2. /\ o \in Span(o, pg.slots_[i].length)
                  /\ o + pg.slots_[i].length - 1 \in Span(o, pg.slots_[i].length)
                BY <1>1, <1>2, <2>1 DEF Span
            <3>3. /\ o \in pg.free_space_pointer_ .. (PAGE_SIZE - 1)
                  /\ o + pg.slots_[i].length - 1 \in pg.free_space_pointer_ .. (PAGE_SIZE - 1)
                BY <3>1, <3>2
            <3> QED BY <1>1, <3>3
        <2>3. [pg.slots_[i] EXCEPT !.length = n] = slot
            BY <1>1 DEF SlotType
        <2>4. e = [pg EXCEPT !.bytes = bytes, !.slots_ = slots]
            <3>1. e = [pg EXCEPT !.bytes = bytes,
                                 !.slots_ = [pg.slots_ EXCEPT ![i] = [pg.slots_[i] EXCEPT !.length = n]]]
                BY <1>1, <1>3 DEF UpdateTuple, PageType
            <3> QED BY <2>3, <3>1
        <2>5. slot \in SlotType
            BY <1>1, <1>2, <2>1 DEF SlotType
        <2>6. /\ slots \in Seq(SlotType)
              /\ Len(slots) = m
              /\ \A j \in 1 .. m : slots[j] = IF j = i THEN slot ELSE pg.slots_[j]
            <3> HIDE DEF slot
            <3> QED BY <1>1, <2>5, ExceptSeq
        <2>7. DOMAIN slots = 1 .. m
            BY <2>6, LenProperties
        <2>8. bytes \in [0 .. (PAGE_SIZE - 1) -> ByteType]
            BY <1>1, SerializeType
        <2> HIDE DEF slots, bytes, e
        <2>9. /\ e \in PageType
              /\ e.slots_ = slots
              /\ e.bytes = bytes
              /\ e.free_space_pointer_ = pg.free_space_pointer_
              /\ SameLinks(pg, e)
            BY <2>4, <2>6, <2>8 DEF PageType, SlotType, ByteType, SameLinks
        <2>10. Boundary(e) <= e.free_space_pointer_ /\ SpacePaid(e)
            BY <2>6, <2>9 DEF Boundary, LayoutSoundOf, SpacePaid
        <2>11. ASSUME NEW j \in DOMAIN pg.slots_, j # i, Live(pg, j)
               PROVE  Span(o, n) \intersect SpanOf(pg, j) = {}
            <3>1. SpanOf(pg, i) \intersect SpanOf(pg, j) = {}
                BY <1>1, <2>11 DEF LayoutSoundOf
            <3>2. Span(o, n) \subseteq SpanOf(pg, i)
                BY <1>1, <1>2, <2>1 DEF Span, SpanOf
            <3> QED BY <3>1, <3>2
        <2>12. o + n <= PAGE_SIZE
            BY <1>1, <1>2, <2>1, <2>2
        <2>13. Overwrites(pg, e, i, t, o)
            BY <1>1, <2>2, <2>6, <2>7, <2>9, <2>10, <2>11, <2>12 DEF Overwrites, bytes
        <2>14. o \in Nat
            BY <1>1
        <2> HIDE DEF o
        <2> QED BY <2>9, <2>10, <2>13, <2>14, OverwriteEffect DEF Keeps, e
    <1>4. CASE ~UpdateInPlace(pg, i, t)
        <2> DEFINE o == pg.free_space_pointer_ - LengthOf[t]
        <2>1. /\ pg.free_space_pointer_ >= Boundary(pg)
              /\ Room(pg) >= n
              /\ e = Place(pg, i, t)
            BY <1>4 DEF UpdateFits, UpdateTuple
        <2>2. i \in 1 .. (m + 1) /\ i <= m
            BY <1>1
        <2>3. Room(pg) >= IF i <= m THEN n ELSE n + SlotSize
            BY <2>1, <2>2
        <2>4. /\ Overwrites(pg, Place(pg, i, t), i, t, o)
              /\ o \in Nat
              /\ SpacePaid(Place(pg, i, t))
              /\ SameLinks(pg, Place(pg, i, t))
            BY <2>1, <2>2, <2>3, PlaceEffect
        <2>5. Place(pg, i, t) \in PageType
            BY <2>4 DEF Overwrites
        <2> HIDE DEF o, e
        <2> QED BY <2>1, <2>4, <2>5, OverwriteEffect DEF Keeps, e
    <1> QED BY <1>3, <1>4

\* DeleteTuple leaves a tombstone.
LEMMA DeleteEffect ==
    ASSUME NEW pg \in PageType, LayoutSoundOf(pg), SpacePaid(pg), NEW i, Live(pg, i)
    PROVE  /\ Keeps(pg, DeleteTuple(pg, i), i)
           /\ ~Live(DeleteTuple(pg, i), i)
    <1> DEFINE m == Len(pg.slots_)
               e == DeleteTuple(pg, i)
               slots == [pg.slots_ EXCEPT ![i] = Tombstone]
    <1>1. /\ m \in Nat
          /\ DOMAIN pg.slots_ = 1 .. m
          /\ i \in 1 .. m
          /\ pg.slots_ \in Seq(SlotType)
        BY PageFields DEF Live
    <1>2. Tombstone \in SlotType /\ Tombstone.length = 0
        BY TupleAssumption DEF Tombstone, SlotType
    <1>3. /\ slots \in Seq(SlotType)
          /\ Len(slots) = m
          /\ \A j \in 1 .. m : slots[j] = IF j = i THEN Tombstone ELSE pg.slots_[j]
        BY <1>1, <1>2, ExceptSeq
    <1>4. DOMAIN slots = 1 .. m
        BY <1>3, LenProperties
    <1>5. e = [pg EXCEPT !.slots_ = slots]
        BY DEF DeleteTuple, PageType
    <1> HIDE DEF slots, e
    <1>6. /\ e \in PageType
          /\ e.slots_ = slots
          /\ e.bytes = pg.bytes
          /\ e.free_space_pointer_ = pg.free_space_pointer_
          /\ SameLinks(pg, e)
        BY <1>3, <1>5 DEF PageType, SlotType, SameLinks
    <1>7. Boundary(e) <= e.free_space_pointer_ /\ SpacePaid(e)
        BY <1>3, <1>6 DEF Boundary, LayoutSoundOf, SpacePaid
    <1>8. ~Live(e, i)
        BY <1>1, <1>2, <1>3, <1>6 DEF Live
    <1>9. /\ DOMAIN e.slots_ = DOMAIN pg.slots_
          /\ \A j \in DOMAIN pg.slots_ : j # i => e.slots_[j] = pg.slots_[j]
        BY <1>1, <1>3, <1>4, <1>6
    <1>10. \A j : j # i => (Live(e, j) <=> Live(pg, j))
        BY <1>9 DEF Live
    <1>11. \A j \in DOMAIN pg.slots_ : j # i => SpanOf(e, j) = SpanOf(pg, j)
        BY <1>9 DEF SpanOf
    <1>12. LayoutSoundOf(e)
        BY <1>6, <1>7, <1>8, <1>9, <1>10, <1>11 DEF LayoutSoundOf
    <1>13. \A j : \A u \in Tuples : j # i /\ Content(pg, j, u) => Content(e, j, u)
        BY <1>6, <1>9, <1>10 DEF Content, Live
    <1> QED BY <1>6, <1>7, <1>8, <1>10, <1>12, <1>13 DEF Keeps, e

\* A page just initialised.
LEMMA EmptyEffect ==
    ASSUME NEW id \in HeapPages, NEW prev \in HeapPages \union {INVALID_PAGE_ID}
    PROVE  LET e == EmptyPage(id, prev) IN
           /\ e \in PageType
           /\ LayoutSoundOf(e)
           /\ SpacePaid(e)
           /\ e.page_id_ = id
           /\ e.prev_page_id_ = prev
           /\ e.next_page_id_ = INVALID_PAGE_ID
           /\ \A j : ~Live(e, j)
           /\ TargetSlot(e) = 1
    <1> DEFINE e == EmptyPage(id, prev)
    <1>1. /\ PAGE_SIZE \in Nat
          /\ HeaderSize \in Nat
          /\ SlotSize \in Nat
          /\ PAGE_SIZE >= HeaderSize
        BY TupleAssumption
    <1>2. /\ e.slots_ = << >>
          /\ e.free_space_pointer_ = PAGE_SIZE
          /\ e.page_id_ = id
          /\ e.prev_page_id_ = prev
          /\ e.next_page_id_ = INVALID_PAGE_ID
        BY DEF EmptyPage
    <1>3. e \in PageType
        <2>1. << >> \in Seq(SlotType)
            OBVIOUS
        <2>2. PAGE_SIZE \in 0 .. PAGE_SIZE
            BY <1>1
        <2>3. [b \in 0 .. (PAGE_SIZE - 1) |-> Unwritten]
                \in [0 .. (PAGE_SIZE - 1) -> ByteType]
            BY DEF ByteType
        <2> QED BY <2>1, <2>2, <2>3 DEF EmptyPage, PageType, SlotType, ByteType
    <1>4. Len(e.slots_) = 0 /\ DOMAIN e.slots_ = {}
        BY <1>2
    <1> HIDE DEF e
    <1>5. \A j : ~Live(e, j)
        BY <1>4 DEF Live
    <1>6. LayoutSoundOf(e) /\ SpacePaid(e)
        BY <1>1, <1>2, <1>4 DEF LayoutSoundOf, Boundary, SpacePaid
    <1>7. TargetSlot(e) = 1
        BY <1>4 DEF TargetSlot
    <1> QED BY <1>2, <1>3, <1>5, <1>6, <1>7 DEF e

\* A tuple in a slot is one a page can hold: its bytes lie above the header
\* and at least its own slot.
LEMMA LiveIsSmall ==
    ASSUME NEW pg \in PageType, LayoutSoundOf(pg), NEW i, NEW t \in Tuples, Content(pg, i, t)
    PROVE  ~Oversize(t)
    <1> DEFINE o == pg.slots_[i].offset
               n == LengthOf[t]
    <1>1. /\ i \in DOMAIN pg.slots_
          /\ Len(pg.slots_) \in Nat
          /\ Len(pg.slots_) >= 1
          /\ o \in Nat
          /\ pg.free_space_pointer_ \in Nat
          /\ PAGE_SIZE \in Nat
          /\ pg.slots_[i].length = n
        BY PageFields DEF Content, Live
    <1>2. n \in Nat /\ n >= 1
        BY LengthType
    <1>3. Boundary(pg) \in Nat /\ Boundary(pg) >= HeaderSize + SlotSize
        BY <1>1, BoundaryFacts
    <1>4. Boundary(pg) <= pg.free_space_pointer_
        BY DEF LayoutSoundOf
    <1>5. Span(o, n) \subseteq pg.free_space_pointer_ .. (PAGE_SIZE - 1)
        BY <1>1 DEF LayoutSoundOf, SpanOf, Content
    <1>6. o \in Span(o, n) /\ o + n - 1 \in Span(o, n)
        BY <1>1, <1>2 DEF Span
    <1>7. /\ o \in pg.free_space_pointer_ .. (PAGE_SIZE - 1)
          /\ o + n - 1 \in pg.free_space_pointer_ .. (PAGE_SIZE - 1)
        BY <1>5, <1>6
    <1> HIDE DEF o, n
    <1>8. pg.free_space_pointer_ <= o /\ o + n <= PAGE_SIZE
        BY <1>1, <1>2, <1>7
    <1>9. HeaderSize \in Nat /\ SlotSize \in Nat
        BY TupleAssumption
    <1>10. HeaderSize + SlotSize + n <= PAGE_SIZE
        BY <1>1, <1>2, <1>3, <1>4, <1>8, <1>9
    <1> QED BY <1>1, <1>2, <1>9, <1>10 DEF Oversize, n

\* What GetTuple reads from a slot is what was written to it: the first byte
\* of one tuple is not the first byte of another.
LEMMA ContentReads ==
    ASSUME NEW pg, NEW i, NEW t \in Tuples, Content(pg, i, t)
    PROVE  GetTuple(pg, i) = {t}
    <1>1. t \in GetTuple(pg, i)
        BY DEF Content, GetTuple
    <1>2. ASSUME NEW u \in GetTuple(pg, i)
          PROVE  u = t
        <2>1. u \in Tuples /\ Holds(pg.bytes, pg.slots_[i].offset, u)
            BY DEF GetTuple
        <2>2. Holds(pg.bytes, pg.slots_[i].offset, t)
            BY DEF Content
        <2>3. 0 \in 0 .. (LengthOf[t] - 1) /\ 0 \in 0 .. (LengthOf[u] - 1)
            BY <2>1, LengthType
        <2>4. <<t, 0>> = <<u, 0>>
            BY <2>1, <2>2, <2>3 DEF Holds
        <2> QED BY <2>4
    <1> QED BY <1>1, <1>2

-----------------------------------------------------------------------------
(***************************************************************************)
(* The heap.                                                               *)
(***************************************************************************)
\* A step that changes slot i of page p, and tells the caller so.
LEMMA OnePageStep ==
    ASSUME IInv,
           NEW p \in DOMAIN heap, NEW i, NEW e, NEW v,
           Keeps(heap[p], e, i),
           \/ v \in Tuples /\ Content(e, i, v)
           \/ v = NoTuple /\ ~Live(e, i),
           heap' = [heap EXCEPT ![p] = e],
           table' = [table EXCEPT ![<<p, i>>] = v],
           UNCHANGED <<first_page_id_, chain>>
    PROVE  IInv'
    <1>1. TypeOK
        BY DEF IInv, LayoutSound
    <1>2. /\ DOMAIN heap' = DOMAIN heap
          /\ heap'[p] = e
          /\ \A q \in DOMAIN heap : q # p => heap'[q] = heap[q]
        OBVIOUS
    <1>3. /\ e \in PageType
          /\ LayoutSoundOf(e)
          /\ SpacePaid(e)
          /\ SameLinks(heap[p], e)
          /\ \A j : j # i => (Live(e, j) <=> Live(heap[p], j))
          /\ \A j : \A u \in Tuples : j # i /\ Content(heap[p], j, u) => Content(e, j, u)
        BY DEF Keeps
    <1>4. table' \in [Rids -> Tuples \union {NoTuple}]
        BY <1>1 DEF TypeOK
    <1>5. TypeOK'
        <2>1. \A q \in DOMAIN heap : heap'[q] \in PageType /\ heap'[q].page_id_ = q
            BY <1>1, <1>2, <1>3 DEF TypeOK, SameLinks
        <2> QED BY <1>1, <1>2, <1>4, <2>1 DEF TypeOK
    <1>6. LayoutSound'
        BY <1>2, <1>3, <1>5 DEF IInv, LayoutSound
    <1>7. \A q \in DOMAIN heap' : SpacePaid(heap'[q])
        BY <1>2, <1>3 DEF IInv
    <1>8. ChainSound'
        <2>1. \A q \in DOMAIN heap : /\ heap'[q].next_page_id_ = heap[q].next_page_id_
                                       /\ heap'[q].prev_page_id_ = heap[q].prev_page_id_
            BY <1>2, <1>3 DEF SameLinks
        <2>2. \A k \in DOMAIN chain : chain[k] \in DOMAIN heap
            BY DEF IInv, ChainSound
        <2> QED BY <1>2, <2>1, <2>2 DEF IInv, ChainSound
    <1>9. RowsKept'
        <2> SUFFICES ASSUME NEW r \in Rids
                     PROVE  IF r[1] \in DOMAIN heap' /\ Live(heap'[r[1]], r[2])
                            THEN table'[r] \in Tuples /\ Content(heap'[r[1]], r[2], table'[r])
                            ELSE table'[r] = NoTuple \/ (table'[r] \in Tuples /\ Oversize(table'[r]))
            BY DEF RowsKept, LiveRid
        <2>1. IF r[1] \in DOMAIN heap /\ Live(heap[r[1]], r[2])
              THEN table[r] \in Tuples /\ Content(heap[r[1]], r[2], table[r])
              ELSE table[r] = NoTuple \/ (table[r] \in Tuples /\ Oversize(table[r]))
            BY DEF IInv, RowsKept, LiveRid
        <2>2. r = <<r[1], r[2]>>
            BY DEF Rids
        <2>3. CASE r = <<p, i>>
            <3>1. r[1] = p /\ r[2] = i /\ table'[r] = v
                BY <1>1, <2>3 DEF TypeOK
            <3>2. Content(e, i, v) => Live(e, i)
                BY DEF Content
            <3> QED BY <1>2, <3>1, <3>2
        <2>4. CASE r # <<p, i>> /\ r[1] = p
            <3>1. r[2] # i /\ table'[r] = table[r]
                BY <1>1, <2>2, <2>4 DEF TypeOK
            <3>2. Live(e, r[2]) <=> Live(heap[p], r[2])
                BY <1>3, <3>1
            <3>3. table[r] \in Tuples /\ Content(heap[p], r[2], table[r])
                    => Content(e, r[2], table[r])
                BY <1>3, <3>1
            <3> QED BY <1>2, <2>1, <2>4, <3>1, <3>2, <3>3
        <2>5. CASE r[1] # p
            <3>1. r # <<p, i>>
                BY <2>5
            <3>2. table'[r] = table[r]
                BY <1>1, <3>1 DEF TypeOK
            <3> QED BY <1>2, <2>1, <2>5, <3>2
        <2> QED BY <2>3, <2>4, <2>5
    <1> QED BY <1>6, <1>7, <1>8, <1>9 DEF IInv

\* What IInv says of one page.
LEMMA PageSound ==
    ASSUME IInv, NEW p \in DOMAIN heap
    PROVE  heap[p] \in PageType /\ LayoutSoundOf(heap[p]) /\ SpacePaid(heap[p]) /\ p \in HeapPages
    BY DEF IInv, LayoutSound, TypeOK

LEMMA InsertHereStep ==
    ASSUME IInv, NEW t \in Tuples, InsertTupleHere(t)
    PROVE  IInv'
    <1>1. PICK n \in 0 .. Len(chain) :
            /\ InsertHere(n, t)
            /\ heap' = [heap EXCEPT ![Walk[n]] = InsertTuple(@, t)]
            /\ table' = [table EXCEPT ![<<Walk[n], TargetSlot(heap[Walk[n]])>>] = t]
        BY DEF InsertTupleHere
    <1> DEFINE p == Walk[n]
    <1>2. p \in DOMAIN heap /\ InsertFits(heap[p], t)
        BY <1>1 DEF InsertHere, Visited
    <1>3. UNCHANGED <<first_page_id_, chain>>
        BY DEF InsertTupleHere
    <1>4. /\ heap' = [heap EXCEPT ![p] = InsertTuple(heap[p], t)]
          /\ table' = [table EXCEPT ![<<p, TargetSlot(heap[p])>>] = t]
        BY <1>1
    <1> HIDE DEF p
    <1>5. /\ Keeps(heap[p], InsertTuple(heap[p], t), TargetSlot(heap[p]))
          /\ Content(InsertTuple(heap[p], t), TargetSlot(heap[p]), t)
        BY <1>2, PageSound, InsertEffect
    <1> QED BY <1>2, <1>3, <1>4, <1>5, OnePageStep

LEMMA UpdateStep ==
    ASSUME IInv, NEW r \in Rids, NEW t \in Tuples, HeapUpdateTuple(r, t)
    PROVE  IInv'
    <1> DEFINE p == r[1]
               i == r[2]
    <1>1. r = <<p, i>>
        BY DEF Rids
    <1>2. /\ p \in DOMAIN heap
          /\ Live(heap[p], i)
          /\ UpdateFits(heap[p], i, t)
          /\ heap' = [heap EXCEPT ![p] = UpdateTuple(heap[p], i, t)]
          /\ table' = [table EXCEPT ![<<p, i>>] = t]
          /\ UNCHANGED <<first_page_id_, chain>>
        BY <1>1 DEF HeapUpdateTuple
    <1> HIDE DEF p, i
    <1>3. /\ Keeps(heap[p], UpdateTuple(heap[p], i, t), i)
          /\ Content(UpdateTuple(heap[p], i, t), i, t)
        BY <1>2, PageSound, UpdateEffect
    <1> QED BY <1>2, <1>3, OnePageStep

LEMMA DeleteStep ==
    ASSUME IInv, NEW r \in Rids, HeapDeleteTuple(r)
    PROVE  IInv'
    <1> DEFINE p == r[1]
               i == r[2]
    <1>1. r = <<p, i>>
        BY DEF Rids
    <1>2. /\ p \in DOMAIN heap
          /\ Live(heap[p], i)
          /\ heap' = [heap EXCEPT ![p] = DeleteTuple(heap[p], i)]
          /\ table' = [table EXCEPT ![<<p, i>>] = NoTuple]
          /\ UNCHANGED <<first_page_id_, chain>>
        BY <1>1 DEF HeapDeleteTuple
    <1> HIDE DEF p, i
    <1>3. /\ Keeps(heap[p], DeleteTuple(heap[p], i), i)
          /\ ~Live(DeleteTuple(heap[p], i), i)
        BY <1>2, PageSound, DeleteEffect
    <1> QED BY <1>2, <1>3, OnePageStep

\* Setting a page's next link touches no tuple.
LEMMA LinkEffect ==
    ASSUME NEW pg \in PageType, NEW p \in HeapPages, LayoutSoundOf(pg), SpacePaid(pg)
    PROVE  LET e == [pg EXCEPT !.next_page_id_ = p] IN
           /\ e \in PageType
           /\ LayoutSoundOf(e)
           /\ SpacePaid(e)
           /\ e.page_id_ = pg.page_id_
           /\ e.prev_page_id_ = pg.prev_page_id_
           /\ e.next_page_id_ = p
           /\ \A j : Live(e, j) <=> Live(pg, j)
           /\ \A j : \A u \in Tuples : Content(pg, j, u) => Content(e, j, u)
    <1> DEFINE e == [pg EXCEPT !.next_page_id_ = p]
    <1>1. /\ e \in PageType
          /\ e.slots_ = pg.slots_
          /\ e.bytes = pg.bytes
          /\ e.free_space_pointer_ = pg.free_space_pointer_
          /\ e.page_id_ = pg.page_id_
          /\ e.prev_page_id_ = pg.prev_page_id_
          /\ e.next_page_id_ = p
        BY DEF PageType
    <1> HIDE DEF e
    <1>2. /\ \A j : Live(e, j) <=> Live(pg, j)
          /\ \A j : SpanOf(e, j) = SpanOf(pg, j)
        BY <1>1 DEF Live, SpanOf
    <1>3. LayoutSoundOf(e) /\ SpacePaid(e)
        BY <1>1, <1>2 DEF LayoutSoundOf, Boundary, SpacePaid
    <1>4. \A j : \A u \in Tuples : Content(pg, j, u) => Content(e, j, u)
        BY <1>1, <1>2 DEF Content
    <1> QED BY <1>1, <1>2, <1>3, <1>4 DEF e

\* The page appended to the heap: t in its first slot, or nothing at all when
\* no page can hold t.
Appended(p, w, t) ==
    IF InsertFits(EmptyPage(p, w), t) THEN InsertTuple(EmptyPage(p, w), t) ELSE EmptyPage(p, w)

LEMMA NewPageEffect ==
    ASSUME NEW p \in HeapPages, NEW w \in HeapPages, NEW t \in Tuples
    PROVE  LET e == Appended(p, w, t) IN
           /\ e \in PageType
           /\ LayoutSoundOf(e)
           /\ SpacePaid(e)
           /\ e.page_id_ = p
           /\ e.prev_page_id_ = w
           /\ e.next_page_id_ = INVALID_PAGE_ID
           /\ IF InsertFits(EmptyPage(p, w), t)
              THEN /\ TargetSlot(EmptyPage(p, w)) = 1
                   /\ Content(e, 1, t)
                   /\ \A j : j # 1 => ~Live(e, j)
              ELSE /\ Oversize(t)
                   /\ \A j : ~Live(e, j)
    <1> DEFINE new == EmptyPage(p, w)
               e == Appended(p, w, t)
    <1>1. /\ new \in PageType
          /\ LayoutSoundOf(new)
          /\ SpacePaid(new)
          /\ new.page_id_ = p
          /\ new.prev_page_id_ = w
          /\ new.next_page_id_ = INVALID_PAGE_ID
          /\ \A j : ~Live(new, j)
          /\ TargetSlot(new) = 1
        BY EmptyEffect
    <1>2. Len(new.slots_) = 0 /\ new.free_space_pointer_ = PAGE_SIZE
        BY DEF EmptyPage
    <1>3. /\ InsertFits(new, t) => e = InsertTuple(new, t)
          /\ ~InsertFits(new, t) => e = new
        BY DEF Appended
    <1> HIDE DEF new, e
    <1>4. CASE InsertFits(new, t)
        <2>1. Keeps(new, e, 1) /\ Content(e, 1, t)
            BY <1>1, <1>3, <1>4, InsertEffect
        <2> QED BY <1>1, <1>4, <2>1 DEF Keeps, SameLinks, new, e
    <1>5. CASE ~InsertFits(new, t)
        <2>1. /\ HeaderSize \in Nat
              /\ SlotSize \in Nat
              /\ PAGE_SIZE \in Nat
              /\ PAGE_SIZE >= HeaderSize
              /\ LengthOf[t] \in Nat
            BY TupleAssumption, LengthType
        <2>2. Boundary(new) = HeaderSize
            BY <1>2, <2>1 DEF Boundary
        <2>3. NeededSpace(new, t) = LengthOf[t] + SlotSize
            BY <1>1, <1>2 DEF NeededSpace
        <2>4. ~(PAGE_SIZE - HeaderSize >= LengthOf[t] + SlotSize)
            BY <1>2, <1>5, <2>1, <2>2, <2>3 DEF InsertFits, Room
        <2>5. Oversize(t)
            BY <2>1, <2>4 DEF Oversize
        <2> QED BY <1>1, <1>3, <1>5, <2>5 DEF new, e
    <1> QED BY <1>4, <1>5

\* A page without a successor is the last of the chain.
LEMMA LastOfChain ==
    ASSUME IInv, NEW w \in DOMAIN heap, heap[w].next_page_id_ = INVALID_PAGE_ID
    PROVE  /\ Len(chain) \in Nat /\ Len(chain) >= 1
           /\ w = chain[Len(chain)]
    <1>1. /\ chain \in Seq(HeapPages)
          /\ ChainSound
        BY DEF IInv, LayoutSound, TypeOK
    <1>2. Len(chain) \in Nat /\ DOMAIN chain = 1 .. Len(chain)
        BY <1>1, LenProperties
    <1>3. PICK k \in DOMAIN chain : w = chain[k]
        BY <1>1 DEF ChainSound
    <1>4. k = Len(chain)
        <2> SUFFICES ASSUME k # Len(chain)
                     PROVE  FALSE
            OBVIOUS
        <2>1. heap[w].next_page_id_ = chain[k + 1]
            BY <1>1, <1>3 DEF ChainSound
        <2>2. k + 1 \in 1 .. Len(chain)
            BY <1>2
        <2>3. chain[k + 1] \in HeapPages
            BY <1>1, <2>2, ElementOfSeq
        <2> QED BY <2>1, <2>3, HeapAssumption
    <1> QED BY <1>1, <1>2, <1>3, <1>4 DEF ChainSound

\* The links after page p was appended behind w, the last page.
LEMMA ChainGrows ==
    ASSUME IInv, NEW w \in DOMAIN heap, heap[w].next_page_id_ = INVALID_PAGE_ID,
           NEW p \in HeapPages \ DOMAIN heap,
           DOMAIN heap' = DOMAIN heap \union {p},
           heap'[p].prev_page_id_ = w,
           heap'[p].next_page_id_ = INVALID_PAGE_ID,
           heap'[w].next_page_id_ = p,
           heap'[w].prev_page_id_ = heap[w].prev_page_id_,
           \A q \in DOMAIN heap : q # w => heap'[q] = heap[q],
           chain' = Append(chain, p),
           first_page_id_' = first_page_id_
    PROVE  ChainSound'
    <1> DEFINE L == Len(chain)
    <1>1. /\ L \in Nat
          /\ L >= 1
          /\ w = chain[L]
        BY LastOfChain
    <1>2. /\ chain \in Seq(HeapPages)
          /\ ChainSound
        BY DEF IInv, LayoutSound, TypeOK
    <1>3. DOMAIN chain = 1 .. L
        BY <1>2, LenProperties
    <1>4. /\ chain' \in Seq(HeapPages)
          /\ Len(chain') = L + 1
          /\ \A k \in 1 .. L : chain'[k] = chain[k]
          /\ chain'[L + 1] = p
        BY <1>2, AppendProperties
    <1>5. DOMAIN chain' = 1 .. (L + 1)
        BY <1>4, LenProperties
    <1>6. \A k \in 1 .. L : chain[k] \in DOMAIN heap /\ chain[k] # p
        BY <1>2, <1>3 DEF ChainSound
    <1> HIDE DEF L
    <1>7. 1 .. (L + 1) = (1 .. L) \union {L + 1}
        BY <1>1
    <1>8. Len(chain') >= 1 /\ chain'[1] = first_page_id_'
        <2>1. 1 \in 1 .. L
            BY <1>1
        <2> QED BY <1>1, <1>2, <1>4, <2>1 DEF ChainSound
    <1>9. DOMAIN heap' = {chain'[k] : k \in DOMAIN chain'}
        <2>1. DOMAIN heap = {chain[k] : k \in 1 .. L}
            BY <1>2, <1>3 DEF ChainSound
        <2>2. \A q \in DOMAIN heap : \E k \in 1 .. (L + 1) : q = chain'[k]
            BY <1>4, <1>7, <2>1
        <2>3. \E k \in 1 .. (L + 1) : p = chain'[k]
            BY <1>4, <1>7
        <2>4. \A k \in 1 .. (L + 1) : chain'[k] \in DOMAIN heap \union {p}
            BY <1>4, <1>6, <1>7
        <2>5. DOMAIN heap \union {p} = {chain'[k] : k \in 1 .. (L + 1)}
            <3> DEFINE C == {chain'[k] : k \in 1 .. (L + 1)}
            <3>1. \A x : x \in C <=> \E k \in 1 .. (L + 1) : x = chain'[k]
                BY Zenon
            <3> HIDE DEF C
            <3>2. \A x : x \in C <=> x \in DOMAIN heap \union {p}
                <4>1. ASSUME NEW x \in C
                      PROVE  x \in DOMAIN heap \union {p}
                    <5>1. PICK k \in 1 .. (L + 1) : x = chain'[k]
                        BY <3>1
                    <5>2. chain'[k] \in DOMAIN heap \union {p}
                        BY <2>4
                    <5> QED BY <5>1, <5>2
                <4>2. ASSUME NEW x \in DOMAIN heap
                      PROVE  x \in C
                    BY <2>2, <3>1
                <4>3. p \in C
                    BY <2>3, <3>1
                <4> QED BY <4>1, <4>2, <4>3
            <3>3. C = DOMAIN heap \union {p}
                BY <3>2
            <3> QED BY <3>3 DEF C
        <2> QED BY <1>5, <2>5
    <1>10. ASSUME NEW k \in 1 .. (L + 1)
           PROVE  /\ heap'[chain'[k]].next_page_id_ =
                        IF k = L + 1 THEN INVALID_PAGE_ID ELSE chain'[k + 1]
                  /\ heap'[chain'[k]].prev_page_id_ =
                        IF k = 1 THEN INVALID_PAGE_ID ELSE chain'[k - 1]
        <2>1. CASE k = L + 1
            <3>1. chain'[k] = p /\ k # 1 /\ k - 1 = L /\ L \in 1 .. L
                BY <1>1, <1>4, <2>1
            <3>2. chain'[k - 1] = w
                BY <1>1, <1>4, <3>1
            <3> QED BY <2>1, <3>1, <3>2
        <2>2. CASE k \in 1 .. L
            <3>1. /\ chain'[k] = chain[k]
                  /\ k # L + 1
                  /\ chain[k] \in DOMAIN heap
                BY <1>1, <1>4, <1>6, <2>2
            <3>2. /\ heap[chain[k]].next_page_id_ = IF k = L THEN INVALID_PAGE_ID ELSE chain[k + 1]
                  /\ heap[chain[k]].prev_page_id_ = IF k = 1 THEN INVALID_PAGE_ID ELSE chain[k - 1]
                BY <1>2, <1>3, <2>2 DEF ChainSound, L
            <3>3. k # 1 => chain'[k - 1] = chain[k - 1]
                <4>1. k # 1 => k - 1 \in 1 .. L
                    BY <1>1, <2>2
                <4> QED BY <1>4, <4>1
            <3>4. CASE k = L
                BY <1>1, <1>4, <3>1, <3>2, <3>3, <3>4
            <3>5. CASE k # L
                <4>1. L \in 1 .. L /\ k + 1 \in 1 .. L
                    BY <1>1, <2>2, <3>5
                <4>2. chain[k] # w
                    BY <1>1, <1>2, <1>3, <2>2, <3>5, <4>1 DEF ChainSound
                <4>3. heap'[chain[k]] = heap[chain[k]]
                    BY <3>1, <4>2
                <4>4. chain'[k + 1] = chain[k + 1]
                    BY <1>4, <4>1
                <4> QED BY <3>1, <3>2, <3>3, <3>5, <4>3, <4>4
            <3> QED BY <3>4, <3>5
        <2> QED BY <1>7, <2>1, <2>2
    <1>11. ASSUME NEW j \in 1 .. (L + 1), NEW k \in 1 .. (L + 1), chain'[j] = chain'[k]
           PROVE  j = k
        <2>1. CASE j \in 1 .. L /\ k \in 1 .. L
            BY <1>2, <1>3, <1>4, <1>11, <2>1 DEF ChainSound
        <2>2. CASE j = L + 1
            BY <1>4, <1>6, <1>7, <1>11, <2>2
        <2>3. CASE k = L + 1
            BY <1>4, <1>6, <1>7, <1>11, <2>3
        <2> QED BY <1>7, <2>1, <2>2, <2>3
    <1>12. \A k \in DOMAIN chain' :
            /\ heap'[chain'[k]].next_page_id_ =
                  IF k = Len(chain') THEN INVALID_PAGE_ID ELSE chain'[k + 1]
            /\ heap'[chain'[k]].prev_page_id_ =
                  IF k = 1 THEN INVALID_PAGE_ID ELSE chain'[k - 1]
        BY <1>4, <1>5, <1>10
    <1>13. \A j, k \in DOMAIN chain' : chain'[j] = chain'[k] => j = k
        BY <1>5, <1>11
    <1> QED BY <1>8, <1>9, <1>12, <1>13 DEF ChainSound

\* The whole of InsertTupleAppends: the new page, the link to it, the row.
LEMMA AppendsStep ==
    ASSUME IInv, NEW t \in Tuples, InsertTupleAppends(t)
    PROVE  IInv'
    <1>1. PICK p \in HeapPages \ DOMAIN heap, n \in Visited, slot \in 1 .. MaxSlots :
            /\ heap[Walk[n]].next_page_id_ = INVALID_PAGE_ID
            /\ LET new == EmptyPage(p, Walk[n])
                   kept == [heap EXCEPT ![Walk[n]].next_page_id_ = p]
               IN  IF InsertFits(new, t)
                   THEN /\ slot = TargetSlot(new)
                        /\ heap' = [q \in DOMAIN heap \union {p} |->
                                      IF q = p THEN InsertTuple(new, t) ELSE kept[q]]
                   ELSE heap' = [q \in DOMAIN heap \union {p} |->
                                   IF q = p THEN new ELSE kept[q]]
            /\ table' = [table EXCEPT ![<<p, slot>>] = t]
            /\ chain' = Append(chain, p)
        BY DEF InsertTupleAppends
    <1> DEFINE w == Walk[n]
               new == EmptyPage(p, w)
               e == Appended(p, w, t)
               linked == [heap[w] EXCEPT !.next_page_id_ = p]
    <1>2. w \in DOMAIN heap
        BY DEF Visited
    <1>3. first_page_id_' = first_page_id_
        BY DEF InsertTupleAppends
    <1>4. /\ heap[w].next_page_id_ = INVALID_PAGE_ID
          /\ InsertFits(new, t) => slot = TargetSlot(new)
          /\ heap' = [q \in DOMAIN heap \union {p} |->
                        IF q = p THEN e ELSE [heap EXCEPT ![w].next_page_id_ = p][q]]
          /\ table' = [table EXCEPT ![<<p, slot>>] = t]
          /\ chain' = Append(chain, p)
        BY <1>1 DEF Appended
    <1> HIDE DEF w
    <1>6. TypeOK
        BY DEF IInv, LayoutSound
    <1>7. w \in HeapPages /\ p \in HeapPages /\ w # p
        BY <1>2, <1>6 DEF TypeOK
    <1>8. /\ e \in PageType
          /\ LayoutSoundOf(e)
          /\ SpacePaid(e)
          /\ e.page_id_ = p
          /\ e.prev_page_id_ = w
          /\ e.next_page_id_ = INVALID_PAGE_ID
          /\ IF InsertFits(new, t)
             THEN /\ TargetSlot(new) = 1
                  /\ Content(e, 1, t)
                  /\ \A j : j # 1 => ~Live(e, j)
             ELSE /\ Oversize(t)
                  /\ \A j : ~Live(e, j)
        BY <1>7, NewPageEffect
    <1> HIDE DEF e
    <1>9. /\ linked \in PageType
          /\ LayoutSoundOf(linked)
          /\ SpacePaid(linked)
          /\ linked.page_id_ = heap[w].page_id_
          /\ linked.prev_page_id_ = heap[w].prev_page_id_
          /\ linked.next_page_id_ = p
          /\ \A j : Live(linked, j) <=> Live(heap[w], j)
          /\ \A j : \A u \in Tuples : Content(heap[w], j, u) => Content(linked, j, u)
        BY <1>2, PageSound, LinkEffect
    <1>10. /\ DOMAIN heap' = DOMAIN heap \union {p}
           /\ heap'[p] = e
           /\ heap'[w] = linked
           /\ \A q \in DOMAIN heap : q # w => heap'[q] = heap[q]
        BY <1>2, <1>4, <1>7
    <1> HIDE DEF linked, new
    <1>11. /\ chain \in Seq(HeapPages)
           /\ chain' \in Seq(HeapPages)
           /\ table' \in [Rids -> Tuples \union {NoTuple}]
        BY <1>4, <1>6, AppendProperties DEF TypeOK
    <1>12. TypeOK'
        <2>1. \A q \in DOMAIN heap' : heap'[q] \in PageType /\ heap'[q].page_id_ = q
            BY <1>2, <1>6, <1>8, <1>9, <1>10 DEF TypeOK
        <2>2. DOMAIN heap' \subseteq HeapPages /\ first_page_id_' \in DOMAIN heap'
            BY <1>3, <1>6, <1>10 DEF TypeOK
        <2> QED BY <1>11, <2>1, <2>2 DEF TypeOK
    <1>13. \A q \in DOMAIN heap' : LayoutSoundOf(heap'[q]) /\ SpacePaid(heap'[q])
        BY <1>2, <1>8, <1>9, <1>10 DEF IInv, LayoutSound
    <1>14. ChainSound'
        <2>1. /\ heap'[p].prev_page_id_ = w
              /\ heap'[p].next_page_id_ = INVALID_PAGE_ID
              /\ heap'[w].next_page_id_ = p
              /\ heap'[w].prev_page_id_ = heap[w].prev_page_id_
            BY <1>8, <1>9, <1>10
        <2> QED BY <1>2, <1>3, <1>4, <1>10, <2>1, ChainGrows
    <1>15. RowsKept'
        <2> SUFFICES ASSUME NEW r \in Rids
                     PROVE  IF r[1] \in DOMAIN heap' /\ Live(heap'[r[1]], r[2])
                            THEN table'[r] \in Tuples /\ Content(heap'[r[1]], r[2], table'[r])
                            ELSE table'[r] = NoTuple \/ (table'[r] \in Tuples /\ Oversize(table'[r]))
            BY DEF RowsKept, LiveRid
        <2>1. IF r[1] \in DOMAIN heap /\ Live(heap[r[1]], r[2])
              THEN table[r] \in Tuples /\ Content(heap[r[1]], r[2], table[r])
              ELSE table[r] = NoTuple \/ (table[r] \in Tuples /\ Oversize(table[r]))
            BY DEF IInv, RowsKept, LiveRid
        <2>2. r = <<r[1], r[2]>>
            BY DEF Rids
        <2>3. r # <<p, slot>> => table'[r] = table[r]
            BY <1>4, <1>6 DEF TypeOK
        <2>4. CASE r = <<p, slot>>
            <3>1. r[1] = p /\ r[2] = slot /\ table'[r] = t
                BY <1>4, <1>6, <2>4 DEF TypeOK
            <3>2. CASE InsertFits(new, t)
                <4>1. slot = 1 /\ Content(e, 1, t) /\ Live(e, 1)
                    BY <1>4, <1>8, <3>2 DEF Content
                <4> QED BY <1>10, <3>1, <4>1
            <3>3. CASE ~InsertFits(new, t)
                BY <1>8, <1>10, <3>1, <3>3
            <3> QED BY <3>2, <3>3
        <2>5. CASE r # <<p, slot>> /\ r[1] = p
            <3>1. r[2] # slot
                BY <2>2, <2>5
            <3>2. ~Live(e, r[2])
                BY <1>4, <1>8, <3>1
            <3>3. r[1] \notin DOMAIN heap
                BY <2>5
            <3> QED BY <1>10, <2>1, <2>3, <2>5, <3>2, <3>3
        <2>6. CASE r[1] = w
            <3>1. r # <<p, slot>>
                BY <1>7, <2>6
            <3>2. Live(linked, r[2]) <=> Live(heap[w], r[2])
                BY <1>9
            <3>3. table[r] \in Tuples /\ Content(heap[w], r[2], table[r])
                    => Content(linked, r[2], table[r])
                BY <1>9
            <3> QED BY <1>2, <1>10, <2>1, <2>3, <2>6, <3>1, <3>2, <3>3
        <2>7. CASE r[1] # p /\ r[1] # w
            <3>1. r # <<p, slot>>
                BY <2>7
            <3> QED BY <1>10, <2>1, <2>3, <2>7, <3>1
        <2> QED BY <2>4, <2>5, <2>6, <2>7
    <1> QED BY <1>12, <1>13, <1>14, <1>15 DEF IInv, LayoutSound

-----------------------------------------------------------------------------
(***************************************************************************)
(* Theorems.                                                               *)
(***************************************************************************)
LEMMA InitEstablishes == Init => IInv
    <1> SUFFICES ASSUME Init
                 PROVE  IInv
        OBVIOUS
    <1>1. PICK p \in HeapPages :
            /\ heap = [q \in {p} |-> EmptyPage(p, INVALID_PAGE_ID)]
            /\ first_page_id_ = p
            /\ chain = <<p>>
            /\ table = [r \in Rids |-> NoTuple]
        BY DEF Init
    <1> DEFINE e == EmptyPage(p, INVALID_PAGE_ID)
    <1>2. /\ e \in PageType
          /\ LayoutSoundOf(e)
          /\ SpacePaid(e)
          /\ e.page_id_ = p
          /\ e.prev_page_id_ = INVALID_PAGE_ID
          /\ e.next_page_id_ = INVALID_PAGE_ID
          /\ \A j : ~Live(e, j)
        BY EmptyEffect
    <1>3. DOMAIN heap = {p} /\ heap[p] = e
        BY <1>1
    <1> HIDE DEF e
    <1>4. /\ chain \in Seq(HeapPages)
          /\ Len(chain) = 1
          /\ DOMAIN chain = {1}
          /\ chain[1] = p
        BY <1>1
    <1>5. TypeOK
        BY <1>1, <1>2, <1>3, <1>4 DEF TypeOK
    <1>6. ChainSound
        <2>1. DOMAIN heap = {chain[k] : k \in DOMAIN chain}
            BY <1>3, <1>4
        <2> QED BY <1>1, <1>2, <1>3, <1>4, <2>1 DEF ChainSound
    <1>7. RowsKept
        BY <1>1, <1>2, <1>3 DEF RowsKept, LiveRid
    <1> QED BY <1>2, <1>3, <1>5, <1>6, <1>7 DEF IInv, LayoutSound

LEMMA StepKeeps == IInv /\ [Next]_heapVars => IInv'
    <1> SUFFICES ASSUME IInv, [Next]_heapVars
                 PROVE  IInv'
        OBVIOUS
    <1>1. CASE \E t \in Tuples : InsertTupleHere(t)
        BY <1>1, InsertHereStep
    <1>2. CASE \E t \in Tuples : InsertTupleAppends(t)
        BY <1>2, AppendsStep
    <1>3. CASE \E r \in Rids, t \in Tuples : HeapUpdateTuple(r, t)
        BY <1>3, UpdateStep
    <1>4. CASE \E r \in Rids : HeapDeleteTuple(r)
        BY <1>4, DeleteStep
    <1>5. CASE UNCHANGED heapVars
        <2>1. heap' = heap /\ first_page_id_' = first_page_id_ /\ chain' = chain /\ table' = table
            BY <1>5 DEF heapVars
        <2>2. LayoutSound'
            BY <2>1 DEF IInv, LayoutSound, TypeOK
        <2>3. ChainSound'
            BY <2>1 DEF IInv, ChainSound
        <2>4. RowsKept'
            BY <2>1 DEF IInv, RowsKept, LiveRid
        <2> QED BY <2>1, <2>2, <2>3, <2>4 DEF IInv
    <1> QED BY <1>1, <1>2, <1>3, <1>4, <1>5 DEF Next

\* The inductive invariant holds in every reachable state.
THEOREM HeapInvariant == Spec => []IInv
    BY InitEstablishes, StepKeeps, PTL DEF Spec

\* InsertTuple, UpdateTuple and DeleteTuple of any tuples in any order keep
\* every page's slots below its tuples and its live tuples apart.
THEOREM HeapLayoutSound == Spec => []LayoutSound
    <1>1. IInv => LayoutSound
        BY DEF IInv
    <1> QED BY <1>1, HeapInvariant, PTL

\* slot_count_ never exceeds the 500 entries slots_ is declared with, because
\* a page runs out of bytes before it runs out of slots.
THEOREM HeapSlotArrayFits == Spec => []SlotArrayFits
    <1>1. IInv => SlotArrayFits
        BY PageSound, SlotsBounded DEF SlotArrayFits
    <1> QED BY <1>1, HeapInvariant, PTL

\* next_page_id_ and prev_page_id_ spell one list of all the heap's pages, in
\* the order InsertTuple appended them.
THEOREM HeapChainSound == Spec => []ChainSound
    <1>1. IInv => ChainSound
        BY DEF IInv
    <1> QED BY <1>1, HeapInvariant, PTL

\* GetTuple of a RID returns exactly the tuple last inserted or updated under
\* it, and nothing of a RID deleted, never used, or given out for a tuple no
\* page can hold.
THEOREM HeapRowsReadBack == Spec => []RowsReadBack
    <1>1. ASSUME IInv
          PROVE  RowsReadBack
        <2> SUFFICES ASSUME NEW r \in Rids
                     PROVE  HeapGetTuple(r) =
                              IF table[r] = NoTuple \/ Oversize(table[r]) THEN {} ELSE {table[r]}
            BY DEF RowsReadBack
        <2>1. IF LiveRid(r)
              THEN table[r] \in Tuples /\ Content(heap[r[1]], r[2], table[r])
              ELSE table[r] = NoTuple \/ (table[r] \in Tuples /\ Oversize(table[r]))
            BY <1>1 DEF IInv, RowsKept
        <2>2. CASE LiveRid(r)
            <3>1. /\ r[1] \in DOMAIN heap
                  /\ table[r] \in Tuples
                  /\ Content(heap[r[1]], r[2], table[r])
                BY <2>1, <2>2 DEF LiveRid
            <3>2. ~Oversize(table[r])
                BY <1>1, <3>1, PageSound, LiveIsSmall
            <3>3. GetTuple(heap[r[1]], r[2]) = {table[r]}
                BY <3>1, ContentReads
            <3>4. table[r] # NoTuple
                BY <3>1, HeapAssumption
            <3> QED BY <3>1, <3>2, <3>3, <3>4 DEF HeapGetTuple
        <2>3. CASE ~LiveRid(r)
            <3>1. table[r] = NoTuple \/ Oversize(table[r])
                BY <2>1, <2>3
            <3>2. HeapGetTuple(r) = {}
                BY <2>3 DEF HeapGetTuple, GetTuple, LiveRid
            <3> QED BY <3>1, <3>2
        <2> QED BY <2>2, <2>3
    <1> QED BY <1>1, HeapInvariant, PTL
=============================================================================
