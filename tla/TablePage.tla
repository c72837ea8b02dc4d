----------------------------- MODULE TablePage -----------------------------
(***************************************************************************)
(* services/storage/include/storage/table_page.hpp: a slotted page as one  *)
(* value, a record, with one operator per method.  Tuples are stored from  *)
(* the end of the page down, slots from the header up; a slot of length 0  *)
(* is a tombstone.  Space is never given back, only slots are.             *)
(*                                                                         *)
(* The bytes matter: Serialize fills LengthOf[t] cells, each with <<t, i>> *)
(* for byte i of tuple t, and Deserialize reads t back only if all of them *)
(* are still there.  GetTuple does not look at the slot's length beyond    *)
(* the tombstone test, exactly as in the code.                             *)
(***************************************************************************)
EXTENDS Integers, Sequences

CONSTANTS
    PAGE_SIZE,         \* bytes of a page: 4096
    HeaderSize,        \* bytes of the five header fields: 20
    SlotSize,          \* sizeof(Slot): 8
    MaxSlots,          \* declared size of slots_: 500
    Tuples,            \* tuples that may be stored
    LengthOf,          \* tuple -> serialized length
    INVALID_PAGE_ID

(***************************************************************************)
(* A tuple of length 0 (no columns) would be a tombstone from the start,   *)
(* so it is not a tuple here.  The page is too small for more live slots   *)
(* than slots_ declares when every one of them costs at least one byte.    *)
(***************************************************************************)
ASSUME TupleAssumption ==
    /\ HeaderSize \in Nat /\ SlotSize \in Nat /\ MaxSlots \in Nat
    /\ PAGE_SIZE \in Nat /\ PAGE_SIZE >= HeaderSize
    /\ PAGE_SIZE < HeaderSize + (SlotSize + 1) * (MaxSlots + 1)
    /\ LengthOf \in [Tuples -> Nat \ {0}]

Unwritten == <<>>

Tombstone == [offset |-> 0, length |-> 0]

\* Faulty variant: the back link not set.
EmptyPage_NoPrev(id, prev) ==
    [page_id_ |-> id, slots_ |-> <<>>, free_space_pointer_ |-> PAGE_SIZE,
     prev_page_id_ |-> INVALID_PAGE_ID, next_page_id_ |-> INVALID_PAGE_ID,
     bytes |-> [b \in 0 .. (PAGE_SIZE - 1) |-> Unwritten]]

EmptyPage(id, prev) ==
    [page_id_ |-> id, slots_ |-> <<>>, free_space_pointer_ |-> PAGE_SIZE,
     prev_page_id_ |-> prev, next_page_id_ |-> INVALID_PAGE_ID,
     bytes |-> [b \in 0 .. (PAGE_SIZE - 1) |-> Unwritten]]

-----------------------------------------------------------------------------
Span(offset, length) == offset .. (offset + length - 1)

Serialize(bytes, offset, t) ==
    [b \in DOMAIN bytes |->
        IF b \in Span(offset, LengthOf[t]) THEN <<t, b - offset>> ELSE bytes[b]]

Holds(bytes, offset, t) ==
    \A i \in 0 .. (LengthOf[t] - 1) : bytes[offset + i] = <<t, i>>

\* Faulty variant: slots are counted, not measured.
Boundary_CountsSlots(pg) == HeaderSize + Len(pg.slots_)

\* The boundary below which the header and the slots in use lie.
Boundary(pg) == HeaderSize + Len(pg.slots_) * SlotSize

Room(pg) == pg.free_space_pointer_ - Boundary(pg)

\* The first tombstone, or one past the last slot when there is none.
TargetSlot(pg) ==
    LET free == {i \in DOMAIN pg.slots_ : pg.slots_[i].length = 0}
    IN  IF free = {} THEN Len(pg.slots_) + 1
        ELSE CHOOSE i \in free : \A j \in free : i <= j

\* Faulty variant: the new slot itself is forgotten.
NeededSpace_TupleOnly(pg, t) == LengthOf[t]

NeededSpace(pg, t) ==
    IF TargetSlot(pg) <= Len(pg.slots_) THEN LengthOf[t] ELSE LengthOf[t] + SlotSize

\* InsertTuple's test, in the code's order: no underflow in the subtraction.
InsertFits(pg, t) ==
    /\ pg.free_space_pointer_ >= Boundary(pg)
    /\ Room(pg) >= NeededSpace(pg, t)

\* A tuple goes to the top of the free space and into slot i, which is an
\* existing one or the next.
Place(pg, i, t) ==
    LET offset == pg.free_space_pointer_ - LengthOf[t]
        slot == [offset |-> offset, length |-> LengthOf[t]]
    IN  [pg EXCEPT
            !.free_space_pointer_ = offset,
            !.bytes = Serialize(@, offset, t),
            !.slots_ = IF i <= Len(@) THEN [@ EXCEPT ![i] = slot] ELSE Append(@, slot)]

InsertTuple(pg, t) == Place(pg, TargetSlot(pg), t)

Live(pg, i) == i \in DOMAIN pg.slots_ /\ pg.slots_[i].length # 0

GetTuple(pg, i) ==
    {t \in Tuples : Live(pg, i) /\ Holds(pg.bytes, pg.slots_[i].offset, t)}

DeleteTuple(pg, i) == [pg EXCEPT !.slots_[i] = Tombstone]

UpdateInPlace(pg, i, t) == LengthOf[t] <= pg.slots_[i].length

UpdateFits(pg, i, t) ==
    \/ UpdateInPlace(pg, i, t)
    \/ /\ pg.free_space_pointer_ >= Boundary(pg)
       /\ Room(pg) >= LengthOf[t]

\* Faulty variant: an update in place sets the length and not the bytes.
UpdateTuple_LengthOnly(pg, i, t) ==
    IF UpdateInPlace(pg, i, t) THEN [pg EXCEPT !.slots_[i].length = LengthOf[t]]
    ELSE Place(pg, i, t)

UpdateTuple(pg, i, t) ==
    IF UpdateInPlace(pg, i, t)
    THEN [pg EXCEPT !.bytes = Serialize(@, pg.slots_[i].offset, t),
                    !.slots_[i].length = LengthOf[t]]
    ELSE Place(pg, i, t)

-----------------------------------------------------------------------------
(***************************************************************************)
(* What a sound page looks like.                                           *)
(***************************************************************************)
SpanOf(pg, i) == Span(pg.slots_[i].offset, pg.slots_[i].length)

\* Slots grow up, tuples grow down, and they never meet; live tuples lie in
\* the used part of the page and share no byte.
LayoutSoundOf(pg) ==
    /\ Boundary(pg) <= pg.free_space_pointer_
    /\ \A i \in DOMAIN pg.slots_ : Live(pg, i) =>
        SpanOf(pg, i) \subseteq pg.free_space_pointer_ .. (PAGE_SIZE - 1)
    /\ \A i, j \in DOMAIN pg.slots_ :
        i # j /\ Live(pg, i) /\ Live(pg, j) => SpanOf(pg, i) \intersect SpanOf(pg, j) = {}
=============================================================================
