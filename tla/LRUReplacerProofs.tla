------------------------- MODULE LRUReplacerProofs -------------------------
(***************************************************************************)
(* The LRU policy for any number of frames: its list and its map agree,    *)
(* the list is in order of age, and the policy is a Replacer.              *)
(*                                                                         *)
(* Agreement and age order are inductive together: a frame erased from the *)
(* middle of the list leaves the order of the others alone because the     *)
(* list names no frame twice, and a frame pushed at the back is younger    *)
(* than every frame of the list because each of those has a map entry.     *)
(***************************************************************************)
EXTENDS LRUReplacer, SequenceTheorems, FiniteSetTheorems, TLAPS

IInv == ListMatchesMap /\ ListInAgeOrder

-----------------------------------------------------------------------------
(***************************************************************************)
(* Facts about one state and about the operators.                          *)
(***************************************************************************)
\* The map is finite, so its cardinality counts.
LEMMA MapFinite ==
    ASSUME lru_map_ \subseteq FrameIds
    PROVE  IsFiniteSet(lru_map_)
    <1>1. IsFiniteSet(FrameIds)
        BY LRUAssumption, FS_Interval DEF FrameIds
    <1> QED BY <1>1, FS_Subset

\* The list is a function on its positions.
LEMMA ListFacts ==
    ASSUME TypeOK
    PROVE  /\ Len(lru_list_) \in Nat
           /\ DOMAIN lru_list_ = 1 .. Len(lru_list_)
           /\ \A i \in 1 .. Len(lru_list_) : lru_list_[i] \in FrameIds
    BY LenProperties, ElementOfSeq DEF TypeOK

\* Erasing the node at position i: the nodes before it keep their position,
\* those after it move up by one.
LEMMA EraseNodeEffect ==
    ASSUME TypeOK, NEW i \in DOMAIN lru_list_
    PROVE  LET e == EraseNode(i) IN
           /\ e \in Seq(FrameIds)
           /\ Len(e) = Len(lru_list_) - 1
           /\ \A j \in 1 .. Len(e) :
                e[j] = lru_list_[IF j < i THEN j ELSE j + 1]
    <1> DEFINE n == Len(lru_list_) - 1
               e == EraseNode(i)
    <1>1. /\ Len(lru_list_) \in Nat
          /\ i \in 1 .. Len(lru_list_)
          /\ \A j \in 1 .. Len(lru_list_) : lru_list_[j] \in FrameIds
        BY ListFacts
    <1>2. n \in Nat
        BY <1>1
    <1>3. \A j \in 1 .. n : lru_list_[IF j < i THEN j ELSE j + 1] \in FrameIds
        BY <1>1
    <1>4. e = [j \in 1 .. n |-> lru_list_[IF j < i THEN j ELSE j + 1]]
        BY DEF EraseNode
    <1>5. e \in [1 .. n -> FrameIds]
        BY <1>3, <1>4
    <1>6. e \in Seq(FrameIds) /\ Len(e) = n
        BY <1>2, <1>5, <1>4
    <1> QED BY <1>4, <1>6

\* Taking the front of the list is erasing its first node.
LEMMA TailEffect ==
    ASSUME TypeOK, lru_list_ # <<>>
    PROVE  LET e == Tail(lru_list_) IN
           /\ 1 \in DOMAIN lru_list_
           /\ e \in Seq(FrameIds)
           /\ Len(e) = Len(lru_list_) - 1
           /\ \A j \in 1 .. Len(e) :
                e[j] = lru_list_[IF j < 1 THEN j ELSE j + 1]
    <1>1. /\ Len(lru_list_) \in Nat \ {0}
          /\ DOMAIN lru_list_ = 1 .. Len(lru_list_)
        BY EmptySeq, ListFacts DEF TypeOK
    <1>2. /\ Tail(lru_list_) \in Seq(FrameIds)
          /\ Len(Tail(lru_list_)) = Len(lru_list_) - 1
          /\ \A j \in 1 .. Len(Tail(lru_list_)) : Tail(lru_list_)[j] = lru_list_[j + 1]
        BY HeadTailProperties DEF TypeOK
    <1> QED BY <1>1, <1>2

-----------------------------------------------------------------------------
(***************************************************************************)
(* The two things the operations do to the list.                           *)
(***************************************************************************)
\* A frame leaves, from wherever it stands in the list: the list and the map
\* still agree and the frames that stay keep their order.
LEMMA LeaveStep ==
    ASSUME IInv, NEW i \in DOMAIN lru_list_,
           lru_list_' \in Seq(FrameIds),
           Len(lru_list_') = Len(lru_list_) - 1,
           \A j \in 1 .. Len(lru_list_') :
                lru_list_'[j] = lru_list_[IF j < i THEN j ELSE j + 1],
           lru_map_' = lru_map_ \ {lru_list_[i]},
           older' = Forget(lru_list_[i]),
           returned' \in FrameIds \union {NoVictim}
    PROVE  /\ IInv'
           /\ {f \in FrameIds : InList(f)}' = {f \in FrameIds : InList(f)} \ {lru_list_[i]}
    <1> DEFINE n == Len(lru_list_)
               m == Len(lru_list_')
               At(j) == IF j < i THEN j ELSE j + 1
    <1>1. /\ TypeOK
          /\ \A f \in FrameIds : f \in lru_map_ <=> InList(f)
          /\ \A j, k \in DOMAIN lru_list_ : lru_list_[j] = lru_list_[k] => j = k
          /\ n = Cardinality(lru_map_)
          /\ \A j, k \in DOMAIN lru_list_ :
                j < k => <<lru_list_[j], lru_list_[k]>> \in older
        BY DEF IInv, ListMatchesMap, ListInAgeOrder, Size
    <1>2. /\ n \in Nat
          /\ DOMAIN lru_list_ = 1 .. n
          /\ i \in 1 .. n
          /\ \A j \in 1 .. n : lru_list_[j] \in FrameIds
        BY <1>1, ListFacts
    <1>3. /\ m = n - 1
          /\ m \in Nat
          /\ DOMAIN lru_list_' = 1 .. m
        BY <1>2, LenProperties
    <1>4. \A j \in 1 .. m : /\ At(j) \in 1 .. n
                            /\ At(j) # i
                            /\ lru_list_'[j] = lru_list_[At(j)]
        BY <1>2, <1>3
    <1>5. \A k \in 1 .. n : k # i => \E j \in 1 .. m : At(j) = k
        <2> SUFFICES ASSUME NEW k \in 1 .. n, k # i
                     PROVE  \E j \in 1 .. m : At(j) = k
            OBVIOUS
        <2>1. CASE k < i
            <3>1. k \in 1 .. m /\ At(k) = k
                BY <1>2, <1>3, <2>1
            <3> QED BY <3>1
        <2>2. CASE k > i
            <3>1. k - 1 \in 1 .. m /\ At(k - 1) = k
                BY <1>2, <1>3, <2>2
            <3> QED BY <3>1
        <2> QED BY <1>2, <2>1, <2>2
    <1>6. \A j, k \in 1 .. m : j < k => At(j) < At(k)
        BY <1>2, <1>3
    <1>7. \A j, k \in 1 .. m : At(j) = At(k) => j = k
        BY <1>2, <1>3
    <1> HIDE DEF n, m, At
    <1>8. \A f \in FrameIds : InList(f)' <=> InList(f) /\ f # lru_list_[i]
        <2> SUFFICES ASSUME NEW f \in FrameIds
                     PROVE  InList(f)' <=> InList(f) /\ f # lru_list_[i]
            OBVIOUS
        <2>1. InList(f)' <=> \E j \in 1 .. m : lru_list_'[j] = f
            BY <1>3 DEF InList
        <2>2. InList(f) <=> \E k \in 1 .. n : lru_list_[k] = f
            BY <1>2 DEF InList
        <2>3. ASSUME InList(f)'
              PROVE  InList(f) /\ f # lru_list_[i]
            BY <2>1, <2>2, <2>3, <1>1, <1>2, <1>4
        <2>4. ASSUME InList(f), f # lru_list_[i]
              PROVE  InList(f)'
            BY <2>1, <2>2, <2>4, <1>4, <1>5
        <2> QED BY <2>3, <2>4
    <1>9. TypeOK'
        <2>1. lru_map_' \subseteq FrameIds
            BY <1>1 DEF TypeOK
        <2>2. older' \subseteq FrameIds \X FrameIds
            BY <1>1 DEF TypeOK, Forget
        <2> QED BY <2>1, <2>2 DEF TypeOK
    <1>10. \A f \in FrameIds : f \in lru_map_' <=> InList(f)'
        BY <1>1, <1>8
    <1>11. \A j, k \in DOMAIN lru_list_' : lru_list_'[j] = lru_list_'[k] => j = k
        BY <1>1, <1>2, <1>3, <1>4, <1>7
    <1>12. Size' = Cardinality(lru_map_')
        <2>1. IsFiniteSet(lru_map_)
            BY <1>1, MapFinite DEF TypeOK
        <2>2. lru_list_[i] \in lru_map_
            BY <1>1, <1>2 DEF InList
        <2>3. Cardinality(lru_map_') = Cardinality(lru_map_) - 1
            BY <2>1, <2>2, FS_RemoveElement
        <2> QED BY <2>3, <1>1, <1>3 DEF Size, m
    <1>13. ListInAgeOrder'
        <2> SUFFICES ASSUME NEW j \in 1 .. m, NEW k \in 1 .. m, j < k
                     PROVE  <<lru_list_'[j], lru_list_'[k]>> \in older'
            BY <1>3 DEF ListInAgeOrder
        <2>1. <<lru_list_[At(j)], lru_list_[At(k)]>> \in older
            BY <1>1, <1>2, <1>4, <1>6
        <2>2. lru_list_[At(j)] # lru_list_[i] /\ lru_list_[At(k)] # lru_list_[i]
            BY <1>1, <1>2, <1>4
        <2> QED BY <2>1, <2>2, <1>4 DEF Forget
    <1>14. IInv'
        BY <1>9, <1>10, <1>11, <1>12, <1>13 DEF IInv, ListMatchesMap
    <1> QED BY <1>8, <1>14

\* A frame that is not in the list joins it at the back.
LEMMA JoinStep ==
    ASSUME IInv, NEW f \in FrameIds, Unpin(f)
    PROVE  /\ IInv'
           /\ {g \in FrameIds : InList(g)}' = {g \in FrameIds : InList(g)} \union {f}
    <1> DEFINE n == Len(lru_list_)
    <1>1. /\ TypeOK
          /\ \A g \in FrameIds : g \in lru_map_ <=> InList(g)
          /\ \A j, k \in DOMAIN lru_list_ : lru_list_[j] = lru_list_[k] => j = k
          /\ n = Cardinality(lru_map_)
          /\ \A j, k \in DOMAIN lru_list_ :
                j < k => <<lru_list_[j], lru_list_[k]>> \in older
        BY DEF IInv, ListMatchesMap, ListInAgeOrder, Size
    <1>2. /\ n \in Nat
          /\ DOMAIN lru_list_ = 1 .. n
          /\ \A j \in 1 .. n : lru_list_[j] \in FrameIds
        BY <1>1, ListFacts
    <1>3. /\ f \notin lru_map_
          /\ lru_list_' = Append(lru_list_, f)
          /\ lru_map_' = lru_map_ \union {f}
          /\ older' = older \union (lru_map_ \X {f})
          /\ returned' = returned
        BY DEF Unpin, UnpinIgnored, PushBack
    <1>4. /\ lru_list_' \in Seq(FrameIds)
          /\ Len(lru_list_') = n + 1
          /\ \A j \in 1 .. n : lru_list_'[j] = lru_list_[j]
          /\ lru_list_'[n + 1] = f
          /\ DOMAIN lru_list_' = 1 .. n + 1
        BY <1>1, <1>3, AppendProperties, LenProperties DEF TypeOK
    <1>5. \A j \in 1 .. n : lru_list_[j] # f /\ lru_list_[j] \in lru_map_
        BY <1>1, <1>2, <1>3 DEF InList
    <1>6. \A j \in 1 .. n + 1 : j \in 1 .. n \/ j = n + 1
        BY <1>2
    <1>7. n + 1 \in 1 .. n + 1 /\ \A j \in 1 .. n : j \in 1 .. n + 1
        BY <1>2
    <1> HIDE DEF n
    <1>8. \A g \in FrameIds : InList(g)' <=> InList(g) \/ g = f
        <2>1. \A g : InList(g)' <=> \E j \in 1 .. n + 1 : lru_list_'[j] = g
            BY <1>4 DEF InList
        <2>2. \A g : InList(g) <=> \E j \in 1 .. n : lru_list_[j] = g
            BY <1>2 DEF InList
        <2> QED BY <2>1, <2>2, <1>4, <1>6, <1>7
    <1>9. TypeOK'
        BY <1>1, <1>3, <1>4 DEF TypeOK
    <1>10. \A g \in FrameIds : g \in lru_map_' <=> InList(g)'
        BY <1>1, <1>3, <1>8
    <1>11. \A j, k \in DOMAIN lru_list_' : lru_list_'[j] = lru_list_'[k] => j = k
        BY <1>1, <1>2, <1>4, <1>5, <1>6
    <1>12. Size' = Cardinality(lru_map_')
        <2>1. IsFiniteSet(lru_map_)
            BY <1>1, MapFinite DEF TypeOK
        <2>2. Cardinality(lru_map_') = Cardinality(lru_map_) + 1
            BY <2>1, <1>3, FS_AddElement
        <2> QED BY <2>2, <1>1, <1>4 DEF Size
    <1>13. ListInAgeOrder'
        <2> SUFFICES ASSUME NEW j \in 1 .. n + 1, NEW k \in 1 .. n + 1, j < k
                     PROVE  <<lru_list_'[j], lru_list_'[k]>> \in older'
            BY <1>4 DEF ListInAgeOrder
        <2>1. j \in 1 .. n
            BY <1>2
        <2>2. CASE k \in 1 .. n
            BY <2>1, <2>2, <1>1, <1>2, <1>3, <1>4
        <2>3. CASE k = n + 1
            BY <2>1, <2>3, <1>3, <1>4, <1>5
        <2> QED BY <2>2, <2>3, <1>6
    <1>14. IInv'
        BY <1>9, <1>10, <1>11, <1>12, <1>13 DEF IInv, ListMatchesMap
    <1> QED BY <1>8, <1>14

-----------------------------------------------------------------------------
(***************************************************************************)
(* The operations.                                                         *)
(***************************************************************************)
\* Victim keeps the invariant and is a Replacer's Victim: it fails only on an
\* empty set of candidates and otherwise takes the front.
LEMMA VictimStep ==
    ASSUME IInv, Victim
    PROVE  IInv' /\ Abstract!ReplacerNext
    <1>1. TypeOK /\ ListMatchesMap
        BY DEF IInv, ListMatchesMap
    <1>2. CASE lru_list_ = <<>>
        <2>1. /\ returned' = NoVictim
              /\ UNCHANGED <<lru_list_, lru_map_, older>>
            BY <1>2 DEF Victim
        <2>2. IInv'
            BY <1>1, <2>1 DEF IInv, ListMatchesMap, ListInAgeOrder, TypeOK, InList, Size
        <2>3. {f \in FrameIds : InList(f)} = {}
            BY <1>2 DEF InList
        <2>4. {f \in FrameIds : InList(f)}' = {f \in FrameIds : InList(f)}
            BY <2>1 DEF InList
        <2>5. Abstract!FindNoVictim
            BY <2>1, <2>3, <2>4 DEF Abstract!FindNoVictim, Abstract!NoVictim, NoVictim
        <2> QED BY <2>2, <2>5 DEF Abstract!ReplacerNext
    <1>3. CASE lru_list_ # <<>>
        <2> DEFINE f == lru_list_[1]
        <2>1. /\ returned' = f
              /\ lru_map_' = lru_map_ \ {lru_list_[1]}
              /\ lru_list_' = Tail(lru_list_)
              /\ older' = Forget(lru_list_[1])
            BY <1>3 DEF Victim, Front
        <2>2. /\ 1 \in DOMAIN lru_list_
              /\ lru_list_' \in Seq(FrameIds)
              /\ Len(lru_list_') = Len(lru_list_) - 1
              /\ \A j \in 1 .. Len(lru_list_') :
                    lru_list_'[j] = lru_list_[IF j < 1 THEN j ELSE j + 1]
            BY <1>1, <1>3, <2>1, TailEffect
        <2>3. f \in FrameIds /\ InList(f)
            BY <1>1, <2>2, ListFacts DEF InList
        <2>4. returned' \in FrameIds \union {NoVictim}
            BY <2>1, <2>3
        <2>5. /\ IInv'
              /\ {g \in FrameIds : InList(g)}' = {g \in FrameIds : InList(g)} \ {f}
            BY <2>1, <2>2, <2>4, LeaveStep
        <2>6. Abstract!TakeVictim(f)
            BY <2>1, <2>3, <2>5 DEF Abstract!TakeVictim
        <2>7. f \in Abstract!FrameIds
            BY <2>3 DEF Abstract!FrameIds, FrameIds
        <2> QED BY <2>5, <2>6, <2>7 DEF Abstract!ReplacerNext
    <1> QED BY <1>2, <1>3

\* Pin erases the one node of its frame.
LEMMA PinStep ==
    ASSUME IInv, NEW f \in AnyFrame, Pin(f)
    PROVE  IInv' /\ Abstract!ReplacerNext
    <1>1. TypeOK
        BY DEF IInv, ListMatchesMap
    <1>2. PICK i \in DOMAIN lru_list_ : IsNodeOf(i, f) /\ lru_list_' = EraseNode(i)
        BY DEF Pin
    <1>3. lru_list_[i] = f
        BY <1>2 DEF IsNodeOf
    <1>4. /\ lru_map_' = lru_map_ \ {f}
          /\ older' = Forget(f)
          /\ returned' = returned
        BY DEF Pin
    <1>5. /\ lru_list_' \in Seq(FrameIds)
          /\ Len(lru_list_') = Len(lru_list_) - 1
          /\ \A j \in 1 .. Len(lru_list_') :
                lru_list_'[j] = lru_list_[IF j < i THEN j ELSE j + 1]
        BY <1>1, <1>2, EraseNodeEffect
    <1>6. returned' \in FrameIds \union {NoVictim}
        BY <1>1, <1>4 DEF TypeOK
    <1>7. /\ IInv'
          /\ {g \in FrameIds : InList(g)}' = {g \in FrameIds : InList(g)} \ {f}
        BY <1>3, <1>4, <1>5, <1>6, LeaveStep
    <1>8. f \in Abstract!FrameIds
        BY <1>1, <1>3, ListFacts DEF Abstract!FrameIds, FrameIds
    <1>9. Abstract!PinFrame(f)
        BY <1>4, <1>7 DEF Abstract!PinFrame
    <1> QED BY <1>7, <1>8, <1>9 DEF Abstract!ReplacerNext

\* Unpin of a frame in range that is no candidate yet.
LEMMA UnpinStep ==
    ASSUME IInv, NEW f \in AnyFrame, Unpin(f)
    PROVE  IInv' /\ Abstract!ReplacerNext
    <1>1. f \in FrameIds /\ returned' = returned
        BY DEF Unpin, UnpinIgnored
    <1>2. /\ IInv'
          /\ {g \in FrameIds : InList(g)}' = {g \in FrameIds : InList(g)} \union {f}
        BY <1>1, JoinStep
    <1>3. Abstract!UnpinFrame(f)
        BY <1>1, <1>2 DEF Abstract!UnpinFrame
    <1>4. f \in Abstract!FrameIds
        BY <1>1 DEF Abstract!FrameIds, FrameIds
    <1> QED BY <1>2, <1>3, <1>4 DEF Abstract!ReplacerNext

\* Every step keeps the invariant and is a step of a Replacer or invisible.
LEMMA NextStep ==
    ASSUME IInv, [Next]_vars
    PROVE  IInv' /\ [Abstract!ReplacerNext]_Abstract!replacerVars
    <1>1. CASE Victim
        BY <1>1, VictimStep
    <1>2. ASSUME NEW f \in AnyFrame, Pin(f)
          PROVE  IInv' /\ Abstract!ReplacerNext
        BY <1>2, PinStep
    <1>3. ASSUME NEW f \in AnyFrame, Unpin(f)
          PROVE  IInv' /\ Abstract!ReplacerNext
        BY <1>3, UnpinStep
    <1>4. CASE UNCHANGED vars
        <2>1. IInv'
            BY <1>4 DEF vars, IInv, ListMatchesMap, ListInAgeOrder, TypeOK, InList, Size
        <2>2. UNCHANGED Abstract!replacerVars
            BY <1>4 DEF vars, Abstract!replacerVars, InList
        <2> QED BY <2>1, <2>2
    <1> QED BY <1>1, <1>2, <1>3, <1>4 DEF Next

\* Nothing is a candidate at first.
LEMMA InitInvariant ==
    ASSUME Init
    PROVE  IInv /\ Abstract!ReplacerInit
    <1>1. IInv
        BY EmptySeq, FS_EmptySet
        DEF Init, IInv, ListMatchesMap, ListInAgeOrder, TypeOK, InList, Size
    <1>2. {f \in FrameIds : InList(f)} = {}
        BY DEF Init, InList
    <1> QED BY <1>1, <1>2 DEF Init, Abstract!ReplacerInit, Abstract!NoVictim, NoVictim

-----------------------------------------------------------------------------
(***************************************************************************)
(* The theorems.                                                           *)
(***************************************************************************)
\* The inductive invariant.
THEOREM LRUInvariant == Spec => []IInv
    <1>1. Init => IInv
        BY InitInvariant
    <1>2. IInv /\ [Next]_vars => IInv'
        BY NextStep
    <1> QED BY <1>1, <1>2, PTL DEF Spec

\* The list and the map of the LRU policy describe the same frames, each
\* once, and Size counts them, whatever is pinned, unpinned and evicted.
THEOREM LRUListMatchesMap == Spec => []ListMatchesMap
    <1>1. IInv => ListMatchesMap
        BY DEF IInv
    <1> QED BY <1>1, LRUInvariant, PTL

\* The list is in order of age: Victim takes the least recently unpinned
\* frame, although Pin removes frames from the middle.
THEOREM LRUListInAgeOrder == Spec => []ListInAgeOrder
    <1>1. IInv => ListInAgeOrder
        BY DEF IInv
    <1> QED BY <1>1, LRUInvariant, PTL

\* The LRU policy implements the Replacer interface: Victim fails only when
\* there is no candidate and returns and removes only candidates.
THEOREM LRUIsReplacer == Spec => ImplementsReplacer
    <1>1. Init => Abstract!ReplacerInit
        BY InitInvariant
    <1>2. IInv /\ [Next]_vars => [Abstract!ReplacerNext]_Abstract!replacerVars
        BY NextStep
    <1> QED BY <1>1, <1>2, LRUInvariant, PTL
        DEF Spec, ImplementsReplacer, Abstract!ReplacerSpec
=============================================================================
