---------------------------- MODULE LRUReplacer ----------------------------
(***************************************************************************)
(* The LRU policy of replacer.cpp: a list of frames, the next victim at    *)
(* its front, and a map from a frame to its node of the list.  An iterator *)
(* of std::list stays on its node whatever is pushed or erased around it,  *)
(* so a map entry stands for the node that was last pushed for its key.    *)
(* Every operation holds latch_ throughout and is one action.              *)
(***************************************************************************)
EXTENDS Integers, Sequences, FiniteSets

CONSTANT num_frames_

ASSUME LRUAssumption == num_frames_ \in Nat \ {0}

VARIABLES
    lru_list_,   \* eviction order, front first
    lru_map_,    \* the keys of the map
    returned,    \* what the last call of Victim stored, NoVictim for false
    older        \* history: <<f, g>> when f became a candidate before g

vars == <<lru_list_, lru_map_, returned, older>>

FrameIds == 0 .. (num_frames_ - 1)
NoVictim == -1

\* Frame ids callers may pass: the frames, and one beyond each end.
AnyFrame == -1 .. num_frames_

TypeOK ==
    /\ lru_list_ \in Seq(FrameIds)
    /\ lru_map_ \subseteq FrameIds
    /\ returned \in FrameIds \union {NoVictim}
    /\ older \subseteq FrameIds \X FrameIds

Init ==
    /\ lru_list_ = <<>>
    /\ lru_map_ = {}
    /\ returned = NoVictim
    /\ older = {}

\* The node lru_map_[f] points to.
IsNodeOf(i, f) ==
    /\ i \in DOMAIN lru_list_
    /\ lru_list_[i] = f
    /\ \A j \in DOMAIN lru_list_ : lru_list_[j] = f => j <= i

EraseNode(i) ==
    [j \in 1 .. (Len(lru_list_) - 1) |-> lru_list_[IF j < i THEN j ELSE j + 1]]

Forget(f) == {pair \in older : pair[1] # f /\ pair[2] # f}

\* Faulty variant: the frame that was unpinned last.
Front_Back == lru_list_[Len(lru_list_)]

Front == lru_list_[1]

Victim ==
    \/ /\ lru_list_ = <<>>
       /\ returned' = NoVictim
       /\ UNCHANGED <<lru_list_, lru_map_, older>>
    \/ /\ lru_list_ # <<>>
       /\ returned' = Front
       /\ lru_map_' = lru_map_ \ {lru_list_[1]}
       /\ lru_list_' = Tail(lru_list_)
       /\ older' = Forget(lru_list_[1])

Pin(f) ==
    /\ f \in lru_map_
    /\ \E i \in DOMAIN lru_list_ :
        /\ IsNodeOf(i, f)
        /\ lru_list_' = EraseNode(i)
    /\ lru_map_' = lru_map_ \ {f}
    /\ older' = Forget(f)
    /\ UNCHANGED returned

\* Faulty variant: a candidate is listed again.
UnpinIgnored_InRange(f) == f \notin FrameIds

\* Out of range, or already a candidate: the frame keeps its place.
UnpinIgnored(f) == f \notin FrameIds \/ f \in lru_map_

\* Faulty variant: the frame becomes the next victim.
PushBack_AtFront(f) == <<f>> \o lru_list_

PushBack(f) == Append(lru_list_, f)

Unpin(f) ==
    /\ ~UnpinIgnored(f)
    /\ lru_list_' = PushBack(f)
    /\ lru_map_' = lru_map_ \union {f}
    /\ older' = older \union (lru_map_ \X {f})
    /\ UNCHANGED returned

Size == Len(lru_list_)

Next ==
    \/ Victim
    \/ \E f \in AnyFrame : Pin(f) \/ Unpin(f)

Spec == Init /\ [][Next]_vars

-----------------------------------------------------------------------------
InList(f) == \E i \in DOMAIN lru_list_ : lru_list_[i] = f

\* The list and the map hold frames in range only and describe the same ones,
\* each once: no map entry outlives its node, no node is left without an entry, and Size counts the
\* frames that can be evicted.
ListMatchesMap ==
    /\ TypeOK
    /\ \A f \in FrameIds : f \in lru_map_ <=> InList(f)
    /\ \A i, j \in DOMAIN lru_list_ : lru_list_[i] = lru_list_[j] => i = j
    /\ Size = Cardinality(lru_map_)

\* The list is in order of age, although frames leave from its middle:
\* Victim always returns the frame that has been a candidate longest.
ListInAgeOrder ==
    \A i, j \in DOMAIN lru_list_ :
        i < j => <<lru_list_[i], lru_list_[j]>> \in older

Abstract == INSTANCE Replacer WITH candidates <- {f \in FrameIds : InList(f)}

\* The policy is a Replacer: Victim fails only when no frame can be evicted
\* and returns only frames that can.
ImplementsReplacer == Abstract!ReplacerSpec
=============================================================================
