------------------------ MODULE ClockReplacerProofs ------------------------
(***************************************************************************)
(* The clock policy for any number of frames.                              *)
(*                                                                         *)
(* Both bounds are about the way the hand has still to go.  Dist(f) is the *)
(* number of turns until the hand is at f.  In a sweep of t turns the hand *)
(* has left behind the frames at distance n - t and more, with their flags *)
(* down, and a second time those at distance 2n - t and more, which can    *)
(* only have been no candidates; so before the 2n-th turn it stands on the *)
(* one candidate the sweep was started for.  For BoundedBypass, Exposed(f) *)
(* is the set of frames that can still be taken before f: it only shrinks  *)
(* while f is a candidate, and loses the victim whenever one is taken.     *)
(***************************************************************************)
EXTENDS ClockReplacer, FiniteSetTheorems, TLAPS

\* Turns of the loop until the hand is at f.
Dist(f) == IF f >= clock_hand_ THEN f - clock_hand_
                               ELSE f - clock_hand_ + num_frames_

\* A candidate the hand takes when it gets there.
Ripe(f) == in_replacer_[f] /\ ~ref_flags_[f]

\* The frames that may be taken before f is: while the flag of f is up the
\* hand passes f once more, and everything it meets before f twice.
Exposed(f) ==
    {g \in FrameIds \ {f} :
        IF ref_flags_[f] THEN Dist(g) < Dist(f) \/ Ripe(g)
                         ELSE Dist(g) < Dist(f) /\ Ripe(g)}

BypassLeft ==
    \A f \in FrameIds :
        IF in_replacer_[f]
        THEN passed[f] + Cardinality(Exposed(f)) <= num_frames_ - 1
        ELSE passed[f] = 0

SweepProgress ==
    sweeping => /\ turns < 2 * num_frames_
                /\ Evictable # {}
                /\ \A f \in FrameIds :
                     /\ Dist(f) >= num_frames_ - turns =>
                            ~(in_replacer_[f] /\ ref_flags_[f])
                     /\ Dist(f) >= 2 * num_frames_ - turns => ~in_replacer_[f]

IInv == SizeCountsCandidates /\ SweepProgress /\ BypassLeft

-----------------------------------------------------------------------------
(***************************************************************************)
(* The hand.                                                               *)
(***************************************************************************)
\* The modulus brings the hand from the last frame back to the first.
LEMMA NextHandIs ==
    ASSUME TypeOK
    PROVE  /\ NextHand = IF clock_hand_ = num_frames_ - 1 THEN 0 ELSE clock_hand_ + 1
           /\ NextHand \in FrameIds
    <1>1. /\ num_frames_ \in Nat \ {0}
          /\ clock_hand_ \in 0 .. (num_frames_ - 1)
        BY ClockAssumption DEF TypeOK, FrameIds
    <1>2. \A x \in 0 .. (num_frames_ - 1) : x % num_frames_ = x
        BY <1>1
    <1>3. num_frames_ % num_frames_ = 0
        BY <1>1
    <1>4. NextHand = IF clock_hand_ = num_frames_ - 1 THEN 0 ELSE clock_hand_ + 1
        BY <1>1, <1>2, <1>3 DEF NextHand
    <1> QED BY <1>1, <1>4 DEF FrameIds

\* The distances of the frames, and the frame at distance 0.
LEMMA DistType ==
    ASSUME TypeOK, NEW f \in FrameIds
    PROVE  /\ Dist(f) \in 0 .. (num_frames_ - 1)
           /\ Dist(f) = 0 <=> f = clock_hand_
    BY ClockAssumption DEF TypeOK, FrameIds, Dist

\* A turn brings the hand one nearer to every frame but the one it leaves.
LEMMA DistMoves ==
    ASSUME TypeOK, NEW f \in FrameIds, clock_hand_' = NextHand
    PROVE  Dist(f)' = IF f = clock_hand_ THEN num_frames_ - 1 ELSE Dist(f) - 1
    <1>1. clock_hand_' = IF clock_hand_ = num_frames_ - 1 THEN 0 ELSE clock_hand_ + 1
        BY NextHandIs
    <1>2. /\ num_frames_ \in Nat \ {0}
          /\ clock_hand_ \in 0 .. (num_frames_ - 1)
          /\ f \in 0 .. (num_frames_ - 1)
        BY ClockAssumption DEF TypeOK, FrameIds
    <1>3. Dist(f)' = IF f >= clock_hand_' THEN f - clock_hand_'
                                          ELSE f - clock_hand_' + num_frames_
        BY DEF Dist
    <1> QED BY <1>1, <1>2, <1>3 DEF Dist

\* While the hand stays, so do the distances.
LEMMA DistStays ==
    ASSUME NEW f, clock_hand_' = clock_hand_
    PROVE  Dist(f)' = Dist(f)
    BY DEF Dist

-----------------------------------------------------------------------------
(***************************************************************************)
(* Finite sets of frames.                                                  *)
(***************************************************************************)
LEMMA FramesFinite ==
    /\ IsFiniteSet(FrameIds)
    /\ Cardinality(FrameIds) = num_frames_
    BY ClockAssumption, FS_Interval DEF FrameIds

\* The other frames are one less than the frames.
LEMMA ExposedBound ==
    ASSUME NEW f \in FrameIds
    PROVE  /\ IsFiniteSet(Exposed(f))
           /\ Cardinality(Exposed(f)) \in Nat
           /\ Cardinality(Exposed(f)) <= num_frames_ - 1
    <1>1. /\ IsFiniteSet(FrameIds \ {f})
          /\ Cardinality(FrameIds \ {f}) = num_frames_ - 1
        BY FramesFinite, FS_RemoveElement
    <1>2. Exposed(f) \in SUBSET (FrameIds \ {f})
        BY DEF Exposed
    <1> QED BY <1>1, <1>2, FS_Subset, FS_CardinalityType

\* The count of candidates when one joins or leaves.
LEMMA EvictableFinite ==
    /\ IsFiniteSet(Evictable)
    /\ Cardinality(Evictable) \in Nat
    <1>1. Evictable \in SUBSET FrameIds
        BY DEF Evictable
    <1> QED BY <1>1, FramesFinite, FS_Subset, FS_CardinalityType

LEMMA CandidateLeaves ==
    ASSUME TypeOK, NEW f \in FrameIds, in_replacer_[f],
           in_replacer_' = [in_replacer_ EXCEPT ![f] = FALSE]
    PROVE  /\ Evictable' = Evictable \ {f}
           /\ Cardinality(Evictable') = Cardinality(Evictable) - 1
    <1>1. Evictable' = Evictable \ {f}
        BY DEF TypeOK, Evictable
    <1>2. f \in Evictable
        BY DEF Evictable
    <1> QED BY <1>1, <1>2, EvictableFinite, FS_RemoveElement

LEMMA CandidateJoins ==
    ASSUME TypeOK, NEW f \in FrameIds, ~in_replacer_[f],
           in_replacer_' = [in_replacer_ EXCEPT ![f] = TRUE]
    PROVE  /\ Evictable' = Evictable \union {f}
           /\ Cardinality(Evictable') = Cardinality(Evictable) + 1
    <1>1. Evictable' = Evictable \union {f}
        BY DEF TypeOK, Evictable
    <1>2. f \notin Evictable
        BY DEF Evictable
    <1> QED BY <1>1, <1>2, EvictableFinite, FS_AddElement

\* A frame that stays a candidate and that no victim was taken before keeps
\* its bound if nothing more became exposed to being taken before it.
LEMMA BypassKept ==
    ASSUME IInv, TypeOK', NEW f \in FrameIds, in_replacer_[f],
           Exposed(f)' \subseteq Exposed(f), passed'[f] = passed[f]
    PROVE  passed'[f] + Cardinality(Exposed(f)') <= num_frames_ - 1
    <1>1. passed[f] + Cardinality(Exposed(f)) <= num_frames_ - 1
        BY DEF IInv, BypassLeft
    <1>2. /\ IsFiniteSet(Exposed(f))
          /\ Cardinality(Exposed(f)) \in Nat
        BY ExposedBound
    <1>3. /\ IsFiniteSet(Exposed(f)')
          /\ Cardinality(Exposed(f)') <= Cardinality(Exposed(f))
          /\ Cardinality(Exposed(f)') \in Nat
        BY <1>2, FS_Subset, FS_CardinalityType
    <1>4. passed[f] \in Nat /\ num_frames_ \in Nat
        BY ClockAssumption DEF IInv, SizeCountsCandidates, TypeOK
    <1> QED BY <1>1, <1>2, <1>3, <1>4

\* A victim taken before f was exposed, and is not any more.
LEMMA BypassSpent ==
    ASSUME IInv, TypeOK', NEW f \in FrameIds, in_replacer_[f], NEW v \in Exposed(f),
           Exposed(f)' \subseteq Exposed(f) \ {v}, passed'[f] = passed[f] + 1
    PROVE  passed'[f] + Cardinality(Exposed(f)') <= num_frames_ - 1
    <1>1. passed[f] + Cardinality(Exposed(f)) <= num_frames_ - 1
        BY DEF IInv, BypassLeft
    <1>2. /\ IsFiniteSet(Exposed(f))
          /\ Cardinality(Exposed(f)) \in Nat
        BY ExposedBound
    <1>3. /\ IsFiniteSet(Exposed(f) \ {v})
          /\ Cardinality(Exposed(f) \ {v}) = Cardinality(Exposed(f)) - 1
        BY <1>2, FS_RemoveElement
    <1>4. /\ Cardinality(Exposed(f)') <= Cardinality(Exposed(f)) - 1
          /\ Cardinality(Exposed(f)') \in Nat
        BY <1>3, FS_Subset, FS_CardinalityType
    <1>5. passed[f] \in Nat /\ num_frames_ \in Nat
        BY ClockAssumption DEF IInv, SizeCountsCandidates, TypeOK
    <1> QED BY <1>1, <1>2, <1>4, <1>5

-----------------------------------------------------------------------------
(***************************************************************************)
(* The operations.  Each keeps the invariant, and shows to a user of the   *)
(* Replacer interface as one of its operations or not at all.              *)
(***************************************************************************)
\* The operations that leave frames, flags and hand alone.
LEMMA QuietStep ==
    ASSUME IInv, ~sweeping', turns' \in Nat,
           returned' \in FrameIds \union {NoVictim}, sweeping' \in BOOLEAN,
           UNCHANGED <<ref_flags_, in_replacer_, clock_hand_, size_, passed>>
    PROVE  IInv' /\ Evictable' = Evictable
    <1>1. TypeOK'
        BY DEF IInv, SizeCountsCandidates, TypeOK
    <1>2. Evictable' = Evictable
        BY DEF Evictable
    <1>3. SizeCountsCandidates'
        BY <1>1, <1>2 DEF IInv, SizeCountsCandidates
    <1>4. SweepProgress'
        BY DEF SweepProgress
    <1>5. \A f \in FrameIds : Exposed(f)' = Exposed(f)
        BY DEF Exposed, Dist, Ripe
    <1>6. BypassLeft'
        BY <1>5 DEF IInv, BypassLeft
    <1> QED BY <1>2, <1>3, <1>4, <1>6 DEF IInv

LEMMA VictimFailsStep ==
    ASSUME IInv, VictimFails
    PROVE  IInv' /\ Abstract!ReplacerNext
    <1>1. IInv' /\ Evictable' = Evictable
        BY QuietStep DEF VictimFails, IInv, SizeCountsCandidates, TypeOK
    <1>2. Evictable = {}
        <2>1. Cardinality(Evictable) = 0
            BY DEF VictimFails, NoCandidates, IInv, SizeCountsCandidates
        <2> QED BY <2>1, EvictableFinite, FS_EmptySet
    <1>3. Abstract!FindNoVictim
        BY <1>1, <1>2 DEF VictimFails, Abstract!FindNoVictim, Abstract!NoVictim, NoVictim
    <1> QED BY <1>1, <1>3 DEF Abstract!ReplacerNext

\* Victim starts to sweep only when there is something to find.
LEMMA VictimStartsStep ==
    ASSUME IInv, VictimStarts
    PROVE  IInv' /\ UNCHANGED Abstract!replacerVars
    <1>1. /\ sweeping' = TRUE
          /\ turns' = 0
          /\ UNCHANGED <<ref_flags_, in_replacer_, clock_hand_, size_, returned, passed>>
        BY DEF VictimStarts
    <1>2. TypeOK /\ TypeOK'
        BY <1>1 DEF IInv, SizeCountsCandidates, TypeOK
    <1>3. Evictable' = Evictable
        BY <1>1 DEF Evictable
    <1>4. SizeCountsCandidates'
        BY <1>1, <1>2, <1>3 DEF IInv, SizeCountsCandidates
    <1>5. SweepProgress'
        <2>1. Evictable # {}
            BY FS_EmptySet DEF VictimStarts, IInv, SizeCountsCandidates
        <2>2. ASSUME NEW f \in FrameIds
              PROVE  Dist(f)' < num_frames_
            BY <1>1, <1>2, DistType, DistStays, ClockAssumption
        <2>3. num_frames_ \in Nat \ {0}
            BY ClockAssumption
        <2>4. \A f \in FrameIds : Dist(f)' \in Int
            BY <1>1, <1>2, DistType, DistStays, ClockAssumption
        <2> QED BY <1>1, <1>3, <2>1, <2>2, <2>3, <2>4 DEF SweepProgress
    <1>6. \A f \in FrameIds : Exposed(f)' = Exposed(f)
        BY <1>1 DEF Exposed, Dist, Ripe
    <1>7. BypassLeft'
        BY <1>1, <1>6 DEF IInv, BypassLeft
    <1> QED BY <1>1, <1>3, <1>4, <1>5, <1>7 DEF IInv, Abstract!replacerVars

\* A turn that takes nothing.  It cannot be the last of two rounds: the
\* frames left behind twice are no candidates, and the one the hand is on
\* would be the only one left, with its flag down.
LEMMA SweepOnStep ==
    ASSUME IInv, SweepOn
    PROVE  IInv' /\ UNCHANGED Abstract!replacerVars
    <1> DEFINE n == num_frames_
               h == clock_hand_
    <1>1. /\ sweeping
          /\ in_replacer_[h] => ref_flags_[h]
          /\ ref_flags_' = IF in_replacer_[h] THEN [ref_flags_ EXCEPT ![h] = FALSE]
                                              ELSE ref_flags_
          /\ clock_hand_' = NextHand
          /\ turns' = OneMoreTurn
          /\ UNCHANGED <<in_replacer_, size_, sweeping, returned, passed>>
        BY DEF SweepOn
    <1>2. TypeOK
        BY DEF IInv, SizeCountsCandidates
    <1>3. /\ n \in Nat \ {0}
          /\ h \in FrameIds
          /\ turns \in Nat
          /\ turns < 2 * n
          /\ turns' = turns + 1
        BY <1>1, <1>2, ClockAssumption DEF TypeOK, IInv, SweepProgress, OneMoreTurn
    <1>4. /\ Evictable # {}
          /\ \A f \in FrameIds :
                /\ Dist(f) >= n - turns => ~(in_replacer_[f] /\ ref_flags_[f])
                /\ Dist(f) >= 2 * n - turns => ~in_replacer_[f]
        BY <1>1 DEF IInv, SweepProgress
    <1>5. \A f \in FrameIds :
            /\ Dist(f) \in 0 .. (n - 1)
            /\ Dist(f) = 0 <=> f = h
            /\ Dist(f)' = IF f = h THEN n - 1 ELSE Dist(f) - 1
        BY <1>1, <1>2, DistType, DistMoves
    <1>6. \A f \in FrameIds : f # h => ref_flags_'[f] = ref_flags_[f]
        BY <1>1, <1>2 DEF TypeOK
    <1>7. in_replacer_[h] => ref_flags_'[h] = FALSE
        BY <1>1, <1>2, <1>3 DEF TypeOK
    <1>8. TypeOK'
        <2>1. ref_flags_' \in [FrameIds -> BOOLEAN]
            BY <1>1, <1>2 DEF TypeOK
        <2>2. clock_hand_' \in FrameIds
            BY <1>1, <1>2, NextHandIs
        <2> QED BY <1>1, <1>2, <1>3, <2>1, <2>2 DEF TypeOK
    <1>9. Evictable' = Evictable
        BY <1>1 DEF Evictable
    <1>10. SizeCountsCandidates'
        BY <1>1, <1>8, <1>9 DEF IInv, SizeCountsCandidates
    <1> HIDE DEF n, h
    <1>11. ASSUME turns' = 2 * n
           PROVE  FALSE
        <2>1. turns = 2 * n - 1
            BY <1>3, <1>11
        <2>2. \A f \in FrameIds : f # h => ~in_replacer_[f]
            BY <1>3, <1>4, <1>5, <2>1
        <2>3. ~in_replacer_[h]
            <3>1. Dist(h) = 0 /\ 0 >= n - turns
                BY <1>3, <1>5, <2>1
            <3> QED BY <1>1, <1>3, <1>4, <3>1 DEF h
        <2> QED BY <1>4, <2>2, <2>3 DEF Evictable
    <1>12. SweepProgress'
        <2>1. turns' < 2 * n
            BY <1>3, <1>11
        <2> SUFFICES ASSUME NEW f \in FrameIds
                     PROVE  /\ Dist(f)' >= n - turns' =>
                                    ~(in_replacer_[f] /\ ref_flags_'[f])
                            /\ Dist(f)' >= 2 * n - turns' => ~in_replacer_[f]
            BY <1>1, <1>4, <1>9, <2>1 DEF SweepProgress, n
        <2>2. CASE f = h
            <3>1. ~(in_replacer_[f] /\ ref_flags_'[f])
                BY <1>7, <2>2
            <3>2. ASSUME n - 1 >= 2 * n - turns'
                  PROVE  ~in_replacer_[f]
                <4>1. Dist(h) >= n - turns
                    BY <1>3, <1>5, <3>2
                <4> QED BY <1>1, <1>3, <1>4, <2>2, <4>1 DEF h
            <3> QED BY <1>5, <2>2, <3>1, <3>2
        <2>3. CASE f # h
            BY <1>3, <1>4, <1>5, <1>6, <2>3
        <2> QED BY <2>2, <2>3
    <1>13. BypassLeft'
        <2> SUFFICES ASSUME NEW f \in FrameIds
                     PROVE  IF in_replacer_[f]
                            THEN passed'[f] + Cardinality(Exposed(f)') <= n - 1
                            ELSE passed'[f] = 0
            BY <1>1 DEF BypassLeft, n
        <2>1. CASE ~in_replacer_[f]
            BY <1>1, <2>1 DEF IInv, BypassLeft
        <2>2. CASE in_replacer_[f]
            <3>1. Exposed(f)' \subseteq Exposed(f)
                <4> SUFFICES ASSUME NEW g \in FrameIds, g # f, g \in Exposed(f)'
                             PROVE  g \in Exposed(f)
                    BY DEF Exposed
                <4>1. IF ref_flags_'[f] THEN Dist(g)' < Dist(f)' \/ Ripe(g)'
                                        ELSE Dist(g)' < Dist(f)' /\ Ripe(g)'
                    BY DEF Exposed
                <4>2. ASSUME g # h
                      PROVE  Ripe(g)' <=> Ripe(g)
                    BY <1>1, <1>6, <4>2 DEF Ripe
                <4>3. CASE f = h
                    <5>1. ref_flags_[f] /\ ~ref_flags_'[f]
                        BY <1>1, <1>7, <2>2, <4>3 DEF h
                    <5>2. Ripe(g)
                        BY <4>1, <4>2, <4>3, <5>1
                    <5> QED BY <5>1, <5>2 DEF Exposed
                <4>4. CASE f # h /\ g = h
                    <5>1. Dist(g) < Dist(f)
                        BY <1>3, <1>5, <4>4
                    <5>2. ~(Dist(g)' < Dist(f)')
                        BY <1>3, <1>5, <4>4
                    <5>3. ref_flags_[f]
                        BY <1>6, <4>1, <4>4, <5>2
                    <5> QED BY <5>1, <5>3 DEF Exposed
                <4>5. CASE f # h /\ g # h
                    <5>1. Dist(g)' < Dist(f)' <=> Dist(g) < Dist(f)
                        BY <1>3, <1>5, <4>5
                    <5>2. ref_flags_'[f] = ref_flags_[f]
                        BY <1>6, <4>5
                    <5> QED BY <4>1, <4>2, <4>5, <5>1, <5>2 DEF Exposed
                <4> QED BY <4>3, <4>4, <4>5
            <3> QED BY <1>1, <1>8, <2>2, <3>1, BypassKept DEF n
        <2> QED BY <2>1, <2>2
    <1> QED BY <1>1, <1>9, <1>10, <1>12, <1>13 DEF IInv, Abstract!replacerVars

\* The hand is on a candidate whose flag is down and takes it.
LEMMA SweepTakesStep ==
    ASSUME IInv, SweepTakes
    PROVE  IInv' /\ Abstract!ReplacerNext
    <1> DEFINE n == num_frames_
               h == clock_hand_
    <1>1. /\ in_replacer_[h]
          /\ ~ref_flags_[h]
          /\ returned' = h
          /\ in_replacer_' = [in_replacer_ EXCEPT ![h] = FALSE]
          /\ size_' = OneLess
          /\ clock_hand_' = NextHand
          /\ sweeping' = FALSE
          /\ turns' = 0
          /\ passed' = [f \in FrameIds |->
                            IF in_replacer_[f] /\ f # h THEN passed[f] + 1 ELSE 0]
          /\ UNCHANGED ref_flags_
        BY DEF SweepTakes
    <1>2. TypeOK /\ h \in FrameIds /\ n \in Nat \ {0}
        BY ClockAssumption DEF IInv, SizeCountsCandidates, TypeOK
    <1>3. TypeOK'
        <2>1. clock_hand_' \in FrameIds
            BY <1>1, <1>2, NextHandIs
        <2>2. passed' \in [FrameIds -> Nat]
            BY <1>1, <1>2 DEF TypeOK
        <2>3. in_replacer_' \in [FrameIds -> BOOLEAN]
            BY <1>1, <1>2 DEF TypeOK
        <2>4. size_' \in Int
            BY <1>1, <1>2 DEF TypeOK, OneLess
        <2>5. ref_flags_' \in [FrameIds -> BOOLEAN]
            BY <1>1, <1>2 DEF TypeOK
        <2> QED BY <1>1, <1>2, <2>1, <2>2, <2>3, <2>4, <2>5 DEF TypeOK
    <1>4. /\ Evictable' = Evictable \ {h}
          /\ Cardinality(Evictable') = Cardinality(Evictable) - 1
        BY <1>1, <1>2, CandidateLeaves
    <1>5. SizeCountsCandidates'
        BY <1>1, <1>3, <1>4 DEF IInv, SizeCountsCandidates, OneLess
    <1>6. SweepProgress'
        BY <1>1 DEF SweepProgress
    <1>7. \A f \in FrameIds :
            /\ Dist(f) \in 0 .. (n - 1)
            /\ Dist(f) = 0 <=> f = h
            /\ Dist(f)' = IF f = h THEN n - 1 ELSE Dist(f) - 1
        BY <1>1, <1>2, DistType, DistMoves
    <1>8. \A f \in FrameIds : Ripe(f)' <=> Ripe(f) /\ f # h
        BY <1>1, <1>2 DEF Ripe, TypeOK
    <1>9. \A f \in FrameIds : in_replacer_'[f] <=> in_replacer_[f] /\ f # h
        BY <1>1, <1>2 DEF TypeOK
    <1> HIDE DEF n, h
    <1>10. BypassLeft'
        <2> SUFFICES ASSUME NEW f \in FrameIds
                     PROVE  IF in_replacer_'[f]
                            THEN passed'[f] + Cardinality(Exposed(f)') <= n - 1
                            ELSE passed'[f] = 0
            BY DEF BypassLeft, n
        <2>1. CASE ~in_replacer_[f] \/ f = h
            BY <1>1, <1>9, <2>1
        <2>2. CASE in_replacer_[f] /\ f # h
            <3>1. h \in Exposed(f)
                <4>1. Dist(h) < Dist(f)
                    BY <1>2, <1>7, <2>2
                <4>2. Ripe(h)
                    BY <1>1 DEF Ripe
                <4> QED BY <1>2, <2>2, <4>1, <4>2 DEF Exposed
            <3>2. Exposed(f)' \subseteq Exposed(f) \ {h}
                <4> SUFFICES ASSUME NEW g \in FrameIds, g # f, g \in Exposed(f)'
                             PROVE  g \in Exposed(f) /\ g # h
                    BY DEF Exposed
                <4>1. IF ref_flags_[f] THEN Dist(g)' < Dist(f)' \/ Ripe(g)'
                                       ELSE Dist(g)' < Dist(f)' /\ Ripe(g)'
                    BY <1>1 DEF Exposed
                <4>2. g # h
                    <5>1. g = h => ~(Dist(g)' < Dist(f)')
                        BY <1>2, <1>7, <2>2
                    <5> QED BY <1>8, <4>1, <5>1
                <4>3. Dist(g)' < Dist(f)' <=> Dist(g) < Dist(f)
                    BY <1>2, <1>7, <2>2, <4>2
                <4> QED BY <1>8, <4>1, <4>2, <4>3 DEF Exposed
            <3>3. passed'[f] = passed[f] + 1
                BY <1>1, <2>2
            <3> QED BY <1>3, <1>9, <2>2, <3>1, <3>2, <3>3, BypassSpent DEF n
        <2> QED BY <2>1, <2>2
    <1>11. h \in Evictable /\ h \in Abstract!FrameIds
        BY <1>1, <1>2 DEF Evictable, Abstract!FrameIds, FrameIds
    <1>12. Abstract!TakeVictim(h)
        BY <1>1, <1>4, <1>11 DEF Abstract!TakeVictim
    <1> QED BY <1>5, <1>6, <1>10, <1>11, <1>12 DEF IInv, Abstract!ReplacerNext

\* A frame is pinned: it can no longer be taken before any other.
LEMMA PinStep ==
    ASSUME IInv, NEW f \in AnyFrame, Pin(f)
    PROVE  IInv' /\ Abstract!ReplacerNext
    <1>1. /\ ~sweeping
          /\ f \in FrameIds
          /\ in_replacer_[f]
          /\ in_replacer_' = [in_replacer_ EXCEPT ![f] = FALSE]
          /\ size_' = OneLess
          /\ passed' = [passed EXCEPT ![f] = 0]
          /\ UNCHANGED <<ref_flags_, clock_hand_, sweeping, returned, turns>>
        BY DEF Pin
    <1>2. TypeOK
        BY DEF IInv, SizeCountsCandidates
    <1>3. TypeOK'
        BY <1>1, <1>2 DEF TypeOK, OneLess
    <1>4. /\ Evictable' = Evictable \ {f}
          /\ Cardinality(Evictable') = Cardinality(Evictable) - 1
        BY <1>1, <1>2, CandidateLeaves
    <1>5. SizeCountsCandidates'
        BY <1>1, <1>3, <1>4 DEF IInv, SizeCountsCandidates, OneLess
    <1>6. SweepProgress'
        BY <1>1 DEF SweepProgress
    <1>7. BypassLeft'
        <2> SUFFICES ASSUME NEW g \in FrameIds
                     PROVE  IF in_replacer_'[g]
                            THEN passed'[g] + Cardinality(Exposed(g)') <= num_frames_ - 1
                            ELSE passed'[g] = 0
            BY DEF BypassLeft
        <2>1. CASE g = f
            BY <1>1, <1>2, <2>1 DEF TypeOK
        <2>2. CASE g # f
            <3>1. /\ in_replacer_'[g] = in_replacer_[g]
                  /\ passed'[g] = passed[g]
                BY <1>1, <1>2, <2>2 DEF TypeOK
            <3>2. \A k \in FrameIds : Ripe(k)' => Ripe(k)
                BY <1>1, <1>2 DEF Ripe, TypeOK
            <3>3. \A k \in FrameIds : Dist(k)' = Dist(k)
                BY <1>1, DistStays
            <3>4. Exposed(g)' \subseteq Exposed(g)
                BY <1>1, <3>2, <3>3 DEF Exposed
            <3>5. CASE in_replacer_[g]
                BY <1>3, <3>1, <3>4, <3>5, BypassKept
            <3>6. CASE ~in_replacer_[g]
                BY <3>1, <3>6 DEF IInv, BypassLeft
            <3> QED BY <3>5, <3>6
        <2> QED BY <2>1, <2>2
    <1>8. f \in Abstract!FrameIds /\ Abstract!PinFrame(f)
        BY <1>1, <1>4 DEF Abstract!PinFrame, Abstract!FrameIds, FrameIds
    <1> QED BY <1>5, <1>6, <1>7, <1>8 DEF IInv, Abstract!ReplacerNext

\* A frame joins with its flag up: no frame is exposed by it.
LEMMA UnpinStep ==
    ASSUME IInv, NEW f \in AnyFrame, Unpin(f)
    PROVE  IInv' /\ Abstract!ReplacerNext
    <1>1. /\ ~sweeping
          /\ f \in FrameIds
          /\ ~in_replacer_[f]
          /\ in_replacer_' = [in_replacer_ EXCEPT ![f] = TRUE]
          /\ ref_flags_' = [ref_flags_ EXCEPT ![f] = TRUE]
          /\ size_' = size_ + 1
          /\ UNCHANGED <<clock_hand_, sweeping, returned, turns, passed>>
        BY DEF Unpin
    <1>2. TypeOK
        BY DEF IInv, SizeCountsCandidates
    <1>3. TypeOK'
        BY <1>1, <1>2 DEF TypeOK
    <1>4. /\ Evictable' = Evictable \union {f}
          /\ Cardinality(Evictable') = Cardinality(Evictable) + 1
        BY <1>1, <1>2, CandidateJoins
    <1>5. SizeCountsCandidates'
        BY <1>1, <1>3, <1>4 DEF IInv, SizeCountsCandidates
    <1>6. SweepProgress'
        BY <1>1 DEF SweepProgress
    <1>7. BypassLeft'
        <2> SUFFICES ASSUME NEW g \in FrameIds
                     PROVE  IF in_replacer_'[g]
                            THEN passed'[g] + Cardinality(Exposed(g)') <= num_frames_ - 1
                            ELSE passed'[g] = 0
            BY DEF BypassLeft
        <2>1. CASE g = f
            <3>1. passed'[g] = 0 /\ in_replacer_'[g]
                BY <1>1, <1>2, <2>1 DEF IInv, BypassLeft, TypeOK
            <3>2. /\ Cardinality(Exposed(g)') <= num_frames_ - 1
                  /\ Cardinality(Exposed(g)') \in Nat
                <4>1. Exposed(g)' \in SUBSET (FrameIds \ {g})
                    BY DEF Exposed
                <4>2. /\ IsFiniteSet(FrameIds \ {g})
                      /\ Cardinality(FrameIds \ {g}) = num_frames_ - 1
                    BY FramesFinite, FS_RemoveElement
                <4> QED BY <4>1, <4>2, FS_Subset, FS_CardinalityType
            <3> QED BY <3>1, <3>2, ClockAssumption
        <2>2. CASE g # f
            <3>1. /\ in_replacer_'[g] = in_replacer_[g]
                  /\ ref_flags_'[g] = ref_flags_[g]
                  /\ passed'[g] = passed[g]
                BY <1>1, <1>2, <2>2 DEF TypeOK
            <3>2. \A k \in FrameIds : Ripe(k)' => Ripe(k)
                BY <1>1, <1>2 DEF Ripe, TypeOK
            <3>3. \A k \in FrameIds : Dist(k)' = Dist(k)
                BY <1>1, DistStays
            <3>4. Exposed(g)' \subseteq Exposed(g)
                BY <3>1, <3>2, <3>3 DEF Exposed
            <3>5. CASE in_replacer_[g]
                BY <1>3, <3>1, <3>4, <3>5, BypassKept
            <3>6. CASE ~in_replacer_[g]
                BY <3>1, <3>6 DEF IInv, BypassLeft
            <3> QED BY <3>5, <3>6
        <2> QED BY <2>1, <2>2
    <1>8. f \in Abstract!FrameIds /\ Abstract!UnpinFrame(f)
        BY <1>1, <1>4 DEF Abstract!UnpinFrame, Abstract!FrameIds, FrameIds
    <1> QED BY <1>5, <1>6, <1>7, <1>8 DEF IInv, Abstract!ReplacerNext

LEMMA StutterStep ==
    ASSUME IInv, UNCHANGED vars
    PROVE  IInv' /\ UNCHANGED Abstract!replacerVars
    <1>1. Evictable' = Evictable
        BY DEF vars, Evictable
    <1>2. SizeCountsCandidates'
        BY <1>1 DEF vars, IInv, SizeCountsCandidates, TypeOK
    <1>3. \A f \in FrameIds : Dist(f)' = Dist(f)
        BY DistStays DEF vars
    <1>4. SweepProgress'
        BY <1>1, <1>3 DEF vars, IInv, SweepProgress
    <1>5. \A f \in FrameIds : Exposed(f)' = Exposed(f)
        BY DEF vars, Exposed, Ripe, Dist
    <1>6. BypassLeft'
        BY <1>5 DEF vars, IInv, BypassLeft
    <1> QED BY <1>1, <1>2, <1>4, <1>6 DEF vars, IInv, Abstract!replacerVars

\* Every step keeps the invariant and is a step of a Replacer or invisible.
LEMMA NextStep ==
    ASSUME IInv, [Next]_vars
    PROVE  IInv' /\ [Abstract!ReplacerNext]_Abstract!replacerVars
    <1>1. CASE VictimFails
        BY <1>1, VictimFailsStep
    <1>2. CASE VictimStarts
        BY <1>2, VictimStartsStep
    <1>3. CASE Sweep
        BY <1>3, SweepOnStep, SweepTakesStep DEF Sweep
    <1>4. ASSUME NEW f \in AnyFrame, Pin(f)
          PROVE  IInv' /\ Abstract!ReplacerNext
        BY <1>4, PinStep
    <1>5. ASSUME NEW f \in AnyFrame, Unpin(f)
          PROVE  IInv' /\ Abstract!ReplacerNext
        BY <1>5, UnpinStep
    <1>6. CASE UNCHANGED vars
        BY <1>6, StutterStep
    <1> QED BY <1>1, <1>2, <1>3, <1>4, <1>5, <1>6 DEF Next

\* Nothing is a candidate at first.
LEMMA InitInvariant ==
    ASSUME Init
    PROVE  IInv /\ Abstract!ReplacerInit
    <1>1. Evictable = {}
        BY DEF Init, Evictable
    <1>2. TypeOK
        <2>1. 0 \in FrameIds
            BY ClockAssumption DEF FrameIds
        <2>2. /\ ref_flags_ \in [FrameIds -> BOOLEAN]
              /\ in_replacer_ \in [FrameIds -> BOOLEAN]
              /\ passed \in [FrameIds -> Nat]
            BY DEF Init
        <2>3. size_ \in Int /\ turns \in Nat
            BY DEF Init
        <2>4. sweeping \in BOOLEAN
            BY DEF Init
        <2> QED BY <2>1, <2>2, <2>3, <2>4 DEF Init, TypeOK
    <1>3. SizeCountsCandidates
        BY <1>1, <1>2, FS_EmptySet DEF Init, SizeCountsCandidates
    <1>4. SweepProgress /\ BypassLeft
        BY DEF Init, SweepProgress, BypassLeft
    <1> QED BY <1>1, <1>3, <1>4
        DEF IInv, Init, Abstract!ReplacerInit, Abstract!NoVictim, NoVictim

-----------------------------------------------------------------------------
(***************************************************************************)
(* The theorems.                                                           *)
(***************************************************************************)
\* The inductive invariant.
THEOREM ClockInvariant == Spec => []IInv
    <1>1. Init => IInv
        BY InitInvariant
    <1>2. IInv /\ [Next]_vars => IInv'
        BY NextStep
    <1> QED BY <1>1, <1>2, PTL DEF Spec

\* size_ counts the candidates of the clock policy in every state, inside a
\* sweep too.
THEOREM ClockSizeCounts == Spec => []SizeCountsCandidates
    <1>1. IInv => SizeCountsCandidates
        BY DEF IInv
    <1> QED BY <1>1, ClockInvariant, PTL

\* The while loop of Victim takes a victim within two rounds of the clock.
THEOREM ClockSweepBounded == Spec => []SweepBounded
    <1>1. IInv => SweepBounded
        BY DEF IInv, SweepProgress, SweepBounded
    <1> QED BY <1>1, ClockInvariant, PTL

\* Fewer victims than there are frames are taken between a frame's Unpin and
\* its own eviction.
THEOREM ClockBoundedBypass == Spec => []BoundedBypass
    <1>1. IInv => BoundedBypass
        <2> SUFFICES ASSUME IInv, NEW f \in FrameIds
                     PROVE  passed[f] <= num_frames_ - 1
            BY DEF BoundedBypass
        <2>1. /\ passed[f] \in Nat
              /\ num_frames_ \in Nat \ {0}
            BY ClockAssumption DEF IInv, SizeCountsCandidates, TypeOK
        <2>2. Cardinality(Exposed(f)) \in Nat
            BY ExposedBound
        <2> QED BY <2>1, <2>2 DEF IInv, BypassLeft
    <1> QED BY <1>1, ClockInvariant, PTL

\* The clock policy implements the Replacer interface: Victim fails only when
\* there is no candidate and returns and removes only candidates.
THEOREM ClockIsReplacer == Spec => ImplementsReplacer
    <1>1. Init => Abstract!ReplacerInit
        BY InitInvariant
    <1>2. IInv /\ [Next]_vars => [Abstract!ReplacerNext]_Abstract!replacerVars
        BY NextStep
    <1> QED BY <1>1, <1>2, ClockInvariant, PTL
        DEF Spec, ImplementsReplacer, Abstract!ReplacerSpec
=============================================================================
