--------------------------- MODULE ClockReplacer ---------------------------
(***************************************************************************)
(* The clock policy of replacer.cpp.  Pin and Unpin are one action each.   *)
(* Victim holds latch_ while it sweeps; the sweep is one action per turn   *)
(* of its while loop, so that whether it ends is a question the model can  *)
(* ask.  No other operation runs while a sweep is on.                      *)
(***************************************************************************)
EXTENDS Integers, FiniteSets

CONSTANT num_frames_

ASSUME ClockAssumption == num_frames_ \in Nat \ {0}

VARIABLES
    ref_flags_,     \* frame -> reference flag
    in_replacer_,   \* frame -> may be evicted
    clock_hand_,    \* the frame the hand is at
    size_,          \* number of frames that may be evicted
    sweeping,       \* Victim is inside its loop
    returned,       \* what the last call of Victim stored, NoVictim for false
    turns,          \* history: turns of the loop in this sweep, up to two rounds
    passed          \* history: victims taken since the frame was unpinned

vars == <<ref_flags_, in_replacer_, clock_hand_, size_, sweeping, returned,
          turns, passed>>

FrameIds == 0 .. (num_frames_ - 1)
NoVictim == -1

\* Frame ids callers may pass: the frames, and one beyond each end.
AnyFrame == -1 .. num_frames_

Evictable == {f \in FrameIds : in_replacer_[f]}

TypeOK ==
    /\ ref_flags_ \in [FrameIds -> BOOLEAN]
    /\ in_replacer_ \in [FrameIds -> BOOLEAN]
    /\ clock_hand_ \in FrameIds
    /\ size_ \in Int
    /\ sweeping \in BOOLEAN
    /\ returned \in FrameIds \union {NoVictim}
    /\ turns \in Nat
    /\ passed \in [FrameIds -> Nat]

Init ==
    /\ ref_flags_ = [f \in FrameIds |-> FALSE]
    /\ in_replacer_ = [f \in FrameIds |-> FALSE]
    /\ clock_hand_ = 0
    /\ size_ = 0
    /\ sweeping = FALSE
    /\ returned = NoVictim
    /\ turns = 0
    /\ passed = [f \in FrameIds |-> 0]

\* Faulty variants: the hand does not move, starts again.
NextHand_Stays == clock_hand_

NextHand_Restarts == 0

NextHand == (clock_hand_ + 1) % num_frames_

\* History: a turn more, counted no further than SweepBounded looks.
OneMoreTurn == IF turns < 2 * num_frames_ THEN turns + 1 ELSE turns

\* Faulty variant: a frame that left is still counted.
OneLess_Kept == size_

OneLess == size_ - 1

\* Faulty variant: Victim gives up although there are candidates.
NoCandidates_Always == TRUE

NoCandidates == size_ = 0

VictimFails ==
    /\ ~sweeping
    /\ NoCandidates
    /\ returned' = NoVictim
    /\ UNCHANGED <<ref_flags_, in_replacer_, clock_hand_, size_, sweeping,
                   turns, passed>>

VictimStarts ==
    /\ ~sweeping
    /\ size_ # 0
    /\ sweeping' = TRUE
    /\ turns' = 0
    /\ UNCHANGED <<ref_flags_, in_replacer_, clock_hand_, size_, returned,
                   passed>>

\* A turn that takes no victim: a flag is cleared, or the frame is no candidate.
SweepOn ==
    /\ sweeping
    /\ in_replacer_[clock_hand_] => ref_flags_[clock_hand_]
    /\ ref_flags_' = IF in_replacer_[clock_hand_]
                     THEN [ref_flags_ EXCEPT ![clock_hand_] = FALSE]
                     ELSE ref_flags_
    /\ clock_hand_' = NextHand
    /\ turns' = OneMoreTurn
    /\ UNCHANGED <<in_replacer_, size_, sweeping, returned, passed>>

SweepTakes ==
    /\ sweeping
    /\ in_replacer_[clock_hand_]
    /\ ~ref_flags_[clock_hand_]
    /\ returned' = clock_hand_
    /\ in_replacer_' = [in_replacer_ EXCEPT ![clock_hand_] = FALSE]
    /\ size_' = OneLess
    /\ clock_hand_' = NextHand
    /\ sweeping' = FALSE
    /\ turns' = 0
    /\ passed' = [f \in FrameIds |->
                    IF in_replacer_[f] /\ f # clock_hand_ THEN passed[f] + 1 ELSE 0]
    /\ UNCHANGED ref_flags_

Pin(f) ==
    /\ ~sweeping
    /\ f \in FrameIds
    /\ in_replacer_[f]
    /\ in_replacer_' = [in_replacer_ EXCEPT ![f] = FALSE]
    /\ size_' = OneLess
    /\ passed' = [passed EXCEPT ![f] = 0]
    /\ UNCHANGED <<ref_flags_, clock_hand_, sweeping, returned, turns>>

Unpin(f) ==
    /\ ~sweeping
    /\ f \in FrameIds
    /\ ~in_replacer_[f]
    /\ in_replacer_' = [in_replacer_ EXCEPT ![f] = TRUE]
    /\ ref_flags_' = [ref_flags_ EXCEPT ![f] = TRUE]
    /\ size_' = size_ + 1
    /\ UNCHANGED <<clock_hand_, sweeping, returned, turns, passed>>

Sweep == SweepOn \/ SweepTakes

Next ==
    \/ VictimFails \/ VictimStarts \/ Sweep
    \/ \E f \in AnyFrame : Pin(f) \/ Unpin(f)

\* A thread inside Victim keeps running: it waits for nothing but latch_,
\* which it already holds.
Spec == Init /\ [][Next]_vars /\ WF_vars(Sweep)

-----------------------------------------------------------------------------
\* The hand stays on the clock and size_ counts the candidates: if it ever exceeded them, Victim would sweep
\* for ever with the latch held; if it fell short, it would refuse a victim.
SizeCountsCandidates == TypeOK /\ size_ = Cardinality(Evictable)

\* The loop has no exit but a victim: a sweep always finds one, within two
\* rounds of the clock.
SweepBounded == sweeping => turns < 2 * num_frames_

\* Victim returns.
SweepEnds == sweeping ~> ~sweeping

\* No candidate is overlooked for long: between a frame's Unpin and its own
\* eviction no more victims are taken than there are other frames, the bound
\* true LRU gives, although frames may be pinned and unpinned all the while.
BoundedBypass == \A f \in FrameIds : passed[f] <= num_frames_ - 1

Abstract == INSTANCE Replacer WITH candidates <- Evictable

\* The policy is a Replacer, the turns of a sweep being invisible.
ImplementsReplacer == Abstract!ReplacerSpec
=============================================================================
