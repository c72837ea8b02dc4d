------------------------------ MODULE Replacer ------------------------------
(***************************************************************************)
(* The Replacer interface (replacer.hpp) as its user, the buffer pool,     *)
(* relies on it: a set of candidate frames.  Unpin adds a frame, Pin       *)
(* removes it, Victim removes and returns one of them, whichever the       *)
(* policy prefers, and fails only when there is none.                      *)
(***************************************************************************)
EXTENDS Integers

CONSTANT num_frames_   \* how many frames the pool has

VARIABLES
    candidates,   \* frames that may be evicted
    returned      \* what the last call of Victim gave, NoVictim if nothing

replacerVars == <<candidates, returned>>

FrameIds == 0 .. (num_frames_ - 1)
NoVictim == -1

ReplacerInit ==
    /\ candidates = {}
    /\ returned = NoVictim

TakeVictim(f) ==
    /\ f \in candidates
    /\ candidates' = candidates \ {f}
    /\ returned' = f

FindNoVictim ==
    /\ candidates = {}
    /\ returned' = NoVictim
    /\ UNCHANGED candidates

PinFrame(f) ==
    /\ candidates' = candidates \ {f}
    /\ UNCHANGED returned

UnpinFrame(f) ==
    /\ candidates' = candidates \union {f}
    /\ UNCHANGED returned

ReplacerNext ==
    \/ \E f \in FrameIds : TakeVictim(f) \/ PinFrame(f) \/ UnpinFrame(f)
    \/ FindNoVictim

ReplacerSpec == ReplacerInit /\ [][ReplacerNext]_replacerVars
=============================================================================
