----------------------------- MODULE SlotWindow -----------------------------
(***************************************************************************)
(* What the slot index promises: a window of consecutive slots that grows  *)
(* at both ends by one slot at a time, shrinks at both ends, and never     *)
(* holds more than Max slots.                                              *)
(***************************************************************************)
EXTENDS Integers, Sequences

CONSTANTS Max, Entries

VARIABLE window     \* entries in slot order, entry.slot is the slot

GrowFront(e) ==
    /\ Len(window) < Max
    /\ window # <<>> => e.slot = window[Len(window)].slot + 1
    /\ window' = Append(window, e)

GrowBack(e) ==
    /\ Len(window) < Max
    /\ window # <<>>
    /\ e.slot = window[1].slot - 1
    /\ window' = <<e>> \o window

ShrinkBack ==
    /\ window # <<>>
    /\ window' = Tail(window)

ShrinkFront ==
    /\ window # <<>>
    /\ window' = SubSeq(window, 1, Len(window) - 1)

Init == window = <<>>

Next ==
    \/ \E e \in Entries : GrowFront(e) \/ GrowBack(e)
    \/ ShrinkBack
    \/ ShrinkFront

Spec == Init /\ [][Next]_window
=============================================================================
