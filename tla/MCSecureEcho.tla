---------------------------- MODULE MCSecureEcho ----------------------------
(* Small instances of the UART demonstration for TLC. *)
EXTENDS SecureEcho, TLC

CONSTANTS s1, s2, b1, b2

MCSlots == {s1, s2}
MCOneSlot == {s1}
MCBodies == {b1, b2}
MCOneBody == {b1}

\* Joins of each slot: a slot whose ids wrap beside one that is joined once, or
\* two of every slot.
MCThreeAndOne == (s1 :> 3) @@ (s2 :> 1)
MCTwoEach == [s \in Slot |-> 2]
=============================================================================
