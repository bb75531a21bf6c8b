-------------------------- MODULE SessionScheduler --------------------------
(***************************************************************************)
(* The packet scheduler of the firmware, pqc_session_scheduler.c: one      *)
(* pending request per slot, a ready bitmap of two words, and a            *)
(* round-robin scan of the two words.  A word of the bitmap is the set of  *)
(* its set bits.  The functions are called from one thread, so an action   *)
(* is one call.                                                            *)
(***************************************************************************)
EXTENDS Integers

CONSTANTS WORD_BITS,   \* bits of a bitmap word (32)
          Request,     \* packet requests
          TooLong,     \* those longer than a packet may be
          None         \* an entry the memset of init has left

ASSUME SchedulerAssumption ==
    /\ WORD_BITS \in Nat \ {0}
    /\ TooLong \subseteq Request
    /\ None \notin Request

SESSIONS == 2 * WORD_BITS
Slot == 0 .. SESSIONS - 1
Bit == 0 .. WORD_BITS - 1

VARIABLES ready_bitmap,  \* word -> the bits that are set
          next_slot,
          pending,       \* slot -> request; a taken entry keeps its contents
          taken,         \* the slot and request of the latest successful take
          waited         \* history: slot -> takes it has been pending through

vars == <<ready_bitmap, next_slot, pending, taken, waited>>

word(s) == s \div WORD_BITS
bit(s) == s % WORD_BITS

first_set_bit(value) == CHOOSE b \in value : \A c \in value : b <= c

has_pending(s) == bit(s) \in ready_bitmap[word(s)]

\* The scan: this word from the start bit up, the other word, then the rest of
\* this word.  It is meant for a bitmap that is not empty.
candidate_NoMask(start) ==              \* slip: scans this word from bit 0
    LET w == word(start)
    IN IF ready_bitmap[w] # {}
       THEN WORD_BITS * w + first_set_bit(ready_bitmap[w])
       ELSE WORD_BITS * (1 - w) + first_set_bit(ready_bitmap[1 - w])
candidate(start) ==
    LET w == word(start)
        upper == {b \in ready_bitmap[w] : b >= bit(start)}
        lower == {b \in ready_bitmap[w] : b < bit(start)}
    IN CASE upper # {} -> WORD_BITS * w + first_set_bit(upper)
         [] upper = {} /\ ready_bitmap[1 - w] # {} ->
                WORD_BITS * (1 - w) + first_set_bit(ready_bitmap[1 - w])
         [] OTHER -> WORD_BITS * w + first_set_bit(lower)

after_Unmasked(s) == s + 1              \* slip: runs past the last slot
after_Same(s) == s                      \* slip: the cursor stays where it served
after(s) == (s + 1) % SESSIONS

Init == /\ ready_bitmap = [w \in {0, 1} |-> {}]
        /\ next_slot = 0
        /\ pending = [s \in Slot |-> None]
        /\ taken = None
        /\ waited = [s \in Slot |-> 0]

\* A slot past the table, a message too long or a slot already pending is
\* refused and changes nothing.
Submit(s, r) ==
    /\ s \in Slot /\ r \notin TooLong
    /\ ~has_pending(s)
    /\ pending' = [pending EXCEPT ![s] = r]
    /\ ready_bitmap' = [ready_bitmap EXCEPT ![word(s)] = @ \cup {bit(s)}]
    /\ waited' = [waited EXCEPT ![s] = 0]
    /\ UNCHANGED <<next_slot, taken>>

TakeNext ==
    /\ \E w \in {0, 1} : ready_bitmap[w] # {}
    /\ LET s == candidate(next_slot)
       IN /\ ready_bitmap' = [ready_bitmap EXCEPT ![word(s)] = @ \ {bit(s)}]
          /\ next_slot' = after(s)
          /\ taken' = <<s, pending[s]>>
          /\ waited' = [t \in Slot |-> IF has_pending(t) /\ t # s
                                       THEN waited[t] + 1 ELSE 0]
    /\ UNCHANGED pending

Next == \/ \E s \in 0 .. SESSIONS, r \in Request : Submit(s, r)
        \/ TakeNext

Spec == Init /\ [][Next]_vars

-----------------------------------------------------------------------------

\* The bitmap has bits of its words only, the cursor is a slot, and every set
\* bit stands for a request that was accepted.
TypeOK == /\ ready_bitmap \in [{0, 1} -> SUBSET Bit]
          /\ next_slot \in Slot
          /\ pending \in [Slot -> (Request \ TooLong) \cup {None}]
          /\ taken \in (Slot \X Request) \cup {None}
          /\ waited \in [Slot -> Nat]
          /\ \A s \in Slot : has_pending(s) => pending[s] # None

\* Whatever is submitted meanwhile and wherever the cursor stands, a pending
\* request is passed over at most once for each other slot: the wrap at the
\* last slot and the split into two words starve nobody.
NotStarved == \A s \in Slot : has_pending(s) => waited[s] < SESSIONS

\* The scan of two words serves what a cyclic scan of all slots would, and hands
\* out each accepted request once and unchanged.
Queue == [s \in Slot |-> IF has_pending(s) THEN pending[s] ELSE None]
Promise == INSTANCE RoundRobin WITH queue <- Queue, cursor <- next_slot
ImplementsRoundRobin == Promise!RSpec
=============================================================================
