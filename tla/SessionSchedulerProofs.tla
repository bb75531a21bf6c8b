----------------------- MODULE SessionSchedulerProofs -----------------------
(***************************************************************************)
(* The packet scheduler, proved for every length of a bitmap word and      *)
(* every set of requests: its type invariant, that the scan of two masked  *)
(* words serves the slot a cyclic scan would, that nobody starves, and     *)
(* that it implements RoundRobin.                                          *)
(***************************************************************************)
EXTENDS SessionScheduler, WellFoundedInduction, TLAPS

Distance(c, s) == Promise!Distance(c, s)

\* A pending slot has been passed over no more often than slots lie between it
\* and the last slot that can still be served before it.
PassedOver ==
    \A s \in Slot : has_pending(s) => waited[s] + Distance(next_slot, s) <= SESSIONS - 1

SInv == TypeOK /\ PassedOver

-----------------------------------------------------------------------------
(* Slots, words and bits. *)

\* A slot is a word of the bitmap and a bit of it.
LEMMA Position ==
    ASSUME NEW s \in Slot
    PROVE  /\ bit(s) \in Bit
           /\ \/ word(s) = 0 /\ s = bit(s)
              \/ word(s) = 1 /\ s = WORD_BITS + bit(s)
  <1> DEFINE n == WORD_BITS
             q == s \div n
  <1>1. n \in Nat /\ n > 0 /\ s \in Nat /\ s < 2 * n
    BY SchedulerAssumption DEF Slot, SESSIONS
  <1>2. s % n \in 0 .. n - 1 /\ q \in Nat /\ s = n * q + (s % n)
    BY <1>1, Z3
  <1>3. q < 2
    BY <1>1, <1>2, Z3
  <1>4. q = 0 \/ q = 1
    BY <1>2, <1>3
  <1>5. (q = 0 /\ s = s % n) \/ (q = 1 /\ s = n + (s % n))
    BY <1>1, <1>2, <1>4, Z3
  <1> QED
    BY <1>2, <1>5 DEF word, bit, Bit

\* A bit of a word is a slot.
LEMMA SlotOf ==
    ASSUME NEW w \in {0, 1}, NEW b \in Bit
    PROVE  /\ WORD_BITS * w + b \in Slot
           /\ word(WORD_BITS * w + b) = w
           /\ bit(WORD_BITS * w + b) = b
  <1> DEFINE s == WORD_BITS * w + b
  <1>1. WORD_BITS \in Nat /\ WORD_BITS > 0 /\ b \in Nat /\ b < WORD_BITS
    BY SchedulerAssumption DEF Bit
  <1>2. (w = 0 /\ s = b) \/ (w = 1 /\ s = WORD_BITS + b)
    BY <1>1
  <1> HIDE DEF s
  <1>3. s \in Slot
    BY <1>1, <1>2 DEF Slot, SESSIONS
  <1>4. bit(s) \in Bit /\ (\/ word(s) = 0 /\ s = bit(s)
                           \/ word(s) = 1 /\ s = WORD_BITS + bit(s))
    BY <1>3, Position
  <1>5. word(s) = w /\ bit(s) = b
    BY <1>1, <1>2, <1>4 DEF Bit
  <1> QED
    BY <1>3, <1>5 DEF s

\* Two slots do not share a bit.
LEMMA Apart ==
    ASSUME NEW s \in Slot, NEW t \in Slot, word(s) = word(t), bit(s) = bit(t)
    PROVE  s = t
  BY Position

\* The lowest set bit of a word that is not zero.
LEMMA FirstSetBit ==
    ASSUME NEW value \in SUBSET Bit, value # {}
    PROVE  /\ first_set_bit(value) \in value
           /\ \A c \in value : first_set_bit(value) <= c
  <1>1. value \subseteq Nat
    BY DEF Bit
  <1>2. PICK b \in value : \A c \in value : ~(<<c, b>> \in OpToRel(<, Nat))
    BY <1>1, NatLessThanWellFounded, WFMin
  <1>3. ASSUME NEW c \in value PROVE b <= c
    <2>1. ~(c < b)
      <3>1. c \in Nat /\ b \in Nat /\ <<c, b>> \notin OpToRel(<, Nat)
        BY <1>1, <1>2
      <3>2. <<c, b>> \in Nat \X Nat
        BY <3>1
      <3>3. <<c, b>>[1] = c /\ <<c, b>>[2] = b
        OBVIOUS
      <3>4. ~(<<c, b>>[1] < <<c, b>>[2])
        BY <3>1, <3>2, Zenon DEF OpToRel
      <3> QED
        BY <3>3, <3>4
    <2> QED
      BY <1>1, <2>1
  <1> QED
    BY <1>3 DEF first_set_bit

\* The mask in the update of the cursor takes it from the last slot to the first.
LEMMA After ==
    ASSUME NEW s \in Slot
    PROVE  /\ after(s) = (IF s = SESSIONS - 1 THEN 0 ELSE s + 1)
           /\ after(s) \in Slot
  <1> DEFINE n == SESSIONS
             x == s + 1
             q == x \div n
  <1>1. n \in Nat /\ n > 0 /\ x \in Nat /\ x > 0 /\ x <= n
    BY SchedulerAssumption DEF Slot, SESSIONS
  <1> HIDE DEF n, x
  <1>2. x % n \in 0 .. n - 1 /\ q \in Nat /\ x = n * q + (x % n)
    BY <1>1, Z3
  <1>3. q = 0 \/ q >= 1
    BY <1>2
  <1>4. CASE q = 0
    <2>1. x % n = x
      BY <1>1, <1>2, <1>4, Z3
    <2> QED
      BY <1>1, <1>2, <2>1 DEF after, n, x, Slot
  <1>5. CASE q >= 1
    <2>1. n * q >= n
      BY <1>1, <1>2, <1>5, Z3
    <2>2. n * q \in Nat
      BY <1>1, <1>2
    <2>3. x = n /\ x % n = 0
      BY <1>1, <1>2, <2>1, <2>2
    <2> QED
      BY <1>1, <2>3 DEF after, n, x, Slot
  <1> QED
    BY <1>3, <1>4, <1>5

-----------------------------------------------------------------------------
(* The scan. *)

Pending == {s \in Slot : has_pending(s)}

\* The slot the scan finds is pending, and the first pending one going round.
LEMMA Chosen ==
    ASSUME TypeOK, \E w \in {0, 1} : ready_bitmap[w] # {}
    PROVE  /\ candidate(next_slot) \in Pending
           /\ \A t \in Pending :
                 Distance(next_slot, candidate(next_slot)) <= Distance(next_slot, t)
  <1> DEFINE w == word(next_slot)
             o == 1 - w
             upper == {b \in ready_bitmap[w] : b >= bit(next_slot)}
             lower == {b \in ready_bitmap[w] : b < bit(next_slot)}
             s == candidate(next_slot)
  <1>1. /\ next_slot \in Slot /\ w \in {0, 1} /\ o \in {0, 1} /\ o # w
        /\ {0, 1} = {w, o}
    BY Position DEF TypeOK
  <1>2. /\ ready_bitmap[w] \in SUBSET Bit /\ ready_bitmap[o] \in SUBSET Bit
        /\ upper \in SUBSET Bit /\ lower \in SUBSET Bit
    BY <1>1 DEF TypeOK
  <1>3. bit(next_slot) \in Bit /\ WORD_BITS \in Nat /\ Bit \subseteq Nat
    BY <1>1, Position, SchedulerAssumption DEF Bit
  <1>4. /\ upper \subseteq ready_bitmap[w] /\ lower \subseteq ready_bitmap[w]
        /\ \A b \in ready_bitmap[w] : b < bit(next_slot) => b \in lower
        /\ \A b \in ready_bitmap[w] : ~(b < bit(next_slot)) => b \in upper
    <2>1. ASSUME NEW b \in ready_bitmap[w], ~(b < bit(next_slot)) PROVE b \in upper
      <3>1. b \in Nat /\ bit(next_slot) \in Nat
        BY <1>2, <1>3
      <3> QED
        BY <2>1, <3>1
    <2> QED
      BY <2>1
  <1>5. ASSUME NEW v \in {0, 1}, NEW set \in SUBSET ready_bitmap[v], set # {},
               s = WORD_BITS * v + first_set_bit(set)
        PROVE  /\ s \in Slot /\ word(s) = v /\ bit(s) \in set
               /\ \A b \in set : bit(s) <= b
    <2>1. set \in SUBSET Bit
      BY <1>1, <1>2, <1>5
    <2>2. first_set_bit(set) \in set /\ \A b \in set : first_set_bit(set) <= b
      BY <1>5, <2>1, FirstSetBit
    <2> QED
      BY <1>5, <2>1, <2>2, SlotOf
  <1>6. ASSUME s \in Slot, bit(s) \in ready_bitmap[word(s)],
               \A t \in Slot : bit(t) \in ready_bitmap[word(t)]
                    => Distance(next_slot, s) <= Distance(next_slot, t)
        PROVE  /\ s \in Pending
               /\ \A t \in Pending : Distance(next_slot, s) <= Distance(next_slot, t)
    BY <1>6 DEF Pending, has_pending
  <1>7. CASE upper # {}
    <2>1. s = WORD_BITS * w + first_set_bit(upper)
      BY <1>7 DEF candidate
    <2>2. s \in Slot /\ word(s) = w /\ bit(s) \in upper /\ \A b \in upper : bit(s) <= b
      BY <1>1, <1>4, <1>7, <2>1, <1>5
    <2>3. ASSUME NEW t \in Slot, bit(t) \in ready_bitmap[word(t)]
          PROVE  Distance(next_slot, s) <= Distance(next_slot, t)
      <3>1. word(t) = w => bit(t) < bit(next_slot) \/ bit(s) <= bit(t)
        BY <1>4, <2>2, <2>3
      <3> HIDE DEF s, w, upper
      <3> QED
        BY <1>1, <1>3, <2>2, <3>1, Position
           DEF Distance, Promise!Distance, SESSIONS, Bit, w, upper
    <2> QED
      BY <2>2, <2>3, <1>6
  <1>8. CASE upper = {} /\ ready_bitmap[o] # {}
    <2>1. s = WORD_BITS * o + first_set_bit(ready_bitmap[o])
      BY <1>8 DEF candidate
    <2>2. /\ s \in Slot /\ word(s) = o /\ bit(s) \in ready_bitmap[o]
          /\ \A b \in ready_bitmap[o] : bit(s) <= b
      BY <1>1, <1>8, <2>1, <1>5
    <2>3. ASSUME NEW t \in Slot, bit(t) \in ready_bitmap[word(t)]
          PROVE  Distance(next_slot, s) <= Distance(next_slot, t)
      <3>1. /\ word(t) = w => bit(t) < bit(next_slot)
            /\ word(t) = o => bit(s) <= bit(t)
        BY <1>4, <1>8, <2>2, <2>3
      <3> HIDE DEF s, w, o
      <3> QED
        BY <1>1, <1>3, <2>2, <3>1, Position
           DEF Distance, Promise!Distance, SESSIONS, Bit, w, o
    <2> QED
      BY <2>2, <2>3, <1>6
  <1>9. CASE upper = {} /\ ready_bitmap[o] = {}
    <2>1. s = WORD_BITS * w + first_set_bit(lower) /\ lower # {}
      BY <1>9, <1>1, <1>4 DEF candidate
    <2>2. s \in Slot /\ word(s) = w /\ bit(s) \in lower /\ \A b \in lower : bit(s) <= b
      BY <1>1, <1>4, <2>1, <1>5
    <2>3. ASSUME NEW t \in Slot, bit(t) \in ready_bitmap[word(t)]
          PROVE  Distance(next_slot, s) <= Distance(next_slot, t)
      <3>1. word(t) = w /\ bit(t) \in lower /\ bit(s) <= bit(t) /\ bit(t) < bit(next_slot)
        <4>1. word(t) = w
          BY <1>1, <1>9, <2>3, Position
        <4>2. bit(t) \in lower
          BY <1>4, <1>9, <2>3, <4>1
        <4> QED
          BY <2>2, <4>1, <4>2
      <3> HIDE DEF s, w, lower
      <3> QED
        BY <1>1, <1>3, <2>2, <3>1, Position
           DEF Distance, Promise!Distance, SESSIONS, Bit, w
    <2> QED
      BY <2>1, <2>2, <2>3, <1>6
  <1> QED
    BY <1>7, <1>8, <1>9

-----------------------------------------------------------------------------
(* What a call does to the pending slots. *)

\* A submission makes its slot pending and no other.
LEMMA SubmitSets ==
    ASSUME TypeOK, NEW s, NEW r \in Request, Submit(s, r)
    PROVE  /\ s \in Slot /\ ready_bitmap' \in [{0, 1} -> SUBSET Bit]
           /\ \A t \in Slot : has_pending(t)' = (has_pending(t) \/ t = s)
  <1>1. /\ s \in Slot /\ word(s) \in {0, 1} /\ bit(s) \in Bit
        /\ ready_bitmap' = [ready_bitmap EXCEPT ![word(s)] = @ \cup {bit(s)}]
    BY Position DEF Submit
  <1>2. ready_bitmap' \in [{0, 1} -> SUBSET Bit]
    BY <1>1 DEF TypeOK
  <1>3. ASSUME NEW t \in Slot
        PROVE  has_pending(t)' = (has_pending(t) \/ t = s)
    <2>1. word(t) \in {0, 1}
      BY Position
    <2>2. word(t) = word(s) /\ bit(t) = bit(s) => t = s
      BY <1>1, Apart
    <2> QED
      BY <1>1, <2>1, <2>2 DEF has_pending, TypeOK
  <1> QED
    BY <1>1, <1>2, <1>3

\* A take makes the slot it serves, the first pending one, idle and no other.
LEMMA TakeClears ==
    ASSUME TypeOK, TakeNext
    PROVE  \E s \in Pending :
              /\ \A t \in Pending : Distance(next_slot, s) <= Distance(next_slot, t)
              /\ ready_bitmap' \in [{0, 1} -> SUBSET Bit]
              /\ \A t \in Slot : has_pending(t)' = (has_pending(t) /\ t # s)
              /\ next_slot' = after(s)
              /\ taken' = <<s, pending[s]>>
              /\ waited' = [t \in Slot |-> IF has_pending(t) /\ t # s
                                           THEN waited[t] + 1 ELSE 0]
  <1> DEFINE s == candidate(next_slot)
  <1>1. s \in Pending /\ \A t \in Pending : Distance(next_slot, s) <= Distance(next_slot, t)
    BY Chosen DEF TakeNext
  <1>2. /\ ready_bitmap' = [ready_bitmap EXCEPT ![word(s)] = @ \ {bit(s)}]
        /\ next_slot' = after(s)
        /\ taken' = <<s, pending[s]>>
        /\ waited' = [t \in Slot |-> IF has_pending(t) /\ t # s THEN waited[t] + 1 ELSE 0]
    BY DEF TakeNext
  <1> HIDE DEF s
  <1>3. s \in Slot /\ word(s) \in {0, 1} /\ bit(s) \in Bit
    BY <1>1, Position DEF Pending
  <1>4. ready_bitmap' \in [{0, 1} -> SUBSET Bit]
    BY <1>2, <1>3 DEF TypeOK
  <1>5. ASSUME NEW t \in Slot
        PROVE  has_pending(t)' = (has_pending(t) /\ t # s)
    <2>1. word(t) \in {0, 1}
      BY Position
    <2>2. word(t) = word(s) /\ bit(t) = bit(s) => t = s
      BY <1>3, Apart
    <2> QED
      BY <1>2, <1>3, <2>1, <2>2 DEF has_pending, TypeOK
  <1> QED
    BY <1>1, <1>2, <1>4, <1>5

\* Going round from c, the slot after the first pending one is nearer to every
\* other pending one.
LEMMA Nearer ==
    ASSUME NEW c \in Slot, NEW s \in Slot, NEW t \in Slot, s # t,
           Distance(c, s) <= Distance(c, t)
    PROVE  Distance(after(s), t) < Distance(c, t)
  <1>1. after(s) = (IF s = SESSIONS - 1 THEN 0 ELSE s + 1)
    BY After
  <1> QED
    BY <1>1, SchedulerAssumption DEF Distance, Promise!Distance, Slot, SESSIONS

\* A distance is a number of slots.
LEMMA DistanceRange ==
    ASSUME NEW c \in Slot, NEW s \in Slot
    PROVE  Distance(c, s) \in 0 .. SESSIONS - 1
  BY SchedulerAssumption DEF Distance, Promise!Distance, Slot, SESSIONS

-----------------------------------------------------------------------------
(* The invariant. *)

LEMMA InitEstablishes == Init => SInv
  <1> SUFFICES ASSUME Init PROVE SInv
    OBVIOUS
  <1>1. 0 \in Slot
    BY SchedulerAssumption DEF Slot, SESSIONS
  <1>2. \A s \in Slot : ~has_pending(s)
    BY Position DEF Init, has_pending
  <1> QED
    BY <1>1, <1>2 DEF Init, SInv, TypeOK, PassedOver

LEMMA InvariantStep == SInv /\ [Next]_vars => SInv'
  <1> SUFFICES ASSUME SInv, [Next]_vars PROVE SInv'
    OBVIOUS
  <1> USE DEF SInv
  <1>1. ASSUME NEW s \in 0 .. SESSIONS, NEW r \in Request, Submit(s, r)
        PROVE  SInv'
    <2>1. /\ s \in Slot /\ ready_bitmap' \in [{0, 1} -> SUBSET Bit]
          /\ \A t \in Slot : has_pending(t)' = (has_pending(t) \/ t = s)
      BY <1>1, SubmitSets
    <2>2. TypeOK'
      BY <1>1, <2>1, SchedulerAssumption DEF TypeOK, Submit
    <2>3. ASSUME NEW t \in Slot, has_pending(t)'
          PROVE  waited'[t] + Distance(next_slot', t) <= SESSIONS - 1
      <3>1. next_slot' = next_slot /\ next_slot \in Slot
            /\ waited' = [waited EXCEPT ![s] = 0] /\ waited \in [Slot -> Nat]
        BY <1>1 DEF Submit, TypeOK
      <3>2. CASE t = s
        <4>1. waited'[t] = 0
          BY <2>1, <3>1, <3>2
        <4>2. Distance(next_slot, t) \in 0 .. SESSIONS - 1
          BY <3>1, DistanceRange
        <4> QED
          BY <3>1, <4>1, <4>2, SchedulerAssumption DEF SESSIONS
      <3>3. CASE t # s
        <4>1. waited'[t] = waited[t] /\ has_pending(t)
          BY <2>1, <2>3, <3>1, <3>3
        <4> QED
          BY <3>1, <4>1 DEF PassedOver
      <3> QED
        BY <3>2, <3>3
    <2>4. PassedOver'
      BY <2>3 DEF PassedOver, Distance
    <2> QED
      BY <2>2, <2>4
  <1>2. CASE TakeNext
    <2>1. PICK s \in Pending :
              /\ \A t \in Pending : Distance(next_slot, s) <= Distance(next_slot, t)
              /\ ready_bitmap' \in [{0, 1} -> SUBSET Bit]
              /\ \A t \in Slot : has_pending(t)' = (has_pending(t) /\ t # s)
              /\ next_slot' = after(s)
              /\ taken' = <<s, pending[s]>>
              /\ waited' = [t \in Slot |-> IF has_pending(t) /\ t # s
                                           THEN waited[t] + 1 ELSE 0]
      BY <1>2, TakeClears
    <2>2. s \in Slot /\ has_pending(s) /\ after(s) \in Slot /\ pending' = pending
      BY <1>2, After DEF Pending, TakeNext
    <2>3. TypeOK'
      <3>1. pending[s] \in Request
        BY <2>2 DEF TypeOK
      <3>2. waited' \in [Slot -> Nat]
        BY <2>1 DEF TypeOK
      <3> QED
        BY <2>1, <2>2, <3>1, <3>2 DEF TypeOK
    <2>4. ASSUME NEW t \in Slot, has_pending(t)'
          PROVE  waited'[t] + Distance(next_slot', t) <= SESSIONS - 1
      <3>1. has_pending(t) /\ t # s /\ waited'[t] = waited[t] + 1 /\ waited[t] \in Nat
        BY <2>1, <2>4 DEF TypeOK
      <3>2. next_slot \in Slot /\ Distance(next_slot, s) <= Distance(next_slot, t)
        BY <2>1, <3>1 DEF Pending, TypeOK
      <3>3. Distance(next_slot', t) < Distance(next_slot, t)
        BY <2>1, <2>2, <3>1, <3>2, Nearer
      <3>4. /\ Distance(next_slot', t) \in 0 .. SESSIONS - 1
            /\ Distance(next_slot, t) \in 0 .. SESSIONS - 1
        BY <2>1, <2>2, <3>2, DistanceRange
      <3>5. waited[t] + Distance(next_slot, t) <= SESSIONS - 1
        BY <3>1 DEF PassedOver
      <3> QED
        BY <3>1, <3>3, <3>4, <3>5, SchedulerAssumption DEF SESSIONS
    <2>5. PassedOver'
      BY <2>4 DEF PassedOver, Distance
    <2> QED
      BY <2>3, <2>5
  <1>3. CASE UNCHANGED vars
    BY <1>3 DEF vars, TypeOK, PassedOver, has_pending, Distance, Promise!Distance
  <1> QED
    BY <1>1, <1>2, <1>3 DEF Next

LEMMA Inductive == Spec => []SInv
  <1> QED
    BY InitEstablishes, InvariantStep, PTL DEF Spec

-----------------------------------------------------------------------------
(* Theorems. *)

\* The bitmap, the cursor and the entries keep to their kinds, and every set bit
\* of the bitmap stands for a request pqc_scheduler_submit has accepted.
THEOREM TypeCorrect == Spec => []TypeOK
  <1>1. SInv => TypeOK
    BY DEF SInv
  <1> QED
    BY <1>1, Inductive, PTL

\* pqc_scheduler_take_next passes over a pending slot at most once for each other
\* slot, whatever is submitted in between.
THEOREM NobodyStarves == Spec => []NotStarved
  <1>1. SInv => NotStarved
    <2> SUFFICES ASSUME SInv, NEW s \in Slot, has_pending(s) PROVE waited[s] < SESSIONS
      BY DEF NotStarved
    <2>1. waited[s] + Distance(next_slot, s) <= SESSIONS - 1
      BY DEF SInv, PassedOver
    <2>2. Distance(next_slot, s) \in 0 .. SESSIONS - 1 /\ waited[s] \in Nat
      BY DistanceRange DEF SInv, TypeOK
    <2> QED
      BY <2>1, <2>2, SchedulerAssumption DEF SESSIONS
  <1> QED
    BY <1>1, Inductive, PTL

\* The masked scan of two words is a cyclic scan of one queue.
THEOREM CyclicQueue == Spec => ImplementsRoundRobin
  <1>1. Init => Promise!RInit
    <2> SUFFICES ASSUME Init PROVE Promise!RInit
      OBVIOUS
    <2>1. \A s \in Slot : ~has_pending(s)
      BY Position DEF Init, has_pending
    <2> QED
      BY <2>1 DEF Init, Promise!RInit, Promise!Slot, Slot, Queue
  <1>2. TypeOK /\ [Next]_vars => [Promise!RNext]_<<Queue, next_slot, taken>>
    <2> SUFFICES ASSUME TypeOK, [Next]_vars
                 PROVE  Promise!RNext \/ UNCHANGED <<Queue, next_slot, taken>>
      OBVIOUS
    <2>0. Promise!Slot = Slot
      BY DEF Promise!Slot, Slot
    <2>1. ASSUME NEW s \in 0 .. SESSIONS, NEW r \in Request, Submit(s, r)
          PROVE  Promise!RNext
      <3>1. /\ s \in Slot
            /\ \A t \in Slot : has_pending(t)' = (has_pending(t) \/ t = s)
        BY <2>1, SubmitSets
      <3>2. Queue[s] = None
        BY <2>1, <3>1 DEF Queue, Submit
      <3>3. Queue' = [Queue EXCEPT ![s] = r]
        BY <2>1, <3>1 DEF Queue, Submit, TypeOK
      <3>4. Promise!Put(s, r)
        BY <2>1, <3>2, <3>3 DEF Promise!Put, Submit
      <3> QED
        BY <2>0, <3>1, <3>4 DEF Promise!RNext
    <2>2. CASE TakeNext
      <3>1. PICK s \in Pending :
                /\ \A t \in Pending : Distance(next_slot, s) <= Distance(next_slot, t)
                /\ \A t \in Slot : has_pending(t)' = (has_pending(t) /\ t # s)
                /\ next_slot' = after(s)
                /\ taken' = <<s, pending[s]>>
        BY <2>2, TakeClears
      <3>2. s \in Slot /\ has_pending(s) /\ pending' = pending
        BY <2>2 DEF Pending, TakeNext
      <3>3. Promise!Waiting = Pending
        BY <2>0 DEF Promise!Waiting, Pending, Queue, TypeOK
      <3>4. Queue[s] = pending[s] /\ Queue' = [Queue EXCEPT ![s] = None]
        BY <3>1, <3>2 DEF Queue
      <3>5. next_slot' = IF s = SESSIONS - 1 THEN 0 ELSE s + 1
        BY <3>1, <3>2, After
      <3>6. Promise!Get(s)
        BY <3>1, <3>3, <3>4, <3>5 DEF Promise!Get, Distance
      <3> QED
        BY <2>0, <3>2, <3>6 DEF Promise!RNext
    <2>3. CASE UNCHANGED vars
      BY <2>3 DEF vars, Queue, has_pending
    <2> QED
      BY <2>1, <2>2, <2>3 DEF Next
  <1> QED
    BY <1>1, <1>2, TypeCorrect, PTL DEF Spec, ImplementsRoundRobin, Promise!RSpec
=============================================================================
