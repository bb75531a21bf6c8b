----------------------------- MODULE RoundRobin -----------------------------
(***************************************************************************)
(* What the packet scheduler promises: a queue of at most one request per  *)
(* slot, served in cyclic order starting from a cursor.                    *)
(***************************************************************************)
EXTENDS Integers

CONSTANTS SESSIONS, Request, None

VARIABLES queue,   \* slot -> its request, or None
          cursor,  \* the slot to be served first
          taken    \* the latest slot and request handed out, or None

Slot == 0 .. SESSIONS - 1

\* Slots passed over, going round from slot c, before slot s is reached.
Distance(c, s) == IF s >= c THEN s - c ELSE s - c + SESSIONS

Waiting == {s \in Slot : queue[s] # None}

RInit == /\ queue = [s \in Slot |-> None]
         /\ cursor = 0
         /\ taken = None

Put(s, r) == /\ queue[s] = None
             /\ queue' = [queue EXCEPT ![s] = r]
             /\ UNCHANGED <<cursor, taken>>

Get(s) == /\ s \in Waiting
          /\ \A t \in Waiting : Distance(cursor, s) <= Distance(cursor, t)
          /\ taken' = <<s, queue[s]>>
          /\ queue' = [queue EXCEPT ![s] = None]
          /\ cursor' = IF s = SESSIONS - 1 THEN 0 ELSE s + 1

RNext == \E s \in Slot : Get(s) \/ \E r \in Request : Put(s, r)

RSpec == RInit /\ [][RNext]_<<queue, cursor, taken>>
=============================================================================
