------------------------------ MODULE SlotLease ------------------------------
(***************************************************************************)
(* What the handover demonstration promises about the session slots of its *)
(* boards: every slot is free or leased to one vehicle id; a vehicle gets  *)
(* the lowest free slot of a board, and a leased slot becomes free before  *)
(* anybody else gets it.                                                   *)
(***************************************************************************)
EXTENDS Integers

CONSTANTS Board, Slot, Tenant, None

VARIABLE lease  \* board -> slot -> the vehicle id it is leased to, or None

\* No slot is leased above a free one at the start.
LeaseInit ==
    /\ lease \in [Board -> [Slot -> Tenant \cup {None}]]
    /\ \A b \in Board : \A s, t \in Slot :
          s < t /\ lease[b][t] # None => lease[b][s] # None

Take(b, s, t) ==
    /\ lease[b][s] = None
    /\ \A r \in Slot : r < s => lease[b][r] # None
    /\ lease' = [lease EXCEPT ![b][s] = t]

Give(b, s) == lease' = [lease EXCEPT ![b][s] = None]

LeaseNext == \E b \in Board, s \in Slot : Give(b, s) \/ \E t \in Tenant : Take(b, s, t)

LeaseSpec == LeaseInit /\ [][LeaseNext]_lease
=============================================================================
