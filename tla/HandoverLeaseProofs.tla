-------------------------- MODULE HandoverLeaseProofs --------------------------
(***************************************************************************)
(* The refinement of the handover demonstration, proved for any number of  *)
(* vehicles, slots and failing calls: the controller's reservations and    *)
(* the workers' tables, of three threads, together hand the slots of a     *)
(* board out as one allocator does (SlotLease).                            *)
(***************************************************************************)
EXTENDS HandoverControllerProofs

\* The OPENs on their way to a board or back.
Opens(b) == {c \in Pending(b) : c.kind = "open"}
OpensLeft(b) == {c \in Left(b) : c.kind = "open"}

Tenant == 0 .. MAX_SESSIONS

\* A slot is reserved only while its OPEN is on its way.
Held == \A b \in Board : \A s \in reserved[b] : \E c \in Opens(b) : c.slot = s

IdsWrap == \A v \in Vehicle : vehicles[v].id \in Tenant

-----------------------------------------------------------------------------
(* What a step does to the slots and to the OPENs on their way.             *)

Nothing == UNCHANGED <<slots, reserved>> /\ \A d \in Board : Opens(d)' = Opens(d)

Asks == \E b \in Board : \E s \in FreeSlots(b) : \E x \in Command :
    /\ \A r \in FreeSlots(b) : s <= r
    /\ x.kind = "open" /\ x.slot = s /\ x.vid \in Tenant
    /\ UNCHANGED slots /\ reserved' = [reserved EXCEPT ![b] = @ \cup {s}]
    /\ Opens(b)' = Opens(b) \cup {x}
    /\ \A d \in Board : d # b => Opens(d)' = Opens(d)

Learns == \E b \in Board : \E c \in Opens(b) :
    /\ UNCHANGED slots /\ reserved' = [reserved EXCEPT ![b] = @ \ {c.slot}]
    /\ Opens(b)' = Opens(b) \ {c} /\ \A e \in Opens(b) \ {c} : e.slot # c.slot
    /\ \A d \in Board : d # b => Opens(d)' = Opens(d)

OpensSlot == \E b \in Board : \E c \in Opens(b) :
    /\ slots[b][c.slot] = None
    /\ slots' = [slots EXCEPT ![b][c.slot] = c.vid]
    /\ UNCHANGED reserved /\ \A d \in Board : Opens(d)' = Opens(d)

FreesSlot == \E b \in Board : \E s \in Slot :
    /\ \A c \in Opens(b) : c.slot # s
    /\ slots' = [slots EXCEPT ![b][s] = None]
    /\ UNCHANGED reserved /\ \A d \in Board : Opens(d)' = Opens(d)

Effect == Nothing \/ Asks \/ Learns \/ OpensSlot \/ FreesSlot

-----------------------------------------------------------------------------
(* Queues.                                                                  *)

\* No two OPENs on their way ask for the same slot.
LEMMA OneOpen ==
    ASSUME IInv, NEW b \in Board, NEW c \in Opens(b), NEW e \in Opens(b), c.slot = e.slot
    PROVE  c.vid = e.vid
BY DEF IInv, Asked, Opens

\* What is pending after a command is submitted and a result collected.
LEMMA SubmittedOpens ==
    ASSUME Typed, Collected, NEW d \in Board
    PROVE  /\ commands'[d] = commands[d] => Opens(d)' = OpensLeft(d)
           /\ \A x \in Command : commands'[d] = Append(commands[d], x) =>
                 Opens(d)' = OpensLeft(d) \cup (IF x.kind = "open" THEN {x} ELSE {})
<1>1. commands[d] \in Seq(Command)
  BY DEF Typed
<1>2. Pending(d)' = Queued(d)' \cup {r.command : r \in Answers(d)'}
  BY DEF Pending, Queued, Answers
<1>3. ASSUME commands'[d] = commands[d] PROVE Opens(d)' = OpensLeft(d)
  <2>1. Queued(d)' = Queued(d)
    BY <1>3 DEF Queued
  <2> QED
    BY <1>2, <2>1 DEF Opens, OpensLeft, Left
<1>4. ASSUME NEW x \in Command, commands'[d] = Append(commands[d], x)
      PROVE  Opens(d)' = OpensLeft(d) \cup (IF x.kind = "open" THEN {x} ELSE {})
  <2>1. Queued(d)' = Queued(d) \cup {x}
    BY <1>1, <1>4, AppendElements DEF Queued
  <2>2. Pending(d)' = Left(d) \cup {x}
    BY <1>2, <2>1 DEF Left
  <2> QED
    BY <2>2 DEF Opens, OpensLeft
<1> QED
  BY <1>3, <1>4

\* What is left when no result is collected.
LEMMA NothingCollected ==
    ASSUME Typed, NEW d \in Board, results'[d] = results[d]
    PROVE  OpensLeft(d) = Opens(d)
<1>1. Answers(d)' = Answers(d)
  BY DEF Answers
<1>2. Left(d) = Pending(d)
  BY <1>1, PendingType DEF Left
<1> QED
  BY <1>2 DEF Opens, OpensLeft

\* What is left when a result is.
LEMMA ResultCollected ==
    ASSUME IInv, NEW b \in Board, results[b] # <<>>,
           results' = [results EXCEPT ![b] = Tail(@)],
           NEW c, c = Head(results[b]).command
    PROVE  /\ \A d \in Board : d # b => OpensLeft(d) = Opens(d)
           /\ c.kind = "open" => c \in Opens(b) /\ OpensLeft(b) = Opens(b) \ {c}
           /\ c.kind # "open" => OpensLeft(b) = Opens(b)
<1> USE DEF IInv
<1>1. results \in [Board -> Seq(Result)]
  BY DEF Typed
<1>2. /\ results'[b] = Tail(results[b])
      /\ \A d \in Board : d # b => results'[d] = results[d]
  BY <1>1
<1>3. Answers(b) = Answers(b)' \cup {Head(results[b])}
  BY <1>1, <1>2, TailElements DEF Answers
<1>4. Pending(b) = Left(b) \cup {c}
  BY <1>3, PendingType DEF Left
<1>5. c.kind = "open" => c \notin Left(b)
  BY HeadAnswer DEF IsOrder
<1>6. \A d \in Board : d # b => OpensLeft(d) = Opens(d)
  BY <1>2, NothingCollected
<1> QED
  BY <1>4, <1>5, <1>6 DEF Opens, OpensLeft

-----------------------------------------------------------------------------
(* Every step has one of the effects, and ids wrap round.                   *)

\* The requests of the controller, with a result collected or without.
LEMMA RequestOpenEffect ==
    ASSUME Typed, Collected, \A d \in Board : OpensLeft(d) = Opens(d), slots' = slots,
           NEW v \in Vehicle, NEW u, u.id \in Tenant, NEW target \in Board,
           NEW reason \in {"entry", "retry", "handover"}, RequestOpen(v, u, target, reason)
    PROVE  /\ Effect
           /\ \E t : t.id = u.id /\ vehicles' = [vehicles EXCEPT ![v] = t]
<1>1. CASE /\ vehicles' = [vehicles EXCEPT ![v] = [u EXCEPT !.state = "disconnected",
                                                            !.retry_at = TRUE]]
           /\ UNCHANGED <<reserved, commands>>
  <2>1. \A d \in Board : Opens(d)' = Opens(d)
    BY <1>1, SubmittedOpens
  <2>2. [u EXCEPT !.state = "disconnected", !.retry_at = TRUE].id = u.id
    OBVIOUS
  <2> QED
    BY <1>1, <2>1, <2>2 DEF Effect, Nothing
<1>2. ASSUME NEW s \in FreeSlots(target), \A t \in FreeSlots(target) : s <= t,
             reserved' = [reserved EXCEPT ![target] = @ \cup {s}],
             vehicles' = [vehicles EXCEPT ![v] =
                [u EXCEPT !.old = u.at,
                          !.state = IF reason = "handover" THEN "handover" ELSE "connecting"]],
             Submit(target, Order("open", u.id, s, reason))
      PROVE  /\ Effect
             /\ \E t : t.id = u.id /\ vehicles' = [vehicles EXCEPT ![v] = t]
  <2>1. PICK x : x = Order("open", u.id, s, reason)
    OBVIOUS
  <2>2. x \in Command /\ x.kind = "open" /\ x.vid = u.id /\ x.slot = s
    BY <2>1, HandoverAssumption DEF Order, Command, FreeSlots, Tenant
  <2>3. /\ commands'[target] = Append(commands[target], x)
        /\ \A d \in Board : d # target => commands'[d] = commands[d]
    BY <1>2, <2>1 DEF Submit, Typed
  <2>4. Opens(target)' = Opens(target) \cup {x}
    BY <2>2, <2>3, SubmittedOpens
  <2>5. \A d \in Board : d # target => Opens(d)' = Opens(d)
    BY <2>3, SubmittedOpens
  <2>6. Asks
    BY <1>2, <2>2, <2>4, <2>5 DEF Asks
  <2>7. [u EXCEPT !.old = u.at,
                  !.state = IF reason = "handover" THEN "handover" ELSE "connecting"].id = u.id
    OBVIOUS
  <2> QED
    BY <1>2, <2>6, <2>7 DEF Effect
<1> QED
  BY <1>1, <1>2, Zenon DEF RequestOpen

LEMMA RespawnEffect ==
    ASSUME Typed, Collected, \A d \in Board : OpensLeft(d) = Opens(d), slots' = slots,
           NEW v \in Vehicle, Respawn(v)
    PROVE  /\ Effect
           /\ \E t : t.id \in Tenant /\ vehicles' = [vehicles EXCEPT ![v] = t]
<1>1. PICK id \in 0 .. MAX_SESSIONS :
         RequestOpen(v, [id |-> id, place |-> "before", at |-> None, old |-> None,
                         state |-> "connecting", retry_at |-> FALSE, retry_target |-> None],
                     NearBoard(v), "entry")
  BY Zenon DEF Respawn
<1>2. PICK u : u = [id |-> id, place |-> "before", at |-> None, old |-> None,
                    state |-> "connecting", retry_at |-> FALSE, retry_target |-> None]
  OBVIOUS
<1>3. u.id \in Tenant /\ RequestOpen(v, u, NearBoard(v), "entry")
  BY <1>1, <1>2 DEF Tenant
<1>4. NearBoard(v) \in Board
  BY DEF NearBoard, Board
<1> QED
  BY <1>3, <1>4, RequestOpenEffect

\* Steps after which nothing has been asked for.
LEMMA AsideEffect ==
    ASSUME Typed, UNCHANGED <<slots, reserved, results>>,
           \/ UNCHANGED commands
           \/ \E b \in Board, x \in Command : x.kind # "open" /\ Submit(b, x)
    PROVE  Effect
<1>1. Collected /\ \A d \in Board : OpensLeft(d) = Opens(d)
  BY NothingCollected DEF Collected, Typed
<1>2. \A d \in Board : \/ commands'[d] = commands[d]
                       \/ \E x \in Command : x.kind # "open" /\ commands'[d] = Append(commands[d], x)
  BY DEF Submit, Typed
<1>3. \A d \in Board : Opens(d)' = Opens(d)
  BY <1>1, <1>2, SubmittedOpens
<1> QED
  BY <1>3 DEF Effect, Nothing

LEMMA WorkEffect == ASSUME IInv, NEW b \in Board, Work(b) PROVE Effect
<1> USE DEF IInv
<1> DEFINE c == Head(commands[b])
<1>1. /\ commands[b] # <<>> /\ commands' = [commands EXCEPT ![b] = Tail(@)]
      /\ UNCHANGED <<vehicles, reserved>>
  BY DEF Work, controller
<1>2. \/ c.kind = "stop" /\ UNCHANGED <<results, slots>>
      \/ \E ok \in BOOLEAN :
            /\ slots' = SlotsAfter(b, c, ok)
            /\ results' = [results EXCEPT ![b] = Append(@, Answer(c, ok))]
  BY Zenon DEF Work
<1>3. CASE c.kind = "stop" /\ UNCHANGED <<results, slots>>
  <2>1. commands \in [Board -> Seq(Command)] /\ results \in [Board -> Seq(Result)]
    BY DEF Typed
  <2>2. /\ commands'[b] = Tail(commands[b])
        /\ \A d \in Board : d # b => commands'[d] = commands[d]
    BY <1>1, <2>1
  <2>3. Queued(b) = Queued(b)' \cup {c}
    BY <1>1, <2>1, <2>2, TailElements DEF Queued
  <2>4. \A d \in Board : d # b => Opens(d)' = Opens(d)
    BY <1>3, <2>2 DEF Opens, Pending
  <2>5. Answers(b)' = Answers(b)
    BY <1>3 DEF Answers
  <2>6. /\ Pending(b) = Queued(b) \cup {r.command : r \in Answers(b)}
        /\ Pending(b)' = Queued(b)' \cup {r.command : r \in Answers(b)'}
    BY DEF Pending, Queued, Answers
  <2>7. Pending(b) = Pending(b)' \cup {c}
    BY <2>3, <2>5, <2>6
  <2>8. Opens(b)' = Opens(b)
    BY <1>3, <2>7 DEF Opens
  <2>9. \A d \in Board : Opens(d)' = Opens(d)
    BY <2>4, <2>8
  <2> QED
    BY <1>1, <1>3, <2>9 DEF Effect, Nothing
<1>4. ASSUME NEW ok \in BOOLEAN, slots' = SlotsAfter(b, c, ok),
             results' = [results EXCEPT ![b] = Append(@, Answer(c, ok))]
      PROVE  Effect
  <2>1. /\ c \in Queued(b) /\ c \in Pending(b) /\ c \in Command
        /\ \A d \in Board : Pending(d)' = Pending(d)
    BY <1>1, <1>4, AnsweredPending
  <2>2. \A d \in Board : Opens(d)' = Opens(d)
    BY <2>1 DEF Opens
  <2> HIDE DEF c
  <2>3. CASE c.kind = "open" /\ ok
    <3>1. c \in Opens(b) /\ slots[b][c.slot] = None
      BY <2>1, <2>3 DEF Opens, Opened
    <3>2. slots' = [slots EXCEPT ![b][c.slot] = c.vid]
      BY <1>4, <2>3 DEF SlotsAfter
    <3>3. OpensSlot
      BY <1>1, <2>2, <3>1, <3>2 DEF OpensSlot
    <3> QED
      BY <3>3 DEF Effect
  <2>4. CASE c.kind = "leave" /\ ok
    <3>1. c.slot \in Slot
      BY <2>1, <2>4 DEF Command
    <3>2. \A e \in Opens(b) : e.slot # c.slot
      BY <2>1, <2>4 DEF Opens, GivenUp
    <3>3. slots' = [slots EXCEPT ![b][c.slot] = None]
      BY <1>4, <2>4 DEF SlotsAfter
    <3>4. FreesSlot
      BY <1>1, <2>2, <3>1, <3>2, <3>3 DEF FreesSlot
    <3> QED
      BY <3>4 DEF Effect
  <2>5. CASE ~(c.kind = "open" /\ ok) /\ ~(c.kind = "leave" /\ ok)
    <3>1. slots' = slots
      BY <1>4, <2>5 DEF SlotsAfter
    <3> QED
      BY <1>1, <2>2, <3>1 DEF Effect, Nothing
  <2> QED
    BY <2>3, <2>4, <2>5
<1> QED
  BY <1>2, <1>3, <1>4

LEMMA CollectEffect ==
    ASSUME IInv, NEW b \in Board, Collect(b)
    PROVE  /\ Effect
           /\ \/ \A w \in Vehicle : vehicles'[w].id = vehicles[w].id
              \/ \E v \in Vehicle : \E t : t.id \in Tenant /\ vehicles' = [vehicles EXCEPT ![v] = t]
<1> USE DEF IInv
<1>1. PICK c : c = Head(results[b]).command
  OBVIOUS
<1>2. PICK ok : ok = Head(results[b]).ok
  OBVIOUS
<1>3. /\ results[b] # <<>> /\ results' = [results EXCEPT ![b] = Tail(@)]
      /\ slots' = slots
  BY DEF Collect, workers
<1>4. Collected /\ c \in Command
  BY <1>1, <1>3, HeadAnswer
<1>5. /\ \A d \in Board : d # b => OpensLeft(d) = Opens(d)
      /\ c.kind = "open" => c \in Opens(b) /\ OpensLeft(b) = Opens(b) \ {c}
      /\ c.kind # "open" => OpensLeft(b) = Opens(b)
  BY <1>1, <1>3, ResultCollected
<1>6. \/ c.kind = "open" /\ OpenAnswered(b, c, ok)
      \/ c.kind = "leave" /\ ExitAnswered(c)
      \/ c.kind # "open" /\ UNCHANGED <<vehicles, reserved, commands>>
  BY <1>1, <1>2 DEF Collect
<1>7. CASE c.kind = "open" /\ OpenAnswered(b, c, ok)
  <2>1. reserved' = [reserved EXCEPT ![b] = @ \ {c.slot}]
    BY <1>7 DEF OpenAnswered
  <2>2. PICK v \in Vehicle :
           \/ OpenReady(v, b, c)
           \/ vehicles' = [vehicles EXCEPT ![v] = AfterFailure(@, b)] /\ UNCHANGED commands
    BY <1>7, Zenon DEF OpenAnswered
  <2>3. \/ UNCHANGED commands
        \/ \E f \in Board, x \in Command : x.kind # "open" /\ Submit(f, x)
    <3> DEFINE u == vehicles[v]
    <3>1. CASE /\ u.old # None
               /\ Submit(u.old.board, Order("leave", u.id, u.old.slot, "handover_old"))
      <4>1. u.old.board \in Board /\ u.old.slot \in Slot /\ u.id \in Nat
        BY <3>1 DEF Typed, VehicleState, Session
      <4>2. Order("leave", u.id, u.old.slot, "handover_old") \in Command
        BY <4>1 DEF Order, Command
      <4> QED
        BY <3>1, <4>1, <4>2, OrderFields
    <3> QED
      BY <2>2, <3>1 DEF OpenReady, Releases
  <2>4. \A d \in Board : \/ commands'[d] = commands[d]
                         \/ \E x \in Command : x.kind # "open" /\ commands'[d] = Append(commands[d], x)
    BY <2>3 DEF Submit, Typed
  <2>5. \A d \in Board : Opens(d)' = OpensLeft(d)
    BY <1>4, <2>4, SubmittedOpens
  <2>6. Learns
    <3>1. \A e \in Left(b) : IsOrder(c) /\ IsOrder(e) => e.vid # c.vid
      BY <1>1, <1>3, HeadAnswer
    <3>2. \A e \in OpensLeft(b) : e.vid # c.vid
      BY <1>7, <3>1 DEF OpensLeft, IsOrder
    <3>3. \A e \in Opens(b) \ {c} : e.slot # c.slot
      BY <1>5, <1>7, <3>2, OneOpen
    <3> QED
      BY <1>3, <1>5, <1>7, <2>1, <2>5, <3>3 DEF Learns
  <2>7. \A w \in Vehicle : vehicles'[w].id = vehicles[w].id
    <3>1. vehicles[v] \in VehicleState /\ vehicles \in [Vehicle -> VehicleState]
      BY DEF Typed
    <3>2. PICK t : vehicles' = [vehicles EXCEPT ![v] = t] /\ t.id = vehicles[v].id
      <4>1. CASE OpenReady(v, b, c)
        <5>1. PICK t : t = [vehicles[v] EXCEPT !.at = SessionAt(b, c.slot),
                                               !.old = None, !.state = "connected"]
          OBVIOUS
        <5>2. vehicles' = [vehicles EXCEPT ![v] = t] /\ t.id = vehicles[v].id
          BY <3>1, <4>1, <5>1 DEF OpenReady, VehicleState
        <5> QED
          BY <5>2
      <4>2. CASE vehicles' = [vehicles EXCEPT ![v] = AfterFailure(@, b)]
        <5>1. AfterFailure(vehicles[v], b).id = vehicles[v].id
          BY <3>1 DEF AfterFailure, VehicleState
        <5> QED
          BY <3>1, <4>2, <5>1
      <4> QED
        BY <2>2, <4>1, <4>2
    <3> QED
      BY <3>1, <3>2
  <2> QED
    BY <2>6, <2>7 DEF Effect
<1>8. CASE c.kind = "leave" /\ ExitAnswered(c)
  <2>1. PICK v \in Vehicle : Respawn(v)
    BY <1>8, Zenon DEF ExitAnswered
  <2>2. \A d \in Board : OpensLeft(d) = Opens(d)
    BY <1>5, <1>8
  <2> QED
    BY <1>3, <1>4, <2>1, <2>2, RespawnEffect
<1>9. CASE c.kind # "open" /\ UNCHANGED <<vehicles, reserved, commands>>
  <2>1. \A d \in Board : Opens(d)' = Opens(d)
    BY <1>4, <1>5, <1>9, SubmittedOpens
  <2> QED
    BY <1>3, <1>9, <2>1 DEF Effect, Nothing
<1> QED
  BY <1>6, <1>7, <1>8, <1>9

LEMMA StepVehicleEffect ==
    ASSUME IInv, IdsWrap, NEW v \in Vehicle, StepVehicle(v)
    PROVE  /\ Effect
           /\ \E t : t.id \in Tenant /\ vehicles' = [vehicles EXCEPT ![v] = t]
<1> USE DEF IInv
<1> DEFINE u == vehicles[v]
<1>1. /\ UNCHANGED <<results, slots>>
      /\ RetryDue(v, u) \/ Drive(v, u)
  BY DEF StepVehicle, workers
<1>2. Collected /\ \A d \in Board : OpensLeft(d) = Opens(d)
  BY <1>1, NothingCollected DEF Collected, Typed
<1>3. u \in VehicleState /\ u.id \in Tenant
  BY DEF Typed, IdsWrap
<1>4. NearBoard(v) \in Board /\ FarBoard(v) \in Board
  BY DEF NearBoard, FarBoard, Board
<1>5. CASE RetryDue(v, u)
  <2>1. PICK t : t = [u EXCEPT !.retry_at = FALSE, !.retry_target = None]
    OBVIOUS
  <2>2. PICK target \in Board : RequestOpen(v, t, target, "retry")
    <3>1. u.retry_target # None => u.retry_target \in Board
      BY <1>3 DEF VehicleState
    <3>2. BoardForPosition(v, u.place) \in Board
      BY <1>3, <1>4 DEF VehicleState, Place, BoardForPosition, Board
    <3> QED
      BY <1>5, <2>1, <3>1, <3>2 DEF RetryDue
  <2>3. t.id \in Tenant
    BY <1>3, <2>1
  <2> QED
    BY <1>1, <1>2, <2>2, <2>3, RequestOpenEffect
<1>6. CASE Drive(v, u)
  <2>1. PICK t : /\ t.id = u.id /\ t.at = u.at
                 /\ \/ RequestOpen(v, t, FarBoard(v), "handover")
                    \/ RequestExit(v, t)
                    \/ /\ vehicles' = [vehicles EXCEPT ![v] = t]
                       /\ SubmitData(v, t) \/ UNCHANGED commands
                       /\ UNCHANGED reserved
    BY <1>3, <1>6 DEF Drive, VehicleState
  <2>2. CASE RequestOpen(v, t, FarBoard(v), "handover")
    BY <1>1, <1>2, <1>3, <1>4, <2>1, <2>2, RequestOpenEffect
  <2>3. CASE Respawn(v)
    BY <1>1, <1>2, <2>3, RespawnEffect
  <2>4. CASE /\ t.at # None
             /\ vehicles' = [vehicles EXCEPT ![v] = [t EXCEPT !.state = "exiting"]]
             /\ Submit(t.at.board, Order("leave", t.id, t.at.slot, "exit"))
             /\ UNCHANGED reserved
    <3>1. t.at.board \in Board /\ t.at.slot \in Slot /\ t.id \in Nat
      BY <1>3, <2>1, <2>4 DEF VehicleState, Session
    <3>2. Order("leave", t.id, t.at.slot, "exit") \in Command
      BY <3>1 DEF Order, Command
    <3>3. Effect
      BY <1>1, <2>4, <3>1, <3>2, OrderFields, AsideEffect
    <3>4. [t EXCEPT !.state = "exiting"].id = t.id
      OBVIOUS
    <3> QED
      BY <1>3, <2>1, <2>4, <3>3, <3>4
  <2>5. CASE /\ vehicles' = [vehicles EXCEPT ![v] = t]
             /\ SubmitData(v, t) \/ UNCHANGED commands
             /\ UNCHANGED reserved
    <3>1. CASE SubmitData(v, t)
      <4>1. /\ t.at.board \in Board /\ t.at.slot \in Slot /\ t.id \in Nat
            /\ Submit(t.at.board, Order("data", t.id, t.at.slot, "telemetry"))
        BY <1>3, <2>1, <3>1 DEF SubmitData, VehicleState, Session
      <4>2. Order("data", t.id, t.at.slot, "telemetry") \in Command
        BY <4>1 DEF Order, Command
      <4>3. Effect
        BY <1>1, <2>5, <4>1, <4>2, OrderFields, AsideEffect
      <4> QED
        BY <1>3, <2>1, <2>5, <4>3
    <3>2. CASE UNCHANGED commands
      BY <1>1, <1>3, <2>1, <2>5, <3>2, AsideEffect
    <3> QED
      BY <2>5, <3>1, <3>2
  <2> QED
    BY <2>1, <2>2, <2>3, <2>4, <2>5 DEF RequestExit
<1> QED
  BY <1>1, <1>5, <1>6

LEMMA StepEffect ==
    ASSUME IInv, IdsWrap, Next
    PROVE  Effect /\ IdsWrap'
<1>1. ASSUME \E v \in Vehicle : \E t : t.id \in Tenant /\ vehicles' = [vehicles EXCEPT ![v] = t]
      PROVE  IdsWrap'
  BY <1>1 DEF IdsWrap, IInv, Typed
<1>2. ASSUME \A w \in Vehicle : vehicles'[w].id = vehicles[w].id PROVE IdsWrap'
  BY <1>2 DEF IdsWrap
<1>3. ASSUME NEW v \in Vehicle, StepVehicle(v) PROVE Effect /\ IdsWrap'
  BY <1>1, <1>3, StepVehicleEffect
<1>4. ASSUME NEW b \in Board, Collect(b) PROVE Effect /\ IdsWrap'
  BY <1>1, <1>2, <1>4, CollectEffect
<1>5. ASSUME NEW b \in Board, Work(b) PROVE Effect /\ IdsWrap'
  <2>1. vehicles' = vehicles
    BY <1>5 DEF Work, controller
  <2> QED
    BY <1>2, <1>5, <2>1, WorkEffect
<1>6. Typed
  BY DEF IInv
<1>7. ASSUME NEW v \in Vehicle, Attack(v) PROVE Effect /\ IdsWrap'
  <2>1. UNCHANGED <<vehicles, slots, reserved, results>>
    BY <1>7 DEF Attack, controller, workers
  <2> DEFINE u == vehicles[v]
  <2>2. /\ u.at.board \in Board /\ u.at.slot \in Slot /\ u.id \in Nat
        /\ Submit(u.at.board, Order("data", u.id, u.at.slot, "telemetry"))
    BY <1>6, <1>7 DEF Attack, SubmitData, Typed, VehicleState, Session
  <2>3. Order("data", u.id, u.at.slot, "telemetry") \in Command
    BY <2>2 DEF Order, Command
  <2> QED
    BY <1>2, <1>6, <2>1, <2>2, <2>3, OrderFields, AsideEffect
<1>8. [kind |-> "swkem"] \in Command /\ [kind |-> "stop"] \in Command
  BY DEF Command
<1>9. "A" \in Board /\ "B" \in Board
  BY DEF Board
<1>10. ASSUME NEW b \in Board, ScheduleSwkem(b) PROVE Effect /\ IdsWrap'
  <2>1. UNCHANGED <<vehicles, slots, reserved, results>> /\ Submit(b, [kind |-> "swkem"])
    BY <1>10 DEF ScheduleSwkem, controller, workers
  <2> QED
    BY <1>2, <1>6, <1>8, <2>1, AsideEffect
<1>11. CASE ToggleRunning
  <2>1. UNCHANGED <<vehicles, slots, reserved, results, commands>>
    BY <1>11 DEF ToggleRunning, workers
  <2> QED
    BY <1>2, <1>6, <2>1, AsideEffect
<1>12. CASE Quit
  <2>1. UNCHANGED <<vehicles, slots, reserved, results>> /\ Submit("A", [kind |-> "stop"])
    BY <1>12 DEF Quit, workers, StopOf
  <2> QED
    BY <1>2, <1>6, <1>8, <1>9, <2>1, AsideEffect
<1>13. CASE Shutdown
  <2>1. /\ UNCHANGED <<vehicles, slots, reserved, results>>
        /\ Submit("B", [kind |-> "stop"]) \/ UNCHANGED commands
    BY <1>13 DEF Shutdown, Joined, StopOf
  <2> QED
    BY <1>2, <1>6, <1>8, <1>9, <2>1, AsideEffect
<1> QED
  BY <1>3, <1>4, <1>5, <1>7, <1>10, <1>11, <1>12, <1>13 DEF Next

-----------------------------------------------------------------------------
(* The mapping.                                                             *)

\* What the two threads have made of a slot.
LEMMA LeaseValue ==
    ASSUME IInv, NEW b \in Board, NEW s \in Slot
    PROVE  /\ slots[b][s] # None => Leases[b][s] = slots[b][s]
           /\ \A c \in Opens(b) : slots[b][s] = None /\ c.slot = s => Leases[b][s] = c.vid
           /\ slots[b][s] = None /\ (\A c \in Opens(b) : c.slot # s) => Leases[b][s] = None
<1>1. Leases[b][s] = LeaseOf(b, s)
  BY DEF Leases
<1>2. ASSUME NEW c \in Opens(b), slots[b][s] = None, c.slot = s PROVE LeaseOf(b, s) = c.vid
  <2> DEFINE e == CHOOSE x \in Pending(b) : x.kind = "open" /\ x.slot = s
  <2>1. e \in Pending(b) /\ e.kind = "open" /\ e.slot = s
    BY <1>2 DEF Opens
  <2>2. e.vid = c.vid
    BY <1>2, <2>1, OneOpen DEF Opens
  <2> QED
    BY <1>2, <2>1, <2>2 DEF LeaseOf
<1> QED
  BY <1>1, <1>2 DEF LeaseOf, Opens

\* The same, a step later.
LEMMA LeaseValueNext ==
    ASSUME IInv', NEW b \in Board, NEW s \in Slot
    PROVE  /\ slots'[b][s] # None => Leases'[b][s] = slots'[b][s]
           /\ \A c \in Opens(b)' : slots'[b][s] = None /\ c.slot = s => Leases'[b][s] = c.vid
           /\ slots'[b][s] = None /\ (\A c \in Opens(b)' : c.slot # s) => Leases'[b][s] = None
<1>1. Leases'[b][s] = LeaseOf(b, s)'
  BY DEF Leases
<1>2. ASSUME NEW c \in Opens(b)', slots'[b][s] = None, c.slot = s PROVE LeaseOf(b, s)' = c.vid
  <2>1. PICK e : e = CHOOSE x \in Pending(b)' : x.kind = "open" /\ x.slot = s
    OBVIOUS
  <2>2. e \in Pending(b)' /\ e.kind = "open" /\ e.slot = s
    BY <1>2, <2>1 DEF Opens
  <2>3. e.vid = c.vid
    BY <1>2, <2>2 DEF IInv, Asked, Opens
  <2>4. LeaseOf(b, s)' = e.vid
    BY <1>2, <2>1, <2>2 DEF LeaseOf
  <2> QED
    BY <2>3, <2>4
<1> QED
  BY <1>1, <1>2 DEF LeaseOf, Opens

\* A slot is reserved only while its OPEN is on its way.
LEMMA HeldStep == ASSUME IInv, Held, Effect PROVE Held'
<1> USE DEF IInv
<1>1. CASE Nothing
  BY <1>1 DEF Nothing, Held
<1>2. CASE Asks
  <2>1. PICK b \in Board, s \in Slot, x \in Command :
           /\ x.slot = s /\ reserved' = [reserved EXCEPT ![b] = @ \cup {s}]
           /\ Opens(b)' = Opens(b) \cup {x}
           /\ \A d \in Board : d # b => Opens(d)' = Opens(d)
    BY <1>2 DEF Asks, FreeSlots
  <2>2. \A d \in Board : reserved'[d] = IF d = b THEN reserved[d] \cup {s} ELSE reserved[d]
    BY <2>1 DEF Typed
  <2> QED
    BY <2>1, <2>2 DEF Held
<1>3. CASE Learns
  <2>1. PICK b \in Board : \E c \in Opens(b) :
           /\ reserved' = [reserved EXCEPT ![b] = @ \ {c.slot}]
           /\ Opens(b)' = Opens(b) \ {c}
           /\ \A d \in Board : d # b => Opens(d)' = Opens(d)
    BY <1>3 DEF Learns
  <2>2. PICK c \in Opens(b) :
           /\ reserved' = [reserved EXCEPT ![b] = @ \ {c.slot}]
           /\ Opens(b)' = Opens(b) \ {c}
           /\ \A d \in Board : d # b => Opens(d)' = Opens(d)
    BY <2>1
  <2>3. \A d \in Board : reserved'[d] = IF d = b THEN reserved[d] \ {c.slot} ELSE reserved[d]
    BY <2>2 DEF Typed
  <2> QED
    BY <2>2, <2>3 DEF Held
<1>4. CASE OpensSlot \/ FreesSlot
  BY <1>4 DEF OpensSlot, FreesSlot, Held
<1> QED
  BY <1>1, <1>2, <1>3, <1>4 DEF Effect

\* A slot nobody has touched is leased as before.
LEMMA SameLease ==
    ASSUME IInv, IInv', NEW b \in Board, NEW s \in Slot, slots'[b][s] = slots[b][s],
           \A c : c.slot = s => (c \in Opens(b)' <=> c \in Opens(b))
    PROVE  Leases'[b][s] = Leases[b][s]
BY LeaseValue, LeaseValueNext

\* Two tables of leases are the same when they are so slot by slot.
LEMMA LeaseTables ==
    /\ Leases = [b \in Board |-> [s \in Slot |-> Leases[b][s]]]
    /\ Leases' = [b \in Board |-> [s \in Slot |-> Leases'[b][s]]]
BY DEF Leases

LEMMA LeaseStep == ASSUME IInv, IInv', Held, Effect PROVE [Lease!LeaseNext]_Leases
<1> USE DEF IInv
<1>1. CASE Nothing
  <2>1. \A b \in Board, s \in Slot : Leases'[b][s] = Leases[b][s]
    BY <1>1, SameLease DEF Nothing
  <2> QED
    BY <2>1, LeaseTables
<1>2. CASE Asks
  <2>1. PICK b \in Board : \E s \in FreeSlots(b) : \E x \in Command :
           /\ \A r \in FreeSlots(b) : s <= r
           /\ x.kind = "open" /\ x.slot = s /\ x.vid \in Tenant
           /\ UNCHANGED slots
           /\ Opens(b)' = Opens(b) \cup {x}
           /\ \A d \in Board : d # b => Opens(d)' = Opens(d)
    BY <1>2 DEF Asks
  <2>2. PICK s \in FreeSlots(b) : \E x \in Command :
           /\ \A r \in FreeSlots(b) : s <= r
           /\ x.kind = "open" /\ x.slot = s /\ x.vid \in Tenant
           /\ UNCHANGED slots
           /\ Opens(b)' = Opens(b) \cup {x}
           /\ \A d \in Board : d # b => Opens(d)' = Opens(d)
    BY <2>1
  <2>3. PICK x \in Command :
           /\ \A r \in FreeSlots(b) : s <= r
           /\ x.kind = "open" /\ x.slot = s /\ x.vid \in Tenant
           /\ UNCHANGED slots
           /\ Opens(b)' = Opens(b) \cup {x}
           /\ \A d \in Board : d # b => Opens(d)' = Opens(d)
    BY <2>2
  <2>4. /\ s \in Slot /\ slots[b][s] = None /\ s \notin reserved[b]
        /\ \A r \in Slot : slots[b][r] = None /\ r \notin reserved[b] => s <= r
    BY <2>3 DEF FreeSlots
  <2>5. \A c \in Opens(b) : c.slot # s
    BY <2>4 DEF Asked, Opens
  <2>6. Leases[b][s] = None
    BY <2>4, <2>5, LeaseValue
  <2>7. ASSUME NEW r \in Slot, r < s PROVE Leases[b][r] # None
    <3>1. slots[b][r] # None \/ r \in reserved[b]
      BY <2>4, <2>7 DEF Slot
    <3>2. ASSUME slots[b][r] = None PROVE Leases[b][r] # None
      <4>1. PICK c \in Opens(b) : c.slot = r
        BY <3>1, <3>2 DEF Held
      <4>2. Leases[b][r] = c.vid
        BY <3>2, <4>1, LeaseValue
      <4>3. c.vid \in Nat
        BY PendingType DEF Opens, Command
      <4> QED
        BY <4>2, <4>3, HandoverAssumption
    <3> QED
      BY <3>2, LeaseValue
  <2>8. Leases'[b][s] = x.vid
    BY <2>3, <2>4, LeaseValueNext
  <2>9. ASSUME NEW d \in Board, NEW z \in Slot, d # b \/ z # s
        PROVE  Leases'[d][z] = Leases[d][z]
    <3>1. \A c : c.slot = z => (c \in Opens(d)' <=> c \in Opens(d))
      BY <2>3, <2>9
    <3> QED
      BY <2>3, <3>1, SameLease
  <2>10. Leases' = [Leases EXCEPT ![b][s] = x.vid]
    BY <2>4, <2>8, <2>9, LeaseTables
  <2>11. Lease!Take(b, s, x.vid)
    BY <2>4, <2>6, <2>7, <2>10 DEF Lease!Take
  <2> QED
    BY <2>3, <2>4, <2>11 DEF Lease!LeaseNext, Tenant
<1>3. CASE Learns
  <2>1. PICK b \in Board : \E c \in Opens(b) :
           /\ UNCHANGED slots
           /\ Opens(b)' = Opens(b) \ {c} /\ \A e \in Opens(b) \ {c} : e.slot # c.slot
           /\ \A d \in Board : d # b => Opens(d)' = Opens(d)
    BY <1>3 DEF Learns
  <2>2. PICK c \in Opens(b) :
           /\ UNCHANGED slots
           /\ Opens(b)' = Opens(b) \ {c} /\ \A e \in Opens(b) \ {c} : e.slot # c.slot
           /\ \A d \in Board : d # b => Opens(d)' = Opens(d)
    BY <2>1
  <2>3. c.slot \in Slot
    BY PendingType DEF Opens, Command
  <2>4. ASSUME NEW d \in Board, NEW z \in Slot, d # b \/ z # c.slot
        PROVE  Leases'[d][z] = Leases[d][z]
    <3>1. \A e : e.slot = z => (e \in Opens(d)' <=> e \in Opens(d))
      BY <2>2, <2>4
    <3> QED
      BY <2>2, <3>1, SameLease
  <2>5. CASE slots[b][c.slot] # None
    <3>1. Leases'[b][c.slot] = Leases[b][c.slot]
      BY <2>2, <2>3, <2>5, LeaseValue, LeaseValueNext
    <3>2. \A d \in Board, z \in Slot : Leases'[d][z] = Leases[d][z]
      BY <2>4, <3>1
    <3> QED
      BY <3>2, LeaseTables
  <2>6. CASE slots[b][c.slot] = None
    <3>1. Leases'[b][c.slot] = None
      <4>1. \A e \in Opens(b)' : e.slot # c.slot
        BY <2>2
      <4>2. slots'[b][c.slot] = None
        BY <2>2, <2>6
      <4> QED
        BY <2>3, <4>1, <4>2, LeaseValueNext
    <3>2. Leases' = [Leases EXCEPT ![b][c.slot] = None]
      BY <2>3, <2>4, <3>1, LeaseTables
    <3> QED
      BY <2>3, <3>2 DEF Lease!LeaseNext, Lease!Give
  <2> QED
    BY <2>5, <2>6
<1>4. CASE OpensSlot
  <2>1. PICK b \in Board : \E c \in Opens(b) :
           /\ slots[b][c.slot] = None
           /\ slots' = [slots EXCEPT ![b][c.slot] = c.vid]
           /\ \A d \in Board : Opens(d)' = Opens(d)
    BY <1>4 DEF OpensSlot
  <2>2. PICK c \in Opens(b) :
           /\ slots[b][c.slot] = None
           /\ slots' = [slots EXCEPT ![b][c.slot] = c.vid]
           /\ \A d \in Board : Opens(d)' = Opens(d)
    BY <2>1
  <2>3. c.slot \in Slot /\ c.vid \in Nat
    BY PendingType DEF Opens, Command
  <2>4. \A d \in Board, z \in Slot :
           slots'[d][z] = IF d = b /\ z = c.slot THEN c.vid ELSE slots[d][z]
    BY <2>2, <2>3 DEF Typed
  <2>5. Leases[b][c.slot] = c.vid
    BY <2>2, <2>3, LeaseValue
  <2>6. Leases'[b][c.slot] = c.vid
    <3>1. slots'[b][c.slot] = c.vid /\ c.vid # None
      BY <2>3, <2>4, HandoverAssumption
    <3> QED
      BY <2>3, <3>1, LeaseValueNext
  <2>7. \A d \in Board, z \in Slot : Leases'[d][z] = Leases[d][z]
    <3> SUFFICES ASSUME NEW d \in Board, NEW z \in Slot, d # b \/ z # c.slot
                 PROVE  Leases'[d][z] = Leases[d][z]
      BY <2>5, <2>6
    <3>1. slots'[d][z] = slots[d][z] /\ Opens(d)' = Opens(d)
      BY <2>2, <2>4
    <3> QED
      BY <3>1, SameLease
  <2> QED
    BY <2>7, LeaseTables
<1>5. CASE FreesSlot
  <2>1. PICK b \in Board, s \in Slot :
           /\ \A c \in Opens(b) : c.slot # s
           /\ slots' = [slots EXCEPT ![b][s] = None]
           /\ \A d \in Board : Opens(d)' = Opens(d)
    BY <1>5 DEF FreesSlot
  <2>2. \A d \in Board, z \in Slot :
           slots'[d][z] = IF d = b /\ z = s THEN None ELSE slots[d][z]
    BY <2>1 DEF Typed
  <2>3. Leases'[b][s] = None
    BY <2>1, <2>2, LeaseValueNext
  <2>4. ASSUME NEW d \in Board, NEW z \in Slot, d # b \/ z # s
        PROVE  Leases'[d][z] = Leases[d][z]
    <3>1. slots'[d][z] = slots[d][z] /\ Opens(d)' = Opens(d)
      BY <2>1, <2>2, <2>4
    <3> QED
      BY <3>1, SameLease
  <2>5. Leases' = [Leases EXCEPT ![b][s] = None]
    BY <2>3, <2>4, LeaseTables
  <2> QED
    BY <2>5 DEF Lease!LeaseNext, Lease!Give
<1> QED
  BY <1>1, <1>2, <1>3, <1>4, <1>5 DEF Effect

\* At the start the slots that are asked for are the lowest, and reserved.
LEMMA LeaseStart == Init => IdsWrap /\ Held /\ Lease!LeaseInit
<1> SUFFICES ASSUME Init PROVE IdsWrap /\ Held /\ Lease!LeaseInit
  OBVIOUS
<1>1. IInv
  BY InvariantInit
<1>2. PICK asked \in [Board -> 0 .. vehicle_count] :
         /\ \A v \in Vehicle : vehicles[v].id = v
         /\ reserved = [b \in Board |-> 0 .. asked[b] - 1]
         /\ \A b \in Board : DOMAIN commands[b] = 1 .. asked[b]
         /\ \A b \in Board : \A i \in 1 .. asked[b] :
               commands[b][i].kind = "open" /\ commands[b][i].slot = i - 1
  <2>1. PICK place \in [Vehicle -> Starts], slot \in [Vehicle -> Slot],
             asked \in [Board -> 0 .. vehicle_count] :
           /\ vehicles = [v \in Vehicle |->
                 [id |-> v, place |-> place[v], at |-> None, old |-> None,
                  state |-> "connecting", retry_at |-> FALSE, retry_target |-> None]]
           /\ reserved = [b \in Board |-> 0 .. asked[b] - 1]
           /\ commands = [b \in Board |-> [i \in 1 .. asked[b] |->
                 Order("open", CHOOSE v \in Asking(b, place) : slot[v] = i - 1, i - 1, "entry")]]
    BY Zenon DEF Init
  <2>2. \A v \in Vehicle : vehicles[v].id = v
    BY <2>1
  <2>3. \A b \in Board : DOMAIN commands[b] = 1 .. asked[b]
    BY <2>1
  <2>4. ASSUME NEW b \in Board, NEW i \in 1 .. asked[b]
        PROVE  commands[b][i].kind = "open" /\ commands[b][i].slot = i - 1
    <3>1. PICK w : w = CHOOSE v \in Asking(b, place) : slot[v] = i - 1
      OBVIOUS
    <3>2. commands[b][i] = Order("open", w, i - 1, "entry")
      BY <2>1, <3>1
    <3> QED
      BY <3>2, OrderFields
  <2> QED
    BY <2>1, <2>2, <2>3, <2>4
<1>3. IdsWrap
  <2>1. \A v \in Vehicle : v \in Tenant
    BY HandoverAssumption DEF Vehicle, Tenant
  <2> QED
    BY <1>2, <2>1 DEF IdsWrap
<1>4. Held
  <2> SUFFICES ASSUME NEW b \in Board, NEW s \in reserved[b]
               PROVE  \E c \in Opens(b) : c.slot = s
    BY DEF Held
  <2>1. asked[b] \in Nat /\ s \in 0 .. asked[b] - 1
    BY <1>2, HandoverAssumption
  <2>2. s + 1 \in 1 .. asked[b] /\ (s + 1) - 1 = s
    BY <2>1
  <2>3. /\ s + 1 \in DOMAIN commands[b]
        /\ commands[b][s + 1].kind = "open" /\ commands[b][s + 1].slot = s
    BY <1>2, <2>2
  <2>4. commands[b][s + 1] \in Pending(b)
    BY <2>3 DEF Pending, ElementsOf
  <2> QED
    BY <2>3, <2>4 DEF Opens
<1>5. \A b \in Board, s \in Slot : slots[b][s] = None
  BY DEF Init
<1>6. \A b \in Board : \A c \in Opens(b) :
         c.slot \in reserved[b] /\ c.slot \in Slot /\ c.vid \in Tenant
  <2> SUFFICES ASSUME NEW b \in Board, NEW c \in Opens(b)
               PROVE  c.slot \in reserved[b] /\ c.slot \in Slot /\ c.vid \in Tenant
    OBVIOUS
  <2>1. c \in Pending(b) /\ c.kind = "open"
    BY DEF Opens
  <2>2. c.slot \in reserved[b]
    BY <1>1, <2>1 DEF IInv, Asked
  <2>3. c.slot \in Slot
    BY <1>1, <2>2 DEF IInv, Typed
  <2>4. c.vid \in Tenant
    BY <1>1, <1>3, <2>1 DEF IInv, Owned, IsOrder, IdsWrap
  <2> QED
    BY <2>2, <2>3, <2>4
<1>7. \A b \in Board, s \in Slot :
         /\ s \in reserved[b] => \E c \in Opens(b) : c.slot = s /\ Leases[b][s] = c.vid
         /\ s \notin reserved[b] => Leases[b][s] = None
  BY <1>1, <1>4, <1>5, <1>6, LeaseValue DEF Held
<1>8. Leases \in [Board -> [Slot -> Tenant \cup {None}]]
  <2>1. \A b \in Board, s \in Slot : Leases[b][s] \in Tenant \cup {None}
    BY <1>6, <1>7
  <2> QED
    BY <2>1, LeaseTables
<1>9. ASSUME NEW b \in Board, NEW s \in Slot, NEW t \in Slot, s < t, Leases[b][t] # None
      PROVE  Leases[b][s] # None
  <2>1. t \in reserved[b]
    BY <1>7, <1>9
  <2>2. asked[b] \in Nat /\ reserved[b] = 0 .. asked[b] - 1
    BY <1>2, HandoverAssumption
  <2>3. s \in reserved[b]
    BY <1>9, <2>1, <2>2, HandoverAssumption DEF Slot
  <2>4. PICK c \in Opens(b) : Leases[b][s] = c.vid
    BY <1>7, <2>3
  <2>5. c.vid \in Int
    BY <1>6, HandoverAssumption DEF Tenant
  <2> QED
    BY <2>4, <2>5, HandoverAssumption
<1>10. Lease!LeaseInit
  BY <1>8, <1>9 DEF Lease!LeaseInit, Tenant
<1> QED
  BY <1>3, <1>4, <1>10

-----------------------------------------------------------------------------

LInv == IInv /\ Held /\ IdsWrap

LEMMA LInvStep == LInv /\ [Next]_vars => LInv' /\ [Lease!LeaseNext]_Leases
<1> SUFFICES ASSUME LInv, [Next]_vars PROVE LInv' /\ [Lease!LeaseNext]_Leases
  OBVIOUS
<1>1. IInv /\ Held /\ IdsWrap
  BY DEF LInv
<1>2. IInv'
  BY <1>1, InvariantStep
<1>3. CASE Next
  <2>1. Effect /\ IdsWrap'
    BY <1>1, <1>3, StepEffect
  <2> QED
    BY <1>1, <1>2, <2>1, HeldStep, LeaseStep DEF LInv
<1>4. CASE UNCHANGED vars
  <2>1. UNCHANGED <<vehicles, reserved, slots, commands, results>>
    BY <1>4 DEF vars, controller, workers
  <2>2. \A b \in Board : Pending(b)' = Pending(b)
    BY <2>1 DEF Pending
  <2>3. Nothing
    BY <2>1, <2>2 DEF Nothing, Opens
  <2>4. IdsWrap'
    BY <1>1, <2>1 DEF IdsWrap
  <2>5. Effect
    BY <2>3 DEF Effect
  <2> QED
    BY <1>1, <1>2, <2>4, <2>5, HeldStep, LeaseStep DEF LInv
<1> QED
  BY <1>3, <1>4

\* The controller's reservations and the workers' tables implement one allocator
\* of slots: a vehicle gets the lowest slot of a board that nobody uses, keeps,
\* has asked for or is still giving up, and gives it back before it is handed on.
THEOREM SlotsAreLeased == Spec => ImplementsSlotLease
<1>1. Init => LInv /\ Lease!LeaseInit
  BY InvariantInit, LeaseStart DEF LInv
<1>2. LInv /\ [Next]_vars => LInv' /\ [Lease!LeaseNext]_Leases
  BY LInvStep
<1> QED
  BY <1>1, <1>2, PTL DEF Spec, ImplementsSlotLease, Lease!LeaseSpec
================================================================================
