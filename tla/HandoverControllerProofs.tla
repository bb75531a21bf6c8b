----------------------- MODULE HandoverControllerProofs -----------------------
(***************************************************************************)
(* The handover demonstration, proved for any number of vehicles and of    *)
(* slots and any number of failing calls: however the controller's thread  *)
(* and the two worker threads interleave, no two vehicles get, keep or     *)
(* wait for the same slot, a vehicle's session is open on its board under  *)
(* its own id and is lost on the way off the road only, no two vehicles    *)
(* have the same id, and a command finds the session it was meant for.     *)
(* While no call fails and no board is full, no open session is forgotten, *)
(* and a vehicle is served from its side of the boundary.                  *)
(*                                                                         *)
(* A slot passes from hand to hand: free, reserved for an OPEN in a queue, *)
(* opened by the board and reported in a result, used by a vehicle, given  *)
(* up in a LEAVE in a queue, free.  IInv says that it is in one hand only, *)
(* and which vehicle it belongs to.                                        *)
(***************************************************************************)
EXTENDS HandoverController, FiniteSetTheorems, TLAPS

Result == [command : Command, ok : BOOLEAN]

\* An order is a command a vehicle stands still for.
IsOrder(c) == c.kind = "open" \/ (c.kind = "leave" /\ c.reason = "exit")

Queued(b) == ElementsOf(commands[b])
Answers(b) == ElementsOf(results[b])

\* A vehicle that may use the session it has.
Uses(v, b, s) == vehicles[v].state # "exiting" /\ vehicles[v].at = SessionAt(b, s)

Typed == /\ vehicles \in [Vehicle -> VehicleState]
         /\ reserved \in [Board -> SUBSET Slot]
         /\ slots \in [Board -> [Slot -> Nat \cup {None}]]
         /\ commands \in [Board -> Seq(Command)]
         /\ results \in [Board -> Seq(Result)]

\* Two orders in one queue are of different vehicles; two LEAVEs in one queue are
\* of different slots.
Apart(q) == \A i, j \in DOMAIN q :
               i # j /\ IsOrder(q[i]) /\ IsOrder(q[j]) => q[i].vid # q[j].vid
AnswersApart(q) ==
    \A i, j \in DOMAIN q :
       i # j /\ IsOrder(q[i].command) /\ IsOrder(q[j].command)
       => q[i].command.vid # q[j].command.vid
LeavesApart(q) == \A i, j \in DOMAIN q :
                     i # j /\ q[i].kind = "leave" /\ q[j].kind = "leave"
                     => q[i].slot # q[j].slot

\* No vehicle has two orders: in one queue, in both queues of a board, on both boards.
OneOrder ==
    /\ \A b \in Board : Apart(commands[b]) /\ AnswersApart(results[b]) /\ LeavesApart(commands[b])
    /\ \A b \in Board : \A c \in Queued(b), r \in Answers(b) :
          IsOrder(c) /\ IsOrder(r.command) => c.vid # r.command.vid
    /\ \A b, d \in Board : \A c \in Pending(b), e \in Pending(d) :
          b # d /\ IsOrder(c) /\ IsOrder(e) => c.vid # e.vid

\* An order belongs to a vehicle that stands still for it.
Owned ==
    \A b \in Board : \A c \in Pending(b) :
       IsOrder(c) => \E v \in Vehicle :
                        /\ vehicles[v].id = c.vid
                        /\ vehicles[v].state \in (IF c.kind = "open" THEN {"connecting", "handover"}
                                                                    ELSE {"exiting"})

\* A slot that is asked for is reserved, asked for by one vehicle, and used by
\* none; it is free until the board has opened it.
Asked ==
    \A b \in Board : \A c \in Pending(b) : c.kind = "open" =>
       /\ c.slot \in reserved[b]
       /\ \A e \in Pending(b) : e.kind = "open" /\ e.slot = c.slot => e.vid = c.vid
       /\ \A v \in Vehicle : ~Uses(v, b, c.slot)

Opened ==
    /\ \A b \in Board : \A c \in Queued(b) : c.kind = "open" => slots[b][c.slot] = None
    /\ \A b \in Board : \A r \in Answers(b) :
          r.command.kind = "open" /\ r.ok => slots[b][r.command.slot] = r.command.vid

\* A slot that is used is open under the id of its vehicle, and used by one.
Used ==
    \A b \in Board : \A s \in Slot : \A v \in Vehicle : Uses(v, b, s) =>
       /\ slots[b][s] = vehicles[v].id
       /\ \A w \in Vehicle : Uses(w, b, s) => w = v

\* A slot that is given up is open until its LEAVE is carried out, not asked for,
\* and used by none.
GivenUp ==
    \A b \in Board : \A c \in Queued(b) : c.kind = "leave" =>
       /\ slots[b][c.slot] = c.vid
       /\ \A e \in Pending(b) : e.kind = "open" => e.slot # c.slot
       /\ \A v \in Vehicle : ~Uses(v, b, c.slot)

\* A session is kept only during a handover or a retry, and is the one in use.
Kept ==
    \A v \in Vehicle :
       /\ vehicles[v].old # None =>
             /\ vehicles[v].old = vehicles[v].at
             /\ vehicles[v].state \in {"connecting", "handover"}
       /\ vehicles[v].state = "handover" => vehicles[v].old # None

IInv == Typed /\ IdsDiffer /\ OneOrder /\ Owned /\ Asked /\ Opened /\ Used /\ GivenUp /\ Kept

-----------------------------------------------------------------------------
(* Queues.                                                                  *)

\* What is in a queue after something is put at its end.
LEMMA AppendElements ==
    ASSUME NEW S, NEW q \in Seq(S), NEW x \in S
    PROVE  /\ Append(q, x) \in Seq(S)
           /\ ElementsOf(Append(q, x)) = ElementsOf(q) \cup {x}
<1>1. /\ Append(q, x) \in Seq(S)
      /\ DOMAIN Append(q, x) = DOMAIN q \cup {Len(q) + 1}
      /\ \A i \in DOMAIN q : Append(q, x)[i] = q[i]
      /\ Append(q, x)[Len(q) + 1] = x
  OBVIOUS
<1> QED
  BY <1>1 DEF ElementsOf

\* What is in a queue is its head and what is behind it.
LEMMA TailElements ==
    ASSUME NEW S, NEW q \in Seq(S), q # <<>>
    PROVE  /\ Head(q) \in S /\ Tail(q) \in Seq(S)
           /\ ElementsOf(q) = ElementsOf(Tail(q)) \cup {Head(q)}
<1>1. /\ Head(q) \in S /\ Tail(q) \in Seq(S) /\ Head(q) = q[1] /\ 1 \in DOMAIN q
      /\ \A i \in DOMAIN Tail(q) : i + 1 \in DOMAIN q /\ Tail(q)[i] = q[i + 1]
      /\ \A i \in DOMAIN q : i # 1 => i - 1 \in DOMAIN Tail(q) /\ q[i] = Tail(q)[i - 1]
  OBVIOUS
<1>2. \A i \in DOMAIN q : q[i] \in ElementsOf(Tail(q)) \cup {Head(q)}
  BY <1>1 DEF ElementsOf
<1>3. \A i \in DOMAIN Tail(q) : Tail(q)[i] \in ElementsOf(q)
  BY <1>1 DEF ElementsOf
<1>4. Head(q) \in ElementsOf(q)
  BY <1>1 DEF ElementsOf
<1> QED
  BY <1>1, <1>2, <1>3, <1>4 DEF ElementsOf

\* The elements of a queue are of its kind.
LEMMA ElementType ==
    ASSUME NEW S, NEW q \in Seq(S)
    PROVE  ElementsOf(q) \subseteq S
BY DEF ElementsOf

\* Orders of different vehicles, with one more behind them or without the first.
LEMMA ApartAppend ==
    ASSUME NEW q \in Seq(Command), NEW x \in Command, Apart(q),
           IsOrder(x) => \A y \in ElementsOf(q) : IsOrder(y) => y.vid # x.vid
    PROVE  Apart(Append(q, x))
BY DEF Apart, ElementsOf

LEMMA ApartTail ==
    ASSUME NEW q \in Seq(Command), q # <<>>, Apart(q)
    PROVE  /\ Apart(Tail(q))
           /\ IsOrder(Head(q)) =>
                 \A y \in ElementsOf(Tail(q)) : IsOrder(y) => y.vid # Head(q).vid
BY DEF Apart, ElementsOf

\* The same of the answers.
LEMMA AnswersApartAppend ==
    ASSUME NEW q \in Seq(Result), NEW x \in Result, AnswersApart(q),
           IsOrder(x.command) => \A y \in ElementsOf(q) :
                 IsOrder(y.command) => y.command.vid # x.command.vid
    PROVE  AnswersApart(Append(q, x))
BY DEF AnswersApart, ElementsOf

LEMMA AnswersApartTail ==
    ASSUME NEW q \in Seq(Result), q # <<>>, AnswersApart(q)
    PROVE  /\ AnswersApart(Tail(q))
           /\ IsOrder(Head(q).command) => \A y \in ElementsOf(Tail(q)) :
                 IsOrder(y.command) => y.command.vid # Head(q).command.vid
BY DEF AnswersApart, ElementsOf

\* The same of the LEAVEs of one queue.
LEMMA LeavesApartAppend ==
    ASSUME NEW q \in Seq(Command), NEW x \in Command, LeavesApart(q),
           x.kind = "leave" => \A y \in ElementsOf(q) : y.kind = "leave" => y.slot # x.slot
    PROVE  LeavesApart(Append(q, x))
BY DEF LeavesApart, ElementsOf

LEMMA LeavesApartTail ==
    ASSUME NEW q \in Seq(Command), q # <<>>, LeavesApart(q)
    PROVE  /\ LeavesApart(Tail(q))
           /\ Head(q).kind = "leave" =>
                 \A y \in ElementsOf(Tail(q)) : y.kind = "leave" => y.slot # Head(q).slot
BY DEF LeavesApart, ElementsOf

\* A session is something.
LEMMA RealSession ==
    ASSUME NEW b \in Board, NEW s \in Slot
    PROVE  SessionAt(b, s) \in Session /\ SessionAt(b, s) # None
<1>1. SessionAt(b, s) \in Session /\ SessionAt(b, s) \in [board : {"A", "B"}, slot : Int]
  BY HandoverAssumption DEF SessionAt, Session, Board, Slot
<1> QED
  BY <1>1, HandoverAssumption

\* The fields of an order.
LEMMA OrderFields ==
    \A kind, vid, slot, reason :
       /\ Order(kind, vid, slot, reason).kind = kind
       /\ Order(kind, vid, slot, reason).vid = vid
       /\ Order(kind, vid, slot, reason).slot = slot
       /\ Order(kind, vid, slot, reason).reason = reason
BY DEF Order

\* Everything pending is a command.
LEMMA PendingType ==
    ASSUME Typed, NEW b \in Board
    PROVE  /\ Queued(b) \subseteq Command
           /\ Answers(b) \subseteq Result
           /\ Pending(b) = Queued(b) \cup {r.command : r \in Answers(b)}
           /\ Pending(b) \subseteq Command
<1>1. commands[b] \in Seq(Command) /\ results[b] \in Seq(Result)
  BY DEF Typed
<1>2. Queued(b) \subseteq Command /\ Answers(b) \subseteq Result
  BY <1>1, ElementType DEF Queued, Answers
<1> QED
  BY <1>2 DEF Pending, Queued, Answers, Result

-----------------------------------------------------------------------------
(* The start.                                                               *)

\* At the start every vehicle has asked for a slot of its own.
LEMMA InvariantInit == Init => IInv
<1> SUFFICES ASSUME Init PROVE IInv
  OBVIOUS
<1> USE HandoverAssumption
<1>1. PICK place \in [Vehicle -> Starts], slot \in [Vehicle -> Slot],
           asked \in [Board -> 0 .. vehicle_count] :
         /\ \A b \in Board : {slot[v] : v \in Asking(b, place)} = 0 .. asked[b] - 1
         /\ \A b \in Board : \A v, w \in Asking(b, place) : Earlier(v, w) => slot[v] < slot[w]
         /\ vehicles = [v \in Vehicle |->
               [id |-> v, place |-> place[v], at |-> None, old |-> None,
                state |-> "connecting", retry_at |-> FALSE, retry_target |-> None]]
         /\ reserved = [b \in Board |-> 0 .. asked[b] - 1]
         /\ commands = [b \in Board |-> [i \in 1 .. asked[b] |->
               Order("open", CHOOSE v \in Asking(b, place) : slot[v] = i - 1, i - 1, "entry")]]
  BY Zenon DEF Init
<1> DEFINE first(b, i) == CHOOSE v \in Asking(b, place) : slot[v] = i - 1
<1>2. \A b \in Board : \A i \in 1 .. asked[b] :
         /\ first(b, i) \in Asking(b, place) /\ slot[first(b, i)] = i - 1
         /\ first(b, i) \in Vehicle /\ i - 1 \in Slot
  <2> SUFFICES ASSUME NEW b \in Board, NEW i \in 1 .. asked[b]
               PROVE  /\ first(b, i) \in Asking(b, place) /\ slot[first(b, i)] = i - 1
                      /\ first(b, i) \in Vehicle /\ i - 1 \in Slot
    OBVIOUS
  <2>1. asked[b] \in Nat
    OBVIOUS
  <2>2. i - 1 \in {slot[v] : v \in Asking(b, place)}
    <3>1. i - 1 \in 0 .. asked[b] - 1
      BY <2>1
    <3>2. {slot[v] : v \in Asking(b, place)} = 0 .. asked[b] - 1
      BY <1>1
    <3> QED
      BY <3>1, <3>2
  <2>3. PICK v \in Asking(b, place) : slot[v] = i - 1
    BY <2>2
  <2>4. first(b, i) \in Asking(b, place) /\ slot[first(b, i)] = i - 1
    BY <2>3
  <2> QED
    BY <2>3, <2>4 DEF Asking
<1>3. commands = [b \in Board |-> [i \in 1 .. asked[b] |-> Order("open", first(b, i), i - 1, "entry")]]
  BY <1>1
<1> HIDE DEF first
<1>4. \A b \in Board :
         /\ asked[b] \in Nat /\ DOMAIN commands[b] = 1 .. asked[b]
         /\ \A i \in 1 .. asked[b] : commands[b][i] = Order("open", first(b, i), i - 1, "entry")
  BY <1>3
<1>5. \A v \in Vehicle :
         /\ vehicles[v].id = v /\ vehicles[v].at = None /\ vehicles[v].old = None
         /\ vehicles[v].state = "connecting"
  BY <1>1
<1>6. \A b \in Board : results[b] = <<>>
  BY DEF Init
<1>7. Typed
  <2>1. vehicles \in [Vehicle -> VehicleState]
    <3> SUFFICES ASSUME NEW v \in Vehicle
                 PROVE  [id |-> v, place |-> place[v], at |-> None, old |-> None,
                         state |-> "connecting", retry_at |-> FALSE, retry_target |-> None]
                        \in VehicleState
      BY <1>1
    <3>1. v \in Nat
      BY DEF Vehicle
    <3>2. place[v] \in Place
      BY DEF Place
    <3> QED
      BY <3>1, <3>2 DEF VehicleState
  <2>2. reserved \in [Board -> SUBSET Slot]
    <3>1. \A b \in Board : \A k \in 0 .. asked[b] - 1 : k \in Slot
      <4> SUFFICES ASSUME NEW b \in Board, NEW k \in 0 .. asked[b] - 1 PROVE k \in Slot
        OBVIOUS
      <4>1. k + 1 \in 1 .. asked[b] /\ (k + 1) - 1 = k
        BY <1>4
      <4> QED
        BY <1>2, <4>1
    <3> QED
      BY <1>1, <3>1
  <2>3. slots \in [Board -> [Slot -> Nat \cup {None}]] /\ results \in [Board -> Seq(Result)]
    BY DEF Init
  <2>4. commands \in [Board -> Seq(Command)]
    BY <1>2, <1>3, <1>4 DEF Command, Order, Vehicle
  <2> QED
    BY <2>1, <2>2, <2>3, <2>4 DEF Typed
<1>8. \A b \in Board : /\ Answers(b) = {}
                       /\ \A c \in Pending(b) : \E i \in 1 .. asked[b] :
                              c = Order("open", first(b, i), i - 1, "entry")
                       /\ Queued(b) \subseteq Pending(b)
  BY <1>4, <1>6 DEF Answers, Pending, Queued, ElementsOf
<1>9. IdsDiffer
  BY <1>5 DEF IdsDiffer
<1>10. OneOrder
  <2>1. \A b \in Board : Apart(commands[b]) /\ LeavesApart(commands[b])
    <3> SUFFICES ASSUME NEW b \in Board PROVE Apart(commands[b]) /\ LeavesApart(commands[b])
      OBVIOUS
    <3>1. \A i, j \in 1 .. asked[b] : i # j => first(b, i) # first(b, j)
      BY <1>2
    <3>2. \A i \in 1 .. asked[b] :
             commands[b][i].vid = first(b, i) /\ commands[b][i].kind = "open"
      <4> SUFFICES ASSUME NEW i \in 1 .. asked[b]
                   PROVE  commands[b][i].vid = first(b, i) /\ commands[b][i].kind = "open"
        OBVIOUS
      <4>1. commands[b][i] = Order("open", first(b, i), i - 1, "entry")
        BY <1>4
      <4>2. /\ Order("open", first(b, i), i - 1, "entry").vid = first(b, i)
            /\ Order("open", first(b, i), i - 1, "entry").kind = "open"
        BY DEF Order
      <4> QED
        BY <4>1, <4>2, Zenon
    <3>3. DOMAIN commands[b] = 1 .. asked[b]
      BY <1>4
    <3> QED
      BY <3>1, <3>2, <3>3 DEF Apart, LeavesApart
  <2>2. \A b \in Board : AnswersApart(results[b])
    BY <1>6 DEF AnswersApart
  <2>3. \A b, d \in Board : \A c \in Pending(b), e \in Pending(d) : b # d => c.vid # e.vid
    BY <1>2, <1>8 DEF Asking, Order
  <2> QED
    BY <1>8, <2>1, <2>2, <2>3 DEF OneOrder
<1>11. Owned
  BY <1>2, <1>5, <1>8 DEF Owned, Order
<1>12. Asked
  <2> SUFFICES ASSUME NEW b \in Board, NEW c \in Pending(b)
               PROVE  /\ c.slot \in reserved[b]
                      /\ \A e \in Pending(b) : e.slot = c.slot => e.vid = c.vid
                      /\ \A v \in Vehicle : ~Uses(v, b, c.slot)
    BY DEF Asked
  <2>1. PICK i \in 1 .. asked[b] : c = Order("open", first(b, i), i - 1, "entry")
    BY <1>8
  <2>2. c.slot = i - 1 /\ c.vid = first(b, i) /\ c.slot \in reserved[b]
    BY <1>1, <1>4, <2>1 DEF Order
  <2>3. \A e \in Pending(b) : e.slot = c.slot => e.vid = c.vid
    BY <1>4, <1>8, <2>2 DEF Order
  <2>4. \A v \in Vehicle : ~Uses(v, b, c.slot)
    BY <1>5, <2>1, <1>2, RealSession DEF Uses, Order
  <2> QED
    BY <2>2, <2>3, <2>4
<1>13. Opened
  BY <1>2, <1>8 DEF Opened, Order, Init
<1>14. Used
  BY <1>5, RealSession DEF Used, Uses
<1>15. GivenUp
  BY <1>8 DEF GivenUp, Order
<1>16. Kept
  BY <1>5 DEF Kept
<1> QED
  BY <1>7, <1>9, <1>10, <1>11, <1>12, <1>13, <1>14, <1>15, <1>16 DEF IInv

-----------------------------------------------------------------------------
(* Steps that give nobody an order, a slot or a LEAVE.                      *)

Aside == {"data", "swkem", "stop"}

\* What is pending when a queue has lost its head or got a command at its end.
LEMMA QueueStep ==
    ASSUME Typed, OneOrder, NEW b \in Board,
           \/ commands'[b] = commands[b]
           \/ commands[b] # <<>> /\ commands'[b] = Tail(commands[b])
           \/ \E x \in Command : x.kind \in Aside /\ commands'[b] = Append(commands[b], x),
           results'[b] = results[b] \/ (results[b] # <<>> /\ results'[b] = Tail(results[b]))
    PROVE  /\ commands'[b] \in Seq(Command) /\ results'[b] \in Seq(Result)
           /\ \A c \in Queued(b)' : c.kind \in {"open", "leave"} => c \in Queued(b)
           /\ Answers(b)' \subseteq Answers(b)
           /\ \A c \in Pending(b)' : c.kind \in {"open", "leave"} => c \in Pending(b)
           /\ Apart(commands'[b]) /\ AnswersApart(results'[b]) /\ LeavesApart(commands'[b])
<1>1. /\ commands[b] \in Seq(Command) /\ results[b] \in Seq(Result)
      /\ Apart(commands[b]) /\ AnswersApart(results[b]) /\ LeavesApart(commands[b])
  BY DEF Typed, OneOrder
<1>2. /\ results'[b] \in Seq(Result) /\ Answers(b)' \subseteq Answers(b)
      /\ AnswersApart(results'[b])
  BY <1>1, TailElements, AnswersApartTail DEF Answers
<1>3. /\ commands'[b] \in Seq(Command)
      /\ \A c \in Queued(b)' : c.kind \in {"open", "leave"} => c \in Queued(b)
      /\ Apart(commands'[b]) /\ LeavesApart(commands'[b])
  <2>1. CASE commands'[b] = commands[b]
    BY <1>1, <2>1 DEF Queued
  <2>2. CASE commands[b] # <<>> /\ commands'[b] = Tail(commands[b])
    BY <1>1, <2>2, TailElements, ApartTail, LeavesApartTail DEF Queued
  <2>3. ASSUME NEW x \in Command, x.kind \in Aside, commands'[b] = Append(commands[b], x)
        PROVE  /\ commands'[b] \in Seq(Command)
               /\ \A c \in Queued(b)' : c.kind \in {"open", "leave"} => c \in Queued(b)
               /\ Apart(commands'[b]) /\ LeavesApart(commands'[b])
    <3>1. ~IsOrder(x) /\ x.kind \notin {"open", "leave"}
      BY <2>3 DEF Aside, IsOrder
    <3>2. commands'[b] \in Seq(Command) /\ Queued(b)' = Queued(b) \cup {x}
      BY <1>1, <2>3, AppendElements DEF Queued
    <3>3. Apart(commands'[b]) /\ LeavesApart(commands'[b])
      BY <1>1, <2>3, <3>1, ApartAppend, LeavesApartAppend
    <3> QED
      BY <3>1, <3>2, <3>3
  <2> QED
    BY <2>1, <2>2, <2>3
<1>4. \A c \in Pending(b)' : c.kind \in {"open", "leave"} => c \in Pending(b)
  BY <1>2, <1>3 DEF Pending, Queued, Answers
<1> QED
  BY <1>1, <1>2, <1>3, <1>4

LEMMA IdleStep ==
    ASSUME IInv, UNCHANGED <<reserved, slots>>,
           vehicles' \in [Vehicle -> VehicleState],
           \A v \in Vehicle : \A f \in {"id", "at", "old", "state"} :
              vehicles'[v][f] = vehicles[v][f],
           commands' = [b \in Board |-> commands'[b]], results' = [b \in Board |-> results'[b]],
           \A b \in Board :
              \/ commands'[b] = commands[b]
              \/ \E x \in Command : x.kind \in Aside /\ commands'[b] = Append(commands[b], x),
           \A b \in Board :
              results'[b] = results[b] \/ (results[b] # <<>> /\ results'[b] = Tail(results[b]))
    PROVE  IInv'
<1> USE DEF IInv
<1>1. \A b \in Board :
         /\ commands'[b] \in Seq(Command) /\ results'[b] \in Seq(Result)
         /\ \A c \in Queued(b)' : c.kind \in {"open", "leave"} => c \in Queued(b)
         /\ Answers(b)' \subseteq Answers(b)
         /\ \A c \in Pending(b)' : c.kind \in {"open", "leave"} => c \in Pending(b)
         /\ Apart(commands'[b]) /\ AnswersApart(results'[b]) /\ LeavesApart(commands'[b])
  BY QueueStep
<1>2. \A v \in Vehicle : /\ vehicles'[v].id = vehicles[v].id
                         /\ vehicles'[v].at = vehicles[v].at
                         /\ vehicles'[v].old = vehicles[v].old
                         /\ vehicles'[v].state = vehicles[v].state
  OBVIOUS
<1>3. \A v \in Vehicle, b \in Board : \A s : Uses(v, b, s)' <=> Uses(v, b, s)
  BY <1>2 DEF Uses
<1>4. Typed'
  BY <1>1 DEF Typed
<1>5. IdsDiffer'
  BY <1>2 DEF IdsDiffer
<1>6. OneOrder'
  BY <1>1 DEF OneOrder, IsOrder
<1>7. Owned'
  BY <1>1, <1>2 DEF Owned, IsOrder
<1>8. Asked'
  BY <1>1, <1>3 DEF Asked
<1>9. Opened'
  BY <1>1 DEF Opened
<1>10. Used'
  BY <1>2, <1>3 DEF Used
<1>11. GivenUp'
  BY <1>1, <1>3 DEF GivenUp
<1>12. Kept'
  BY <1>2 DEF Kept
<1> QED
  BY <1>4, <1>5, <1>6, <1>7, <1>8, <1>9, <1>10, <1>11, <1>12

-----------------------------------------------------------------------------
(* A worker carries out a command.                                          *)

\* A worker that has read its stop.
LEMMA StopStep ==
    ASSUME IInv, NEW b \in Board, commands[b] # <<>>,
           commands' = [commands EXCEPT ![b] = Tail(@)],
           UNCHANGED <<vehicles, reserved, slots, results>>
    PROVE  IInv'
<1> USE DEF IInv
<1>1. \A d \in Board : \/ commands'[d] = commands[d]
                       \/ commands[d] # <<>> /\ commands'[d] = Tail(commands[d])
  BY DEF Typed
<1>2. \A d \in Board :
         /\ commands'[d] \in Seq(Command) /\ results'[d] \in Seq(Result)
         /\ \A c \in Queued(d)' : c.kind \in {"open", "leave"} => c \in Queued(d)
         /\ Answers(d)' \subseteq Answers(d)
         /\ \A c \in Pending(d)' : c.kind \in {"open", "leave"} => c \in Pending(d)
         /\ Apart(commands'[d]) /\ AnswersApart(results'[d]) /\ LeavesApart(commands'[d])
  BY <1>1, QueueStep
<1>3. commands' \in [Board -> Seq(Command)]
  BY <1>2 DEF Typed
<1>4. Typed' /\ IdsDiffer' /\ Kept' /\ Used'
  BY <1>3 DEF Typed, IdsDiffer, Kept, Used, Uses
<1>5. OneOrder' /\ Owned'
  BY <1>2 DEF OneOrder, Owned, IsOrder
<1>6. Asked' /\ Opened' /\ GivenUp'
  BY <1>2 DEF Asked, Opened, GivenUp, Uses
<1> QED
  BY <1>4, <1>5, <1>6

\* A command that is answered goes from one queue to the other.
LEMMA AnswerStep ==
    ASSUME IInv, NEW b \in Board, commands[b] # <<>>, NEW c, c = Head(commands[b]),
           NEW ok \in BOOLEAN,
           commands' = [commands EXCEPT ![b] = Tail(@)],
           results' = [results EXCEPT ![b] = Append(@, Answer(c, ok))],
           slots' = SlotsAfter(b, c, ok),
           UNCHANGED <<vehicles, reserved>>
    PROVE  IInv'
<1> USE DEF IInv
<1> DEFINE r == Answer(c, ok)
<1>1. /\ c \in Command /\ r \in Result /\ r.command = c /\ r.ok = ok
      /\ commands[b] \in Seq(Command) /\ results[b] \in Seq(Result)
  <2>1. c \in Command /\ commands[b] \in Seq(Command) /\ results[b] \in Seq(Result)
    BY TailElements DEF Typed
  <2> QED
    BY <2>1 DEF Answer, Result
<1>2. /\ commands'[b] = Tail(commands[b]) /\ results'[b] = Append(results[b], r)
      /\ \A d \in Board : d # b => commands'[d] = commands[d] /\ results'[d] = results[d]
  BY DEF Typed
<1>3. /\ Queued(b) = Queued(b)' \cup {c} /\ commands'[b] \in Seq(Command)
      /\ Answers(b)' = Answers(b) \cup {r} /\ results'[b] \in Seq(Result)
  BY <1>1, <1>2, TailElements, AppendElements DEF Queued, Answers
<1> HIDE DEF r
<1>4. /\ \A d \in Board : Pending(d)' = Pending(d)
      /\ \A d \in Board : Queued(d)' \subseteq Queued(d)
      /\ \A d \in Board : Queued(d) \subseteq Pending(d)
      /\ \A d \in Board : \A x \in Answers(d) : x.command \in Pending(d)
      /\ \A d \in Board : d # b => Queued(d)' = Queued(d) /\ Answers(d)' = Answers(d)
  <2>1. \A d \in Board : d # b => Queued(d)' = Queued(d) /\ Answers(d)' = Answers(d)
    BY <1>2 DEF Queued, Answers
  <2>2. \A d \in Board : Pending(d) = Queued(d) \cup {x.command : x \in Answers(d)}
    BY DEF Pending, Queued, Answers
  <2>3. \A d \in Board : Pending(d)' = Queued(d)' \cup {x.command : x \in Answers(d)'}
    BY DEF Pending, Queued, Answers
  <2>4. Pending(b)' = Pending(b)
    <3>1. {x.command : x \in Answers(b)'} = {x.command : x \in Answers(b)} \cup {c}
      <4>1. Answers(b)' = Answers(b) \cup {r} /\ r.command = c
        BY <1>1, <1>3
      <4> QED
        BY <4>1
    <3>2. Queued(b) = Queued(b)' \cup {c}
      BY <1>3
    <3> QED
      BY <2>2, <2>3, <3>1, <3>2
  <2>5. \A d \in Board : Pending(d)' = Pending(d)
    BY <2>1, <2>2, <2>3, <2>4
  <2>6. \A d \in Board : Queued(d)' \subseteq Queued(d)
    BY <1>3, <2>1
  <2>7. /\ \A d \in Board : Queued(d) \subseteq Pending(d)
        /\ \A d \in Board : \A x \in Answers(d) : x.command \in Pending(d)
    BY <2>2
  <2> QED
    BY <2>1, <2>5, <2>6, <2>7
<1>5. /\ c \in Queued(b)
      /\ IsOrder(c) => /\ \A x \in Queued(b)' : IsOrder(x) => x.vid # c.vid
                       /\ \A x \in Answers(b) : IsOrder(x.command) => x.command.vid # c.vid
      /\ c.kind = "leave" => \A x \in Queued(b)' : x.kind = "leave" => x.slot # c.slot
      /\ Apart(commands'[b]) /\ LeavesApart(commands'[b])
  BY <1>1, <1>2, <1>3, ApartTail, LeavesApartTail DEF OneOrder, Queued
<1>6. AnswersApart(results'[b])
  BY <1>1, <1>2, <1>5, AnswersApartAppend DEF OneOrder, Answers
<1>7. OneOrder'
  BY <1>1, <1>2, <1>3, <1>4, <1>5, <1>6 DEF OneOrder
<1>8. \A v \in Vehicle, d \in Board : \A s : Uses(v, d, s)' <=> Uses(v, d, s)
  BY DEF Uses
<1>9. IdsDiffer' /\ Owned' /\ Asked' /\ Kept'
  BY <1>4, <1>8 DEF IdsDiffer, Owned, Asked, Kept
<1>10. slots' \in [Board -> [Slot -> Nat \cup {None}]]
  BY <1>1 DEF SlotsAfter, Typed, Command
<1>11. commands' \in [Board -> Seq(Command)] /\ results' \in [Board -> Seq(Result)]
  BY <1>1, <1>2, <1>3 DEF Typed
<1>12. Typed'
  BY <1>10, <1>11 DEF Typed
\* Slots in use, and slots whose LEAVE is still to come, keep what they hold.
<1>13. ASSUME \A d \in Board : \A s \in Slot : \A v \in Vehicle :
                 Uses(v, d, s) => slots'[d][s] = slots[d][s],
              \A d \in Board : \A x \in Queued(d)' :
                 x.kind = "leave" => slots'[d][x.slot] = slots[d][x.slot]
       PROVE  Used' /\ GivenUp'
  <2>1. Used'
    BY <1>8, <1>13 DEF Used
  <2>2. GivenUp'
    BY <1>4, <1>8, <1>13 DEF GivenUp
  <2> QED
    BY <2>1, <2>2
<1>14. \A d \in Board : \A x \in Pending(d) : x.kind \in {"open", "leave"} => x.slot \in Slot
  BY PendingType DEF Command
<1>15. CASE c.kind = "open" /\ ok
  <2>1. c.slot \in Slot /\ c.vid \in Nat
    BY <1>1, <1>15 DEF Command
  <2>2. \A d \in Board : \A s \in Slot :
           slots'[d][s] = IF d = b /\ s = c.slot THEN c.vid ELSE slots[d][s]
    BY <1>15, <2>1 DEF SlotsAfter, Typed
  <2>3. \A x \in Queued(b)' : x.kind = "open" => x.slot # c.slot
    BY <1>4, <1>5, <1>15 DEF Asked, IsOrder
  <2>4. \A x \in Answers(b) : x.command.kind = "open" => x.command.slot # c.slot
    BY <1>4, <1>5, <1>15 DEF Asked, IsOrder
  <2>5. Opened'
    <3>1. ASSUME NEW d \in Board, NEW x \in Queued(d)', x.kind = "open"
          PROVE  slots'[d][x.slot] = None
      BY <1>4, <1>14, <2>2, <2>3, <3>1 DEF Opened
    <3>2. ASSUME NEW d \in Board, NEW x \in Answers(d)', x.command.kind = "open", x.ok
          PROVE  slots'[d][x.command.slot] = x.command.vid
      BY <1>1, <1>3, <1>4, <1>14, <2>1, <2>2, <2>4, <3>2 DEF Opened
    <3> QED
      BY <3>1, <3>2 DEF Opened
  <2>6. \A d \in Board : \A s \in Slot : \A v \in Vehicle :
           Uses(v, d, s) => slots'[d][s] = slots[d][s]
    <3>1. c \in Pending(b) /\ c.kind = "open"
      BY <1>4, <1>5, <1>15
    <3>2. \A v \in Vehicle : ~Uses(v, b, c.slot)
      BY <3>1 DEF Asked
    <3> QED
      BY <2>2, <3>2
  <2>7. \A d \in Board : \A x \in Queued(d)' :
           x.kind = "leave" => slots'[d][x.slot] = slots[d][x.slot]
    <3> SUFFICES ASSUME NEW d \in Board, NEW x \in Queued(d)', x.kind = "leave"
                 PROVE  slots'[d][x.slot] = slots[d][x.slot]
      OBVIOUS
    <3>1. x \in Queued(d) /\ x \in Pending(d) /\ x.slot \in Slot
      BY <1>4, <1>14
    <3>2. c \in Pending(b) /\ c.kind = "open"
      BY <1>4, <1>5, <1>15
    <3>3. d = b => c.slot # x.slot
      BY <3>1, <3>2 DEF GivenUp
    <3> QED
      BY <2>2, <3>1, <3>3
  <2> QED
    BY <1>7, <1>9, <1>12, <1>13, <2>5, <2>6, <2>7
<1>16. CASE c.kind = "leave" /\ ok
  <2>1. c.slot \in Slot
    BY <1>1, <1>16 DEF Command
  <2>2. \A d \in Board : \A s \in Slot :
           slots'[d][s] = IF d = b /\ s = c.slot THEN None ELSE slots[d][s]
    BY <1>16, <2>1 DEF SlotsAfter, Typed
  <2>3. \A x \in Pending(b) : x.kind = "open" => x.slot # c.slot
    BY <1>5, <1>16 DEF GivenUp
  <2>4. Opened'
    <3>1. ASSUME NEW d \in Board, NEW x \in Queued(d)', x.kind = "open"
          PROVE  slots'[d][x.slot] = None
      BY <1>4, <1>14, <2>2, <3>1 DEF Opened
    <3>2. ASSUME NEW d \in Board, NEW x \in Answers(d)', x.command.kind = "open", x.ok
          PROVE  slots'[d][x.command.slot] = x.command.vid
      <4>1. x \in Answers(d)
        BY <1>1, <1>3, <1>4, <1>16, <3>2
      <4>2. x.command \in Pending(d) /\ x.command.slot \in Slot
        BY <1>4, <1>14, <3>2, <4>1
      <4>3. d = b => x.command.slot # c.slot
        BY <2>3, <3>2, <4>2
      <4>4. slots[d][x.command.slot] = x.command.vid
        BY <3>2, <4>1 DEF Opened
      <4> QED
        BY <2>2, <4>2, <4>3, <4>4
    <3> QED
      BY <3>1, <3>2 DEF Opened
  <2>5. \A d \in Board : \A s \in Slot : \A v \in Vehicle :
           Uses(v, d, s) => slots'[d][s] = slots[d][s]
    BY <1>5, <1>16, <2>2 DEF GivenUp
  <2>6. \A d \in Board : \A x \in Queued(d)' :
           x.kind = "leave" => slots'[d][x.slot] = slots[d][x.slot]
    <3> SUFFICES ASSUME NEW d \in Board, NEW x \in Queued(d)', x.kind = "leave"
                 PROVE  slots'[d][x.slot] = slots[d][x.slot]
      OBVIOUS
    <3>1. x \in Queued(d) /\ x.slot \in Slot
      BY <1>4, <1>14
    <3>2. d = b => x.slot # c.slot
      BY <1>5, <1>16
    <3> QED
      BY <2>2, <3>1, <3>2
  <2> QED
    BY <1>7, <1>9, <1>12, <1>13, <2>4, <2>5, <2>6
<1>17. CASE ~(c.kind = "open" /\ ok) /\ ~(c.kind = "leave" /\ ok)
  <2>1. slots' = slots
    BY <1>17 DEF SlotsAfter
  <2>2. Opened'
    BY <1>1, <1>3, <1>4, <1>17, <2>1 DEF Opened
  <2> QED
    BY <1>7, <1>9, <1>12, <1>13, <2>1, <2>2
<1> QED
  BY <1>15, <1>16, <1>17

\* A worker takes a command and answers it.
LEMMA WorkStep == ASSUME IInv, NEW b \in Board, Work(b) PROVE IInv'
<1>1. commands[b] # <<>> /\ commands' = [commands EXCEPT ![b] = Tail(@)]
  BY DEF Work
<1>2. UNCHANGED <<vehicles, reserved>>
  BY DEF Work, controller
<1>3. \/ UNCHANGED <<results, slots>>
      \/ \E ok \in BOOLEAN :
            /\ slots' = SlotsAfter(b, Head(commands[b]), ok)
            /\ results' = [results EXCEPT ![b] = Append(@, Answer(Head(commands[b]), ok))]
  BY Zenon DEF Work
<1> QED
  BY <1>1, <1>2, <1>3, StopStep, AnswerStep

-----------------------------------------------------------------------------
(* Steps of the controller that change a vehicle.                           *)

\* What is still pending when the result that is collected is gone.
Left(d) == Queued(d) \cup {r.command : r \in Answers(d)'}

\* Queues after a step that submits at most one command, N, and collects at most
\* one result.
LEMMA SubmitStep ==
    ASSUME Typed, OneOrder, NEW d \in Board, NEW n \in SUBSET Command,
           \/ n = {} /\ commands'[d] = commands[d]
           \/ \E x \in Command : n = {x} /\ commands'[d] = Append(commands[d], x),
           results'[d] = results[d] \/ (results[d] # <<>> /\ results'[d] = Tail(results[d])),
           \A x \in n : IsOrder(x) => \A c \in Left(d) : IsOrder(c) => c.vid # x.vid,
           \A x \in n : x.kind = "leave" =>
              \A c \in Queued(d) : c.kind = "leave" => c.slot # x.slot
    PROVE  /\ commands'[d] \in Seq(Command) /\ results'[d] \in Seq(Result)
           /\ Queued(d)' = Queued(d) \cup n
           /\ Answers(d)' \subseteq Answers(d)
           /\ Pending(d)' = Left(d) \cup n
           /\ Left(d) \subseteq Pending(d) /\ Pending(d)' \subseteq Command
           /\ Apart(commands'[d]) /\ AnswersApart(results'[d]) /\ LeavesApart(commands'[d])
<1>1. /\ commands[d] \in Seq(Command) /\ results[d] \in Seq(Result)
      /\ Apart(commands[d]) /\ AnswersApart(results[d]) /\ LeavesApart(commands[d])
  BY DEF Typed, OneOrder
<1>2. /\ results'[d] \in Seq(Result) /\ Answers(d)' \subseteq Answers(d)
      /\ AnswersApart(results'[d])
  <2>1. CASE results'[d] = results[d]
    BY <1>1, <2>1 DEF Answers
  <2>2. CASE results[d] # <<>> /\ results'[d] = Tail(results[d])
    <3>1. results'[d] \in Seq(Result) /\ ElementsOf(results'[d]) \subseteq ElementsOf(results[d])
      BY <1>1, <2>2, TailElements
    <3>2. AnswersApart(results'[d])
      BY <1>1, <2>2, AnswersApartTail
    <3> QED
      BY <3>1, <3>2 DEF Answers
  <2> QED
    BY <2>1, <2>2
<1>3. /\ commands'[d] \in Seq(Command) /\ Queued(d)' = Queued(d) \cup n
      /\ Apart(commands'[d]) /\ LeavesApart(commands'[d])
  <2>1. CASE n = {} /\ commands'[d] = commands[d]
    BY <1>1, <2>1 DEF Queued
  <2>2. ASSUME NEW x \in Command, n = {x}, commands'[d] = Append(commands[d], x)
        PROVE  /\ commands'[d] \in Seq(Command) /\ Queued(d)' = Queued(d) \cup n
               /\ Apart(commands'[d]) /\ LeavesApart(commands'[d])
    <3>1. commands'[d] \in Seq(Command) /\ Queued(d)' = Queued(d) \cup {x}
      BY <1>1, <2>2, AppendElements DEF Queued
    <3>2. IsOrder(x) => \A c \in ElementsOf(commands[d]) : IsOrder(c) => c.vid # x.vid
      BY <2>2 DEF Left, Queued
    <3>3. x.kind = "leave" =>
             \A c \in ElementsOf(commands[d]) : c.kind = "leave" => c.slot # x.slot
      BY <2>2 DEF Queued
    <3>4. Apart(commands'[d])
      BY <1>1, <2>2, <3>2, ApartAppend
    <3>5. LeavesApart(commands'[d])
      BY <1>1, <2>2, <3>3, LeavesApartAppend
    <3> QED
      BY <2>2, <3>1, <3>4, <3>5
  <2> QED
    BY <2>1, <2>2
<1>4. Pending(d)' = Queued(d)' \cup {r.command : r \in Answers(d)'}
  BY DEF Pending, Queued, Answers
<1>5. Pending(d)' = Left(d) \cup n
  BY <1>3, <1>4 DEF Left
<1>6. Left(d) \subseteq Pending(d) /\ Left(d) \subseteq Command
  BY <1>2, PendingType DEF Left
<1> QED
  BY <1>1, <1>2, <1>3, <1>5, <1>6

\* The vehicle has no order once the result that is collected is gone.
Free(v) == \A d \in Board : \A c \in Left(d) : IsOrder(c) => c.vid # vehicles[v].id

\* A step collects at most one result of each board.
Collected ==
    /\ results' = [d \in Board |-> results'[d]]
    /\ \A d \in Board :
          results'[d] = results[d] \/ (results[d] # <<>> /\ results'[d] = Tail(results[d]))

\* It submits at most one command: N has it.
Submitted(N) ==
    /\ N \in [Board -> SUBSET Command]
    /\ commands' = [d \in Board |-> commands'[d]]
    /\ \A d \in Board : \/ N[d] = {} /\ commands'[d] = commands[d]
                        \/ \E x \in Command : N[d] = {x} /\ commands'[d] = Append(commands[d], x)
    /\ \A d, e \in Board : N[d] # {} /\ N[e] # {} => d = e

\* What it asks for is free, and its own vehicle waits for it.
AsksForFree(N, u) ==
    \A d \in Board : \A x \in N[d] : x.kind = "open" =>
       /\ x.vid = u.id /\ u.state \in {"connecting", "handover"}
       /\ x.slot \in reserved'[d] /\ slots[d][x.slot] = None
       /\ \A c \in Left(d) : c.kind = "open" => c.slot # x.slot

\* What it gives up is its own, and is used no more.
GivesUpOwn(N, u) ==
    \A d \in Board : \A x \in N[d] : x.kind = "leave" =>
       /\ x.reason = "exit" => x.vid = u.id /\ u.state = "exiting"
       /\ slots[d][x.slot] = x.vid
       /\ \A c \in Left(d) : c.kind = "open" => c.slot # x.slot
       /\ \A c \in Queued(d) : c.kind = "leave" => c.slot # x.slot
       /\ \A w \in Vehicle : ~Uses(w, d, x.slot)'

\* What others have asked for stays reserved.
StaysReserved ==
    /\ reserved' \in [Board -> SUBSET Slot]
    /\ \A d \in Board : \A c \in Left(d) : c.kind = "open" => c.slot \in reserved'[d]

\* What the vehicle uses then, it has used before or got from the board.
UsesOwn(v, u) ==
    \A d \in Board : \A s \in Slot : Uses(v, d, s)' =>
       \/ Uses(v, d, s) /\ u.id = vehicles[v].id
       \/ /\ slots[d][s] = u.id
          /\ \A w \in Vehicle : w # v => ~Uses(w, d, s)
          /\ \A c \in Left(d) : c.kind = "open" => c.slot # s
          /\ \A c \in Queued(d) : c.kind = "leave" => c.slot # s

\* The vehicle as the step leaves it: an id of its own, and nothing kept but
\* during a switch.
Whole(v, u) ==
    /\ \A w \in Vehicle : w # v => vehicles[w].id # u.id
    /\ u.old # None => u.old = u.at /\ u.state \in {"connecting", "handover"}
    /\ u.state = "handover" => u.old # None

\* A step of a vehicle v that has no order any more keeps the invariant when what
\* it submits and what it then uses is in nobody else's hand.
LEMMA VehicleStep ==
    ASSUME IInv, NEW v \in Vehicle, NEW u \in VehicleState,
           vehicles' = [vehicles EXCEPT ![v] = u], slots' = slots,
           NEW N, Submitted(N), Collected, Free(v), Whole(v, u),
           AsksForFree(N, u), GivesUpOwn(N, u), StaysReserved, UsesOwn(v, u)
    PROVE  IInv'
<1> USE DEF Submitted, Collected, Free, Whole, AsksForFree, GivesUpOwn, StaysReserved, UsesOwn
<1> USE DEF IInv
<1>1. /\ vehicles' \in [Vehicle -> VehicleState] /\ vehicles'[v] = u
      /\ \A w \in Vehicle : w # v => vehicles'[w] = vehicles[w]
      /\ \A w \in Vehicle : vehicles[w].id \in Nat
  BY DEF Typed, VehicleState
<1>2. \A d \in Board : \A c \in Left(d) : IsOrder(c) =>
         \E w \in Vehicle \ {v} :
            /\ vehicles[w].id = c.vid
            /\ vehicles[w].state \in (IF c.kind = "open" THEN {"connecting", "handover"}
                                                        ELSE {"exiting"})
  <2> SUFFICES ASSUME NEW d \in Board, NEW c \in Left(d), IsOrder(c)
               PROVE  \E w \in Vehicle \ {v} :
            /\ vehicles[w].id = c.vid
            /\ vehicles[w].state \in (IF c.kind = "open" THEN {"connecting", "handover"}
                                                        ELSE {"exiting"})
    OBVIOUS
  <2>1. Answers(d)' \subseteq Answers(d)
    <3>1. results[d] \in Seq(Result)
      BY DEF Typed
    <3>2. CASE results[d] # <<>> /\ results'[d] = Tail(results[d])
      BY <3>1, <3>2, TailElements DEF Answers
    <3> QED
      BY <3>2 DEF Answers
  <2>2. c \in Pending(d)
    BY <2>1, PendingType DEF Left
  <2> QED
    BY <2>2 DEF Owned
<1>3. \A d \in Board : \A c \in Left(d) : IsOrder(c) => c.vid # u.id
  BY <1>2
<1>4. \A d \in Board : \A x \in N[d] : IsOrder(x) => x.vid = u.id
  BY DEF IsOrder
<1>5. \A d \in Board :
         /\ commands'[d] \in Seq(Command) /\ results'[d] \in Seq(Result)
         /\ Queued(d)' = Queued(d) \cup N[d]
         /\ Answers(d)' \subseteq Answers(d)
         /\ Pending(d)' = Left(d) \cup N[d]
         /\ Left(d) \subseteq Pending(d) /\ Pending(d)' \subseteq Command
         /\ Apart(commands'[d]) /\ AnswersApart(results'[d]) /\ LeavesApart(commands'[d])
  <2> SUFFICES ASSUME NEW d \in Board
               PROVE  /\ commands'[d] \in Seq(Command) /\ results'[d] \in Seq(Result)
                      /\ Queued(d)' = Queued(d) \cup N[d]
                      /\ Answers(d)' \subseteq Answers(d)
                      /\ Pending(d)' = Left(d) \cup N[d]
                      /\ Left(d) \subseteq Pending(d) /\ Pending(d)' \subseteq Command
                      /\ Apart(commands'[d]) /\ AnswersApart(results'[d])
                      /\ LeavesApart(commands'[d])
    OBVIOUS
  <2>1. \A x \in N[d] : IsOrder(x) => \A c \in Left(d) : IsOrder(c) => c.vid # x.vid
    BY <1>3, <1>4
  <2>2. \A x \in N[d] : x.kind = "leave" =>
           \A c \in Queued(d) : c.kind = "leave" => c.slot # x.slot
    OBVIOUS
  <2>3. N[d] \in SUBSET Command
    OBVIOUS
  <2> QED
    BY <2>1, <2>2, <2>3, SubmitStep
<1>6. Typed'
  BY <1>1, <1>5 DEF Typed
<1>7. IdsDiffer'
  BY <1>1 DEF IdsDiffer
<1>8. OneOrder'
  <2>1. ASSUME NEW d \in Board, NEW c \in Queued(d)', NEW r \in Answers(d)',
               IsOrder(c), IsOrder(r.command)
        PROVE  c.vid # r.command.vid
    <3>1. r \in Answers(d) /\ r.command \in Left(d)
      BY <1>5 DEF Left
    <3>2. CASE c \in Queued(d)
      BY <2>1, <3>1, <3>2 DEF OneOrder
    <3>3. CASE c \in N[d]
      BY <1>3, <1>4, <2>1, <3>1, <3>3
    <3> QED
      BY <1>5, <3>2, <3>3
  <2>2. ASSUME NEW d \in Board, NEW f \in Board, NEW c \in Pending(d)', NEW e \in Pending(f)',
               d # f, IsOrder(c), IsOrder(e)
        PROVE  c.vid # e.vid
    <3>1. CASE c \in Left(d) /\ e \in Left(f)
      BY <1>5, <2>2, <3>1 DEF OneOrder
    <3>2. CASE c \in N[d] /\ e \in Left(f)
      BY <1>3, <1>4, <2>2, <3>2
    <3>3. CASE c \in Left(d) /\ e \in N[f]
      BY <1>3, <1>4, <2>2, <3>3
    <3>4. CASE c \in N[d] /\ e \in N[f]
      BY <2>2, <3>4
    <3> QED
      BY <1>5, <3>1, <3>2, <3>3, <3>4
  <2> QED
    BY <1>5, <2>1, <2>2 DEF OneOrder
<1>9. Owned'
  <2> SUFFICES ASSUME NEW d \in Board, NEW c \in Pending(d)', IsOrder(c)
               PROVE  \E w \in Vehicle :
                         /\ vehicles'[w].id = c.vid
                         /\ vehicles'[w].state \in (IF c.kind = "open" THEN {"connecting", "handover"}
                                                                      ELSE {"exiting"})
    BY DEF Owned, IsOrder
  <2>1. CASE c \in Left(d)
    BY <1>1, <1>2, <2>1
  <2>2. CASE c \in N[d]
    <3>1. c.kind = "open" => c.vid = u.id /\ u.state \in {"connecting", "handover"}
      BY <2>2
    <3>2. c.kind # "open" => c.vid = u.id /\ u.state = "exiting"
      BY <2>2 DEF IsOrder
    <3> QED
      BY <1>1, <3>1, <3>2
  <2> QED
    BY <1>5, <2>1, <2>2
<1>10. \A d \in Board : \A s : \A w \in Vehicle : w # v => (Uses(w, d, s)' <=> Uses(w, d, s))
  BY <1>1 DEF Uses
<1>11. \A d \in Board : \A c \in Pending(d) : c.kind \in {"open", "leave"} => c.slot \in Slot
  BY PendingType DEF Command
<1>12. \A d \in Board : \A x \in N[d] : x.kind \in {"open", "leave"} => x.slot \in Slot /\ x.vid \in Nat
  BY DEF Command
<1>13. None \notin Nat
  BY HandoverAssumption
<1>14. Asked'
  <2> SUFFICES ASSUME NEW d \in Board, NEW c \in Pending(d)', c.kind = "open"
               PROVE  /\ c.slot \in reserved'[d]
                      /\ \A e \in Pending(d)' : e.kind = "open" /\ e.slot = c.slot => e.vid = c.vid
                      /\ \A w \in Vehicle : ~Uses(w, d, c.slot)'
    BY DEF Asked
  <2>1. CASE c \in Left(d)
    <3>1. c \in Pending(d) /\ c.slot \in Slot
      BY <1>5, <1>11, <2>1
    <3>2. \A w \in Vehicle : ~Uses(w, d, c.slot)
      BY <3>1 DEF Asked
    <3>3. \A w \in Vehicle : ~Uses(w, d, c.slot)'
      BY <1>10, <2>1, <3>1, <3>2
    <3>4. ASSUME NEW e \in Pending(d)', e.kind = "open", e.slot = c.slot PROVE e.vid = c.vid
      <4>1. e \notin N[d]
        BY <2>1, <3>4
      <4>2. e \in Pending(d)
        BY <1>5, <4>1
      <4> QED
        BY <3>1, <3>4, <4>2 DEF Asked
    <3> QED
      BY <2>1, <3>3, <3>4
  <2>2. CASE c \in N[d]
    <3>1. c.slot \in reserved'[d] /\ slots[d][c.slot] = None /\ c.slot \in Slot
      BY <1>12, <2>2
    <3>2. ASSUME NEW w \in Vehicle, Uses(w, d, c.slot)' PROVE FALSE
      <4>1. slots[d][c.slot] \in Nat
        <5>1. CASE w = v
          BY <1>1, <3>1, <3>2, <5>1 DEF Used, VehicleState
        <5>2. CASE w # v
          BY <1>1, <1>10, <3>1, <3>2, <5>2 DEF Used
        <5> QED
          BY <5>1, <5>2
      <4> QED
        BY <1>13, <3>1, <4>1
    <3>3. \A e \in Pending(d)' : e.kind = "open" /\ e.slot = c.slot => e.vid = c.vid
      BY <1>5, <2>2
    <3> QED
      BY <3>1, <3>2, <3>3
  <2> QED
    BY <1>5, <2>1, <2>2
<1>15. Opened'
  BY <1>5 DEF Opened
<1>16. Used'
  <2> SUFFICES ASSUME NEW d \in Board, NEW s \in Slot, NEW w \in Vehicle, Uses(w, d, s)'
               PROVE  /\ slots[d][s] = vehicles'[w].id
                      /\ \A x \in Vehicle : Uses(x, d, s)' => x = w
    BY DEF Used
  <2>1. CASE w = v
    BY <1>1, <1>10, <2>1 DEF Used
  <2>2. CASE w # v
    <3>1. slots[d][s] = vehicles[w].id /\ \A x \in Vehicle : Uses(x, d, s) => x = w
      BY <1>10, <2>2 DEF Used
    <3>2. ~Uses(v, d, s)'
      BY <1>10, <2>2, <3>1
    <3> QED
      BY <1>1, <1>10, <2>2, <3>1, <3>2
  <2> QED
    BY <2>1, <2>2
<1>17. GivenUp'
  <2> SUFFICES ASSUME NEW d \in Board, NEW c \in Queued(d)', c.kind = "leave"
               PROVE  /\ slots[d][c.slot] = c.vid
                      /\ \A e \in Pending(d)' : e.kind = "open" => e.slot # c.slot
                      /\ \A w \in Vehicle : ~Uses(w, d, c.slot)'
    BY DEF GivenUp
  <2>1. CASE c \in Queued(d)
    <3>1. /\ slots[d][c.slot] = c.vid /\ c.slot \in Slot /\ c.vid \in Nat
          /\ \A e \in Pending(d) : e.kind = "open" => e.slot # c.slot
          /\ \A w \in Vehicle : ~Uses(w, d, c.slot)
      BY <2>1, PendingType DEF GivenUp, Command
    <3>2. \A e \in Pending(d)' : e.kind = "open" => e.slot # c.slot
      BY <1>5, <1>13, <3>1
    <3>3. \A w \in Vehicle : ~Uses(w, d, c.slot)'
      BY <1>10, <2>1, <3>1
    <3> QED
      BY <3>1, <3>2, <3>3
  <2>2. CASE c \in N[d]
    <3>1. \A e \in N[d] : e.kind # "open"
      BY <2>2
    <3> QED
      BY <1>5, <2>2, <3>1
  <2> QED
    BY <1>5, <2>1, <2>2
<1>18. Kept'
  BY <1>1 DEF Kept
<1> QED
  BY <1>6, <1>7, <1>8, <1>9, <1>14, <1>15, <1>16, <1>17, <1>18

\* Nothing is left that was not pending.
LEMMA LeftPending ==
    ASSUME Typed, NEW d \in Board,
           results'[d] = results[d] \/ (results[d] # <<>> /\ results'[d] = Tail(results[d]))
    PROVE  Left(d) \subseteq Pending(d) /\ Queued(d) \subseteq Pending(d)
<1>1. results[d] \in Seq(Result)
  BY DEF Typed
<1>2. Answers(d)' \subseteq Answers(d)
  <2>1. CASE results[d] # <<>> /\ results'[d] = Tail(results[d])
    BY <1>1, <2>1, TailElements DEF Answers
  <2> QED
    BY <2>1 DEF Answers
<1> QED
  BY <1>2, PendingType DEF Left

\* Asking for a slot, or finding the board full.
LEMMA OpenStep ==
    ASSUME IInv, NEW v \in Vehicle, NEW u \in VehicleState, NEW target \in Board,
           NEW reason \in {"entry", "retry", "handover"},
           RequestOpen(v, u, target, reason), slots' = slots, Collected, Free(v),
           \A w \in Vehicle : w # v => vehicles[w].id # u.id,
           u.at # None => /\ u.at = vehicles[v].at /\ u.id = vehicles[v].id
                          /\ vehicles[v].state # "exiting",
           u.old = None, reason = "handover" => u.at # None
    PROVE  IInv'
<1> USE DEF IInv
<1>1. \A d \in Board : Left(d) \subseteq Pending(d) /\ Queued(d) \subseteq Pending(d)
  BY LeftPending DEF Collected
<1>2. \A d \in Board : \A c \in Left(d) : c.kind = "open" => c.slot \in reserved[d]
  BY <1>1 DEF Asked
<1>3. CASE /\ vehicles' = [vehicles EXCEPT ![v] = [u EXCEPT !.state = "disconnected",
                                                            !.retry_at = TRUE]]
           /\ UNCHANGED <<reserved, commands>>
  <2> DEFINE t == [u EXCEPT !.state = "disconnected", !.retry_at = TRUE]
             N == [d \in Board |-> {}]
  <2>1. t \in VehicleState /\ t.id = u.id /\ t.at = u.at /\ t.old = None /\ t.state = "disconnected"
    BY DEF VehicleState
  <2>2. vehicles' = [vehicles EXCEPT ![v] = t]
    BY <1>3
  <2>3. /\ reserved' \in [Board -> SUBSET Slot] /\ commands' = [d \in Board |-> commands'[d]]
        /\ N \in [Board -> SUBSET Command]
        /\ \A d \in Board : N[d] = {} /\ commands'[d] = commands[d]
    BY <1>3 DEF Typed
  <2>4. \A d \in Board : \A s \in Slot : Uses(v, d, s)' => Uses(v, d, s) /\ t.id = vehicles[v].id
    <3>1. vehicles'[v] = t
      BY <2>2 DEF Typed
    <3> QED
      BY <2>1, <3>1, RealSession DEF Uses
  <2>5. reserved' = reserved
    BY <1>3
  <2>6. Submitted(N)
    BY <2>3 DEF Submitted
  <2>7. AsksForFree(N, t) /\ GivesUpOwn(N, t)
    BY DEF AsksForFree, GivesUpOwn
  <2> HIDE DEF t, N
  <2>8. StaysReserved
    BY <1>2, <2>3, <2>5 DEF StaysReserved
  <2>9. UsesOwn(v, t) /\ Whole(v, t)
    BY <2>1, <2>4 DEF UsesOwn, Whole
  <2> QED
    BY <2>1, <2>2, <2>6, <2>7, <2>8, <2>9, VehicleStep
<1>4. ASSUME NEW s \in FreeSlots(target),
             reserved' = [reserved EXCEPT ![target] = @ \cup {s}],
             vehicles' = [vehicles EXCEPT ![v] =
                [u EXCEPT !.old = u.at,
                          !.state = IF reason = "handover" THEN "handover" ELSE "connecting"]],
             Submit(target, Order("open", u.id, s, reason))
      PROVE  IInv'
  <2> DEFINE t == [u EXCEPT !.old = u.at,
                            !.state = IF reason = "handover" THEN "handover" ELSE "connecting"]
             x == Order("open", u.id, s, reason)
             N == [d \in Board |-> IF d = target THEN {x} ELSE {}]
  <2>1. /\ t \in VehicleState /\ t.id = u.id /\ t.at = u.at /\ t.old = u.at
        /\ t.state \in {"connecting", "handover"}
        /\ t.state = "handover" => u.at # None
    BY DEF VehicleState
  <2>2. vehicles' = [vehicles EXCEPT ![v] = t]
    BY <1>4
  <2>3. s \in Slot /\ slots[target][s] = None /\ s \notin reserved[target]
    BY DEF FreeSlots
  <2>4. /\ x \in Command /\ x.kind = "open" /\ x.vid = u.id /\ x.slot = s
    BY <2>3 DEF Order, Command, VehicleState
  <2> HIDE DEF x
  <2>5. commands' = [commands EXCEPT ![target] = Append(@, x)]
    BY <1>4 DEF Submit, x
  <2>6. /\ N \in [Board -> SUBSET Command] /\ N[target] = {x}
        /\ \A d \in Board : d # target => N[d] = {}
        /\ \A d \in Board : \A y \in N[d] : y = x /\ d = target
    BY <2>4
  <2> HIDE DEF t, N
  <2>7. commands \in [Board -> Seq(Command)] /\ reserved \in [Board -> SUBSET Slot]
    BY DEF Typed
  <2>8. /\ commands' = [d \in Board |-> commands'[d]]
        /\ commands'[target] = Append(commands[target], x)
        /\ \A d \in Board : d # target => commands'[d] = commands[d]
    BY <2>5, <2>7
  <2>9. \A d \in Board : \/ N[d] = {} /\ commands'[d] = commands[d]
                         \/ \E y \in Command : N[d] = {y} /\ commands'[d] = Append(commands[d], y)
    BY <2>4, <2>6, <2>8
  <2>10. \A d, e \in Board : N[d] # {} /\ N[e] # {} => d = e
    BY <2>6
  <2>11. /\ reserved' \in [Board -> SUBSET Slot]
         /\ \A d \in Board : reserved[d] \subseteq reserved'[d]
         /\ s \in reserved'[target]
    BY <1>4, <2>3, <2>7
  <2>12. \A d \in Board : \A y \in N[d] : y.kind = "open" =>
            /\ y.vid = t.id /\ t.state \in {"connecting", "handover"}
            /\ y.slot \in reserved'[d] /\ slots[d][y.slot] = None
            /\ \A c \in Left(d) : c.kind = "open" => c.slot # y.slot
    BY <1>2, <2>1, <2>3, <2>4, <2>6, <2>11
  <2>13. \A d \in Board : \A y \in N[d] : y.kind # "leave"
    BY <2>4, <2>6
  <2>14. \A d \in Board : \A c \in Left(d) : c.kind = "open" => c.slot \in reserved'[d]
    BY <1>2, <2>11
  <2>15. \A d \in Board : \A z \in Slot : Uses(v, d, z)' => Uses(v, d, z) /\ t.id = vehicles[v].id
    <3>1. vehicles'[v] = t
      BY <2>2 DEF Typed
    <3> QED
      BY <2>1, <3>1, RealSession DEF Uses
  <2>16. \A w \in Vehicle : w # v => vehicles[w].id # t.id
    BY <2>1
  <2>17. /\ t.old # None => t.old = t.at /\ t.state \in {"connecting", "handover"}
         /\ t.state = "handover" => t.old # None
    BY <2>1
  <2> QED
    <3>1. Submitted(N)
      BY <2>6, <2>8, <2>9, <2>10 DEF Submitted
    <3>2. AsksForFree(N, t) /\ GivesUpOwn(N, t)
      BY <2>12, <2>13 DEF AsksForFree, GivesUpOwn
    <3>3. StaysReserved
      BY <2>11, <2>14 DEF StaysReserved
    <3>4. UsesOwn(v, t) /\ Whole(v, t)
      BY <2>15, <2>16, <2>17 DEF UsesOwn, Whole
    <3> QED
      BY <2>1, <2>2, <3>1, <3>2, <3>3, <3>4, VehicleStep
<1> QED
  BY <1>3, <1>4, Zenon DEF RequestOpen

\* A vehicle that has left the road is replaced by a new one.
LEMMA RespawnStep ==
    ASSUME IInv, NEW v \in Vehicle, Respawn(v), slots' = slots, Collected, Free(v)
    PROVE  IInv'
<1>1. PICK id \in 0 .. MAX_SESSIONS :
         /\ IsNewId(v, id)
         /\ RequestOpen(v, [id |-> id, place |-> "before", at |-> None, old |-> None,
                            state |-> "connecting", retry_at |-> FALSE, retry_target |-> None],
                        NearBoard(v), "entry")
  BY Zenon DEF Respawn
<1> DEFINE u == [id |-> id, place |-> "before", at |-> None, old |-> None,
                 state |-> "connecting", retry_at |-> FALSE, retry_target |-> None]
<1>2. u \in VehicleState /\ u.id = id /\ u.at = None /\ u.old = None
  BY HandoverAssumption DEF VehicleState, Place
<1>3. NearBoard(v) \in Board
  BY DEF NearBoard, Board
<1>4. \A w \in Vehicle : w # v => vehicles[w].id # id
  BY <1>1 DEF IsNewId
<1>5. RequestOpen(v, u, NearBoard(v), "entry")
  BY <1>1
<1> HIDE DEF u
<1> QED
  BY <1>2, <1>3, <1>4, <1>5, OpenStep

\* Sending the LEAVE with which a vehicle goes off the road.
LEMMA ExitStep ==
    ASSUME IInv, NEW v \in Vehicle, NEW u \in VehicleState, RequestExit(v, u),
           slots' = slots, Collected, Free(v),
           u.id = vehicles[v].id, u.at = vehicles[v].at, u.old = None,
           vehicles[v].state # "exiting"
    PROVE  IInv'
<1> USE DEF IInv
<1>1. CASE Respawn(v)
  BY <1>1, RespawnStep
<1>2. CASE /\ u.at # None
           /\ vehicles' = [vehicles EXCEPT ![v] = [u EXCEPT !.state = "exiting"]]
           /\ Submit(u.at.board, Order("leave", u.id, u.at.slot, "exit"))
           /\ UNCHANGED <<reserved, next_vehicle_id, full>>
  <2> DEFINE t == [u EXCEPT !.state = "exiting"]
             b == u.at.board
             s == u.at.slot
             x == Order("leave", u.id, s, "exit")
             N == [d \in Board |-> IF d = b THEN {x} ELSE {}]
  <2>1. t \in VehicleState /\ t.id = u.id /\ t.at = u.at /\ t.old = None /\ t.state = "exiting"
    BY DEF VehicleState
  <2>2. vehicles' = [vehicles EXCEPT ![v] = t] /\ vehicles'[v] = t
    BY <1>2 DEF Typed
  <2>3. b \in Board /\ s \in Slot /\ u.at = SessionAt(b, s) /\ u.id \in Nat
    BY <1>2 DEF VehicleState, Session, SessionAt
  <2>4. x \in Command /\ x.kind = "leave" /\ x.reason = "exit" /\ x.vid = u.id /\ x.slot = s
    BY <2>3 DEF Order, Command
  <2> HIDE DEF x
  <2>5. commands' = [commands EXCEPT ![b] = Append(@, x)]
    BY <1>2 DEF Submit, x
  <2> HIDE DEF t, b, s
  <2>6. /\ N \in [Board -> SUBSET Command] /\ N[b] = {x}
        /\ \A d \in Board : d # b => N[d] = {}
        /\ \A d \in Board : \A y \in N[d] : y = x /\ d = b
    BY <2>3, <2>4
  <2> HIDE DEF N
  <2>7. Uses(v, b, s)
    BY <2>3 DEF Uses
  <2>8. /\ slots[b][s] = u.id
        /\ \A w \in Vehicle : w # v => ~Uses(w, b, s)
    BY <2>3, <2>7 DEF Used
  <2>9. \A w \in Vehicle : ~Uses(w, b, s)'
    <3>1. ~Uses(v, b, s)'
      BY <2>1, <2>2 DEF Uses
    <3>2. \A w \in Vehicle : w # v => (Uses(w, b, s)' <=> Uses(w, b, s))
      BY <2>2 DEF Uses, Typed
    <3> QED
      BY <2>8, <3>1, <3>2
  <2>10. \A d \in Board : Left(d) \subseteq Pending(d) /\ Queued(d) \subseteq Pending(d)
    BY LeftPending DEF Collected
  <2>11. \A c \in Left(b) : c.kind = "open" => c.slot # s
    BY <2>3, <2>7, <2>10 DEF Asked
  <2>12. \A c \in Queued(b) : c.kind = "leave" => c.slot # s
    BY <2>3, <2>7 DEF GivenUp
  <2>13. /\ commands' = [d \in Board |-> commands'[d]]
         /\ commands'[b] = Append(commands[b], x)
         /\ \A d \in Board : d # b => commands'[d] = commands[d]
    BY <2>3, <2>5 DEF Typed
  <2>14. \A d \in Board : \/ N[d] = {} /\ commands'[d] = commands[d]
                          \/ \E y \in Command : N[d] = {y} /\ commands'[d] = Append(commands[d], y)
    BY <2>4, <2>6, <2>13
  <2>15. \A d, e \in Board : N[d] # {} /\ N[e] # {} => d = e
    BY <2>6
  <2>16. reserved' \in [Board -> SUBSET Slot] /\ reserved' = reserved
    BY <1>2 DEF Typed
  <2>17. \A d \in Board : \A y \in N[d] : y.kind # "open"
    BY <2>4, <2>6
  <2>18. \A d \in Board : \A y \in N[d] : y.kind = "leave" =>
            /\ y.reason = "exit" => y.vid = t.id /\ t.state = "exiting"
            /\ slots[d][y.slot] = y.vid
            /\ \A c \in Left(d) : c.kind = "open" => c.slot # y.slot
            /\ \A c \in Queued(d) : c.kind = "leave" => c.slot # y.slot
            /\ \A w \in Vehicle : ~Uses(w, d, y.slot)'
    BY <2>1, <2>4, <2>6, <2>8, <2>9, <2>11, <2>12
  <2>19. \A d \in Board : \A c \in Left(d) : c.kind = "open" => c.slot \in reserved'[d]
    BY <2>10, <2>16 DEF Asked
  <2>20. \A d \in Board : \A z \in Slot : ~Uses(v, d, z)'
    BY <2>1, <2>2 DEF Uses
  <2>21. \A w \in Vehicle : w # v => vehicles[w].id # t.id
    BY <2>1 DEF IdsDiffer
  <2> QED
    <3>1. Submitted(N)
      BY <2>6, <2>13, <2>14, <2>15 DEF Submitted
    <3>2. AsksForFree(N, t) /\ GivesUpOwn(N, t)
      BY <2>17, <2>18 DEF AsksForFree, GivesUpOwn
    <3>3. StaysReserved
      BY <2>16, <2>19 DEF StaysReserved
    <3>4. UsesOwn(v, t) /\ Whole(v, t)
      BY <2>1, <2>20, <2>21 DEF UsesOwn, Whole
    <3> QED
      BY <2>1, <2>2, <3>1, <3>2, <3>3, <3>4, VehicleStep
<1> QED
  BY <1>1, <1>2 DEF RequestExit

\* The result that is collected is of the one order its vehicle has.
LEMMA HeadAnswer ==
    ASSUME IInv, NEW b \in Board, results[b] # <<>>,
           results' = [results EXCEPT ![b] = Tail(@)]
    PROVE  /\ Collected
           /\ Head(results[b]) \in Answers(b) /\ Head(results[b]) \in Result
           /\ Head(results[b]).command \in Pending(b) /\ Head(results[b]).command \in Command
           /\ IsOrder(Head(results[b]).command) =>
                 \A d \in Board : \A e \in Left(d) :
                    IsOrder(e) => e.vid # Head(results[b]).command.vid
<1> USE DEF IInv
<1> DEFINE r == Head(results[b])
<1>1. results \in [Board -> Seq(Result)] /\ AnswersApart(results[b])
  BY DEF Typed, OneOrder
<1>2. /\ results'[b] = Tail(results[b])
      /\ \A d \in Board : d # b => results'[d] = results[d]
  BY <1>1
<1>3. Collected
  BY <1>1, <1>2 DEF Collected
<1>4. r \in Answers(b) /\ r \in Result
  BY <1>1, TailElements DEF Answers
<1>5. r.command \in Pending(b) /\ r.command \in Command
  BY <1>4, PendingType DEF Result
<1>6. IsOrder(r.command) =>
         \A x \in Answers(b)' : IsOrder(x.command) => x.command.vid # r.command.vid
  BY <1>1, <1>2, AnswersApartTail DEF Answers
<1>7. \A d \in Board : Left(d) \subseteq Pending(d)
  BY <1>3, LeftPending DEF Collected
<1> HIDE DEF r
<1>8. ASSUME IsOrder(r.command), NEW d \in Board, NEW e \in Left(d), IsOrder(e)
      PROVE  e.vid # r.command.vid
  <2>1. CASE d # b
    BY <1>5, <1>7, <1>8, <2>1 DEF OneOrder
  <2>2. CASE d = b /\ e \in Queued(b)
    BY <1>4, <1>8, <2>2 DEF OneOrder
  <2>3. CASE d = b /\ \E x \in Answers(b)' : e = x.command
    BY <1>6, <1>8, <2>3
  <2> QED
    BY <2>1, <2>2, <2>3 DEF Left
<1> QED
  BY <1>3, <1>4, <1>5, <1>8 DEF r

\* Taking the slot the board has opened, and giving up the one kept for the switch.
LEMMA ReadyStep ==
    ASSUME IInv, NEW b \in Board, results[b] # <<>>,
           results' = [results EXCEPT ![b] = Tail(@)], slots' = slots,
           NEW c, c = Head(results[b]).command, c.kind = "open", Head(results[b]).ok,
           reserved' = [reserved EXCEPT ![b] = @ \ {c.slot}],
           NEW v \in Vehicle, vehicles[v].id = c.vid, OpenReady(v, b, c)
    PROVE  IInv'
<1> USE DEF IInv
<1> DEFINE u == vehicles[v]
           t == [u EXCEPT !.at = SessionAt(b, c.slot), !.old = None, !.state = "connected"]
<1>1. /\ Collected /\ c \in Pending(b) /\ c \in Command /\ IsOrder(c)
      /\ \A d \in Board : \A e \in Left(d) : IsOrder(e) => e.vid # c.vid
  BY HeadAnswer DEF IsOrder
<1>2. c.slot \in Slot /\ c.vid \in Nat /\ slots[b][c.slot] = c.vid
  BY <1>1, HeadAnswer DEF Opened, Command
<1>3. u \in VehicleState /\ u.state \in {"connecting", "handover"}
  BY <1>1 DEF Typed, Owned, IdsDiffer
<1>4. SessionAt(b, c.slot) \in Session /\ SessionAt(b, c.slot) # None
  BY <1>2, RealSession
<1>5. /\ t \in VehicleState /\ t.id = u.id /\ t.at = SessionAt(b, c.slot) /\ t.old = None
      /\ t.state = "connected"
  BY <1>3, <1>4 DEF VehicleState
<1>6. vehicles' = [vehicles EXCEPT ![v] = t] /\ vehicles'[v] = t
  BY DEF OpenReady, Typed
<1>7. Free(v)
  BY <1>1 DEF Free
<1>8. \A d \in Board : Left(d) \subseteq Pending(d) /\ Queued(d) \subseteq Pending(d)
  BY <1>1, LeftPending DEF Collected
<1>9. \A w \in Vehicle : ~Uses(w, b, c.slot)
  BY <1>1 DEF Asked
<1>10. \A e \in Left(b) : e.kind = "open" => e.slot # c.slot
  <2>1. \A e \in Left(b) : e.kind = "open" => e.vid # c.vid
    BY <1>1 DEF IsOrder
  <2> QED
    BY <1>1, <1>8, <2>1 DEF Asked
<1>11. \A e \in Queued(b) : e.kind = "leave" => e.slot # c.slot
  BY <1>1 DEF GivenUp
<1> HIDE DEF t
<1>12. StaysReserved
  <2>1. \A d \in Board : reserved'[d] = IF d = b THEN reserved[d] \ {c.slot} ELSE reserved[d]
    BY DEF Typed
  <2>2. \A d \in Board : \A e \in Left(d) : e.kind = "open" => e.slot \in reserved[d]
    BY <1>8 DEF Asked
  <2>3. reserved' \in [Board -> SUBSET Slot]
    BY DEF Typed
  <2> QED
    BY <1>10, <2>1, <2>2, <2>3 DEF StaysReserved
<1>13. UsesOwn(v, t)
  <2>1. ASSUME NEW d \in Board, NEW s \in Slot, Uses(v, d, s)' PROVE d = b /\ s = c.slot
    BY <1>5, <1>6, <2>1 DEF Uses, SessionAt
  <2> QED
    BY <1>2, <1>5, <1>9, <1>10, <1>11, <2>1 DEF UsesOwn
<1>14. Whole(v, t)
  BY <1>5 DEF Whole, IdsDiffer
<1>15. CASE UNCHANGED commands
  <2> DEFINE N == [d \in Board |-> {}]
  <2>1. Submitted(N)
    BY <1>15 DEF Submitted, Typed
  <2>2. AsksForFree(N, t) /\ GivesUpOwn(N, t)
    BY DEF AsksForFree, GivesUpOwn
  <2> HIDE DEF N
  <2> QED
    BY <1>1, <1>5, <1>6, <1>7, <1>12, <1>13, <1>14, <2>1, <2>2, VehicleStep
<1>16. CASE /\ u.old # None
            /\ Submit(u.old.board, Order("leave", u.id, u.old.slot, "handover_old"))
  <2>1. /\ u.id \in Nat
        /\ \E f \in Board, s \in Slot :
              u.old = SessionAt(f, s) /\ u.old.board = f /\ u.old.slot = s
    BY <1>3, <1>16 DEF VehicleState, Session, SessionAt
  <2> PICK f \in Board, s \in Slot :
            u.old = SessionAt(f, s) /\ u.old.board = f /\ u.old.slot = s
    BY <2>1
  <2>2. PICK x : x = Order("leave", u.id, s, "handover_old")
    OBVIOUS
  <2> DEFINE N == [d \in Board |-> IF d = f THEN {x} ELSE {}]
  <2>3. commands' = [commands EXCEPT ![f] = Append(@, x)]
    BY <1>16, <2>2 DEF Submit
  <2>4. Uses(v, f, s)
    <3>1. u.at = SessionAt(f, s)
      BY <1>16, <2>1 DEF Kept
    <3> QED
      BY <1>3, <3>1 DEF Uses
  <2>5. /\ x \in Command /\ x.kind = "leave" /\ x.reason = "handover_old" /\ x.vid = u.id
         /\ x.slot = s
    BY <2>1, <2>2 DEF Order, Command
  <2>6. /\ N \in [Board -> SUBSET Command] /\ N[f] = {x}
        /\ \A d \in Board : d # f => N[d] = {}
        /\ \A d \in Board : \A y \in N[d] : y = x /\ d = f
    BY <2>5
  <2> HIDE DEF N
  <2>7. /\ commands' = [d \in Board |-> commands'[d]]
        /\ commands'[f] = Append(commands[f], x)
        /\ \A d \in Board : d # f => commands'[d] = commands[d]
    BY <2>1, <2>3 DEF Typed
  <2>8. \A d \in Board : \/ N[d] = {} /\ commands'[d] = commands[d]
                         \/ \E y \in Command : N[d] = {y} /\ commands'[d] = Append(commands[d], y)
    BY <2>5, <2>6, <2>7
  <2>9. Submitted(N)
    BY <2>6, <2>7, <2>8 DEF Submitted
  <2>10. AsksForFree(N, t)
    BY <2>5, <2>6 DEF AsksForFree
  <2>11. slots[f][s] = u.id /\ \A w \in Vehicle : w # v => ~Uses(w, f, s)
    BY <2>1, <2>4 DEF Used
  <2>12. ~Uses(v, f, s)'
    <3>1. SessionAt(f, s) # SessionAt(b, c.slot)
      BY <1>9, <2>4 DEF Uses
    <3>2. vehicles'[v].at = SessionAt(b, c.slot)
      BY <1>5, <1>6
    <3> QED
      BY <3>1, <3>2 DEF Uses
  <2>13. \A w \in Vehicle : w # v => ~Uses(w, f, s)'
    <3>1. \A w \in Vehicle : w # v => vehicles'[w] = vehicles[w]
      BY <1>6 DEF Typed
    <3> QED
      BY <2>11, <3>1 DEF Uses
  <2>14. \A e \in Left(f) : e.kind = "open" => e.slot # s
    BY <1>8, <2>1, <2>4 DEF Asked
  <2>15. \A e \in Queued(f) : e.kind = "leave" => e.slot # s
    BY <2>1, <2>4 DEF GivenUp
  <2>16. \A w \in Vehicle : ~Uses(w, f, s)'
    BY <2>12, <2>13
  <2>17. GivesUpOwn(N, t)
    <3>1. x.reason # "exit" /\ slots[f][x.slot] = x.vid
      BY <2>5, <2>11
    <3> QED
      BY <2>5, <2>6, <2>14, <2>15, <2>16, <3>1 DEF GivesUpOwn
  <2> QED
    BY <1>1, <1>5, <1>6, <1>7, <1>12, <1>13, <1>14, <2>9, <2>10, <2>17, VehicleStep
<1> QED
  BY <1>15, <1>16 DEF OpenReady, Releases

\* Going back to the session the vehicle had, or to none.
LEMMA FailureStep ==
    ASSUME IInv, NEW b \in Board, results[b] # <<>>,
           results' = [results EXCEPT ![b] = Tail(@)], slots' = slots, commands' = commands,
           NEW c, c = Head(results[b]).command, c.kind = "open",
           reserved' = [reserved EXCEPT ![b] = @ \ {c.slot}],
           NEW v \in Vehicle, vehicles[v].id = c.vid,
           vehicles' = [vehicles EXCEPT ![v] = AfterFailure(@, b)]
    PROVE  IInv'
<1> USE DEF IInv
<1> DEFINE u == vehicles[v]
           t == AfterFailure(u, b)
           N == [d \in Board |-> {}]
<1>1. /\ Collected /\ c \in Pending(b) /\ c \in Command /\ IsOrder(c)
      /\ \A d \in Board : \A e \in Left(d) : IsOrder(e) => e.vid # c.vid
  BY HeadAnswer DEF IsOrder
<1>2. u \in VehicleState /\ u.state \in {"connecting", "handover"}
  BY <1>1 DEF Typed, Owned, IdsDiffer
<1>3. /\ t \in VehicleState /\ t.id = u.id /\ t.at = u.at /\ t.old = None
      /\ t.state \in {"connected", "disconnected"}
  BY <1>2 DEF AfterFailure, VehicleState, Place, Kept
<1>4. vehicles' = [vehicles EXCEPT ![v] = t] /\ vehicles'[v] = t
  BY DEF Typed
<1>5. Free(v)
  BY <1>1 DEF Free
<1>6. \A d \in Board : Left(d) \subseteq Pending(d)
  BY <1>1, LeftPending DEF Collected
<1>7. \A e \in Left(b) : e.kind = "open" => e.slot # c.slot
  <2>1. \A e \in Left(b) : e.kind = "open" => e.vid # c.vid
    BY <1>1 DEF IsOrder
  <2> QED
    BY <1>1, <1>6, <2>1 DEF Asked
<1> HIDE DEF t
<1>8. StaysReserved
  <2>1. \A d \in Board : reserved'[d] = IF d = b THEN reserved[d] \ {c.slot} ELSE reserved[d]
    BY DEF Typed
  <2>2. \A d \in Board : \A e \in Left(d) : e.kind = "open" => e.slot \in reserved[d]
    BY <1>6 DEF Asked
  <2>3. reserved' \in [Board -> SUBSET Slot]
    BY DEF Typed
  <2> QED
    BY <1>7, <2>1, <2>2, <2>3 DEF StaysReserved
<1>9. UsesOwn(v, t)
  BY <1>2, <1>3, <1>4 DEF UsesOwn, Uses
<1>10. Whole(v, t)
  BY <1>3 DEF Whole, IdsDiffer
<1>11. Submitted(N)
  BY DEF Submitted, Typed
<1>12. AsksForFree(N, t) /\ GivesUpOwn(N, t)
  BY DEF AsksForFree, GivesUpOwn
<1> HIDE DEF N
<1> QED
  BY <1>1, <1>3, <1>4, <1>5, <1>8, <1>9, <1>10, <1>11, <1>12, VehicleStep

\* A result for a vehicle that leaves the road.
LEMMA ExitAnsweredStep ==
    ASSUME IInv, NEW b \in Board, results[b] # <<>>,
           results' = [results EXCEPT ![b] = Tail(@)], slots' = slots,
           NEW c, c = Head(results[b]).command, c.kind = "leave", c.reason = "exit",
           ExitAnswered(c)
    PROVE  IInv'
<1>1. /\ Collected /\ \A d \in Board : \A e \in Left(d) : IsOrder(e) => e.vid # c.vid
  BY HeadAnswer DEF IsOrder
<1>2. PICK v \in Vehicle : vehicles[v].id = c.vid /\ Respawn(v)
  BY Zenon DEF ExitAnswered
<1>3. Free(v)
  BY <1>1, <1>2 DEF Free
<1> QED
  BY <1>1, <1>2, <1>3, RespawnStep

\* A result nobody waits for.
LEMMA OtherAnswerStep ==
    ASSUME IInv, NEW b \in Board, results[b] # <<>>,
           results' = [results EXCEPT ![b] = Tail(@)],
           UNCHANGED <<vehicles, reserved, commands, slots>>
    PROVE  IInv'
<1>1. Typed
  BY DEF IInv
<1>2. Collected
  BY HeadAnswer
<1>3. /\ vehicles' \in [Vehicle -> VehicleState]
      /\ commands' = [d \in Board |-> commands'[d]]
      /\ \A d \in Board : commands'[d] = commands[d]
  BY <1>1 DEF Typed
<1> QED
  BY <1>2, <1>3, IdleStep DEF Collected

\* Whatever is collected keeps the invariant.
LEMMA CollectStep == ASSUME IInv, NEW b \in Board, Collect(b) PROVE IInv'
<1> DEFINE c == Head(results[b]).command
           ok == Head(results[b]).ok
<1>1. /\ results[b] # <<>> /\ results' = [results EXCEPT ![b] = Tail(@)]
      /\ slots' = slots
  BY DEF Collect, workers
<1>2. CASE c.kind = "open" /\ OpenAnswered(b, c, ok)
  <2>1. reserved' = [reserved EXCEPT ![b] = @ \ {c.slot}]
    BY <1>2 DEF OpenAnswered
  <2>2. PICK v \in Vehicle :
           /\ vehicles[v].id = c.vid
           /\ \/ ok /\ OpenReady(v, b, c)
              \/ vehicles' = [vehicles EXCEPT ![v] = AfterFailure(@, b)] /\ UNCHANGED commands
    BY <1>2, Zenon DEF OpenAnswered
  <2>3. CASE ok /\ OpenReady(v, b, c)
    BY <1>1, <1>2, <2>1, <2>2, <2>3, ReadyStep
  <2>4. CASE vehicles' = [vehicles EXCEPT ![v] = AfterFailure(@, b)] /\ UNCHANGED commands
    BY <1>1, <1>2, <2>1, <2>2, <2>4, FailureStep
  <2> QED
    BY <2>2, <2>3, <2>4
<1>3. CASE c.kind = "leave" /\ c.reason = "exit" /\ ExitAnswered(c)
  BY <1>1, <1>3, ExitAnsweredStep
<1>4. CASE UNCHANGED <<vehicles, reserved, next_vehicle_id, commands, full>>
  BY <1>1, <1>4, OtherAnswerStep
<1> QED
  BY <1>2, <1>3, <1>4 DEF Collect

-----------------------------------------------------------------------------
(* Steps of the road and of the user.                                       *)

\* Submitting a packet, a timing or a stop, or nothing, while a vehicle drives on.
LEMMA AsideStep ==
    ASSUME IInv, NEW b \in Board, NEW x \in Command, x.kind \in Aside,
           Submit(b, x) \/ UNCHANGED commands,
           UNCHANGED <<reserved, slots, results>>,
           \/ UNCHANGED vehicles
           \/ \E v \in Vehicle : \E place \in Place :
                 vehicles' = [vehicles EXCEPT ![v] = [vehicles[v] EXCEPT !.place = place]]
    PROVE  IInv'
<1>1. Typed
  BY DEF IInv
<1>2. /\ vehicles' \in [Vehicle -> VehicleState]
      /\ \A v \in Vehicle : \A f \in {"id", "at", "old", "state"} :
            vehicles'[v][f] = vehicles[v][f]
  <2>1. CASE UNCHANGED vehicles
    BY <1>1, <2>1 DEF Typed
  <2>2. ASSUME NEW v \in Vehicle, NEW place \in Place,
               vehicles' = [vehicles EXCEPT ![v] = [vehicles[v] EXCEPT !.place = place]]
        PROVE  /\ vehicles' \in [Vehicle -> VehicleState]
               /\ \A w \in Vehicle : \A f \in {"id", "at", "old", "state"} :
                     vehicles'[w][f] = vehicles[w][f]
    <3>1. vehicles[v] \in VehicleState
      BY <1>1 DEF Typed
    <3>2. /\ [vehicles[v] EXCEPT !.place = place] \in VehicleState
          /\ \A f \in {"id", "at", "old", "state"} :
                [vehicles[v] EXCEPT !.place = place][f] = vehicles[v][f]
      BY <3>1 DEF VehicleState
    <3> QED
      BY <1>1, <2>2, <3>2 DEF Typed
  <2> QED
    BY <2>1, <2>2
<1>3. /\ commands' = [d \in Board |-> commands'[d]]
      /\ \A d \in Board : \/ commands'[d] = commands[d]
                          \/ \E y \in Command : y.kind \in Aside
                                /\ commands'[d] = Append(commands[d], y)
  BY <1>1 DEF Typed, Submit
<1>4. results' = [d \in Board |-> results'[d]]
  BY <1>1 DEF Typed
<1> QED
  BY <1>2, <1>3, <1>4, IdleStep

\* A vehicle that does not wait has no order.
LEMMA MovingIsFree ==
    ASSUME IInv, NEW v \in Vehicle, vehicles[v].state \notin Waiting, UNCHANGED results
    PROVE  /\ Collected /\ Free(v) /\ vehicles[v].old = None
           /\ vehicles[v].state # "exiting"
<1> USE DEF IInv
<1>1. Collected
  BY DEF Collected, Typed
<1>2. \A d \in Board : Left(d) \subseteq Pending(d)
  BY <1>1, LeftPending DEF Collected
<1>3. \A d \in Board : \A c \in Pending(d) : IsOrder(c) => c.vid # vehicles[v].id
  BY DEF Owned, IdsDiffer, Waiting
<1>4. vehicles[v].old = None /\ vehicles[v].state # "exiting"
  BY DEF Kept, Waiting
<1> QED
  BY <1>1, <1>2, <1>3, <1>4 DEF Free

\* So does a vehicle's turn.
LEMMA StepVehicleStep == ASSUME IInv, NEW v \in Vehicle, StepVehicle(v) PROVE IInv'
<1> USE DEF IInv
<1> DEFINE u == vehicles[v]
<1>1. /\ u.state \notin Waiting /\ UNCHANGED <<results, slots>>
      /\ RetryDue(v, u) \/ Drive(v, u)
  BY DEF StepVehicle, workers
<1>2. Collected /\ Free(v) /\ u.old = None /\ u.state # "exiting"
  BY <1>1, MovingIsFree
<1>3. u \in VehicleState
  BY DEF Typed
<1>4. \A w \in Vehicle : w # v => vehicles[w].id # u.id
  BY DEF IdsDiffer
<1>5. NearBoard(v) \in Board /\ FarBoard(v) \in Board
  BY DEF NearBoard, FarBoard, Board
<1>6. CASE RetryDue(v, u)
  <2> DEFINE t == [u EXCEPT !.retry_at = FALSE, !.retry_target = None]
  <2>1. t \in VehicleState /\ t.id = u.id /\ t.at = u.at /\ t.old = None
    BY <1>2, <1>3 DEF VehicleState
  <2>2. PICK target \in Board : RequestOpen(v, t, target, "retry")
    <3>1. u.retry_target # None => u.retry_target \in Board
      BY <1>3 DEF VehicleState
    <3>2. BoardForPosition(v, u.place) \in Board
      BY <1>3, <1>5 DEF VehicleState, Place, BoardForPosition, Board
    <3> QED
      BY <1>6, <3>1, <3>2 DEF RetryDue
  <2> HIDE DEF t
  <2> QED
    BY <1>1, <1>2, <1>4, <2>1, <2>2, OpenStep
<1>7. CASE Drive(v, u)
  <2>1. PICK to \in Moves(u.place) : TRUE
             /\ LET crossed == Crossed(u.place, to) /\ u.at # None
                    moved == [u EXCEPT !.place = IF crossed THEN "at"
                                                 ELSE IF to = "end" THEN "after" ELSE to]
                    changes == crossed /\ u.at.board # FarBoard(v)
                IN \/ changes /\ RequestOpen(v, moved, FarBoard(v), "handover")
                   \/ to = "end" /\ RequestExit(v, moved)
                   \/ /\ vehicles' = [vehicles EXCEPT ![v] = moved]
                      /\ SubmitData(v, moved) \/ UNCHANGED commands
                      /\ UNCHANGED reserved
    BY <1>7 DEF Drive
  <2>2. PICK place : place = IF Crossed(u.place, to) /\ u.at # None THEN "at"
                             ELSE IF to = "end" THEN "after" ELSE to
    OBVIOUS
  <2>3. place \in Place
    BY <1>3, <2>2 DEF Moves, VehicleState, Place
  <2> DEFINE t == [u EXCEPT !.place = place]
  <2>4. t \in VehicleState /\ t.id = u.id /\ t.at = u.at /\ t.old = None
    BY <1>2, <1>3, <2>3 DEF VehicleState
  <2>5. \/ u.at # None /\ RequestOpen(v, t, FarBoard(v), "handover")
        \/ RequestExit(v, t)
        \/ /\ vehicles' = [vehicles EXCEPT ![v] = t]
           /\ SubmitData(v, t) \/ UNCHANGED commands
           /\ UNCHANGED reserved
    BY <2>1, <2>2
  <2>6. CASE /\ vehicles' = [vehicles EXCEPT ![v] = t]
             /\ SubmitData(v, t) \/ UNCHANGED commands
             /\ UNCHANGED reserved
    <3>1. \E b \in Board, x \in Command :
             x.kind \in Aside /\ (Submit(b, x) \/ UNCHANGED commands)
      <4>1. CASE SubmitData(v, t)
        <5>1. /\ t.at.board \in Board /\ t.at.slot \in Slot /\ t.id \in Nat
              /\ Submit(t.at.board, Order("data", t.id, t.at.slot, "telemetry"))
          BY <2>4, <4>1 DEF SubmitData, VehicleState, Session
        <5>2. Order("data", t.id, t.at.slot, "telemetry") \in Command
          BY <5>1 DEF Order, Command
        <5> QED
          BY <5>1, <5>2, OrderFields DEF Aside
      <4>2. CASE UNCHANGED commands
        <5>1. [kind |-> "swkem"] \in Command /\ [kind |-> "swkem"].kind \in Aside
          BY DEF Command, Aside
        <5>2. "A" \in Board
          BY DEF Board
        <5> QED
          BY <4>2, <5>1, <5>2
      <4> QED
        BY <2>6, <4>1, <4>2
    <3> QED
      BY <1>1, <2>3, <2>6, <3>1, AsideStep
  <2> HIDE DEF t
  <2>7. CASE u.at # None /\ RequestOpen(v, t, FarBoard(v), "handover")
    BY <1>1, <1>2, <1>4, <1>5, <2>4, <2>7, OpenStep
  <2>8. CASE RequestExit(v, t)
    BY <1>1, <1>2, <2>4, <2>8, ExitStep
  <2> QED
    BY <2>5, <2>6, <2>7, <2>8
<1> QED
  BY <1>1, <1>6, <1>7

-----------------------------------------------------------------------------
(* The theorems.                                                            *)

\* Every step keeps the invariant.
LEMMA InvariantStep == IInv /\ [Next]_vars => IInv'
<1> SUFFICES ASSUME IInv, [Next]_vars PROVE IInv'
  OBVIOUS
<1>1. [kind |-> "swkem"] \in Command /\ [kind |-> "stop"] \in Command
  BY DEF Command
<1>2. [kind |-> "swkem"].kind \in Aside /\ [kind |-> "stop"].kind \in Aside
  BY DEF Aside
<1>3. "A" \in Board /\ "B" \in Board
  BY DEF Board
<1>4. ASSUME NEW v \in Vehicle, StepVehicle(v) PROVE IInv'
  BY <1>4, StepVehicleStep
<1>5. ASSUME NEW v \in Vehicle, Attack(v) PROVE IInv'
  <2>1. UNCHANGED <<vehicles, reserved, slots, results>>
    BY <1>5 DEF Attack, controller, workers
  <2>2. vehicles[v] \in VehicleState /\ SubmitData(v, vehicles[v])
    BY <1>5 DEF IInv, Typed, Attack
  <2> DEFINE u == vehicles[v]
  <2>3. /\ u.at.board \in Board /\ u.at.slot \in Slot /\ u.id \in Nat
        /\ Submit(u.at.board, Order("data", u.id, u.at.slot, "telemetry"))
    BY <2>2 DEF SubmitData, VehicleState, Session
  <2>4. Order("data", u.id, u.at.slot, "telemetry") \in Command
    BY <2>3 DEF Order, Command
  <2>5. Order("data", u.id, u.at.slot, "telemetry").kind \in Aside
    BY OrderFields DEF Aside
  <2> QED
    BY <2>1, <2>3, <2>4, <2>5, AsideStep
<1>6. ASSUME NEW b \in Board, ScheduleSwkem(b) PROVE IInv'
  <2>1. UNCHANGED <<vehicles, reserved, slots, results>> /\ Submit(b, [kind |-> "swkem"])
    BY <1>6 DEF ScheduleSwkem, controller, workers
  <2> QED
    BY <1>1, <1>2, <2>1, AsideStep
<1>7. ASSUME NEW b \in Board, Collect(b) PROVE IInv'
  BY <1>7, CollectStep
<1>8. ASSUME NEW b \in Board, Work(b) PROVE IInv'
  BY <1>8, WorkStep
<1>9. CASE ToggleRunning
  <2>1. UNCHANGED <<vehicles, reserved, slots, results, commands>>
    BY <1>9 DEF ToggleRunning, workers
  <2> QED
    BY <1>1, <1>2, <1>3, <2>1, AsideStep
<1>10. CASE Quit
  <2>1. UNCHANGED <<vehicles, reserved, slots, results>> /\ Submit("A", [kind |-> "stop"])
    BY <1>10 DEF Quit, workers, StopOf
  <2> QED
    BY <1>1, <1>2, <1>3, <2>1, AsideStep
<1>11. CASE Shutdown
  <2>1. /\ UNCHANGED <<vehicles, reserved, slots, results>>
        /\ Submit("B", [kind |-> "stop"]) \/ UNCHANGED commands
    BY <1>11 DEF Shutdown, Joined, StopOf
  <2> QED
    BY <1>1, <1>2, <1>3, <2>1, AsideStep
<1>12. CASE UNCHANGED vars
  <2>1. UNCHANGED <<vehicles, reserved, slots, results, commands>>
    BY <1>12 DEF vars, controller, workers
  <2> QED
    BY <1>1, <1>2, <1>3, <2>1, AsideStep
<1> QED
  BY <1>4, <1>5, <1>6, <1>7, <1>8, <1>9, <1>10, <1>11, <1>12 DEF Next

\* The inductive invariant.
THEOREM Invariant == Spec => []IInv
<1>1. Init => IInv
  BY InvariantInit
<1>2. IInv /\ [Next]_vars => IInv'
  BY InvariantStep
<1> QED
  BY <1>1, <1>2, PTL DEF Spec

\* No two vehicles ever have the same id, although _respawn gives ids out again
\* modulo the number of slots.
THEOREM IdsNeverClash == Spec => []IdsDiffer
<1>1. IInv => IdsDiffer
  BY DEF IInv
<1> QED
  BY <1>1, Invariant, PTL

\* The slot a vehicle asks for, uses or keeps is its own.  _free_slots reads the
\* worker's table and the controller's reservations; however the threads
\* interleave, a slot is in one of the two until its LEAVE has been carried out.
THEOREM SlotsNeverShared == Spec => []SlotsExclusive
<1>1. IInv => SlotsExclusive
  <2> SUFFICES ASSUME IInv, NEW v \in Vehicle, NEW w \in Vehicle, v # w,
                      NEW x \in Claims(v), x \in Claims(w)
               PROVE  FALSE
    BY DEF SlotsExclusive
  <2> USE DEF IInv
  <2>1. \A y \in Vehicle : x \in Claims(y) =>
           \E b \in Board, s \in Slot : x = SessionAt(b, s) /\
              (Uses(y, b, s) \/ \E c \in Pending(b) :
                                   c.kind = "open" /\ c.slot = s /\ c.vid = vehicles[y].id)
    <3> SUFFICES ASSUME NEW y \in Vehicle, x \in Claims(y)
                 PROVE  \E b \in Board, s \in Slot : x = SessionAt(b, s) /\
              (Uses(y, b, s) \/ \E c \in Pending(b) :
                                   c.kind = "open" /\ c.slot = s /\ c.vid = vehicles[y].id)
      OBVIOUS
    <3>1. CASE vehicles[y].state # "exiting" /\ x = vehicles[y].at /\ x # None
      <4>1. x \in Session
        BY <3>1 DEF Typed, VehicleState
      <4>2. PICK b \in Board, s \in Slot : x = SessionAt(b, s)
        BY <4>1 DEF Session, SessionAt
      <4> QED
        BY <3>1, <4>2 DEF Uses
    <3>2. ASSUME NEW b \in Board, NEW c \in OpensOf(y, b), x = SessionAt(b, c.slot)
          PROVE  \E s \in Slot : x = SessionAt(b, s) /\
                    \E e \in Pending(b) : e.kind = "open" /\ e.slot = s /\ e.vid = vehicles[y].id
      <4>1. c \in Pending(b) /\ c.kind = "open" /\ c.vid = vehicles[y].id /\ c.slot \in Slot
        BY PendingType DEF OpensOf, Command
      <4> QED
        BY <3>2, <4>1
    <3>3. vehicles[y].old # None => vehicles[y].old = vehicles[y].at
      BY DEF Kept
    <3> QED
      BY <3>1, <3>2, <3>3 DEF Claims
  <2>2. PICK b \in Board, s \in Slot : x = SessionAt(b, s) /\
           (Uses(v, b, s) \/ \E c \in Pending(b) :
                                c.kind = "open" /\ c.slot = s /\ c.vid = vehicles[v].id)
    BY <2>1
  <2>3. Uses(w, b, s) \/ \E c \in Pending(b) :
                            c.kind = "open" /\ c.slot = s /\ c.vid = vehicles[w].id
    <3>1. PICK d \in Board, z \in Slot : x = SessionAt(d, z) /\
             (Uses(w, d, z) \/ \E c \in Pending(d) :
                                  c.kind = "open" /\ c.slot = z /\ c.vid = vehicles[w].id)
      BY <2>1
    <3>2. d = b /\ z = s
      BY <2>2, <3>1 DEF SessionAt
    <3> QED
      BY <3>1, <3>2
  <2>4. vehicles[v].id # vehicles[w].id
    BY DEF IdsDiffer
  <2>5. ~(Uses(v, b, s) /\ Uses(w, b, s))
    BY DEF Used
  <2> QED
    BY <2>2, <2>3, <2>4, <2>5 DEF Asked
<1> QED
  BY <1>1, Invariant, PTL

\* Make-before-break: while a vehicle uses a session, and while it keeps the old
\* one during a switch, the session is open on its board under its own id.
THEOREM SessionsStayBacked == Spec => []SessionsBacked
<1>1. IInv => SessionsBacked
  <2> SUFFICES ASSUME IInv, NEW v \in Vehicle
               PROVE  LET u == vehicles[v]
                          backed(x) == x # None => slots[x.board][x.slot] = u.id
                      IN /\ u.state # "exiting" => backed(u.at)
                         /\ u.state = "handover" => u.at # None /\ u.old = u.at
                         /\ u.state # "exiting" => backed(u.old)
    BY DEF SessionsBacked
  <2> USE DEF IInv
  <2>1. ASSUME vehicles[v].state # "exiting", vehicles[v].at # None
        PROVE  slots[vehicles[v].at.board][vehicles[v].at.slot] = vehicles[v].id
    <3>1. vehicles[v].at \in Session
      BY <2>1 DEF Typed, VehicleState
    <3>2. PICK b \in Board, s \in Slot : vehicles[v].at = [board |-> b, slot |-> s]
      BY <3>1 DEF Session
    <3>3. Uses(v, b, s)
      BY <2>1, <3>2 DEF Uses, SessionAt
    <3> QED
      BY <3>2, <3>3 DEF Used
  <2>2. /\ vehicles[v].old # None => vehicles[v].old = vehicles[v].at
        /\ vehicles[v].state = "handover" => vehicles[v].old # None
    BY DEF Kept
  <2> QED
    BY <2>1, <2>2
<1> QED
  BY <1>1, Invariant, PTL

\* What IInv does not say of the types.
Rest == /\ {is_mock, running} \subseteq BOOLEAN
        /\ next_vehicle_id \in 0 .. MAX_SESSIONS
        /\ ui \in {"loop", "stopping A", "stopping B", "closed"}
        /\ sw_supported \in [Board -> {"unknown", "yes", "no"}]
        /\ alive \in [Board -> BOOLEAN]
        /\ port \in [Board -> {"open", "closed"}]
        /\ faults \in 0 .. MAX_FAULTS
        /\ full \in BOOLEAN

\* The next id wraps round at the number of slots.
LEMMA NextId == ASSUME NEW id \in 0 .. MAX_SESSIONS PROVE IdAfter(id) \in 0 .. MAX_SESSIONS
<1>1. MAX_SESSIONS \in Nat /\ MAX_SESSIONS > 0
  BY HandoverAssumption
<1>2. id + 1 \in Nat
  BY <1>1
<1> QED
  BY <1>1, <1>2 DEF IdAfter

\* What a request may change of the rest.
LEMMA OpenRest ==
    ASSUME Rest, NEW v, NEW u, NEW target, NEW reason, RequestOpen(v, u, target, reason)
    PROVE  full' \in BOOLEAN
BY DEF Rest, RequestOpen

LEMMA RespawnRest ==
    ASSUME Rest, NEW v, Respawn(v)
    PROVE  full' \in BOOLEAN /\ next_vehicle_id' \in 0 .. MAX_SESSIONS
<1>1. PICK id \in 0 .. MAX_SESSIONS :
         /\ RequestOpen(v, [id |-> id, place |-> "before", at |-> None, old |-> None,
                            state |-> "connecting", retry_at |-> FALSE, retry_target |-> None],
                        NearBoard(v), "entry")
         /\ next_vehicle_id' = IdAfter(id)
  BY Zenon DEF Respawn
<1> QED
  BY <1>1, NextId, OpenRest

\* The rest has its types at the start, and keeps them.
LEMMA RestInit == Init => Rest
<1> SUFFICES ASSUME Init PROVE Rest
  OBVIOUS
<1>1. is_mock \in BOOLEAN /\ running \in BOOLEAN
  <2>1. is_mock \in Mocks /\ Mocks \subseteq BOOLEAN
    BY Zenon, HandoverAssumption DEF Init
  <2>2. running = TRUE
    BY Zenon DEF Init
  <2> QED
    BY <2>1, <2>2, Zenon
<1>2. {is_mock, running} \subseteq BOOLEAN
  BY <1>1, Zenon
<1>3. next_vehicle_id \in 0 .. MAX_SESSIONS /\ faults \in 0 .. MAX_FAULTS
  <2>1. next_vehicle_id = vehicle_count /\ faults = 0
    BY Zenon DEF Init
  <2>2. /\ vehicle_count \in 1 .. MAX_SESSIONS /\ MAX_SESSIONS \in Nat
        /\ MAX_FAULTS \in Nat
    BY HandoverAssumption, Zenon
  <2> QED
    BY <2>1, <2>2
<1>4. ui = "loop" /\ full = FALSE
  BY Zenon DEF Init
<1>5. /\ sw_supported = [b \in Board |-> "unknown"]
      /\ alive = [b \in Board |-> TRUE]
      /\ port = [b \in Board |-> "open"]
  BY Zenon DEF Init
<1>6. /\ sw_supported \in [Board -> {"unknown", "yes", "no"}]
      /\ alive \in [Board -> BOOLEAN]
      /\ port \in [Board -> {"open", "closed"}]
  BY <1>5
<1> QED
  BY <1>2, <1>3, <1>4, <1>6 DEF Rest

LEMMA RestStep == IInv /\ Rest /\ [Next]_vars => Rest'
<1> SUFFICES ASSUME IInv, Rest, [Next]_vars PROVE Rest'
  OBVIOUS
<1>1. ASSUME NEW v \in Vehicle, StepVehicle(v) PROVE Rest'
  <2>1. UNCHANGED <<is_mock, running, ui, sw_supported, alive, port, faults>>
    BY <1>1 DEF StepVehicle, workers
  <2>2. full' \in BOOLEAN /\ next_vehicle_id' \in 0 .. MAX_SESSIONS
    <3>1. CASE RetryDue(v, vehicles[v])
      BY <3>1, OpenRest DEF RetryDue, Rest
    <3>2. CASE Drive(v, vehicles[v])
      <4>1. \/ \E u : RequestOpen(v, u, FarBoard(v), "handover") /\ UNCHANGED next_vehicle_id
            \/ \E u : Respawn(v) \/ UNCHANGED <<next_vehicle_id, full>>
        BY <3>2 DEF Drive, RequestExit
      <4> QED
        BY <4>1, OpenRest, RespawnRest DEF Rest
    <3> QED
      BY <1>1, <3>1, <3>2 DEF StepVehicle
  <2> QED
    BY <2>1, <2>2 DEF Rest
<1>2. ASSUME NEW b \in Board, Collect(b) PROVE Rest'
  <2>1. UNCHANGED <<is_mock, running, ui, sw_supported, alive, port, faults>>
    BY <1>2 DEF Collect, workers
  <2>2. \/ UNCHANGED <<next_vehicle_id, full>>
        \/ \E v \in Vehicle : Respawn(v)
    BY <1>2 DEF Collect, OpenAnswered, ExitAnswered
  <2>3. full' \in BOOLEAN /\ next_vehicle_id' \in 0 .. MAX_SESSIONS
    BY <2>2, RespawnRest DEF Rest
  <2> QED
    BY <2>1, <2>3 DEF Rest
<1>3. ASSUME NEW b \in Board, Work(b) PROVE Rest'
  <2>1. UNCHANGED <<is_mock, running, next_vehicle_id, ui, full, port>>
    BY <1>3 DEF Work, controller
  <2>2. alive' \in [Board -> BOOLEAN]
    BY <1>3 DEF Work, Rest, Survives
  <2>3. sw_supported' \in [Board -> {"unknown", "yes", "no"}]
    BY <1>3 DEF Work, Rest
  <2>4. faults' \in 0 .. MAX_FAULTS
    <3>1. faults \in Nat /\ faults <= MAX_FAULTS /\ MAX_FAULTS \in Nat
      <4>1. faults \in 0 .. MAX_FAULTS
        BY Zenon DEF Rest
      <4>2. MAX_FAULTS \in Nat
        BY HandoverAssumption, Zenon
      <4> QED
        BY <4>1, <4>2
    <3>2. faults' = faults \/ (faults' = faults + 1 /\ faults < MAX_FAULTS)
      BY <1>3 DEF Work, CanFail
    <3> QED
      BY <3>1, <3>2
  <2> QED
    BY <2>1, <2>2, <2>3, <2>4 DEF Rest
<1>4. ASSUME NEW v \in Vehicle, Attack(v) PROVE Rest'
  BY <1>4 DEF Attack, Rest, controller, workers
<1>5. ASSUME NEW b \in Board, ScheduleSwkem(b) PROVE Rest'
  BY <1>5 DEF ScheduleSwkem, Rest, controller, workers
<1>6. CASE ToggleRunning
  BY <1>6 DEF ToggleRunning, Rest, workers
<1>7. CASE Quit
  BY <1>7 DEF Quit, Rest, workers
<1>8. CASE Shutdown
  BY <1>8 DEF Shutdown, Joined, Rest
<1>9. CASE UNCHANGED vars
  BY <1>9 DEF vars, controller, workers, Rest
<1> QED
  BY <1>1, <1>2, <1>3, <1>4, <1>5, <1>6, <1>7, <1>8, <1>9 DEF Next

\* Every variable of the controller and of the workers has its type, and every
\* queued command is one the worker knows.
THEOREM TypeCorrect == Spec => []TypeOK
<1>1. Init => IInv /\ Rest
  BY InvariantInit, RestInit
<1>2. IInv /\ Rest /\ [Next]_vars => (IInv /\ Rest)'
  BY InvariantStep, RestStep
<1>3. IInv /\ Rest => TypeOK
  BY DEF IInv, Typed, Rest, TypeOK, Result
<1> QED
  BY <1>1, <1>2, <1>3, PTL DEF Spec

-----------------------------------------------------------------------------
(* Commands that find their session, sessions nobody forgets, and the side   *)
(* a vehicle is served from.                                                 *)

\* A packet on its way to a board is for a session that is open, and no LEAVE of it
\* is ahead of the packet.
Packets ==
    /\ \A b \in Board : \A c \in Queued(b) : c.kind = "data" => slots[b][c.slot] = c.vid
    /\ \A b \in Board : \A i, j \in DOMAIN commands[b] :
          i < j /\ commands[b][i].kind = "leave" /\ commands[b][j].kind = "data"
          => commands[b][i].slot # commands[b][j].slot

\* No call has failed and no board was full.
Undisturbed == faults = 0 /\ ~full

\* An open slot is used by a vehicle, or asked for by one, or given up in a LEAVE that is
\* on its way or has failed.
InHand(b, s) ==
    \/ \E v \in Vehicle : Uses(v, b, s)
    \/ \E c \in Pending(b) : c.kind = "open" /\ c.slot = s
    \/ \E c \in Queued(b) : c.kind = "leave" /\ c.slot = s
    \/ \E r \in Answers(b) : r.command.kind = "leave" /\ ~r.ok /\ r.command.slot = s

\* While no call has failed and no board was full, no retry is due, an OPEN is asked for
\* either to enter the road or to cross the boundary, and every open slot is in hand.
Tidy ==
    /\ ui = "loop" => \A b \in Board : port[b] = "open"
    /\ Undisturbed =>
          /\ ui = "loop" => \A b \in Board : \A r \in Answers(b) :
                               r.command.kind \in {"open", "leave"} => r.ok
          /\ \A v \in Vehicle : /\ ~vehicles[v].retry_at
                                /\ vehicles[v].at = None => vehicles[v].state = "connecting"
          /\ \A b \in Board : \A c \in Pending(b) : c.kind = "open" =>
                \A v \in Vehicle : vehicles[v].id = c.vid =>
                   \/ c.reason = "entry" /\ vehicles[v].at = None
                   \/ c.reason = "handover" /\ vehicles[v].state = "handover"
          /\ \A b \in Board : \A s \in Slot : slots[b][s] # None => InHand(b, s)

\* Where a vehicle's session is, and where it has asked for one.
Beside ==
    \A v \in Vehicle :
       /\ vehicles[v].at # None =>
             /\ vehicles[v].place = "before" => vehicles[v].at.board = NearBoard(v)
             /\ vehicles[v].place = "after" => vehicles[v].at.board = FarBoard(v)
             /\ vehicles[v].place = "at" /\ vehicles[v].state # "handover"
                => vehicles[v].at.board = FarBoard(v)
       /\ \A b \in Board : \A c \in Pending(b) :
             c.kind = "open" /\ vehicles[v].id = c.vid =>
                /\ c.reason = "entry" =>
                      vehicles[v].place # "at" /\ b = BoardForPosition(v, vehicles[v].place)
                /\ c.reason = "handover" => vehicles[v].place = "at" /\ b = FarBoard(v)

\* All of this holds until a call fails or a board is full.
Sides == Undisturbed => Beside

\* What a step of the controller does to one vehicle.
Puts(v, r) == vehicles' = [vehicles EXCEPT ![v] = r]

\* A vehicle as a request for a slot leaves it, and the OPEN it sends.
Requested(v, u, target, reason) ==
    \/ /\ full' = TRUE /\ UNCHANGED commands
       /\ \E r \in VehicleState : Puts(v, r) /\ r.at = u.at
    \/ /\ full' = full
       /\ \E s \in Slot : Submit(target, Order("open", u.id, s, reason))
       /\ \E r \in VehicleState :
             /\ Puts(v, r) /\ r.id = u.id /\ r.at = u.at /\ r.old = u.at
             /\ r.place = u.place /\ r.retry_at = u.retry_at
             /\ r.state = IF reason = "handover" THEN "handover" ELSE "connecting"

\* A vehicle that has left the road comes back as a new one and asks its near board.
Replaced(v) ==
    \E u \in VehicleState :
       /\ \A w \in Vehicle : w # v => vehicles[w].id # u.id
       /\ u.at = None /\ u.place = "before" /\ ~u.retry_at
       /\ Requested(v, u, NearBoard(v), "entry")

\* A vehicle at the end of the road gives its session up.
GoesOff(v, u) ==
    /\ u.at # None /\ u.place = "after" /\ vehicles[v].place = "after" /\ full' = full
    /\ Submit(u.at.board, Order("leave", u.id, u.at.slot, "exit"))
    /\ \E r \in VehicleState :
          /\ Puts(v, r) /\ r.id = u.id /\ r.at = u.at /\ r.old = None
          /\ r.place = u.place /\ r.retry_at = u.retry_at /\ r.state = "exiting"

\* A vehicle drives on with the session it has.
DrivesOn(v, u) ==
    /\ Puts(v, u) /\ full' = full
    /\ SubmitData(v, u) \/ UNCHANGED commands
    /\ u.at # None => \/ u.place = vehicles[v].place
                      \/ vehicles[v].place = "at" /\ u.place = "after"
                      \/ vehicles[v].place = "before" /\ u.at.board = FarBoard(v)

\* The turn of vehicle v: u is the vehicle as it has moved.
Turn(v, u) ==
    /\ u.id = vehicles[v].id /\ u.at = vehicles[v].at /\ u.old = None
    /\ u.state = vehicles[v].state
    /\ \/ vehicles[v].retry_at /\ \E target \in Board : Requested(v, u, target, "retry")
       \/ vehicles[v].at = None /\ Replaced(v)
       \/ /\ u.retry_at = vehicles[v].retry_at
          /\ \/ /\ u.at # None /\ u.place = "at" /\ vehicles[v].place = "before"
                /\ Requested(v, u, FarBoard(v), "handover")
             \/ GoesOff(v, u)
             \/ DrivesOn(v, u)

\* A vehicle takes the session over that board b has opened for it.
TakesOver(v, b, c) ==
    /\ full' = full
    /\ vehicles[v].id = c.vid /\ vehicles[v].state \in {"connecting", "handover"}
    /\ \E r \in VehicleState :
          /\ Puts(v, r) /\ r.id = c.vid /\ r.at = SessionAt(b, c.slot) /\ r.old = None
          /\ r.place = vehicles[v].place /\ r.retry_at = vehicles[v].retry_at
          /\ r.state = "connected"
    /\ \/ /\ Releases(c, vehicles[v])
          /\ Submit(vehicles[v].old.board,
                    Order("leave", c.vid, vehicles[v].old.slot, "handover_old"))
       \/ ~Releases(c, vehicles[v]) /\ UNCHANGED commands

\* The collection of an answer, ok or not, to command c of board b.
Collection(b, c, ok) ==
    \/ c.kind = "open" /\ ok /\ \E v \in Vehicle : TakesOver(v, b, c)
    \/ /\ c.kind = "open" /\ ~ok /\ full' = full /\ UNCHANGED commands
       /\ \E v \in Vehicle, r \in VehicleState : Puts(v, r) /\ r.at = vehicles[v].at
    \/ /\ c.kind = "leave"
       /\ \E v \in Vehicle : /\ vehicles[v].id = c.vid /\ vehicles[v].state = "exiting"
                             /\ Replaced(v)
    \/ c.kind # "open" /\ UNCHANGED <<vehicles, commands, full>>

\* A request for a slot.
LEMMA RequestOf ==
    ASSUME NEW v \in Vehicle, NEW u \in VehicleState, NEW target \in Board,
           NEW reason \in {"entry", "retry", "handover"},
           RequestOpen(v, u, target, reason)
    PROVE  Requested(v, u, target, reason)
<1>1. CASE /\ vehicles' = [vehicles EXCEPT ![v] = [u EXCEPT !.state = "disconnected",
                                                            !.retry_at = TRUE]]
           /\ full' = TRUE /\ UNCHANGED commands
  <2> DEFINE r == [u EXCEPT !.state = "disconnected", !.retry_at = TRUE]
  <2>1. r \in VehicleState /\ r.at = u.at
    BY DEF VehicleState
  <2>2. Puts(v, r)
    BY <1>1 DEF Puts
  <2> HIDE DEF r
  <2> QED
    BY <1>1, <2>1, <2>2 DEF Requested
<1>2. ASSUME NEW s \in Slot, full' = full,
             vehicles' = [vehicles EXCEPT ![v] =
                [u EXCEPT !.old = u.at,
                          !.state = IF reason = "handover" THEN "handover" ELSE "connecting"]],
             Submit(target, Order("open", u.id, s, reason))
      PROVE  Requested(v, u, target, reason)
  <2> DEFINE state == IF reason = "handover" THEN "handover" ELSE "connecting"
             r == [u EXCEPT !.old = u.at, !.state = state]
  <2>1. state \in {"handover", "connecting"}
    OBVIOUS
  <2>2. /\ r \in VehicleState /\ r.id = u.id /\ r.at = u.at /\ r.old = u.at
        /\ r.place = u.place /\ r.retry_at = u.retry_at /\ r.state = state
    <3> HIDE DEF state
    <3> QED
      BY <2>1 DEF VehicleState
  <2>3. Puts(v, r)
    BY <1>2 DEF Puts
  <2> HIDE DEF r
  <2> QED
    BY <1>2, <2>2, <2>3 DEF Requested
<1> QED
  BY <1>1, <1>2 DEF RequestOpen, FreeSlots

\* A vehicle that has left the road is replaced by one that asks its near board.
LEMMA RespawnOf == ASSUME NEW v \in Vehicle, Respawn(v) PROVE Replaced(v)
<1>1. PICK id \in 0 .. MAX_SESSIONS :
         /\ IsNewId(v, id)
         /\ RequestOpen(v, [id |-> id, place |-> "before", at |-> None, old |-> None,
                            state |-> "connecting", retry_at |-> FALSE, retry_target |-> None],
                        NearBoard(v), "entry")
  BY Zenon DEF Respawn
<1> DEFINE u == [id |-> id, place |-> "before", at |-> None, old |-> None,
                 state |-> "connecting", retry_at |-> FALSE, retry_target |-> None]
<1>2. /\ u \in VehicleState /\ u.id = id /\ u.at = None /\ u.place = "before" /\ ~u.retry_at
  BY HandoverAssumption DEF VehicleState, Place
<1>3. NearBoard(v) \in Board
  BY DEF NearBoard, Board
<1>4. \A w \in Vehicle : w # v => vehicles[w].id # id
  BY <1>1 DEF IsNewId
<1>5. RequestOpen(v, u, NearBoard(v), "entry")
  BY <1>1
<1> HIDE DEF u
<1> QED
  BY <1>2, <1>3, <1>4, <1>5, RequestOf DEF Replaced

\* A vehicle's turn is one of these.
LEMMA TurnOf ==
    ASSUME IInv, NEW v \in Vehicle, StepVehicle(v)
    PROVE  /\ UNCHANGED <<results, slots, faults, port, ui>> /\ ui = "loop"
           /\ vehicles[v].state \in {"connected", "disconnected"}
           /\ \E u \in VehicleState : Turn(v, u)
<1> DEFINE u == vehicles[v]
<1>1. /\ UNCHANGED <<results, slots, faults, port, ui>> /\ ui = "loop"
      /\ u.state \notin Waiting
      /\ RetryDue(v, u) \/ Drive(v, u)
  BY DEF StepVehicle, workers
<1>2. u \in VehicleState
  BY DEF IInv, Typed
<1>3. u.state \in {"connected", "disconnected"} /\ u.old = None
  BY <1>1, <1>2 DEF VehicleState, Waiting, IInv, Kept
<1>4. NearBoard(v) \in Board /\ FarBoard(v) \in Board
  BY DEF NearBoard, FarBoard, Board
<1>5. CASE RetryDue(v, u)
  <2> DEFINE t == [u EXCEPT !.retry_at = FALSE, !.retry_target = None]
  <2>1. t \in VehicleState /\ t.id = u.id /\ t.at = u.at /\ t.old = None /\ t.state = u.state
    BY <1>2, <1>3 DEF VehicleState
  <2>2. PICK target \in Board : RequestOpen(v, t, target, "retry")
    <3>1. u.retry_target # None => u.retry_target \in Board
      BY <1>2 DEF VehicleState
    <3>2. BoardForPosition(v, u.place) \in Board
      BY <1>2, <1>4 DEF VehicleState, Place, BoardForPosition, Board
    <3> QED
      BY <1>5, <3>1, <3>2 DEF RetryDue
  <2> HIDE DEF t
  <2>3. u.retry_at /\ Requested(v, t, target, "retry")
    BY <1>5, <2>1, <2>2, RequestOf DEF RetryDue
  <2>4. Turn(v, t)
    BY <2>1, <2>3 DEF Turn
  <2> QED
    BY <1>1, <1>3, <2>1, <2>4
<1>6. CASE Drive(v, u)
  <2>1. PICK to \in Moves(u.place) : TRUE
             /\ LET crossed == Crossed(u.place, to) /\ u.at # None
                    moved == [u EXCEPT !.place = IF crossed THEN "at"
                                                 ELSE IF to = "end" THEN "after" ELSE to]
                    changes == crossed /\ u.at.board # FarBoard(v)
                IN \/ changes /\ RequestOpen(v, moved, FarBoard(v), "handover")
                   \/ to = "end" /\ RequestExit(v, moved)
                   \/ /\ ~changes /\ to # "end"
                      /\ vehicles' = [vehicles EXCEPT ![v] = moved]
                      /\ SubmitData(v, moved) \/ UNCHANGED commands
                      /\ full' = full
    BY <1>6 DEF Drive
  <2>2. PICK place : place = IF Crossed(u.place, to) /\ u.at # None THEN "at"
                             ELSE IF to = "end" THEN "after" ELSE to
    OBVIOUS
  <2>3. place \in Place /\ u.place \in Place
    BY <1>2, <2>2 DEF Moves, VehicleState, Place
  <2> DEFINE t == [u EXCEPT !.place = place]
  <2>4. /\ t \in VehicleState /\ t.id = u.id /\ t.at = u.at /\ t.old = None
        /\ t.place = place /\ t.retry_at = u.retry_at /\ t.state = u.state
    BY <1>2, <1>3, <2>3 DEF VehicleState
  <2>5. \/ /\ Crossed(u.place, to) /\ u.at # None
           /\ RequestOpen(v, t, FarBoard(v), "handover")
        \/ to = "end" /\ RequestExit(v, t)
        \/ /\ ~(Crossed(u.place, to) /\ u.at # None /\ u.at.board # FarBoard(v)) /\ to # "end"
           /\ vehicles' = [vehicles EXCEPT ![v] = t]
           /\ SubmitData(v, t) \/ UNCHANGED commands
           /\ full' = full
    BY <2>1, <2>2
  <2> HIDE DEF t
  <2>6. CASE Crossed(u.place, to) /\ u.at # None /\ RequestOpen(v, t, FarBoard(v), "handover")
    <3>1. u.place = "before" /\ t.place = "at" /\ Requested(v, t, FarBoard(v), "handover")
      BY <1>4, <2>2, <2>4, <2>6, RequestOf DEF Crossed
    <3>2. Turn(v, t)
      BY <2>4, <2>6, <3>1 DEF Turn
    <3> QED
      BY <1>1, <1>3, <2>4, <3>2
  <2>7. CASE to = "end" /\ RequestExit(v, t)
    <3>1. u.place = "after" /\ t.place = "after"
      BY <2>1, <2>2, <2>3, <2>4, <2>7 DEF Moves, Crossed, Place
    <3>2. CASE t.at = None /\ Respawn(v)
      <4>1. Turn(v, t)
        BY <2>4, <3>2, RespawnOf DEF Turn
      <4> QED
        BY <1>1, <1>3, <2>4, <4>1
    <3>3. CASE /\ t.at # None
               /\ vehicles' = [vehicles EXCEPT ![v] = [t EXCEPT !.state = "exiting"]]
               /\ Submit(t.at.board, Order("leave", t.id, t.at.slot, "exit"))
               /\ full' = full
      <4> DEFINE r == [t EXCEPT !.state = "exiting"]
      <4>1. /\ r \in VehicleState /\ r.id = t.id /\ r.at = t.at /\ r.old = None
            /\ r.place = t.place /\ r.retry_at = t.retry_at /\ r.state = "exiting"
        BY <2>4 DEF VehicleState
      <4>2. Puts(v, r)
        BY <3>3 DEF Puts
      <4> HIDE DEF r
      <4>3. GoesOff(v, t)
        BY <3>1, <3>3, <4>1, <4>2 DEF GoesOff
      <4>4. Turn(v, t)
        BY <2>4, <4>3 DEF Turn
      <4> QED
        BY <1>1, <1>3, <2>4, <4>4
    <3> QED
      BY <2>7, <3>2, <3>3 DEF RequestExit
  <2>8. CASE /\ ~(Crossed(u.place, to) /\ u.at # None /\ u.at.board # FarBoard(v))
             /\ to # "end"
             /\ vehicles' = [vehicles EXCEPT ![v] = t]
             /\ SubmitData(v, t) \/ UNCHANGED commands
             /\ full' = full
    <3>1. t.at # None => \/ t.place = u.place
                         \/ u.place = "at" /\ t.place = "after"
                         \/ u.place = "before" /\ t.at.board = FarBoard(v)
      BY <2>1, <2>2, <2>3, <2>4, <2>8 DEF Moves, Crossed, Place
    <3>2. DrivesOn(v, t)
      BY <2>8, <3>1 DEF DrivesOn, Puts
    <3>3. Turn(v, t)
      BY <2>4, <3>2 DEF Turn
    <3> QED
      BY <1>1, <1>3, <2>4, <3>3
  <2> QED
    BY <2>5, <2>6, <2>7, <2>8
<1> QED
  BY <1>1, <1>5, <1>6

\* What is collected is one of these.
LEMMA CollectionOf ==
    ASSUME IInv, NEW b \in Board, Collect(b)
    PROVE  /\ UNCHANGED <<slots, faults, port, ui>> /\ ui = "loop"
           /\ results[b] # <<>> /\ results' = [results EXCEPT ![b] = Tail(@)]
           /\ Collection(b, Head(results[b]).command, Head(results[b]).ok)
<1> DEFINE c == Head(results[b]).command
           ok == Head(results[b]).ok
<1>1. /\ UNCHANGED <<slots, faults, port, ui>> /\ ui = "loop"
      /\ results[b] # <<>> /\ results' = [results EXCEPT ![b] = Tail(@)]
  BY DEF Collect, workers
<1>2. /\ c \in Pending(b) /\ c \in Command /\ ok \in BOOLEAN
      /\ vehicles \in [Vehicle -> VehicleState]
  BY <1>1, HeadAnswer DEF IInv, Typed, Result
<1>3. \/ c.kind = "open" /\ OpenAnswered(b, c, ok)
      \/ c.kind = "leave" /\ c.reason = "exit" /\ ExitAnswered(c)
      \/ c.kind # "open" /\ UNCHANGED <<vehicles, commands, full>>
  BY DEF Collect
<1> HIDE DEF c, ok
<1>4. \A v \in Vehicle : IsOrder(c) /\ vehicles[v].id = c.vid =>
         vehicles[v].state \in (IF c.kind = "open" THEN {"connecting", "handover"}
                                                   ELSE {"exiting"})
  <2> SUFFICES ASSUME NEW v \in Vehicle, IsOrder(c), vehicles[v].id = c.vid
               PROVE  vehicles[v].state \in (IF c.kind = "open" THEN {"connecting", "handover"}
                                                                ELSE {"exiting"})
    OBVIOUS
  <2>1. PICK w \in Vehicle :
           /\ vehicles[w].id = c.vid
           /\ vehicles[w].state \in (IF c.kind = "open" THEN {"connecting", "handover"}
                                                        ELSE {"exiting"})
    BY <1>2 DEF IInv, Owned
  <2>2. w = v
    BY <2>1 DEF IInv, IdsDiffer
  <2> QED
    BY <2>1, <2>2
<1>5. CASE c.kind = "open" /\ OpenAnswered(b, c, ok)
  <2>1. PICK v \in Vehicle :
           /\ vehicles[v].id = c.vid
           /\ \/ ok /\ OpenReady(v, b, c)
              \/ /\ ~ok /\ vehicles' = [vehicles EXCEPT ![v] = AfterFailure(@, b)]
                 /\ UNCHANGED commands
    BY <1>5, Zenon DEF OpenAnswered
  <2>2. full' = full
    BY <1>5 DEF OpenAnswered
  <2>3. vehicles[v] \in VehicleState /\ vehicles[v].state \in {"connecting", "handover"}
    BY <1>2, <1>4, <1>5, <2>1 DEF IsOrder
  <2>4. CASE ok /\ OpenReady(v, b, c)
    <3> DEFINE r == [vehicles[v] EXCEPT !.at = SessionAt(b, c.slot),
                                        !.old = None, !.state = "connected"]
    <3>1. SessionAt(b, c.slot) \in Session
      BY <1>2, <1>5, RealSession DEF Command
    <3>2. /\ r \in VehicleState /\ r.id = c.vid /\ r.at = SessionAt(b, c.slot) /\ r.old = None
          /\ r.place = vehicles[v].place /\ r.retry_at = vehicles[v].retry_at
          /\ r.state = "connected"
      BY <2>1, <2>3, <3>1 DEF VehicleState
    <3>3. Puts(v, r)
      BY <2>4 DEF OpenReady, Puts
    <3> HIDE DEF r
    <3>4. \/ /\ Releases(c, vehicles[v])
             /\ Submit(vehicles[v].old.board,
                       Order("leave", c.vid, vehicles[v].old.slot, "handover_old"))
          \/ ~Releases(c, vehicles[v]) /\ UNCHANGED commands
      BY <2>1, <2>4 DEF OpenReady
    <3>5. TakesOver(v, b, c)
      BY <2>1, <2>2, <2>3, <3>2, <3>3, <3>4 DEF TakesOver
    <3> QED
      BY <1>1, <1>5, <2>4, <3>5 DEF Collection, c, ok
  <2>5. CASE /\ ~ok /\ vehicles' = [vehicles EXCEPT ![v] = AfterFailure(@, b)]
             /\ UNCHANGED commands
    <3> DEFINE r == AfterFailure(vehicles[v], b)
    <3>1. r \in VehicleState /\ r.at = vehicles[v].at
      BY <2>3 DEF AfterFailure, VehicleState, Place, IInv, Kept
    <3>2. Puts(v, r)
      BY <1>2, <2>5 DEF Puts
    <3> HIDE DEF r
    <3> QED
      BY <1>1, <1>5, <2>2, <2>5, <3>1, <3>2 DEF Collection, c, ok
  <2> QED
    BY <2>1, <2>4, <2>5
<1>6. CASE c.kind = "leave" /\ c.reason = "exit" /\ ExitAnswered(c)
  <2>1. PICK v \in Vehicle : vehicles[v].id = c.vid /\ Respawn(v)
    BY <1>6, Zenon DEF ExitAnswered
  <2>2. vehicles[v].state = "exiting" /\ Replaced(v)
    BY <1>4, <1>6, <2>1, RespawnOf DEF IsOrder
  <2> QED
    BY <1>1, <1>6, <2>1, <2>2 DEF Collection, c, ok
<1>7. CASE c.kind # "open" /\ UNCHANGED <<vehicles, commands, full>>
  BY <1>1, <1>7 DEF Collection, c, ok
<1> QED
  BY <1>3, <1>5, <1>6, <1>7

-----------------------------------------------------------------------------
(* A session is given up on the way off the road only.                      *)

\* A vehicle that has a session keeps one unless it is on its way off the road.
Keeps == \A v \in Vehicle : vehicles[v].at # None /\ vehicles'[v].at = None
                            => vehicles[v].state = "exiting"

\* A request leaves the session where it was.
LEMMA RequestKeeps ==
    ASSUME Typed, NEW v \in Vehicle, NEW u, NEW target, NEW reason,
           Requested(v, u, target, reason),
           u.at = vehicles[v].at \/ vehicles[v].at = None \/ vehicles[v].state = "exiting"
    PROVE  Keeps
<1>1. PICK r \in VehicleState : Puts(v, r) /\ r.at = u.at
  BY DEF Requested
<1> QED
  BY <1>1 DEF Keeps, Puts, Typed

\* No step takes a session from a vehicle that is not leaving the road.
LEMMA StepKeeps == ASSUME IInv, [Next]_vars PROVE Keeps
<1>1. Typed /\ vehicles \in [Vehicle -> VehicleState]
  BY DEF IInv, Typed
<1>2. ASSUME NEW v \in Vehicle, StepVehicle(v) PROVE Keeps
  <2>1. PICK u \in VehicleState : Turn(v, u)
    BY <1>2, TurnOf
  <2>2. u.at = vehicles[v].at
    BY <2>1 DEF Turn
  <2>3. CASE \E target \in Board, reason \in {"retry", "handover"} : Requested(v, u, target, reason)
    BY <1>1, <2>2, <2>3, RequestKeeps
  <2>4. CASE vehicles[v].at = None /\ Replaced(v)
    BY <1>1, <2>4, RequestKeeps DEF Replaced
  <2>5. CASE \E r \in VehicleState : Puts(v, r) /\ r.at = u.at
    BY <1>1, <2>2, <2>5 DEF Puts, Keeps
  <2>6. FarBoard(v) \in Board
    BY DEF FarBoard, Board
  <2> QED
    BY <2>1, <2>3, <2>4, <2>5, <2>6 DEF Turn, GoesOff, DrivesOn
<1>3. ASSUME NEW b \in Board, Collect(b) PROVE Keeps
  <2> DEFINE c == Head(results[b]).command
             ok == Head(results[b]).ok
  <2>1. Collection(b, c, ok) /\ c \in Command
    BY <1>3, CollectionOf, HeadAnswer
  <2> HIDE DEF c, ok
  <2>2. CASE c.kind = "open" /\ \E v \in Vehicle : TakesOver(v, b, c)
    <3>1. PICK v \in Vehicle, r \in VehicleState : Puts(v, r) /\ r.at = SessionAt(b, c.slot)
      BY <2>2 DEF TakesOver
    <3>2. r.at # None
      BY <2>1, <2>2, <3>1, RealSession DEF Command
    <3> QED
      BY <1>1, <3>1, <3>2 DEF Puts, Keeps
  <2>3. CASE \E v \in Vehicle, r \in VehicleState : Puts(v, r) /\ r.at = vehicles[v].at
    BY <1>1, <2>3 DEF Puts, Keeps
  <2>4. CASE \E v \in Vehicle : vehicles[v].state = "exiting" /\ Replaced(v)
    BY <1>1, <2>4, RequestKeeps DEF Replaced
  <2>5. CASE UNCHANGED vehicles
    BY <2>5 DEF Keeps
  <2> QED
    BY <2>1, <2>2, <2>3, <2>4, <2>5 DEF Collection
<1>4. CASE UNCHANGED vehicles
  BY <1>4 DEF Keeps
<1> QED
  BY <1>2, <1>3, <1>4 DEF Next, Attack, ScheduleSwkem, Work, ToggleRunning, Quit, Shutdown, vars,
                          controller

\* However handovers fail, are refused for want of a slot and are tried again, a vehicle
\* that has a session keeps one until it has left the road.
THEOREM SessionsAreKept == Spec => SessionKept
<1>1. IInv /\ [Next]_vars =>
         [\A v \in Vehicle : vehicles[v].at # None /\ vehicles'[v].at = None
                             => vehicles[v].state = "exiting"]_vars
  BY StepKeeps DEF Keeps
<1> QED
  BY <1>1, Invariant, PTL DEF Spec, SessionKept

-----------------------------------------------------------------------------
(* A packet or a LEAVE finds its session.                                   *)

\* A step that adds commands, and packets only for the session their vehicle uses.
Adds ==
    /\ slots' = slots
    /\ \A d \in Board :
          \/ commands'[d] = commands[d]
          \/ \E x \in Command :
                /\ commands'[d] = Append(commands[d], x)
                /\ x.kind = "data" => \E v \in Vehicle : Uses(v, d, x.slot) /\ vehicles[v].id = x.vid

\* Submitting one command is such a step.
LEMMA SubmitAdds ==
    ASSUME Typed, slots' = slots, NEW b \in Board, NEW x \in Command, Submit(b, x),
           x.kind = "data" => \E v \in Vehicle : Uses(v, b, x.slot) /\ vehicles[v].id = x.vid
    PROVE  Adds
BY DEF Typed, Submit, Adds

\* The commands of a vehicle are well formed.
LEMMA OrderType ==
    ASSUME NEW kind \in {"open", "leave", "data"}, NEW vid \in Nat, NEW slot \in Slot,
           NEW reason \in {"entry", "retry", "handover", "exit", "handover_old", "telemetry"}
    PROVE  Order(kind, vid, slot, reason) \in Command
BY DEF Order, Command

\* A request sends an OPEN, if anything.
LEMMA RequestAdds ==
    ASSUME Typed, slots' = slots, NEW v, NEW u \in VehicleState, NEW target \in Board,
           NEW reason \in {"entry", "retry", "handover"}, Requested(v, u, target, reason)
    PROVE  Adds
<1>1. CASE UNCHANGED commands
  BY <1>1 DEF Adds
<1>2. ASSUME NEW s \in Slot, Submit(target, Order("open", u.id, s, reason)) PROVE Adds
  <2>1. Order("open", u.id, s, reason) \in Command
    BY OrderType DEF VehicleState
  <2> QED
    BY <1>2, <2>1, SubmitAdds, OrderFields
<1> QED
  BY <1>1, <1>2 DEF Requested

\* A packet is for the session in use.
LEMMA DataAdds ==
    ASSUME Typed, slots' = slots, NEW v \in Vehicle, NEW u \in VehicleState, SubmitData(v, u),
           u.at = vehicles[v].at, u.id = vehicles[v].id, vehicles[v].state # "exiting"
    PROVE  Adds
<1>1. PICK b \in Board, s \in Slot : u.at = SessionAt(b, s)
  BY DEF SubmitData, VehicleState, Session, SessionAt
<1>2. u.at.board = b /\ u.at.slot = s
  BY <1>1 DEF SessionAt
<1>3. Uses(v, b, s)
  BY <1>1 DEF Uses
<1> DEFINE x == Order("data", u.id, s, "telemetry")
<1>4. x \in Command /\ x.slot = s /\ x.vid = vehicles[v].id
  BY OrderType, OrderFields DEF VehicleState
<1>5. Submit(b, x)
  BY <1>2 DEF SubmitData
<1> HIDE DEF x
<1> QED
  BY <1>3, <1>4, <1>5, SubmitAdds

\* Every step of the controller adds commands in this way.
LEMMA ControllerAdds ==
    ASSUME IInv, [Next]_vars, \A b \in Board : ~Work(b)
    PROVE  Adds
<1>1. Typed /\ vehicles \in [Vehicle -> VehicleState]
  BY DEF IInv, Typed
<1>2. ASSUME NEW v \in Vehicle, StepVehicle(v) PROVE Adds
  <2>1. PICK u \in VehicleState : Turn(v, u)
    BY <1>2, TurnOf
  <2>2. slots' = slots /\ vehicles[v].state # "exiting"
    BY <1>2, TurnOf
  <2>3. CASE \E target \in Board, reason \in {"retry", "handover"} : Requested(v, u, target, reason)
    BY <1>1, <2>2, <2>3, RequestAdds
  <2>4. CASE Replaced(v)
    <3>1. NearBoard(v) \in Board
      BY DEF NearBoard, Board
    <3> QED
      BY <1>1, <2>2, <2>4, <3>1, RequestAdds DEF Replaced
  <2>5. CASE GoesOff(v, u)
    <3>1. u.at.board \in Board /\ u.at.slot \in Slot /\ u.id \in Nat
      BY <2>5 DEF GoesOff, VehicleState, Session
    <3> QED
      BY <1>1, <2>2, <2>5, <3>1, SubmitAdds, OrderType, OrderFields DEF GoesOff
  <2>6. CASE SubmitData(v, u)
    BY <1>1, <2>1, <2>2, <2>6, DataAdds DEF Turn
  <2>7. CASE UNCHANGED commands
    BY <2>2, <2>7 DEF Adds
  <2>8. FarBoard(v) \in Board
    BY DEF FarBoard, Board
  <2> QED
    BY <2>1, <2>3, <2>4, <2>5, <2>6, <2>7, <2>8 DEF Turn, DrivesOn
<1>3. ASSUME NEW b \in Board, Collect(b) PROVE Adds
  <2> DEFINE c == Head(results[b]).command
             ok == Head(results[b]).ok
  <2>1. Collection(b, c, ok) /\ c \in Command /\ slots' = slots
    BY <1>3, CollectionOf, HeadAnswer
  <2> HIDE DEF c, ok
  <2>2. ASSUME NEW v \in Vehicle, TakesOver(v, b, c), Releases(c, vehicles[v]),
               Submit(vehicles[v].old.board,
                      Order("leave", c.vid, vehicles[v].old.slot, "handover_old"))
        PROVE  Adds
    <3>1. /\ vehicles[v].old.board \in Board /\ vehicles[v].old.slot \in Slot /\ c.vid \in Nat
      BY <1>1, <2>2 DEF Releases, TakesOver, VehicleState, Session
    <3> QED
      BY <1>1, <2>1, <2>2, <3>1, SubmitAdds, OrderType, OrderFields
  <2>3. ASSUME NEW v \in Vehicle, Replaced(v) PROVE Adds
    <3>1. NearBoard(v) \in Board
      BY DEF NearBoard, Board
    <3> QED
      BY <1>1, <2>1, <2>3, <3>1, RequestAdds DEF Replaced
  <2>4. CASE UNCHANGED commands
    BY <2>1, <2>4 DEF Adds
  <2> QED
    BY <2>1, <2>2, <2>3, <2>4 DEF Collection, TakesOver
<1>4. ASSUME NEW v \in Vehicle, Attack(v) PROVE Adds
  <2>1. slots' = slots /\ SubmitData(v, vehicles[v]) /\ vehicles[v].state # "exiting"
    BY <1>4 DEF Attack, workers, MayAttack
  <2> QED
    BY <1>1, <2>1, DataAdds
<1>5. [kind |-> "swkem"] \in Command /\ StopOf("A") \in Command
      /\ StopOf("B") \in Command /\ "A" \in Board /\ "B" \in Board
  BY DEF Command, Board, StopOf
<1>6. ASSUME NEW b \in Board, ScheduleSwkem(b) PROVE Adds
  BY <1>1, <1>5, <1>6, SubmitAdds DEF ScheduleSwkem, workers
<1>7. CASE ToggleRunning \/ UNCHANGED vars
  BY <1>7 DEF ToggleRunning, Adds, workers, vars
<1>8. CASE Quit
  BY <1>1, <1>5, <1>8, SubmitAdds DEF Quit, workers, StopOf
<1>9. CASE Shutdown
  <2>1. slots' = slots /\ (Submit("B", StopOf("B")) \/ UNCHANGED commands)
    BY <1>9 DEF Shutdown, Joined
  <2>2. CASE Submit("B", StopOf("B"))
    BY <1>1, <1>5, <2>1, <2>2, SubmitAdds DEF StopOf
  <2>3. CASE UNCHANGED commands
    BY <2>1, <2>3 DEF Adds
  <2> QED
    BY <2>1, <2>2, <2>3
<1> QED
  BY <1>2, <1>3, <1>4, <1>6, <1>7, <1>8, <1>9 DEF Next

\* Where a command is after another is added.
LEMMA AppendPlaces ==
    ASSUME NEW S, NEW q \in Seq(S), NEW x \in S
    PROVE  /\ DOMAIN q \subseteq Int /\ Len(q) \in Nat
           /\ DOMAIN Append(q, x) = DOMAIN q \cup {Len(q) + 1}
           /\ \A i \in DOMAIN q : Append(q, x)[i] = q[i] /\ i <= Len(q)
           /\ Append(q, x)[Len(q) + 1] = x
OBVIOUS

\* What is added keeps the packets in order.
LEMMA PacketsAdd == ASSUME IInv, Packets, Adds PROVE Packets'
<1> SUFFICES ASSUME NEW d \in Board
             PROVE  /\ \A c \in Queued(d)' : c.kind = "data" => slots'[d][c.slot] = c.vid
                    /\ \A i, j \in DOMAIN commands'[d] :
                          i < j /\ commands'[d][i].kind = "leave" /\ commands'[d][j].kind = "data"
                          => commands'[d][i].slot # commands'[d][j].slot
  BY DEF Packets, Queued
<1>1. slots' = slots /\ commands[d] \in Seq(Command)
  BY DEF Adds, IInv, Typed
<1>2. CASE commands'[d] = commands[d]
  BY <1>1, <1>2 DEF Packets, Queued
<1>3. ASSUME NEW x \in Command, commands'[d] = Append(commands[d], x),
             x.kind = "data" => \E v \in Vehicle : Uses(v, d, x.slot) /\ vehicles[v].id = x.vid
      PROVE  /\ \A c \in Queued(d)' : c.kind = "data" => slots'[d][c.slot] = c.vid
             /\ \A i, j \in DOMAIN commands'[d] :
                   i < j /\ commands'[d][i].kind = "leave" /\ commands'[d][j].kind = "data"
                   => commands'[d][i].slot # commands'[d][j].slot
  <2>1. Queued(d)' = Queued(d) \cup {x}
    BY <1>1, <1>3, AppendElements DEF Queued
  <2>2. x.kind = "data" => /\ x.slot \in Slot /\ slots[d][x.slot] = x.vid
                           /\ \A c \in Queued(d) : c.kind = "leave" => c.slot # x.slot
    <3> SUFFICES ASSUME x.kind = "data"
                 PROVE  /\ x.slot \in Slot /\ slots[d][x.slot] = x.vid
                        /\ \A c \in Queued(d) : c.kind = "leave" => c.slot # x.slot
      OBVIOUS
    <3>1. x.slot \in Slot
      BY DEF Command
    <3>2. PICK v \in Vehicle : Uses(v, d, x.slot) /\ vehicles[v].id = x.vid
      BY <1>3
    <3> QED
      BY <3>1, <3>2 DEF IInv, Used, GivenUp
  <2>3. \A c \in Queued(d)' : c.kind = "data" => slots'[d][c.slot] = c.vid
    BY <1>1, <2>1, <2>2 DEF Packets
  <2>4. /\ DOMAIN commands[d] \subseteq Int /\ Len(commands[d]) \in Nat
        /\ DOMAIN commands'[d] = DOMAIN commands[d] \cup {Len(commands[d]) + 1}
        /\ \A i \in DOMAIN commands[d] : commands'[d][i] = commands[d][i] /\ i <= Len(commands[d])
        /\ commands'[d][Len(commands[d]) + 1] = x
    BY <1>1, <1>3, AppendPlaces
  <2>5. \A i \in DOMAIN commands[d] : commands[d][i] \in Queued(d)
    BY DEF Queued, ElementsOf
  <2>6. ASSUME NEW i \in DOMAIN commands'[d], NEW j \in DOMAIN commands'[d], i < j,
               commands'[d][i].kind = "leave", commands'[d][j].kind = "data"
        PROVE  commands'[d][i].slot # commands'[d][j].slot
    <3>1. i \in DOMAIN commands[d]
      BY <2>4, <2>6
    <3>2. CASE j \in DOMAIN commands[d]
      BY <2>4, <2>6, <3>1, <3>2 DEF Packets
    <3>3. CASE j = Len(commands[d]) + 1
      BY <2>2, <2>4, <2>5, <2>6, <3>1, <3>3
    <3> QED
      BY <2>4, <3>2, <3>3
  <2> QED
    BY <2>3, <2>6
<1> QED
  BY <1>2, <1>3 DEF Adds

\* Where a command is after the first one has gone.
LEMMA TailPlaces ==
    ASSUME NEW S, NEW q \in Seq(S), q # <<>>
    PROVE  /\ 1 \in DOMAIN q /\ Head(q) = q[1]
           /\ \A i \in DOMAIN Tail(q) :
                 i \in Int /\ i + 1 \in DOMAIN q /\ Tail(q)[i] = q[i + 1] /\ 1 < i + 1
OBVIOUS

\* A board that opens or closes a slot does not touch one a packet is on its way to.
LEMMA PacketsWork == ASSUME IInv, Packets, NEW b \in Board, Work(b) PROVE Packets'
<1> DEFINE h == Head(commands[b])
<1>1. /\ commands[b] # <<>> /\ commands' = [commands EXCEPT ![b] = Tail(@)]
      /\ commands \in [Board -> Seq(Command)]
      /\ slots \in [Board -> [Slot -> Nat \cup {None}]]
  BY DEF Work, IInv, Typed
<1>2. /\ commands'[b] = Tail(commands[b])
      /\ \A d \in Board : d # b => commands'[d] = commands[d]
  BY <1>1
<1>3. /\ 1 \in DOMAIN commands[b] /\ h = commands[b][1]
      /\ \A i \in DOMAIN commands'[b] :
            /\ i \in Int /\ i + 1 \in DOMAIN commands[b]
            /\ commands'[b][i] = commands[b][i + 1] /\ 1 < i + 1
  BY <1>1, <1>2, TailPlaces
<1>4. h \in Command /\ h \in Queued(b)
  BY <1>1, TailElements DEF Queued
<1>5. \/ slots' = slots
      \/ h.kind = "open" /\ slots' = [slots EXCEPT ![b][h.slot] = h.vid]
      \/ h.kind = "leave" /\ slots' = [slots EXCEPT ![b][h.slot] = None]
  <2>1. slots' = slots \/ \E ok \in BOOLEAN : slots' = SlotsAfter(b, h, ok)
    BY Zenon DEF Work
  <2> HIDE DEF h
  <2> QED
    BY <2>1 DEF SlotsAfter
<1> HIDE DEF h
<1>6. ASSUME NEW d \in Board, NEW c \in Queued(d)', c.kind = "data"
      PROVE  slots'[d][c.slot] = c.vid
  <2>1. CASE d # b
    <3>1. c \in Queued(d) /\ slots'[d] = slots[d]
      BY <1>1, <1>2, <1>5, <1>6, <2>1 DEF Queued
    <3> QED
      BY <1>6, <3>1 DEF Packets
  <2>2. CASE d = b
    <3>1. PICK i \in DOMAIN commands'[b] : c = commands'[b][i]
      BY <2>2 DEF Queued, ElementsOf
    <3>2. i + 1 \in DOMAIN commands[b] /\ c = commands[b][i + 1] /\ 1 < i + 1 /\ i + 1 \in Int
      BY <1>3, <3>1
    <3>3. c \in Queued(b) /\ c \in Command
      BY <1>1, <3>2, ElementType DEF Queued, ElementsOf
    <3>4. slots[b][c.slot] = c.vid /\ c.slot \in Slot /\ c.vid # None
      BY <1>6, <3>3, HandoverAssumption DEF Packets, Command
    <3>5. h.kind = "leave" => h.slot # c.slot
      BY <1>3, <1>6, <3>2 DEF Packets
    <3>6. h.kind = "open" => h.slot # c.slot
      BY <1>4, <3>4 DEF IInv, Opened
    <3>7. h.kind \in {"open", "leave"} => h.slot \in Slot
      BY <1>4 DEF Command
    <3> QED
      BY <1>1, <1>5, <2>2, <3>4, <3>5, <3>6, <3>7
  <2> QED
    BY <2>1, <2>2
<1>7. ASSUME NEW d \in Board, NEW i \in DOMAIN commands'[d], NEW j \in DOMAIN commands'[d], i < j,
             commands'[d][i].kind = "leave", commands'[d][j].kind = "data"
      PROVE  commands'[d][i].slot # commands'[d][j].slot
  <2>1. CASE d # b
    BY <1>2, <1>7, <2>1 DEF Packets
  <2>2. CASE d = b
    <3>1. /\ i + 1 \in DOMAIN commands[b] /\ commands'[b][i] = commands[b][i + 1]
          /\ j + 1 \in DOMAIN commands[b] /\ commands'[b][j] = commands[b][j + 1]
          /\ i + 1 < j + 1
      BY <1>3, <1>7, <2>2
    <3> QED
      BY <1>7, <2>2, <3>1 DEF Packets
  <2> QED
    BY <2>1, <2>2
<1> QED
  BY <1>6, <1>7 DEF Packets, Queued

\* At the start every vehicle has asked the board on its side for a slot, and that is all.
LEMMA StartOf ==
    ASSUME Init
    PROVE  /\ \A v \in Vehicle :
                 /\ vehicles[v].id = v /\ vehicles[v].at = None /\ ~vehicles[v].retry_at
                 /\ vehicles[v].state = "connecting" /\ vehicles[v].place \in Starts
           /\ \A b \in Board :
                 /\ Answers(b) = {} /\ Queued(b) = Pending(b)
                 /\ \A c \in Pending(b) :
                       /\ c.kind = "open" /\ c.reason = "entry"
                       /\ c.vid \in Vehicle /\ b = BoardForPosition(c.vid, vehicles[c.vid].place)
<1>1. PICK place \in [Vehicle -> Starts], slot \in [Vehicle -> Slot],
           asked \in [Board -> 0 .. vehicle_count] :
         /\ \A b \in Board : {slot[v] : v \in Asking(b, place)} = 0 .. asked[b] - 1
         /\ vehicles = [v \in Vehicle |->
               [id |-> v, place |-> place[v], at |-> None, old |-> None,
                state |-> "connecting", retry_at |-> FALSE, retry_target |-> None]]
         /\ commands = [b \in Board |-> [i \in 1 .. asked[b] |->
               Order("open", CHOOSE v \in Asking(b, place) : slot[v] = i - 1, i - 1, "entry")]]
  BY Zenon DEF Init
<1> DEFINE first(b, i) == CHOOSE v \in Asking(b, place) : slot[v] = i - 1
<1>2. ASSUME NEW b \in Board, NEW i \in 1 .. asked[b] PROVE first(b, i) \in Asking(b, place)
  <2>1. asked[b] \in Nat
    BY HandoverAssumption
  <2>2. i - 1 \in 0 .. asked[b] - 1
    BY <2>1
  <2>3. i - 1 \in {slot[v] : v \in Asking(b, place)}
    BY <1>1, <2>2
  <2>4. PICK v \in Asking(b, place) : slot[v] = i - 1
    BY <2>3
  <2> QED
    BY <2>4
<1>3. commands = [b \in Board |-> [i \in 1 .. asked[b] |-> Order("open", first(b, i), i - 1, "entry")]]
  BY <1>1
<1> HIDE DEF first
<1>4. \A v \in Vehicle :
         /\ vehicles[v].id = v /\ vehicles[v].at = None /\ ~vehicles[v].retry_at
         /\ vehicles[v].state = "connecting" /\ vehicles[v].place = place[v]
  BY <1>1
<1>5. \A b \in Board : results[b] = <<>>
  BY DEF Init
<1>6. \A b \in Board : Answers(b) = {} /\ Queued(b) = Pending(b)
  BY <1>5 DEF Answers, Pending, Queued, ElementsOf
<1>7. ASSUME NEW b \in Board, NEW c \in Pending(b)
      PROVE  /\ c.kind = "open" /\ c.reason = "entry"
             /\ c.vid \in Vehicle /\ b = BoardForPosition(c.vid, vehicles[c.vid].place)
  <2>1. PICK i \in 1 .. asked[b] : c = Order("open", first(b, i), i - 1, "entry")
    <3>1. c \in Queued(b) /\ DOMAIN commands[b] = 1 .. asked[b]
      BY <1>3, <1>6
    <3>2. PICK i \in DOMAIN commands[b] : c = commands[b][i]
      BY <3>1 DEF Queued, ElementsOf
    <3> QED
      BY <1>3, <3>1, <3>2
  <2>2. c.kind = "open" /\ c.reason = "entry" /\ c.vid = first(b, i)
    BY <2>1, OrderFields
  <2>3. first(b, i) \in Vehicle /\ BoardForPosition(first(b, i), place[first(b, i)]) = b
    BY <1>2 DEF Asking
  <2> QED
    BY <1>4, <2>2, <2>3
<1> QED
  BY <1>4, <1>6, <1>7

\* At the start no packet is on its way.
LEMMA PacketsInit == Init => Packets
<1> SUFFICES ASSUME Init PROVE Packets
  OBVIOUS
<1>1. \A b \in Board : \A c \in Queued(b) : c.kind = "open"
  BY StartOf
<1>2. \A b \in Board : \A i \in DOMAIN commands[b] : commands[b][i] \in Queued(b)
  BY DEF Queued, ElementsOf
<1> QED
  BY <1>1, <1>2 DEF Packets

\* A packet is never behind a LEAVE of its session.
LEMMA AlwaysPackets == Spec => []Packets
<1>1. IInv /\ Packets /\ [Next]_vars => Packets'
  BY PacketsWork, PacketsAdd, ControllerAdds
<1> QED
  BY <1>1, PacketsInit, Invariant, PTL DEF Spec

\* When its turn comes, a queued packet or LEAVE finds the session it was meant for: the
\* session of a vehicle goes down in its own LEAVE only, after which no packet is sent.
THEOREM CommandsFindSessions == Spec => []CommandsFindTheirSession
<1>1. IInv /\ Packets => CommandsFindTheirSession
  BY DEF IInv, GivenUp, Packets, CommandsFindTheirSession, Queued
<1> QED
  BY <1>1, AlwaysPackets, Invariant, PTL

-----------------------------------------------------------------------------
(* Every open session is in somebody's hand.                                *)

\* A vehicle that does not wait has asked for nothing.
LEMMA NotAsking ==
    ASSUME IInv, NEW v \in Vehicle, vehicles[v].state \notin {"connecting", "handover"},
           NEW b \in Board, NEW c \in Pending(b), c.kind = "open"
    PROVE  vehicles[v].id # c.vid
<1>1. PICK w \in Vehicle : /\ vehicles[w].id = c.vid
                           /\ vehicles[w].state \in {"connecting", "handover"}
  BY DEF IInv, Owned, IsOrder
<1> QED
  BY <1>1 DEF IInv, IdsDiffer

\* The queues when a command may have been added and no result is collected.
LEMMA Grown ==
    ASSUME Typed, NEW d \in Board, results'[d] = results[d]
    PROVE  /\ Answers(d)' = Answers(d)
           /\ commands'[d] = commands[d] => Queued(d)' = Queued(d) /\ Pending(d)' = Pending(d)
           /\ \A x \in Command : commands'[d] = Append(commands[d], x) =>
                 Queued(d)' = Queued(d) \cup {x} /\ Pending(d)' = Pending(d) \cup {x}
<1>1. commands[d] \in Seq(Command)
  BY DEF Typed
<1>2. Answers(d)' = Answers(d)
  BY DEF Answers
<1>3. /\ Pending(d) = Queued(d) \cup {r.command : r \in Answers(d)}
      /\ Pending(d)' = Queued(d)' \cup {r.command : r \in Answers(d)'}
  BY DEF Pending, Queued, Answers
<1>4. commands'[d] = commands[d] => Queued(d)' = Queued(d)
  BY DEF Queued
<1>5. \A x \in Command : commands'[d] = Append(commands[d], x) => Queued(d)' = Queued(d) \cup {x}
  BY <1>1, AppendElements DEF Queued
<1> QED
  BY <1>2, <1>3, <1>4, <1>5

\* The queues when a command is submitted.
LEMMA SubmittedTo ==
    ASSUME Typed, NEW b \in Board, NEW x \in Command, Submit(b, x), results' = results
    PROVE  /\ \A d \in Board : /\ Answers(d)' = Answers(d) /\ Queued(d) \subseteq Queued(d)'
                               /\ Pending(d) \subseteq Pending(d)'
                               /\ d # b => Pending(d)' = Pending(d)
           /\ Queued(b)' = Queued(b) \cup {x} /\ Pending(b)' = Pending(b) \cup {x}
<1>1. /\ commands'[b] = Append(commands[b], x)
      /\ \A d \in Board : d # b => commands'[d] = commands[d]
  BY DEF Submit, Typed
<1> QED
  BY <1>1, Grown

\* The queues when a result is collected: what is left, and what has been submitted.
QueuesAfter(b, c, ok) ==
    /\ \A d \in Board : /\ Answers(d)' \subseteq Answers(d)
                        /\ Left(d) \subseteq Pending(d) /\ Queued(d) \subseteq Left(d)
                        /\ d # b => Left(d) = Pending(d)
    /\ \A d \in Board : commands'[d] = commands[d] =>
          Queued(d)' = Queued(d) /\ Pending(d)' = Left(d)
    /\ \A d \in Board, x \in Command : commands'[d] = Append(commands[d], x) =>
          Queued(d)' = Queued(d) \cup {x} /\ Pending(d)' = Left(d) \cup {x}
    /\ Pending(b) = Left(b) \cup {c}
    /\ \E r \in Answers(b) : r.command = c /\ r.ok = ok
    /\ c \in Command /\ c \in Pending(b)

\* Collecting a result takes its command, and that command only, off what is pending.
LEMMA CollectedFrom ==
    ASSUME IInv, NEW b \in Board, results[b] # <<>>,
           results' = [results EXCEPT ![b] = Tail(@)],
           NEW c, c = Head(results[b]).command, NEW ok, ok = Head(results[b]).ok
    PROVE  QueuesAfter(b, c, ok)
<1>1. results \in [Board -> Seq(Result)] /\ commands \in [Board -> Seq(Command)]
  BY DEF IInv, Typed
<1>2. /\ results'[b] = Tail(results[b])
      /\ \A d \in Board : d # b => results'[d] = results[d]
  BY <1>1
<1>3. Answers(b) = Answers(b)' \cup {Head(results[b])}
  BY <1>1, <1>2, TailElements DEF Answers
<1>4. \A d \in Board : d # b => Answers(d)' = Answers(d)
  BY <1>2 DEF Answers
<1>5. \A d \in Board : /\ Pending(d) = Queued(d) \cup {r.command : r \in Answers(d)}
                       /\ Pending(d)' = Queued(d)' \cup {r.command : r \in Answers(d)'}
  BY DEF Pending, Queued, Answers
<1>6. c \in Command /\ c \in Pending(b)
  BY HeadAnswer
<1>7. \E r \in Answers(b) : r.command = c /\ r.ok = ok
  BY <1>3
<1>8. \A d \in Board : commands'[d] = commands[d] => Queued(d)' = Queued(d)
  BY DEF Queued
<1>9. \A d \in Board, x \in Command : commands'[d] = Append(commands[d], x) =>
         Queued(d)' = Queued(d) \cup {x}
  BY <1>1, AppendElements DEF Queued
<1> QED
  BY <1>3, <1>4, <1>5, <1>6, <1>7, <1>8, <1>9 DEF Left, QueuesAfter

\* Submitting to one queue leaves the other.
LEMMA SubmitOne ==
    ASSUME Typed, NEW b \in Board, NEW x, Submit(b, x)
    PROVE  /\ commands'[b] = Append(commands[b], x)
           /\ \A d \in Board : d # b => commands'[d] = commands[d]
BY DEF Typed, Submit

\* A vehicle's turn.
LEMMA TidyTurn ==
    ASSUME IInv, Tidy, NEW v \in Vehicle, StepVehicle(v)
    PROVE  Tidy'
<1>1. Typed /\ vehicles \in [Vehicle -> VehicleState]
  BY DEF IInv, Typed
<1>2. PICK u \in VehicleState : Turn(v, u)
  BY TurnOf
<1>3. /\ UNCHANGED <<results, slots, faults, port, ui>>
      /\ vehicles[v].state \in {"connected", "disconnected"}
  BY TurnOf
<1> SUFFICES ASSUME Undisturbed', Undisturbed
             PROVE  /\ \A w \in Vehicle : /\ ~vehicles'[w].retry_at
                                          /\ vehicles'[w].at = None => vehicles'[w].state = "connecting"
                    /\ \A b \in Board : \A c \in Pending(b)' : c.kind = "open" =>
                          \A w \in Vehicle : vehicles'[w].id = c.vid =>
                             \/ c.reason = "entry" /\ vehicles'[w].at = None
                             \/ c.reason = "handover" /\ vehicles'[w].state = "handover"
                    /\ \A b \in Board : \A s \in Slot : slots[b][s] # None => InHand(b, s)'
  <2>1. Undisturbed' => Undisturbed
    BY <1>2, <1>3 DEF Undisturbed, Turn, Replaced, Requested, GoesOff, DrivesOn
  <2>2. \A b \in Board : Answers(b)' = Answers(b)
    BY <1>3 DEF Answers
  <2> QED
    BY <1>3, <2>1, <2>2 DEF Tidy
<1>4. /\ ~vehicles[v].retry_at /\ vehicles[v].at # None
      /\ \A w \in Vehicle : /\ ~vehicles[w].retry_at
                            /\ vehicles[w].at = None => vehicles[w].state = "connecting"
      /\ \A b \in Board : \A c \in Pending(b) : c.kind = "open" =>
            \A w \in Vehicle : vehicles[w].id = c.vid =>
               \/ c.reason = "entry" /\ vehicles[w].at = None
               \/ c.reason = "handover" /\ vehicles[w].state = "handover"
      /\ \A b \in Board : \A s \in Slot : slots[b][s] # None => InHand(b, s)
  BY <1>3 DEF Tidy
<1>5. PICK r \in VehicleState :
         /\ Puts(v, r) /\ r.id = vehicles[v].id /\ r.at = vehicles[v].at /\ ~r.retry_at
         /\ \/ \E s \in Slot :
                  /\ Submit(FarBoard(v), Order("open", vehicles[v].id, s, "handover"))
                  /\ r.state = "handover"
            \/ /\ r.state = "exiting"
               /\ Submit(r.at.board, Order("leave", r.id, r.at.slot, "exit"))
            \/ /\ r.state = vehicles[v].state
               /\ SubmitData(v, r) \/ UNCHANGED commands
  <2>1. CASE Requested(v, u, FarBoard(v), "handover") /\ u.retry_at = vehicles[v].retry_at
    BY <1>2, <1>4, <2>1 DEF Turn, Requested, Undisturbed
  <2>2. CASE GoesOff(v, u) /\ u.retry_at = vehicles[v].retry_at
    BY <1>2, <1>4, <2>2 DEF Turn, GoesOff
  <2>3. CASE DrivesOn(v, u) /\ u.retry_at = vehicles[v].retry_at
    BY <1>2, <1>4, <2>3 DEF Turn, DrivesOn
  <2> QED
    BY <1>2, <1>4, <2>1, <2>2, <2>3 DEF Turn
<1>6. /\ vehicles'[v] = r /\ \A w \in Vehicle : w # v => vehicles'[w] = vehicles[w]
      /\ \A w \in Vehicle : vehicles'[w].id = vehicles[w].id
  BY <1>1, <1>5 DEF Puts
<1>7. /\ FarBoard(v) \in Board /\ r.at.board \in Board /\ r.at.slot \in Slot /\ r.id \in Nat
      /\ vehicles[v].id \in Nat
  BY <1>1, <1>4, <1>5 DEF FarBoard, Board, VehicleState, Session
<1>8. \A b \in Board : \A s \in Slot :
         Uses(v, b, s) => b = r.at.board /\ s = r.at.slot /\ r.at = SessionAt(b, s)
  BY <1>5 DEF Uses, SessionAt
<1>9. \A b \in Board : \A s \in Slot : \A w \in Vehicle :
         w # v /\ Uses(w, b, s) => Uses(w, b, s)'
  BY <1>6 DEF Uses
<1>10. \A b \in Board : \A c \in Pending(b) : c.kind = "open" => c.vid # vehicles[v].id
  BY <1>3, NotAsking
<1>11. \A w \in Vehicle : w # v => vehicles[w].id # vehicles[v].id
  BY DEF IInv, IdsDiffer
<1>12. ASSUME \A b \in Board : /\ Answers(b)' = Answers(b) /\ Queued(b) \subseteq Queued(b)'
                               /\ Pending(b) \subseteq Pending(b)',
              NEW b \in Board, NEW s \in Slot, slots[b][s] # None,
              Uses(v, b, s) => InHand(b, s)'
       PROVE  InHand(b, s)'
  <2>1. InHand(b, s)
    BY <1>4, <1>12
  <2> QED
    BY <1>9, <1>12, <2>1 DEF InHand
<1>13. CASE \E s \in Slot : /\ Submit(FarBoard(v), Order("open", vehicles[v].id, s, "handover"))
                            /\ r.state = "handover"
  <2>1. PICK s \in Slot : /\ Submit(FarBoard(v), Order("open", vehicles[v].id, s, "handover"))
                          /\ r.state = "handover"
    BY <1>13
  <2>2. PICK x \in Command : x = Order("open", vehicles[v].id, s, "handover")
    BY <1>7, OrderType
  <2>3. x.kind = "open" /\ x.vid = vehicles[v].id /\ x.reason = "handover"
    BY <2>2, OrderFields
  <2>4. /\ \A d \in Board : /\ Answers(d)' = Answers(d) /\ Queued(d) \subseteq Queued(d)'
                            /\ Pending(d) \subseteq Pending(d)'
                            /\ Pending(d)' \subseteq Pending(d) \cup {x}
    BY <1>1, <1>3, <1>7, <2>1, <2>2, SubmittedTo
  <2>5. \A b \in Board : \A t \in Slot : Uses(v, b, t) => Uses(v, b, t)'
    BY <1>5, <1>6, <2>1 DEF Uses
  <2>6. \A b \in Board : \A t \in Slot : slots[b][t] # None => InHand(b, t)'
    BY <1>12, <2>4, <2>5 DEF InHand
  <2>7. \A b \in Board : \A c \in Pending(b)' : c.kind = "open" =>
           \A w \in Vehicle : vehicles'[w].id = c.vid =>
              \/ c.reason = "entry" /\ vehicles'[w].at = None
              \/ c.reason = "handover" /\ vehicles'[w].state = "handover"
    BY <1>4, <1>6, <1>10, <1>11, <2>1, <2>3, <2>4
  <2> QED
    BY <1>4, <1>5, <1>6, <2>6, <2>7
<1>14. CASE r.state = "exiting" /\ Submit(r.at.board, Order("leave", r.id, r.at.slot, "exit"))
  <2>1. PICK x \in Command : x = Order("leave", r.id, r.at.slot, "exit")
    BY <1>7, OrderType
  <2>2. x.kind = "leave" /\ x.slot = r.at.slot
    BY <2>1, OrderFields
  <2>3. /\ \A d \in Board : /\ Answers(d)' = Answers(d) /\ Queued(d) \subseteq Queued(d)'
                            /\ Pending(d) \subseteq Pending(d)'
                            /\ Pending(d)' \subseteq Pending(d) \cup {x}
        /\ x \in Queued(r.at.board)'
    BY <1>1, <1>3, <1>7, <1>14, <2>1, SubmittedTo
  <2>4. \A b \in Board : \A t \in Slot : Uses(v, b, t) => InHand(b, t)'
    BY <1>8, <2>2, <2>3 DEF InHand
  <2>5. \A b \in Board : \A t \in Slot : slots[b][t] # None => InHand(b, t)'
    BY <1>12, <2>3, <2>4
  <2>6. \A b \in Board : \A c \in Pending(b)' : c.kind = "open" =>
           \A w \in Vehicle : vehicles'[w].id = c.vid =>
              \/ c.reason = "entry" /\ vehicles'[w].at = None
              \/ c.reason = "handover" /\ vehicles'[w].state = "handover"
    BY <1>4, <1>6, <1>10, <2>2, <2>3
  <2> QED
    BY <1>4, <1>5, <1>6, <2>5, <2>6
<1>15. CASE r.state = vehicles[v].state /\ (SubmitData(v, r) \/ UNCHANGED commands)
  <2>1. \A d \in Board : /\ Answers(d)' = Answers(d) /\ Queued(d) \subseteq Queued(d)'
                         /\ Pending(d) \subseteq Pending(d)'
                         /\ \A c \in Pending(d)' : c.kind = "open" => c \in Pending(d)
    <3>1. CASE SubmitData(v, r)
      <4>1. PICK x \in Command : x = Order("data", r.id, r.at.slot, "telemetry")
        BY <1>7, OrderType
      <4>2. x.kind = "data"
        BY <4>1, OrderFields
      <4>3. Submit(r.at.board, x)
        BY <3>1, <4>1 DEF SubmitData
      <4>4. \A d \in Board : Pending(d)' \subseteq Pending(d) \cup {x}
        BY <1>1, <1>3, <1>7, <4>3, SubmittedTo
      <4> QED
        BY <1>1, <1>3, <1>7, <4>2, <4>3, <4>4, SubmittedTo
    <3>2. CASE UNCHANGED commands
      BY <1>1, <1>3, <3>2, Grown
    <3> QED
      BY <1>15, <3>1, <3>2
  <2>2. \A b \in Board : \A t \in Slot : Uses(v, b, t) => Uses(v, b, t)'
    BY <1>5, <1>6, <1>15 DEF Uses
  <2>3. \A b \in Board : \A t \in Slot : slots[b][t] # None => InHand(b, t)'
    BY <1>12, <2>1, <2>2 DEF InHand
  <2>4. \A b \in Board : \A c \in Pending(b)' : c.kind = "open" =>
           \A w \in Vehicle : vehicles'[w].id = c.vid =>
              \/ c.reason = "entry" /\ vehicles'[w].at = None
              \/ c.reason = "handover" /\ vehicles'[w].state = "handover"
    BY <1>4, <1>6, <1>10, <2>1
  <2> QED
    BY <1>4, <1>5, <1>6, <2>3, <2>4
<1> QED
  BY <1>5, <1>13, <1>14, <1>15

\* A command that is answered stays pending.
LEMMA AnsweredPending ==
    ASSUME Typed, NEW b \in Board, commands[b] # <<>>, NEW c, c = Head(commands[b]),
           NEW ok \in BOOLEAN,
           commands' = [commands EXCEPT ![b] = Tail(@)],
           results' = [results EXCEPT ![b] = Append(@, Answer(c, ok))]
    PROVE  /\ c \in Queued(b) /\ c \in Pending(b) /\ c \in Command
           /\ \A d \in Board : Pending(d)' = Pending(d)
<1>1. commands \in [Board -> Seq(Command)] /\ results \in [Board -> Seq(Result)]
  BY DEF Typed
<1>2. /\ c \in Command /\ Answer(c, ok) \in Result /\ Answer(c, ok).command = c
  <2>1. c \in Command
    BY <1>1, TailElements
  <2> QED
    BY <2>1 DEF Answer, Result
<1>3. /\ commands'[b] = Tail(commands[b]) /\ results'[b] = Append(results[b], Answer(c, ok))
      /\ \A d \in Board : d # b => commands'[d] = commands[d] /\ results'[d] = results[d]
  BY <1>1
<1>4. Queued(b) = Queued(b)' \cup {c} /\ Answers(b)' = Answers(b) \cup {Answer(c, ok)}
  BY <1>1, <1>2, <1>3, TailElements, AppendElements DEF Queued, Answers
<1>5. \A d \in Board : /\ Pending(d) = Queued(d) \cup {r.command : r \in Answers(d)}
                       /\ Pending(d)' = Queued(d)' \cup {r.command : r \in Answers(d)'}
  BY DEF Pending, Queued, Answers
<1>6. {r.command : r \in Answers(b)'} = {r.command : r \in Answers(b)} \cup {c}
  BY <1>2, <1>4
<1>7. Pending(b)' = Pending(b)
  <2>1. Pending(b) = (Queued(b)' \cup {c}) \cup {r.command : r \in Answers(b)}
    BY <1>4, <1>5
  <2>2. Pending(b)' = Queued(b)' \cup ({r.command : r \in Answers(b)} \cup {c})
    BY <1>5, <1>6
  <2> QED
    BY <2>1, <2>2
<1>8. \A d \in Board : d # b => Pending(d)' = Pending(d)
  BY <1>3 DEF Pending
<1> QED
  BY <1>2, <1>4, <1>5, <1>7, <1>8

\* An answer is collected.
LEMMA TidyCollect ==
    ASSUME IInv, Tidy, NEW b \in Board, Collect(b)
    PROVE  Tidy'
<1>1. Typed /\ vehicles \in [Vehicle -> VehicleState]
  BY DEF IInv, Typed
<1>2. PICK c : c = Head(results[b]).command
  OBVIOUS
<1>3. PICK ok : ok = Head(results[b]).ok
  OBVIOUS
<1>4. /\ UNCHANGED <<slots, faults, port, ui>> /\ ui = "loop" /\ Collection(b, c, ok)
      /\ results[b] # <<>> /\ results' = [results EXCEPT ![b] = Tail(@)]
  BY <1>2, <1>3, CollectionOf
<1>5. /\ \A d \in Board : /\ Answers(d)' \subseteq Answers(d)
                          /\ Left(d) \subseteq Pending(d) /\ Queued(d) \subseteq Left(d)
                          /\ d # b => Left(d) = Pending(d)
      /\ \A d \in Board : commands'[d] = commands[d] =>
            Queued(d)' = Queued(d) /\ Pending(d)' = Left(d)
      /\ \A d \in Board, x \in Command : commands'[d] = Append(commands[d], x) =>
            Queued(d)' = Queued(d) \cup {x} /\ Pending(d)' = Left(d) \cup {x}
      /\ Pending(b) = Left(b) \cup {c}
      /\ \E r \in Answers(b) : r.command = c /\ r.ok = ok
      /\ c \in Command /\ c \in Pending(b)
  <2>1. QueuesAfter(b, c, ok)
    BY <1>2, <1>3, <1>4, CollectedFrom
  <2> QED
    BY <2>1 DEF QueuesAfter
<1> SUFFICES ASSUME Undisturbed', Undisturbed
             PROVE  /\ \A w \in Vehicle : /\ ~vehicles'[w].retry_at
                                          /\ vehicles'[w].at = None => vehicles'[w].state = "connecting"
                    /\ \A d \in Board : \A e \in Pending(d)' : e.kind = "open" =>
                          \A w \in Vehicle : vehicles'[w].id = e.vid =>
                             \/ e.reason = "entry" /\ vehicles'[w].at = None
                             \/ e.reason = "handover" /\ vehicles'[w].state = "handover"
                    /\ \A d \in Board : \A s \in Slot : slots[d][s] # None => InHand(d, s)'
  <2>1. Undisturbed' => Undisturbed
    BY <1>4 DEF Undisturbed, Collection, TakesOver, Replaced, Requested
  <2> QED
    BY <1>4, <1>5, <2>1 DEF Tidy
<1>6. /\ \A d \in Board : \A r \in Answers(d) : r.command.kind \in {"open", "leave"} => r.ok
      /\ \A w \in Vehicle : /\ ~vehicles[w].retry_at
                            /\ vehicles[w].at = None => vehicles[w].state = "connecting"
      /\ \A d \in Board : \A e \in Pending(d) : e.kind = "open" =>
            \A w \in Vehicle : vehicles[w].id = e.vid =>
               \/ e.reason = "entry" /\ vehicles[w].at = None
               \/ e.reason = "handover" /\ vehicles[w].state = "handover"
      /\ \A d \in Board : \A s \in Slot : slots[d][s] # None => InHand(d, s)
  BY <1>4 DEF Tidy
<1>7. \A v, w \in Vehicle : w # v => vehicles[w].id # vehicles[v].id
  BY DEF IInv, IdsDiffer
\* What a slot is in the hand of, once the answer is taken.
<1>8. ASSUME NEW d \in Board, NEW s \in Slot, slots[d][s] # None,
             Queued(d) \subseteq Queued(d)', Left(d) \subseteq Pending(d)',
             \A w \in Vehicle : Uses(w, d, s) => InHand(d, s)',
             d = b /\ c.kind = "open" /\ c.slot = s => InHand(d, s)'
      PROVE  InHand(d, s)'
  <2>1. InHand(d, s)
    BY <1>6, <1>8
  <2>2. CASE \E w \in Vehicle : Uses(w, d, s)
    BY <1>8, <2>2
  <2>3. CASE \E e \in Pending(d) : e.kind = "open" /\ e.slot = s
    <3>1. PICK e \in Pending(d) : e.kind = "open" /\ e.slot = s
      BY <2>3
    <3>2. CASE e \in Left(d)
      BY <1>8, <3>1, <3>2 DEF InHand
    <3>3. CASE e \notin Left(d)
      BY <1>5, <1>8, <3>1, <3>3
    <3> QED
      BY <3>2, <3>3
  <2>4. CASE \E e \in Queued(d) : e.kind = "leave" /\ e.slot = s
    BY <1>8, <2>4 DEF InHand
  <2> QED
    BY <1>6, <2>1, <2>2, <2>3, <2>4 DEF InHand
<1>9. ASSUME NEW v \in Vehicle, TakesOver(v, b, c), c.kind = "open"
      PROVE  /\ \A w \in Vehicle : /\ ~vehicles'[w].retry_at
                                   /\ vehicles'[w].at = None => vehicles'[w].state = "connecting"
             /\ \A d \in Board : \A e \in Pending(d)' : e.kind = "open" =>
                   \A w \in Vehicle : vehicles'[w].id = e.vid =>
                      \/ e.reason = "entry" /\ vehicles'[w].at = None
                      \/ e.reason = "handover" /\ vehicles'[w].state = "handover"
             /\ \A d \in Board : \A s \in Slot : slots[d][s] # None => InHand(d, s)'
  <2>1. PICK r \in VehicleState :
           /\ Puts(v, r) /\ r.id = c.vid /\ r.at = SessionAt(b, c.slot) /\ r.old = None
           /\ r.retry_at = vehicles[v].retry_at /\ r.state = "connected"
    BY <1>9 DEF TakesOver
  <2>2. /\ vehicles'[v] = r /\ \A w \in Vehicle : w # v => vehicles'[w] = vehicles[w]
        /\ vehicles[v].id = c.vid
    BY <1>1, <1>9, <2>1 DEF Puts, TakesOver
  <2>3. c.slot \in Slot /\ r.at # None /\ c.vid \in Nat
    BY <1>5, <1>9, <2>1, RealSession DEF Command
  <2>4. \/ c.reason = "entry" /\ vehicles[v].at = None
        \/ c.reason = "handover" /\ vehicles[v].state = "handover"
    BY <1>5, <1>6, <1>9, <2>2
  <2>5. /\ \A d \in Board : /\ Queued(d) \subseteq Queued(d)' /\ Left(d) \subseteq Pending(d)'
                            /\ \A e \in Pending(d)' : e.kind = "open" => e \in Left(d)
        /\ \A d \in Board : \A s \in Slot : Uses(v, d, s) => InHand(d, s)'
    <3>1. CASE c.reason = "entry" /\ vehicles[v].at = None
      <4>1. UNCHANGED commands
        BY <1>9, <3>1 DEF TakesOver, Releases
      <4>2. \A d \in Board : \A s \in Slot : ~Uses(v, d, s)
        BY <3>1, RealSession DEF Uses
      <4> QED
        BY <1>5, <4>1, <4>2
    <3>2. CASE c.reason = "handover" /\ vehicles[v].state = "handover"
      <4>1. vehicles[v].old # None /\ vehicles[v].old = vehicles[v].at
        BY <3>2 DEF IInv, Kept
      <4>2. PICK d \in Board, s \in Slot : vehicles[v].old = SessionAt(d, s)
        BY <1>1, <4>1 DEF VehicleState, Session, SessionAt
      <4>3. vehicles[v].old.board = d /\ vehicles[v].old.slot = s
        BY <4>2 DEF SessionAt
      <4>4. PICK x \in Command : x = Order("leave", c.vid, s, "handover_old")
        BY <2>3, OrderType
      <4>5. x.kind = "leave" /\ x.slot = s
        BY <4>4, OrderFields
      <4>6. Submit(d, x)
        BY <1>9, <3>2, <4>1, <4>3, <4>4 DEF TakesOver, Releases
      <4>7. /\ commands'[d] = Append(commands[d], x)
            /\ \A e \in Board : e # d => commands'[e] = commands[e]
        BY <1>1, <4>6, SubmitOne
      <4>8. \A e \in Board : \A t \in Slot : Uses(v, e, t) => e = d /\ t = s
        <5> SUFFICES ASSUME NEW e \in Board, NEW t \in Slot, Uses(v, e, t) PROVE e = d /\ t = s
          OBVIOUS
        <5>1. vehicles[v].old = SessionAt(e, t)
          BY <4>1 DEF Uses
        <5>2. vehicles[v].old.board = e /\ vehicles[v].old.slot = t
          BY <5>1 DEF SessionAt
        <5> QED
          BY <4>3, <5>2
      <4>9. x \in Queued(d)'
        BY <1>5, <4>7
      <4>10. \A e \in Board : \A t \in Slot : Uses(v, e, t) => InHand(e, t)'
        BY <4>5, <4>8, <4>9 DEF InHand
      <4> QED
        BY <1>5, <4>5, <4>7, <4>10
    <3> QED
      BY <2>4, <3>1, <3>2
  <2>6. \A d \in Board : \A s \in Slot : \A w \in Vehicle :
           w # v /\ Uses(w, d, s) => Uses(w, d, s)'
    BY <2>2 DEF Uses
  <2>7. Uses(v, b, c.slot)'
    BY <2>1, <2>2 DEF Uses
  <2>8. \A d \in Board : \A s \in Slot : slots[d][s] # None => InHand(d, s)'
    BY <1>8, <2>5, <2>6, <2>7 DEF InHand
  <2>9. \A d \in Board : \A e \in Left(d) : e.kind = "open" => e.vid # c.vid
    BY <1>2, <1>4, <1>9, HeadAnswer DEF IsOrder
  <2>10. \A d \in Board : \A e \in Pending(d)' : e.kind = "open" =>
            \A w \in Vehicle : vehicles'[w].id = e.vid =>
               \/ e.reason = "entry" /\ vehicles'[w].at = None
               \/ e.reason = "handover" /\ vehicles'[w].state = "handover"
    BY <1>5, <1>6, <2>1, <2>2, <2>5, <2>9
  <2> QED
    BY <1>6, <2>1, <2>2, <2>3, <2>8, <2>10
<1>10. ASSUME NEW v \in Vehicle, vehicles[v].state = "exiting", Replaced(v), c.kind = "leave"
       PROVE  /\ \A w \in Vehicle : /\ ~vehicles'[w].retry_at
                                    /\ vehicles'[w].at = None => vehicles'[w].state = "connecting"
              /\ \A d \in Board : \A e \in Pending(d)' : e.kind = "open" =>
                    \A w \in Vehicle : vehicles'[w].id = e.vid =>
                       \/ e.reason = "entry" /\ vehicles'[w].at = None
                       \/ e.reason = "handover" /\ vehicles'[w].state = "handover"
              /\ \A d \in Board : \A s \in Slot : slots[d][s] # None => InHand(d, s)'
  <2>1. PICK u \in VehicleState :
           /\ \A w \in Vehicle : w # v => vehicles[w].id # u.id
           /\ u.at = None /\ ~u.retry_at /\ Requested(v, u, NearBoard(v), "entry")
    BY <1>10 DEF Replaced
  <2>2. PICK s \in Slot : Submit(NearBoard(v), Order("open", u.id, s, "entry"))
    BY <2>1 DEF Requested, Undisturbed
  <2>3. PICK r \in VehicleState : /\ Puts(v, r) /\ r.id = u.id /\ r.at = None /\ ~r.retry_at
                                  /\ r.state = "connecting"
    BY <2>1 DEF Requested, Undisturbed
  <2>4. vehicles'[v] = r /\ \A w \in Vehicle : w # v => vehicles'[w] = vehicles[w]
    BY <1>1, <2>3 DEF Puts
  <2>5. PICK x \in Command : x = Order("open", u.id, s, "entry")
    BY OrderType DEF VehicleState
  <2>6. x.kind = "open" /\ x.vid = u.id /\ x.reason = "entry"
    BY <2>5, OrderFields
  <2>7. NearBoard(v) \in Board
    BY DEF NearBoard, Board
  <2>8. /\ commands'[NearBoard(v)] = Append(commands[NearBoard(v)], x)
        /\ \A d \in Board : d # NearBoard(v) => commands'[d] = commands[d]
    BY <1>1, <2>2, <2>5, <2>7, SubmitOne
  <2>9. \A d \in Board : /\ Queued(d) \subseteq Queued(d)' /\ Left(d) \subseteq Pending(d)'
                         /\ Pending(d)' \subseteq Left(d) \cup {x}
    BY <1>5, <2>7, <2>8
  <2>10. \A d \in Board : \A t \in Slot : \A w \in Vehicle : Uses(w, d, t) => Uses(w, d, t)'
    BY <1>10, <2>4 DEF Uses
  <2>11. \A d \in Board : \A t \in Slot : slots[d][t] # None => InHand(d, t)'
    BY <1>8, <1>10, <2>9, <2>10 DEF InHand
  <2>12. ASSUME NEW d \in Board, NEW e \in Left(d), e.kind = "open"
         PROVE  e.vid # u.id /\ e.vid # vehicles[v].id
    <3>1. e \in Pending(d)
      BY <1>5
    <3>2. PICK w \in Vehicle : /\ vehicles[w].id = e.vid
                               /\ vehicles[w].state \in {"connecting", "handover"}
      BY <2>12, <3>1 DEF IInv, Owned, IsOrder
    <3>3. w # v
      BY <1>10, <3>2
    <3> QED
      BY <1>7, <2>1, <3>2, <3>3
  <2>13. \A d \in Board : \A e \in Pending(d)' : e.kind = "open" =>
            \A w \in Vehicle : vehicles'[w].id = e.vid =>
               \/ e.reason = "entry" /\ vehicles'[w].at = None
               \/ e.reason = "handover" /\ vehicles'[w].state = "handover"
    BY <1>5, <1>6, <2>1, <2>3, <2>4, <2>6, <2>9, <2>12
  <2> QED
    BY <1>6, <2>3, <2>4, <2>11, <2>13
<1>11. CASE c.kind # "open" /\ UNCHANGED <<vehicles, commands, full>>
  <2>1. \A d \in Board : Queued(d)' = Queued(d) /\ Pending(d)' = Left(d)
    BY <1>5, <1>11
  <2>2. \A d \in Board : \A s \in Slot : \A w \in Vehicle : Uses(w, d, s) => Uses(w, d, s)'
    BY <1>11 DEF Uses
  <2>3. \A d \in Board : \A s \in Slot : slots[d][s] # None => InHand(d, s)'
    BY <1>8, <1>11, <2>1, <2>2 DEF InHand
  <2> QED
    BY <1>5, <1>6, <1>11, <2>1, <2>3
<1>12. c.kind \in {"open", "leave"} => ok
  BY <1>5, <1>6
<1> QED
  BY <1>4, <1>9, <1>10, <1>11, <1>12 DEF Collection

\* A worker answers a command.
LEMMA TidyWork ==
    ASSUME IInv, Rest, Tidy, NEW b \in Board, Work(b)
    PROVE  Tidy'
<1>1. Typed /\ vehicles \in [Vehicle -> VehicleState] /\ faults \in Nat
  <2>1. faults \in 0 .. MAX_FAULTS
    BY Zenon DEF Rest
  <2>2. MAX_FAULTS \in Nat
    BY HandoverAssumption, Zenon
  <2> QED
    BY <2>1, <2>2 DEF IInv, Typed
<1>2. PICK c : c = Head(commands[b])
  OBVIOUS
<1>3. /\ commands[b] # <<>> /\ commands' = [commands EXCEPT ![b] = Tail(@)]
      /\ UNCHANGED <<vehicles, full, port, ui>>
  BY DEF Work, controller
<1>4. /\ commands \in [Board -> Seq(Command)] /\ results \in [Board -> Seq(Result)]
      /\ slots \in [Board -> [Slot -> Nat \cup {None}]]
  BY <1>1 DEF Typed
<1>5. /\ commands'[b] = Tail(commands[b])
      /\ \A d \in Board : d # b => commands'[d] = commands[d]
  BY <1>3, <1>4
<1>6. /\ Queued(b) = Queued(b)' \cup {c} /\ c \in Command /\ c \in Queued(b)
      /\ \A d \in Board : d # b => Queued(d)' = Queued(d)
  BY <1>2, <1>3, <1>4, <1>5, TailElements DEF Queued
<1>7. \A d \in Board : \A s \in Slot : \A w \in Vehicle : Uses(w, d, s) => Uses(w, d, s)'
  BY <1>3 DEF Uses
<1>8. CASE c.kind = "stop" /\ UNCHANGED <<results, slots, faults>>
  <2>1. \A d \in Board : Answers(d)' = Answers(d)
    BY <1>8 DEF Answers
  <2>2. \A d \in Board : /\ Pending(d) = Queued(d) \cup {r.command : r \in Answers(d)}
                         /\ Pending(d)' = Queued(d)' \cup {r.command : r \in Answers(d)'}
    BY DEF Pending, Queued, Answers
  <2>3. \A d \in Board : /\ Pending(d)' \subseteq Pending(d)
                         /\ \A e \in Pending(d) : e.kind # "stop" => e \in Pending(d)'
                         /\ \A e \in Queued(d) : e.kind # "stop" => e \in Queued(d)'
    BY <1>6, <1>8, <2>1, <2>2
  <2>4. \A d \in Board : \A s \in Slot : InHand(d, s) => InHand(d, s)'
    BY <1>7, <2>1, <2>3 DEF InHand
  <2> QED
    BY <1>3, <1>8, <2>1, <2>3, <2>4 DEF Tidy, Undisturbed
<1>9. ASSUME NEW ok \in BOOLEAN,
             IF ok THEN CanWork(b, c) ELSE CanFail(b, c),
             faults' = IF ~ok /\ CanWork(b, c) THEN faults + 1 ELSE faults,
             slots' = SlotsAfter(b, c, ok),
             results' = [results EXCEPT ![b] = Append(@, Answer(c, ok))]
      PROVE  Tidy'
  <2>1. \A d \in Board : Pending(d)' = Pending(d)
    BY <1>1, <1>2, <1>3, <1>9, AnsweredPending
  <2> DEFINE a == Answer(c, ok)
  <2>2. a \in Result /\ a.command = c /\ a.ok = ok
    BY <1>6 DEF Answer, Result
  <2>3. /\ results'[b] = Append(results[b], a)
        /\ \A d \in Board : d # b => results'[d] = results[d]
    BY <1>4, <1>9
  <2> HIDE DEF a
  <2>4. /\ Answers(b)' = Answers(b) \cup {a}
        /\ \A d \in Board : d # b => Answers(d)' = Answers(d)
    BY <1>4, <2>2, <2>3, AppendElements DEF Answers
  <2> SUFFICES ASSUME Undisturbed', Undisturbed, ok \/ ~CanWork(b, c)
               PROVE  Tidy'
    BY <1>1, <1>3, <1>9 DEF Tidy, Undisturbed
  <2>5. /\ ui = "loop" => port[b] = "open"
        /\ ui = "loop" => \A d \in Board : \A r \in Answers(d) :
                             r.command.kind \in {"open", "leave"} => r.ok
        /\ \A d \in Board : \A s \in Slot : slots[d][s] # None => InHand(d, s)
    BY DEF Tidy
  <2>6. ui = "loop" /\ c.kind \in {"open", "leave"} => ok
    <3> SUFFICES ASSUME ui = "loop", c.kind \in {"open", "leave"} PROVE CanWork(b, c)
      OBVIOUS
    <3>1. c.kind = "open" => slots[b][c.slot] = None
      BY <1>6 DEF IInv, Opened
    <3>2. c.kind = "leave" => slots[b][c.slot] = c.vid /\ c.vid # None
      BY <1>6, HandoverAssumption DEF IInv, GivenUp, Command
    <3> QED
      BY <2>5, <3>1, <3>2 DEF CanWork
  <2>7. ui = "loop" => \A d \in Board : \A r \in Answers(d)' :
                          r.command.kind \in {"open", "leave"} => r.ok
    BY <2>2, <2>4, <2>5, <2>6
  <2>8. ASSUME NEW d \in Board, NEW s \in Slot, slots'[d][s] # None PROVE InHand(d, s)'
    <3>1. c.kind \in {"open", "leave"} => c.slot \in Slot
      BY <1>6 DEF Command
    <3>2. CASE slots[d][s] = None
      <4>1. d = b /\ c.kind = "open" /\ c.slot = s
        BY <1>4, <1>9, <2>8, <3>1, <3>2 DEF SlotsAfter
      <4>2. c \in Pending(b)'
        BY <1>1, <1>6, <2>1, PendingType
      <4> QED
        BY <4>1, <4>2 DEF InHand
    <3>3. CASE slots[d][s] # None
      <4>1. InHand(d, s)
        BY <2>5, <3>3
      <4>2. CASE \E w \in Vehicle : Uses(w, d, s)
        BY <1>7, <4>2 DEF InHand
      <4>3. CASE \E e \in Pending(d) : e.kind = "open" /\ e.slot = s
        BY <2>1, <4>3 DEF InHand
      <4>4. CASE \E e \in Queued(d) : e.kind = "leave" /\ e.slot = s
        <5>1. PICK e \in Queued(d) : e.kind = "leave" /\ e.slot = s
          BY <4>4
        <5>2. CASE e \in Queued(d)'
          BY <5>1, <5>2 DEF InHand
        <5>3. CASE e \notin Queued(d)'
          <6>1. d = b /\ e = c
            BY <1>6, <5>1, <5>3
          <6>2. ~ok
            BY <1>4, <1>9, <2>8, <5>1, <6>1 DEF SlotsAfter
          <6>3. a \in Answers(d)' /\ a.command.kind = "leave" /\ ~a.ok /\ a.command.slot = s
            BY <2>2, <2>4, <5>1, <6>1, <6>2
          <6> QED
            BY <6>3 DEF InHand
        <5> QED
          BY <5>2, <5>3
      <4>5. CASE \E r \in Answers(d) : r.command.kind = "leave" /\ ~r.ok /\ r.command.slot = s
        BY <2>4, <4>5 DEF InHand
      <4> QED
        BY <4>1, <4>2, <4>3, <4>4, <4>5 DEF InHand
    <3> QED
      BY <3>2, <3>3
  <2> QED
    BY <1>3, <2>1, <2>7, <2>8 DEF Tidy
<1>10. \/ c.kind = "stop" /\ UNCHANGED <<results, slots, faults>>
       \/ \E ok \in BOOLEAN :
             /\ IF ok THEN CanWork(b, c) ELSE CanFail(b, c)
             /\ faults' = IF ~ok /\ CanWork(b, c) THEN faults + 1 ELSE faults
             /\ slots' = SlotsAfter(b, c, ok)
             /\ results' = [results EXCEPT ![b] = Append(@, Answer(c, ok))]
  BY <1>2, Zenon DEF Work
<1> QED
  BY <1>8, <1>9, <1>10

\* A step that hands nothing over: a packet, a timing, a pause, the closing window.
Idle == /\ UNCHANGED <<vehicles, slots, results, faults, full>>
        /\ ui' = "loop" => ui = "loop" /\ port' = port
        /\ \/ UNCHANGED commands
           \/ \E b \in Board, x \in Command : x.kind \in Aside /\ Submit(b, x)

\* Every step is a vehicle's turn, a collection, an answer of a worker, or one of these.
LEMMA IdleOf ==
    ASSUME IInv, [Next]_vars
    PROVE  \/ \E v \in Vehicle : StepVehicle(v)
           \/ \E b \in Board : Collect(b) \/ Work(b)
           \/ Idle
<1>1. /\ [kind |-> "swkem"] \in Command /\ [kind |-> "swkem"].kind \in Aside
      /\ [kind |-> "stop"] \in Command /\ [kind |-> "stop"].kind \in Aside
      /\ "A" \in Board /\ "B" \in Board
  BY DEF Command, Aside, Board
<1>2. ASSUME NEW v \in Vehicle, Attack(v) PROVE Idle
  <2>1. UNCHANGED <<vehicles, slots, results, faults, full, ui, port>>
    BY <1>2 DEF Attack, controller, workers
  <2>2. vehicles[v] \in VehicleState /\ SubmitData(v, vehicles[v])
    BY <1>2 DEF IInv, Typed, Attack
  <2>3. /\ vehicles[v].at.board \in Board /\ vehicles[v].at.slot \in Slot
        /\ vehicles[v].id \in Nat
    BY <2>2 DEF SubmitData, VehicleState, Session
  <2>4. PICK x \in Command :
           x = Order("data", vehicles[v].id, vehicles[v].at.slot, "telemetry")
    BY <2>3, OrderType
  <2>5. x.kind \in Aside
    BY <2>4, OrderFields DEF Aside
  <2>6. Submit(vehicles[v].at.board, x)
    BY <2>2, <2>4 DEF SubmitData
  <2> QED
    BY <2>1, <2>3, <2>5, <2>6 DEF Idle
<1>3. ASSUME NEW b \in Board, ScheduleSwkem(b) PROVE Idle
  <2>1. /\ UNCHANGED <<vehicles, slots, results, faults, full, ui, port>>
        /\ Submit(b, [kind |-> "swkem"])
    BY <1>3 DEF ScheduleSwkem, controller, workers
  <2> QED
    BY <1>1, <2>1 DEF Idle
<1>4. CASE ToggleRunning \/ UNCHANGED vars
  <2>1. UNCHANGED <<vehicles, slots, results, faults, full, ui, port, commands>>
    BY <1>4 DEF ToggleRunning, vars, controller, workers
  <2> QED
    BY <2>1 DEF Idle
<1>5. CASE Quit
  <2>1. /\ UNCHANGED <<vehicles, slots, results, faults, full>> /\ ui' = "stopping A"
        /\ Submit("A", [kind |-> "stop"])
    BY <1>5 DEF Quit, workers, StopOf
  <2> QED
    BY <1>1, <2>1 DEF Idle
<1>6. CASE Shutdown
  <2>1. /\ UNCHANGED <<vehicles, slots, results, faults, full>>
        /\ ui' \in {"stopping B", "closed"}
        /\ Submit("B", [kind |-> "stop"]) \/ UNCHANGED commands
    BY <1>6 DEF Shutdown, Joined, StopOf
  <2> QED
    BY <1>1, <2>1 DEF Idle
<1> QED
  BY <1>2, <1>3, <1>4, <1>5, <1>6 DEF Next

\* Nothing that matters enters or leaves a queue.
LEMMA IdleQueues ==
    ASSUME IInv, Idle
    PROVE  \A d \in Board : /\ Answers(d)' = Answers(d) /\ Queued(d) \subseteq Queued(d)'
                            /\ Pending(d) \subseteq Pending(d)'
                            /\ \A c \in Pending(d)' : c.kind = "open" => c \in Pending(d)
<1>1. Typed /\ results' = results
  BY DEF IInv, Idle
<1>2. CASE UNCHANGED commands
  BY <1>1, <1>2, Grown
<1>3. ASSUME NEW b \in Board, NEW x \in Command, x.kind \in Aside, Submit(b, x)
      PROVE  \A d \in Board : /\ Answers(d)' = Answers(d) /\ Queued(d) \subseteq Queued(d)'
                              /\ Pending(d) \subseteq Pending(d)'
                              /\ \A c \in Pending(d)' : c.kind = "open" => c \in Pending(d)
  <2>1. x.kind # "open"
    BY <1>3 DEF Aside
  <2>2. /\ \A d \in Board : /\ Answers(d)' = Answers(d) /\ Queued(d) \subseteq Queued(d)'
                            /\ Pending(d) \subseteq Pending(d)'
                            /\ d # b => Pending(d)' = Pending(d)
        /\ Pending(b)' = Pending(b) \cup {x}
    BY <1>1, <1>3, SubmittedTo
  <2> QED
    BY <2>1, <2>2
<1> QED
  BY <1>2, <1>3 DEF Idle

\* What hands nothing over leaves every slot in the hand it was in.
LEMMA TidyIdle == ASSUME IInv, Tidy, Idle PROVE Tidy'
<1>1. \A d \in Board : /\ Answers(d)' = Answers(d) /\ Queued(d) \subseteq Queued(d)'
                       /\ Pending(d) \subseteq Pending(d)'
                       /\ \A c \in Pending(d)' : c.kind = "open" => c \in Pending(d)
  BY IdleQueues
<1>2. /\ UNCHANGED <<vehicles, slots, faults, full>>
      /\ ui' = "loop" => ui = "loop" /\ port' = port
  BY DEF Idle
<1>3. \A d \in Board : \A s \in Slot : InHand(d, s) => InHand(d, s)'
  BY <1>1, <1>2 DEF InHand, Uses
<1> QED
  BY <1>1, <1>2, <1>3 DEF Tidy, Undisturbed

\* At the start no slot is open.
LEMMA TidyInit == Init => Tidy
<1> SUFFICES ASSUME Init PROVE Tidy
  OBVIOUS
<1>1. /\ \A v \in Vehicle : vehicles[v].at = None /\ ~vehicles[v].retry_at
                            /\ vehicles[v].state = "connecting"
      /\ \A b \in Board : Answers(b) = {} /\ \A c \in Pending(b) : c.reason = "entry"
  BY StartOf
<1>2. /\ \A b \in Board : port[b] = "open"
      /\ \A b \in Board : \A s \in Slot : slots[b][s] = None
  BY DEF Init
<1> QED
  BY <1>1, <1>2 DEF Tidy

\* Every open slot is in somebody's hand.
LEMMA AlwaysTidy == Spec => [](IInv /\ Tidy)
<1>1. Init => IInv /\ Rest /\ Tidy
  BY InvariantInit, RestInit, TidyInit
<1>2. IInv /\ Rest /\ Tidy /\ [Next]_vars => (IInv /\ Rest /\ Tidy)'
  BY InvariantStep, RestStep, IdleOf, TidyTurn, TidyCollect, TidyWork, TidyIdle
<1> QED
  BY <1>1, <1>2, PTL DEF Spec

\* What is made is broken: while no call fails and no board is full, every open slot is
\* used by a vehicle, or an OPEN or a LEAVE of it is on its way.
THEOREM NothingForgotten == Spec => []NoOrphanSession
<1>1. IInv /\ Tidy => NoOrphanSession
  <2> SUFFICES ASSUME IInv, Tidy, Undisturbed,
                      NEW b \in Board, NEW s \in Slot, slots[b][s] # None
               PROVE  InUse(b, s)
    BY DEF NoOrphanSession, Undisturbed
  <2>1. InHand(b, s)
    BY DEF Tidy
  <2>2. /\ Queued(b) \subseteq Pending(b)
        /\ \A r \in Answers(b) : r.command \in Pending(b)
    BY PendingType DEF IInv
  <2> QED
    BY <2>1, <2>2 DEF InHand, InUse, Uses
<1> QED
  BY <1>1, AlwaysTidy, PTL

-----------------------------------------------------------------------------
(* A vehicle is served from its side of the boundary.                       *)

\* Only the vehicle whose turn it is has moved, and its requests are as they should be.
LEMMA OneMoves ==
    ASSUME IInv, Beside, NEW v \in Vehicle, NEW r \in VehicleState, Puts(v, r),
           r.at # None =>
              /\ r.place = "before" => r.at.board = NearBoard(v)
              /\ r.place = "after" => r.at.board = FarBoard(v)
              /\ r.place = "at" /\ r.state # "handover" => r.at.board = FarBoard(v),
           \A d \in Board : \A e \in Pending(d)' : e.kind = "open" =>
              \/ e \in Pending(d) /\ e.vid # r.id
              \/ /\ \A w \in Vehicle : w # v => vehicles[w].id # e.vid
                 /\ e.reason = "entry" => r.place # "at" /\ d = BoardForPosition(v, r.place)
                 /\ e.reason = "handover" => r.place = "at" /\ d = FarBoard(v)
    PROVE  Beside'
<1>1. /\ vehicles'[v] = r /\ \A w \in Vehicle : w # v => vehicles'[w] = vehicles[w]
  BY DEF Puts, IInv, Typed
<1>2. ASSUME NEW w \in Vehicle, w # v
      PROVE  /\ vehicles'[w].at # None =>
                   /\ vehicles'[w].place = "before" => vehicles'[w].at.board = NearBoard(w)
                   /\ vehicles'[w].place = "after" => vehicles'[w].at.board = FarBoard(w)
                   /\ vehicles'[w].place = "at" /\ vehicles'[w].state # "handover"
                      => vehicles'[w].at.board = FarBoard(w)
             /\ \A b \in Board : \A c \in Pending(b)' :
                   c.kind = "open" /\ vehicles'[w].id = c.vid =>
                      /\ c.reason = "entry" =>
                            /\ vehicles'[w].place # "at"
                            /\ b = BoardForPosition(w, vehicles'[w].place)
                      /\ c.reason = "handover" => vehicles'[w].place = "at" /\ b = FarBoard(w)
  BY <1>1, <1>2 DEF Beside
<1>3. /\ vehicles'[v].at # None =>
            /\ vehicles'[v].place = "before" => vehicles'[v].at.board = NearBoard(v)
            /\ vehicles'[v].place = "after" => vehicles'[v].at.board = FarBoard(v)
            /\ vehicles'[v].place = "at" /\ vehicles'[v].state # "handover"
               => vehicles'[v].at.board = FarBoard(v)
      /\ \A b \in Board : \A c \in Pending(b)' :
            c.kind = "open" /\ vehicles'[v].id = c.vid =>
               /\ c.reason = "entry" =>
                     /\ vehicles'[v].place # "at"
                     /\ b = BoardForPosition(v, vehicles'[v].place)
               /\ c.reason = "handover" => vehicles'[v].place = "at" /\ b = FarBoard(v)
  BY <1>1
<1> QED
  BY <1>2, <1>3 DEF Beside, BoardForPosition, NearBoard, FarBoard, Eastbound

\* A vehicle's turn.
LEMMA SidesTurn ==
    ASSUME IInv, Tidy, Sides, NEW v \in Vehicle, StepVehicle(v)
    PROVE  Sides'
<1>1. Typed /\ vehicles \in [Vehicle -> VehicleState]
  BY DEF IInv, Typed
<1>2. PICK u \in VehicleState : Turn(v, u)
  BY TurnOf
<1>3. /\ UNCHANGED <<results, slots, faults, port, ui>>
      /\ vehicles[v].state \in {"connected", "disconnected"}
  BY TurnOf
<1> SUFFICES ASSUME Undisturbed', Undisturbed PROVE Beside'
  <2>1. Undisturbed' => Undisturbed
    BY <1>2, <1>3 DEF Undisturbed, Turn, Replaced, Requested, GoesOff, DrivesOn
  <2> QED
    BY <2>1 DEF Sides
<1>4. ~vehicles[v].retry_at /\ vehicles[v].at # None /\ Beside
  BY <1>3 DEF Tidy, Sides
<1>5. /\ vehicles[v].place = "before" => vehicles[v].at.board = NearBoard(v)
      /\ vehicles[v].place = "after" => vehicles[v].at.board = FarBoard(v)
      /\ vehicles[v].place = "at" => vehicles[v].at.board = FarBoard(v)
  BY <1>3, <1>4 DEF Beside
<1>6. /\ NearBoard(v) # FarBoard(v) /\ FarBoard(v) \in Board
      /\ vehicles[v].place \in {"before", "at", "after"} /\ vehicles[v].id \in Nat
      /\ vehicles[v].at.board \in Board /\ vehicles[v].at.slot \in Slot
  BY <1>1, <1>4 DEF NearBoard, FarBoard, Board, VehicleState, Place, Session
<1>7. \A d \in Board : \A e \in Pending(d) : e.kind = "open" => e.vid # vehicles[v].id
  BY <1>3, NotAsking
<1>8. \A w \in Vehicle : w # v => vehicles[w].id # vehicles[v].id
  BY DEF IInv, IdsDiffer
<1>9. PICK r \in VehicleState :
         /\ Puts(v, r) /\ r.id = vehicles[v].id /\ r.at = vehicles[v].at
         /\ \/ /\ r.place = "at" /\ r.state = "handover"
               /\ \E s \in Slot :
                     Submit(FarBoard(v), Order("open", vehicles[v].id, s, "handover"))
            \/ /\ r.place = vehicles[v].place
               /\ Submit(r.at.board, Order("leave", r.id, r.at.slot, "exit"))
            \/ /\ \/ r.place = vehicles[v].place
                  \/ vehicles[v].place = "at" /\ r.place = "after"
               /\ SubmitData(v, r) \/ UNCHANGED commands
  <2>1. CASE u.place = "at" /\ Requested(v, u, FarBoard(v), "handover")
    BY <1>2, <1>4, <2>1 DEF Turn, Requested, Undisturbed
  <2>2. CASE GoesOff(v, u)
    BY <1>2, <1>4, <2>2 DEF Turn, GoesOff
  <2>3. CASE DrivesOn(v, u)
    BY <1>2, <1>4, <1>5, <1>6, <2>3 DEF Turn, DrivesOn
  <2> QED
    BY <1>2, <1>4, <2>1, <2>2, <2>3 DEF Turn
<1>10. CASE /\ r.place = "at" /\ r.state = "handover"
            /\ \E s \in Slot : Submit(FarBoard(v), Order("open", vehicles[v].id, s, "handover"))
  <2>1. PICK s \in Slot : Submit(FarBoard(v), Order("open", vehicles[v].id, s, "handover"))
    BY <1>10
  <2>2. PICK x \in Command : x = Order("open", vehicles[v].id, s, "handover")
    BY <1>6, OrderType
  <2>3. x.kind = "open" /\ x.vid = vehicles[v].id /\ x.reason = "handover"
    BY <2>2, OrderFields
  <2>4. /\ \A d \in Board : d # FarBoard(v) => Pending(d)' = Pending(d)
        /\ Pending(FarBoard(v))' = Pending(FarBoard(v)) \cup {x}
    BY <1>1, <1>3, <1>6, <2>1, <2>2, SubmittedTo
  <2>5. \A d \in Board : \A e \in Pending(d)' : e.kind = "open" =>
           \/ e \in Pending(d) /\ e.vid # r.id
           \/ /\ \A w \in Vehicle : w # v => vehicles[w].id # e.vid
              /\ e.reason = "entry" => r.place # "at" /\ d = BoardForPosition(v, r.place)
              /\ e.reason = "handover" => r.place = "at" /\ d = FarBoard(v)
    BY <1>7, <1>8, <1>9, <1>10, <2>3, <2>4
  <2> QED
    BY <1>4, <1>9, <1>10, <2>5, OneMoves
<1>11. ASSUME NEW x \in Command, x.kind \in {"leave", "data"},
              Submit(r.at.board, x) \/ UNCHANGED commands,
              r.place = vehicles[v].place \/ (vehicles[v].place = "at" /\ r.place = "after")
       PROVE  Beside'
  <2>1. \A d \in Board : \A e \in Pending(d)' : e.kind = "open" => e \in Pending(d)
    <3>1. CASE Submit(r.at.board, x)
      <4>1. r.at.board \in Board
        BY <1>6, <1>9
      <4>2. /\ \A d \in Board : d # r.at.board => Pending(d)' = Pending(d)
            /\ Pending(r.at.board)' = Pending(r.at.board) \cup {x}
        BY <1>1, <1>3, <3>1, <4>1, SubmittedTo
      <4> QED
        BY <1>11, <4>2
    <3>2. CASE UNCHANGED commands
      BY <1>1, <1>3, <3>2, Grown
    <3> QED
      BY <1>11, <3>1, <3>2
  <2>2. r.at # None =>
           /\ r.place = "before" => r.at.board = NearBoard(v)
           /\ r.place = "after" => r.at.board = FarBoard(v)
           /\ r.place = "at" /\ r.state # "handover" => r.at.board = FarBoard(v)
    BY <1>5, <1>9, <1>11
  <2> QED
    BY <1>4, <1>7, <1>9, <2>1, <2>2, OneMoves
<1>12. /\ r.at.board \in Board /\ r.at.slot \in Slot /\ r.id \in Nat
  BY <1>6, <1>9
<1>13. PICK x \in Command : x = Order("leave", r.id, r.at.slot, "exit")
  BY <1>12, OrderType
<1>14. PICK y \in Command : y = Order("data", r.id, r.at.slot, "telemetry")
  BY <1>12, OrderType
<1>15. x.kind = "leave" /\ y.kind = "data"
  BY <1>13, <1>14, OrderFields
<1>16. SubmitData(v, r) => Submit(r.at.board, y)
  BY <1>14 DEF SubmitData
<1> QED
  BY <1>9, <1>10, <1>11, <1>13, <1>15, <1>16

\* An answer is collected.
LEMMA SidesCollect ==
    ASSUME IInv, Tidy, Sides, NEW b \in Board, Collect(b)
    PROVE  Sides'
<1>1. Typed /\ vehicles \in [Vehicle -> VehicleState]
  BY DEF IInv, Typed
<1>2. PICK c : c = Head(results[b]).command
  OBVIOUS
<1>3. PICK ok : ok = Head(results[b]).ok
  OBVIOUS
<1>4. /\ UNCHANGED <<slots, faults, port, ui>> /\ ui = "loop" /\ Collection(b, c, ok)
      /\ results[b] # <<>> /\ results' = [results EXCEPT ![b] = Tail(@)]
  BY <1>2, <1>3, CollectionOf
<1>5. QueuesAfter(b, c, ok)
  BY <1>2, <1>3, <1>4, CollectedFrom
<1> SUFFICES ASSUME Undisturbed', Undisturbed PROVE Beside'
  <2>1. Undisturbed' => Undisturbed
    BY <1>4 DEF Undisturbed, Collection, TakesOver, Replaced, Requested
  <2> QED
    BY <2>1 DEF Sides
<1>6. Beside
  BY DEF Sides
<1>7. c.kind \in {"open", "leave"} => ok
  BY <1>4, <1>5 DEF Tidy, QueuesAfter
<1>8. \A v, w \in Vehicle : w # v => vehicles[w].id # vehicles[v].id
  BY DEF IInv, IdsDiffer
<1>9. ASSUME NEW v \in Vehicle, TakesOver(v, b, c), c.kind = "open"
      PROVE  Beside'
  <2>1. PICK r \in VehicleState :
           /\ Puts(v, r) /\ r.id = c.vid /\ r.at = SessionAt(b, c.slot)
           /\ r.place = vehicles[v].place /\ r.state = "connected"
    BY <1>9 DEF TakesOver
  <2>2. vehicles[v].id = c.vid /\ vehicles[v].state \in {"connecting", "handover"}
    BY <1>9 DEF TakesOver
  <2>3. c \in Command /\ c \in Pending(b)
    BY <1>5 DEF QueuesAfter
  <2>4. \/ c.reason = "entry" /\ r.place # "at" /\ b = BoardForPosition(v, r.place)
        \/ c.reason = "handover" /\ r.place = "at" /\ b = FarBoard(v)
    <3>1. \/ c.reason = "entry" /\ vehicles[v].at = None
          \/ c.reason = "handover" /\ vehicles[v].state = "handover"
      BY <1>9, <2>2, <2>3 DEF Tidy
    <3> QED
      BY <1>6, <1>9, <2>1, <2>2, <2>3, <3>1 DEF Beside
  <2>5. \A d \in Board : \A e \in Left(d) : e.kind = "open" => e.vid # c.vid
    BY <1>2, <1>4, <1>9, HeadAnswer DEF IsOrder
  <2>6. \A d \in Board : \A e \in Pending(d)' : e.kind = "open" => e \in Left(d)
    <3>1. CASE UNCHANGED commands
      BY <1>5, <3>1 DEF QueuesAfter
    <3>2. CASE /\ Releases(c, vehicles[v])
               /\ Submit(vehicles[v].old.board,
                         Order("leave", c.vid, vehicles[v].old.slot, "handover_old"))
      <4>1. /\ vehicles[v].old.board \in Board /\ vehicles[v].old.slot \in Slot /\ c.vid \in Nat
        BY <1>1, <2>2, <3>2 DEF Releases, VehicleState, Session
      <4>2. PICK x \in Command :
               x = Order("leave", c.vid, vehicles[v].old.slot, "handover_old")
        BY <4>1, OrderType
      <4>3. x.kind = "leave"
        BY <4>2, OrderFields
      <4>4. /\ commands'[vehicles[v].old.board] = Append(commands[vehicles[v].old.board], x)
            /\ \A d \in Board : d # vehicles[v].old.board => commands'[d] = commands[d]
        BY <1>1, <3>2, <4>1, <4>2, SubmitOne
      <4>5. \A d \in Board : Pending(d)' = Left(d) \/ Pending(d)' = Left(d) \cup {x}
        BY <1>5, <4>4 DEF QueuesAfter
      <4> QED
        BY <4>3, <4>5
    <3> QED
      BY <1>9, <3>1, <3>2 DEF TakesOver
  <2>7. \A d \in Board : Left(d) \subseteq Pending(d)
    BY <1>5 DEF QueuesAfter
  <2>8. r.at.board = b
    BY <2>1 DEF SessionAt
  <2>9. r.place \in {"before", "at", "after"}
    BY <2>1 DEF VehicleState, Place
  <2>10. /\ r.place = "before" => r.at.board = NearBoard(v)
         /\ r.place = "after" => r.at.board = FarBoard(v)
         /\ r.place = "at" /\ r.state # "handover" => r.at.board = FarBoard(v)
    BY <2>4, <2>8 DEF BoardForPosition
  <2> QED
    BY <1>6, <2>1, <2>5, <2>6, <2>7, <2>10, OneMoves
<1>10. ASSUME NEW v \in Vehicle, vehicles[v].state = "exiting", Replaced(v), c.kind = "leave"
       PROVE  Beside'
  <2>1. PICK u \in VehicleState :
           /\ \A w \in Vehicle : w # v => vehicles[w].id # u.id
           /\ u.at = None /\ u.place = "before" /\ Requested(v, u, NearBoard(v), "entry")
    BY <1>10 DEF Replaced
  <2>2. PICK s \in Slot : Submit(NearBoard(v), Order("open", u.id, s, "entry"))
    BY <2>1 DEF Requested, Undisturbed
  <2>3. PICK r \in VehicleState : Puts(v, r) /\ r.id = u.id /\ r.at = None /\ r.place = "before"
    BY <2>1 DEF Requested, Undisturbed
  <2>4. PICK x \in Command : x = Order("open", u.id, s, "entry")
    BY OrderType DEF VehicleState
  <2>5. x.kind = "open" /\ x.vid = u.id /\ x.reason = "entry"
    BY <2>4, OrderFields
  <2>6. NearBoard(v) \in Board /\ BoardForPosition(v, "before") = NearBoard(v)
    BY DEF NearBoard, Board, BoardForPosition
  <2>7. /\ commands'[NearBoard(v)] = Append(commands[NearBoard(v)], x)
        /\ \A d \in Board : d # NearBoard(v) => commands'[d] = commands[d]
    BY <1>1, <2>2, <2>4, <2>6, SubmitOne
  <2>8. /\ Pending(NearBoard(v))' = Left(NearBoard(v)) \cup {x}
        /\ \A d \in Board : d # NearBoard(v) => Pending(d)' = Left(d)
        /\ \A d \in Board : Left(d) \subseteq Pending(d)
    BY <1>5, <2>6, <2>7 DEF QueuesAfter
  <2>9. ASSUME NEW d \in Board, NEW e \in Pending(d), e.kind = "open" PROVE e.vid # u.id
    <3>1. PICK w \in Vehicle : /\ vehicles[w].id = e.vid
                               /\ vehicles[w].state \in {"connecting", "handover"}
      BY <2>9 DEF IInv, Owned, IsOrder
    <3>2. w # v
      BY <1>10, <3>1
    <3> QED
      BY <2>1, <3>1, <3>2
  <2>10. \A d \in Board : \A e \in Pending(d)' : e.kind = "open" =>
            \/ e \in Pending(d) /\ e.vid # r.id
            \/ /\ \A w \in Vehicle : w # v => vehicles[w].id # e.vid
               /\ e.reason = "entry" => r.place # "at" /\ d = BoardForPosition(v, r.place)
               /\ e.reason = "handover" => r.place = "at" /\ d = FarBoard(v)
    BY <2>1, <2>3, <2>5, <2>6, <2>8, <2>9
  <2> QED
    BY <1>6, <2>3, <2>10, OneMoves
<1>11. CASE c.kind # "open" /\ UNCHANGED <<vehicles, commands, full>>
  <2>1. \A d \in Board : Pending(d)' \subseteq Pending(d)
    BY <1>5, <1>11 DEF QueuesAfter
  <2> QED
    BY <1>6, <1>11, <2>1 DEF Beside
<1> QED
  BY <1>4, <1>7, <1>9, <1>10, <1>11 DEF Collection

\* A worker answers a command.
LEMMA SidesWork ==
    ASSUME IInv, Rest, Sides, NEW b \in Board, Work(b)
    PROVE  Sides'
<1>1. Typed /\ commands \in [Board -> Seq(Command)] /\ commands[b] # <<>>
  BY DEF IInv, Typed, Work
<1>2. /\ UNCHANGED <<vehicles, full>> /\ commands' = [commands EXCEPT ![b] = Tail(@)]
  BY DEF Work, controller
<1>3. PICK c : c = Head(commands[b])
  OBVIOUS
<1>4. \/ UNCHANGED <<results, faults>>
      \/ \E ok \in BOOLEAN :
            /\ faults' = IF ~ok /\ CanWork(b, c) THEN faults + 1 ELSE faults
            /\ results' = [results EXCEPT ![b] = Append(@, Answer(c, ok))]
  BY <1>3, Zenon DEF Work
<1>5. Undisturbed' => Undisturbed
  <2>1. faults \in 0 .. MAX_FAULTS
    BY Zenon DEF Rest
  <2>2. MAX_FAULTS \in Nat
    BY HandoverAssumption, Zenon
  <2>3. faults' = 0 => faults = 0
    BY <1>4, <2>1, <2>2
  <2> QED
    BY <1>2, <2>3 DEF Undisturbed
<1>6. \A d \in Board : Pending(d)' \subseteq Pending(d)
  <2>1. CASE UNCHANGED results
    <3>1. /\ commands'[b] = Tail(commands[b])
          /\ \A d \in Board : d # b => commands'[d] = commands[d]
      BY <1>1, <1>2
    <3>2. \A d \in Board : Queued(d)' \subseteq Queued(d)
      BY <1>1, <3>1, TailElements DEF Queued
    <3> QED
      BY <2>1, <3>2 DEF Pending, Queued
  <2>2. ASSUME NEW ok \in BOOLEAN, results' = [results EXCEPT ![b] = Append(@, Answer(c, ok))]
        PROVE  \A d \in Board : Pending(d)' \subseteq Pending(d)
    BY <1>1, <1>2, <1>3, <2>2, AnsweredPending
  <2> QED
    BY <1>4, <2>1, <2>2
<1> QED
  BY <1>2, <1>5, <1>6 DEF Sides, Beside

\* What hands nothing over moves no vehicle.
LEMMA SidesIdle == ASSUME IInv, Sides, Idle PROVE Sides'
<1>1. \A d \in Board : \A c \in Pending(d)' : c.kind = "open" => c \in Pending(d)
  BY IdleQueues
<1>2. UNCHANGED <<vehicles, faults, full>>
  BY DEF Idle
<1> QED
  BY <1>1, <1>2 DEF Sides, Beside, Undisturbed

\* At the start every vehicle has asked the board on its side.
LEMMA SidesInit == ASSUME "at" \notin Starts, Init PROVE Sides
<1>1. /\ \A v \in Vehicle : /\ vehicles[v].id = v /\ vehicles[v].at = None
                            /\ vehicles[v].place \in Starts
      /\ \A b \in Board : \A c \in Pending(b) :
            /\ c.reason = "entry"
            /\ c.vid \in Vehicle /\ b = BoardForPosition(c.vid, vehicles[c.vid].place)
  BY StartOf
<1> QED
  BY <1>1 DEF Sides, Beside

\* While no call fails and no board is full, a vehicle that is off the boundary has its
\* session on the board of its side.  A vehicle that starts on the boundary is served by
\* B, which it never leaves if it is on its way to A: hence the condition.
THEOREM ServedBySide == "at" \notin Starts => (Spec => []ServedByItsSide)
<1> SUFFICES ASSUME "at" \notin Starts PROVE Spec => []ServedByItsSide
  OBVIOUS
<1>1. Init => IInv /\ Rest /\ Tidy /\ Sides
  BY InvariantInit, RestInit, TidyInit, SidesInit
<1>2. IInv /\ Rest /\ Tidy /\ Sides /\ [Next]_vars => (IInv /\ Rest /\ Tidy /\ Sides)'
  BY InvariantStep, RestStep, IdleOf, TidyTurn, TidyCollect, TidyWork, TidyIdle,
     SidesTurn, SidesCollect, SidesWork, SidesIdle
<1>3. IInv /\ Sides => ServedByItsSide
  <2> SUFFICES ASSUME IInv, Sides, Undisturbed, NEW v \in Vehicle,
                      vehicles[v].at # None, vehicles[v].place # "at"
               PROVE  vehicles[v].at.board = BoardForPosition(v, vehicles[v].place)
    BY DEF ServedByItsSide, Undisturbed
  <2>1. vehicles[v].place \in {"before", "after"}
    BY DEF IInv, Typed, VehicleState, Place
  <2> QED
    BY <2>1 DEF Sides, Beside, BoardForPosition
<1> QED
  BY <1>1, <1>2, <1>3, PTL DEF Spec
=============================================================================
