------------------------- MODULE HandoverController -------------------------
(***************************************************************************)
(* The two-board handover demonstration on the PC: DemoController of       *)
(* simulator.py on the user-interface thread, and the BoardWorker of each  *)
(* board (board_link.py) on a thread of its own.  Commands and results     *)
(* cross between the threads in two queues per board; the slots table of a *)
(* worker is written by its thread and read by the controller.             *)
(*                                                                         *)
(* A position on the road is where a vehicle is on its own way: before the *)
(* boundary between the boards, on it, or after it.  Time is not counted:  *)
(* whatever waits for a moment (a retry, the next packet, a timing) may    *)
(* come due at any step.  update() is split into a step for each result    *)
(* and each vehicle, since a worker may run between any two of them and a  *)
(* result that is collected later is one that came later.                  *)
(***************************************************************************)
EXTENDS Integers, Sequences, FiniteSets

CONSTANTS
    vehicle_count,  \* vehicles on the road
    MAX_SESSIONS,   \* slots of a board, and vehicle ids
    Mocks,          \* TRUE in it: MockBoardLink, whose calls do not fail; FALSE: serial
    User,           \* what the user does: "pause", "attack", "quit"
    Starts,         \* places at which a vehicle may stand when the program starts
    Timed,          \* bound: boards whose software ML-KEM is timed
    Senders,        \* bound: vehicles that send packets
    MAX_FAULTS,     \* bound: calls that fail though the link could make them
    None

ASSUME HandoverAssumption ==
    /\ MAX_SESSIONS \in Nat /\ vehicle_count \in 1 .. MAX_SESSIONS
    /\ Mocks \subseteq BOOLEAN /\ User \subseteq {"pause", "attack", "quit"}
    /\ Starts \subseteq {"before", "at", "after"}
    /\ Timed \subseteq {"A", "B"} /\ Senders \subseteq Nat /\ MAX_FAULTS \in Nat
    /\ None \notin Int \cup STRING \cup [board : {"A", "B"}, slot : Int]

VARIABLES
    \* DemoController, on the user-interface thread
    is_mock, running, vehicles, next_vehicle_id, reserved, ui,
    \* queues between the threads
    commands, results,
    \* BoardWorker and its link, one thread per board
    slots, sw_supported, alive, port,
    \* history: failed calls so far, and whether a board was full for an OPEN
    faults, full

controller == <<is_mock, running, vehicles, next_vehicle_id, reserved, ui, full>>
workers == <<slots, sw_supported, alive, port, faults>>
vars == <<controller, commands, results, workers>>

Board == {"A", "B"}
Slot == 0 .. MAX_SESSIONS - 1
Session == [board : Board, slot : Slot]
SessionAt(b, s) == [board |-> b, slot |-> s]

-----------------------------------------------------------------------------
(* The road.  A vehicle is named by the id it starts with: the even ones    *)
(* drive from A to B, the odd ones from B to A.                             *)

Vehicle == 0 .. vehicle_count - 1
Eastbound(v) == v % 2 = 0
NearBoard(v) == IF Eastbound(v) THEN "A" ELSE "B"
FarBoard(v) == IF Eastbound(v) THEN "B" ELSE "A"

Place == {"before", "at", "after"}

\* The boundary itself belongs to B.
BoardForPosition(v, place) ==
    CASE place = "before" -> NearBoard(v)
      [] place = "at" -> "B"
      [] place = "after" -> FarBoard(v)

\* Where a vehicle can be after one step; the vehicle ahead may hold it up.
Moves(place) == CASE place = "before" -> {"before", "at", "after"}
                  [] place = "at" -> {"at", "after"}
                  [] place = "after" -> {"after", "end"}

Crossed(from, to) == from = "before" /\ to \in {"at", "after"}

-----------------------------------------------------------------------------
(* Commands and what is waiting for an answer.                              *)

Command == [kind : {"open", "leave", "data"}, vid : Nat, slot : Slot,
            reason : {"entry", "retry", "handover", "exit", "handover_old", "telemetry"}]
           \cup [kind : {"swkem", "stop"}]

Order(kind, vid, slot, reason) ==
    [kind |-> kind, vid |-> vid, slot |-> slot, reason |-> reason]

Answer_NoSlot(c, ok) ==                                        \* slip
    [command |-> IF ~ok /\ c.kind = "open" THEN [c EXCEPT !.slot = -1] ELSE c, ok |-> ok]
Answer(c, ok) == [command |-> c, ok |-> ok]

ElementsOf(q) == {q[i] : i \in DOMAIN q}

\* _pending: everything submitted to a board and not yet collected.
Pending(b) == ElementsOf(commands[b]) \cup {r.command : r \in ElementsOf(results[b])}

DataPending(vid) ==
    \E b \in Board : \E c \in Pending(b) : c.kind = "data" /\ c.vid = vid

\* The states in which a vehicle stands still until a result is collected.
Waiting == {"connecting", "handover", "exiting"}

FreeSlots_Unreserved(b) == {s \in Slot : slots[b][s] = None}    \* slip
FreeSlots(b) == {s \in Slot : slots[b][s] = None /\ s \notin reserved[b]}

\* The loop of _respawn: the first id, in order, that no other vehicle has.
IsNewId_Blind(v, id) == id = next_vehicle_id                   \* slip
IsNewId(v, id) ==
    LET used == {vehicles[w].id : w \in Vehicle \ {v}}
        nth(k) == IF k = 0 THEN next_vehicle_id ELSE (next_vehicle_id + k) % MAX_SESSIONS
    IN /\ id \notin used
       /\ \E k \in 0 .. MAX_SESSIONS : id = nth(k) /\ \A j \in 0 .. k - 1 : nth(j) \in used

IdAfter_Running(id) == id + 1                                  \* slip
IdAfter(id) == (id + 1) % MAX_SESSIONS

Submit(b, c) == commands' = [commands EXCEPT ![b] = Append(@, c)]

-----------------------------------------------------------------------------
(* __init__: the vehicles ask their boards one after the other, those from  *)
(* A first, and so get slots 0, 1, 2, ... of their board in that order.     *)

Asking(b, place) == {v \in Vehicle : BoardForPosition(v, place[v]) = b}
Earlier(v, w) == v % 2 < w % 2 \/ (v % 2 = w % 2 /\ v < w)

Init ==
    /\ is_mock \in Mocks /\ running = TRUE
    /\ ui = "loop"
    /\ next_vehicle_id = vehicle_count
    /\ \E place \in [Vehicle -> Starts], slot \in [Vehicle -> Slot],
          asked \in [Board -> 0 .. vehicle_count] :
          /\ \A b \in Board : {slot[v] : v \in Asking(b, place)} = 0 .. asked[b] - 1
          /\ \A b \in Board : \A v, w \in Asking(b, place) : Earlier(v, w) => slot[v] < slot[w]
          /\ vehicles = [v \in Vehicle |->
                [id |-> v, place |-> place[v], at |-> None, old |-> None,
                 state |-> "connecting", retry_at |-> FALSE, retry_target |-> None]]
          /\ reserved = [b \in Board |-> 0 .. asked[b] - 1]
          /\ commands = [b \in Board |-> [i \in 1 .. asked[b] |->
                Order("open", CHOOSE v \in Asking(b, place) : slot[v] = i - 1, i - 1, "entry")]]
    /\ results = [b \in Board |-> <<>>]
    /\ slots = [b \in Board |-> [s \in Slot |-> None]]
    /\ sw_supported = [b \in Board |-> "unknown"]
    /\ alive = [b \in Board |-> TRUE]
    /\ port = [b \in Board |-> "open"]
    /\ faults = 0 /\ full = FALSE

-----------------------------------------------------------------------------
(* Requests of the controller.  u is the vehicle as the calling handler has *)
(* changed it so far.                                                       *)

RequestOpen(v, u, target, reason) ==
    \/ /\ FreeSlots(target) = {}
       /\ vehicles' = [vehicles EXCEPT ![v] = [u EXCEPT !.state = "disconnected",
                                                        !.retry_at = TRUE]]
       /\ full' = TRUE
       /\ UNCHANGED <<reserved, commands>>
    \/ \E s \in FreeSlots(target) :
          /\ \A t \in FreeSlots(target) : s <= t
          /\ reserved' = [reserved EXCEPT ![target] = @ \cup {s}]
          /\ vehicles' = [vehicles EXCEPT ![v] =
                [u EXCEPT !.old = u.at,
                          !.state = IF reason = "handover" THEN "handover" ELSE "connecting"]]
          /\ Submit(target, Order("open", u.id, s, reason))
          /\ full' = full

Respawn(v) ==
    \E id \in 0 .. MAX_SESSIONS :
       /\ IsNewId(v, id)
       /\ RequestOpen(v, [id |-> id, place |-> "before", at |-> None, old |-> None,
                          state |-> "connecting", retry_at |-> FALSE, retry_target |-> None],
                      NearBoard(v), "entry")
       /\ next_vehicle_id' = IdAfter(id)

RequestExit(v, u) ==
    \/ /\ u.at = None
       /\ Respawn(v)
    \/ /\ u.at # None
       /\ vehicles' = [vehicles EXCEPT ![v] = [u EXCEPT !.state = "exiting"]]
       /\ Submit(u.at.board, Order("leave", u.id, u.at.slot, "exit"))
       /\ UNCHANGED <<reserved, next_vehicle_id, full>>

SubmitData(v, u) ==
    /\ v \in Senders
    /\ u.at # None
    /\ ~DataPending(u.id)
    /\ Submit(u.at.board, Order("data", u.id, u.at.slot, "telemetry"))

-----------------------------------------------------------------------------
(* update(), one vehicle at a time.                                         *)

\* A retry that has come due is made instead of driving on.
RetryDue_Kept(v, u) ==                                         \* slip
    /\ u.retry_at
    /\ RequestOpen(v, u, IF u.retry_target # None THEN u.retry_target
                         ELSE BoardForPosition(v, u.place), "retry")
    /\ UNCHANGED next_vehicle_id
RetryDue(v, u) ==
    /\ u.retry_at
    /\ RequestOpen(v, [u EXCEPT !.retry_at = FALSE, !.retry_target = None],
                   IF u.retry_target # None THEN u.retry_target
                                            ELSE BoardForPosition(v, u.place), "retry")
    /\ UNCHANGED next_vehicle_id

Drive(v, u) ==
    \E to \in Moves(u.place) :
       LET crossed == Crossed(u.place, to) /\ u.at # None
           moved == [u EXCEPT !.place = IF crossed THEN "at"
                                        ELSE IF to = "end" THEN "after" ELSE to]
           changes == crossed /\ u.at.board # FarBoard(v)
       IN \/ /\ changes
             /\ RequestOpen(v, moved, FarBoard(v), "handover")
             /\ UNCHANGED next_vehicle_id
          \/ /\ to = "end"
             /\ RequestExit(v, moved)
          \/ /\ ~changes /\ to # "end"
             /\ vehicles' = [vehicles EXCEPT ![v] = moved]
             /\ SubmitData(v, moved) \/ UNCHANGED commands
             /\ UNCHANGED <<reserved, next_vehicle_id, full>>

StepVehicle(v) ==
    /\ ui = "loop" /\ running
    /\ vehicles[v].state \notin Waiting
    /\ RetryDue(v, vehicles[v]) \/ Drive(v, vehicles[v])
    /\ UNCHANGED <<is_mock, running, ui, results, workers>>

\* _schedule_swkem: one timing at a time, until a board turns out not to have it.
ScheduleSwkem(b) ==
    /\ ui = "loop" /\ running /\ b \in Timed
    /\ sw_supported[b] # "no"
    /\ \A c \in Pending(b) : c.kind # "swkem"
    /\ Submit(b, [kind |-> "swkem"])
    /\ UNCHANGED <<controller, results, workers>>

-----------------------------------------------------------------------------
(* Results.                                                                 *)

\* Only a switch at the boundary releases the session kept for it.
Releases_Retry(c, u) == c.reason = "retry" /\ u.old # None      \* slip
Releases(c, u) == c.reason = "handover" /\ u.old # None

\* _handle_open.  A retry_at set by an earlier failure stays set.
OpenReady(v, b, c) ==
    LET u == vehicles[v] IN
    /\ vehicles' = [vehicles EXCEPT ![v] = [u EXCEPT !.at = SessionAt(b, c.slot),
                                                     !.old = None, !.state = "connected"]]
    /\ \/ /\ Releases(c, u)
          /\ Submit(u.old.board, Order("leave", u.id, u.old.slot, "handover_old"))
       \/ /\ ~Releases(c, u)
          /\ UNCHANGED commands

\* _handle_error for an open: back to the old session, short of the boundary.
AfterFailure_Dropped(u, b) ==                                  \* slip
    [u EXCEPT !.at = None, !.old = None, !.state = "disconnected",
              !.retry_at = TRUE, !.retry_target = b]
AfterFailure(u, b) ==
    LET kept == u.old # None IN
    [u EXCEPT !.at = IF kept THEN u.old ELSE @,
              !.state = IF kept THEN "connected" ELSE "disconnected",
              !.place = IF kept THEN "before" ELSE @,
              !.old = None, !.retry_at = TRUE, !.retry_target = b]

OpenAnswered(b, c, ok) ==
    /\ reserved' = [reserved EXCEPT ![b] = @ \ {c.slot}]
    /\ \E v \in Vehicle :
          /\ vehicles[v].id = c.vid
          /\ \/ ok /\ OpenReady(v, b, c)
             \/ /\ ~ok
                /\ vehicles' = [vehicles EXCEPT ![v] = AfterFailure(@, b)]
                /\ UNCHANGED commands
    /\ UNCHANGED <<next_vehicle_id, full>>

\* A vehicle that leaves the road is replaced whether or not its LEAVE worked.
ExitAnswered(c) == \E v \in Vehicle : vehicles[v].id = c.vid /\ Respawn(v)

Listening_Running == running                                   \* slip
Listening == TRUE

\* _collect_results, one result; update() collects even while it is paused.
Collect(b) ==
    /\ ui = "loop" /\ Listening
    /\ results[b] # <<>>
    /\ LET c == Head(results[b]).command
           ok == Head(results[b]).ok
       IN \/ /\ c.kind = "open"
             /\ OpenAnswered(b, c, ok)
          \/ /\ c.kind = "leave" /\ c.reason = "exit"
             /\ ExitAnswered(c)
          \/ /\ \/ c.kind \in {"data", "swkem"}
                \/ c.kind = "leave" /\ c.reason = "handover_old"
             /\ UNCHANGED <<vehicles, reserved, next_vehicle_id, commands, full>>
    /\ results' = [results EXCEPT ![b] = Tail(@)]
    /\ UNCHANGED <<is_mock, running, ui, workers>>

-----------------------------------------------------------------------------
(* The user.                                                                *)

\* attack_selected: a packet with a flipped bit, outside the vehicle's own turn.
MayAttack_Busy == {"connected", "handover", "exiting"}         \* slip
MayAttack == {"connected", "handover"}

Attack(v) ==
    /\ "attack" \in User /\ ui = "loop"
    /\ vehicles[v].state \in MayAttack
    /\ SubmitData(v, vehicles[v])
    /\ UNCHANGED <<controller, results, workers>>

ToggleRunning ==
    /\ "pause" \in User /\ ui = "loop"
    /\ running' = ~running
    /\ UNCHANGED <<is_mock, vehicles, next_vehicle_id, reserved, ui, full>>
    /\ UNCHANGED <<commands, results, workers>>

StopOf_Next(b) == [kind |-> "swkem"]                           \* slip
StopOf(b) == [kind |-> "stop"]

\* shutdown: BoardWorker.stop of A and then of B, each waiting a while for its
\* thread and then closing the port, whether or not the thread has ended.
Quit ==
    /\ "quit" \in User /\ ui = "loop"
    /\ ui' = "stopping A"
    /\ Submit("A", StopOf("A"))
    /\ UNCHANGED <<is_mock, running, vehicles, next_vehicle_id, reserved, full, results, workers>>

Joined ==
    \/ /\ ui = "stopping A"
       /\ ui' = "stopping B"
       /\ port' = [port EXCEPT !["A"] = "closed"]
       /\ Submit("B", StopOf("B"))
    \/ /\ ui = "stopping B"
       /\ ui' = "closed"
       /\ port' = [port EXCEPT !["B"] = "closed"]
       /\ UNCHANGED commands

Shutdown == /\ Joined
            /\ UNCHANGED <<is_mock, running, vehicles, next_vehicle_id, reserved, full, results>>
            /\ UNCHANGED <<slots, sw_supported, alive, faults>>

-----------------------------------------------------------------------------
(* BoardWorker: one command at a time, each answered by a result.           *)

\* The link refuses an OPEN of a slot it holds and anything else of a slot it
\* does not hold (the mock opens either); a closed port fails every call.
CanWork(b, c) ==
    CASE c.kind = "open" -> is_mock \/ (slots[b][c.slot] = None /\ port[b] = "open")
      [] c.kind \in {"leave", "data"} ->
            slots[b][c.slot] # None /\ (is_mock \/ port[b] = "open")
      [] c.kind = "swkem" -> is_mock \/ port[b] = "open"

CanFail(b, c) == (~is_mock /\ faults < MAX_FAULTS) \/ ~CanWork(b, c)

\* stats.slots after a call; a failed one leaves it alone.
SlotsAfter_Forgets(b, c, ok) ==                                \* slip
    IF c.kind = "leave" /\ ok THEN [slots EXCEPT ![b][c.slot] = None] ELSE slots
SlotsAfter(b, c, ok) ==
    CASE c.kind = "open" /\ ok -> [slots EXCEPT ![b][c.slot] = c.vid]
      [] c.kind = "leave" /\ ok -> [slots EXCEPT ![b][c.slot] = None]
      [] OTHER -> slots

\* "Worker must stay alive after one UART error."
Survives_Success(ok) == ok                                     \* slip
Survives(ok) == TRUE

Work(b) ==
    /\ alive[b] /\ commands[b] # <<>>
    /\ commands' = [commands EXCEPT ![b] = Tail(@)]
    /\ LET c == Head(commands[b]) IN
       \/ /\ c.kind = "stop"
          /\ alive' = [alive EXCEPT ![b] = FALSE]
          /\ UNCHANGED <<results, slots, sw_supported, faults>>
       \/ /\ c.kind # "stop"
          /\ \E ok \in BOOLEAN :
                /\ IF ok THEN CanWork(b, c) ELSE CanFail(b, c)
                /\ faults' = IF ~ok /\ CanWork(b, c) THEN faults + 1 ELSE faults
                /\ slots' = SlotsAfter(b, c, ok)
                /\ sw_supported' = IF c.kind # "swkem" THEN sw_supported
                       ELSE [sw_supported EXCEPT ![b] = IF ok THEN "yes" ELSE "no"]
                /\ results' = [results EXCEPT ![b] = Append(@, Answer(c, ok))]
                /\ alive' = [alive EXCEPT ![b] = Survives(ok)]
    /\ UNCHANGED <<controller, port>>

-----------------------------------------------------------------------------

Next == \/ \E v \in Vehicle : StepVehicle(v) \/ Attack(v)
        \/ \E b \in Board : ScheduleSwkem(b) \/ Collect(b) \/ Work(b)
        \/ ToggleRunning \/ Quit \/ Shutdown

\* The frame loop runs sixty times a second until the user closes the window,
\* and the operating system runs both worker threads.
Fairness == /\ \A b \in Board : WF_vars(Collect(b)) /\ WF_vars(Work(b))
            /\ WF_vars(Shutdown)

Spec == Init /\ [][Next]_vars
FairSpec == Spec /\ Fairness

-----------------------------------------------------------------------------
(* Properties.                                                              *)

VehicleState == [id : Nat, place : Place, at : Session \cup {None},
                 old : Session \cup {None},
                 state : {"connecting", "handover", "exiting", "connected", "disconnected"},
                 retry_at : BOOLEAN, retry_target : Board \cup {None}]

\* Every variable has its type, and every queued command is one the worker knows.
TypeOK ==
    /\ {is_mock, running} \subseteq BOOLEAN
    /\ vehicles \in [Vehicle -> VehicleState]
    /\ next_vehicle_id \in 0 .. MAX_SESSIONS
    /\ reserved \in [Board -> SUBSET Slot]
    /\ ui \in {"loop", "stopping A", "stopping B", "closed"}
    /\ commands \in [Board -> Seq(Command)]
    /\ results \in [Board -> Seq([command : Command, ok : BOOLEAN])]
    /\ slots \in [Board -> [Slot -> Nat \cup {None}]]
    /\ sw_supported \in [Board -> {"unknown", "yes", "no"}]
    /\ alive \in [Board -> BOOLEAN]
    /\ port \in [Board -> {"open", "closed"}]
    /\ faults \in 0 .. MAX_FAULTS
    /\ full \in BOOLEAN

OpensOf(v, b) == {c \in Pending(b) : c.kind = "open" /\ c.vid = vehicles[v].id}

\* Slots a vehicle uses, keeps for the time of a handover, or has asked for; one
\* that is on its way out has given its slot up to the LEAVE it sent.
Claims(v) ==
    (IF vehicles[v].state = "exiting" THEN {} ELSE {vehicles[v].at, vehicles[v].old} \ {None})
    \cup UNION {{SessionAt(b, c.slot) : c \in OpensOf(v, b)} : b \in Board}

\* No two vehicles ever use, keep or wait for the same slot of a board, although
\* the slot is chosen from a reservation of one thread and a table of another.
SlotsExclusive ==
    \A v, w \in Vehicle : v # w => Claims(v) \cap Claims(w) = {}

\* A session a vehicle uses or keeps is open on its board under its own id until
\* the LEAVE it sends on its way out: during a handover both ends of
\* make-before-break are there.
SessionsBacked ==
    \A v \in Vehicle :
       LET u == vehicles[v]
           backed(x) == x # None => slots[x.board][x.slot] = u.id
       IN /\ u.state # "exiting" => backed(u.at)
          /\ u.state = "handover" => u.at # None /\ u.old = u.at
          /\ u.state # "exiting" => backed(u.old)

\* When its turn comes, a queued packet or LEAVE still finds the session it was
\* meant for: no session is taken down, and no slot handed on, ahead of it.
CommandsFindTheirSession ==
    \A b \in Board : \A c \in ElementsOf(commands[b]) :
       c.kind \in {"leave", "data"} => slots[b][c.slot] = c.vid

\* No two vehicles have the same id, although ids are used again.
IdsDiffer == \A v, w \in Vehicle : v # w => vehicles[v].id # vehicles[w].id

InUse(b, s) ==
    \/ \E v \in Vehicle : SessionAt(b, s) \in {vehicles[v].at, vehicles[v].old}
    \/ \E c \in Pending(b) : c.kind \in {"open", "leave"} /\ c.slot = s

\* Every open slot belongs to a vehicle that uses it or to a command that is on
\* its way: what is made is broken.  So while no call fails and no board is full.
NoOrphanSession ==
    faults = 0 /\ ~full =>
       \A b \in Board, s \in Slot : slots[b][s] # None => InUse(b, s)

\* Slots that are open for good: nobody uses them, and no command will close them.
LostSlots == {p \in Board \X Slot : slots[p[1]][p[2]] # None /\ ~InUse(p[1], p[2])}

\* A call that fails costs the boards one slot at most, whatever follows from it:
\* the retry, a handover that goes through before the retry is due, the exit of the
\* vehicle, failures of the retry itself.  So as long as no board is full.
FailureCostsOneSlot == ~full => Cardinality(LostSlots) <= faults

\* "make-before-break handover" (simulator.py): a vehicle that switches to
\* another session sends the LEAVE of the one it had.
SwitchLeavesOld ==
    [][\A v \in Vehicle : \A b \in Board, s \in Slot :
          /\ vehicles[v].at = SessionAt(b, s)
          /\ vehicles'[v].at \notin {None, SessionAt(b, s)}
          => \E c \in Pending(b)' : c.kind = "leave" /\ c.slot = s]_vars

\* A vehicle off the boundary has a session of the board on its side, while no
\* call fails and no board is full.
ServedByItsSide ==
    faults = 0 /\ ~full =>
       \A v \in Vehicle : vehicles[v].at # None /\ vehicles[v].place # "at"
                          => vehicles[v].at.board = BoardForPosition(v, vehicles[v].place)

\* A vehicle loses its session only by leaving the road: a handover that fails,
\* or that finds the next board full, costs it nothing.
SessionKept ==
    [][\A v \in Vehicle : vehicles[v].at # None /\ vehicles'[v].at = None
                          => vehicles[v].state = "exiting"]_vars

\* The slots as the controller and the workers hand them out together: a slot is
\* taken when its OPEN is submitted, not when the board answers it.
LeaseOf(b, s) ==
    IF slots[b][s] # None THEN slots[b][s]
    ELSE IF \E c \in Pending(b) : c.kind = "open" /\ c.slot = s
         THEN (CHOOSE c \in Pending(b) : c.kind = "open" /\ c.slot = s).vid
         ELSE None

Leases == [b \in Board |-> [s \in Slot |-> LeaseOf(b, s)]]

Lease == INSTANCE SlotLease WITH Tenant <- 0 .. MAX_SESSIONS, lease <- Leases

\* The two threads together hand slots out as one allocator would: the lowest
\* free one, to one vehicle at a time.
ImplementsSlotLease == Lease!LeaseSpec

\* A vehicle that waits for its boards does not wait for ever, paused or not,
\* whatever the boards answer, unless the window is closed.
WaitEnds ==
    \A v \in Vehicle : \A w \in Waiting :
       vehicles[v].state = w ~> vehicles[v].state # w \/ ui # "loop"

\* Once the window is closed both worker threads end and both ports are closed.
ThreadsEnd == ui # "loop" ~> \A b \in Board : ~alive[b] /\ port[b] = "closed"
=============================================================================
