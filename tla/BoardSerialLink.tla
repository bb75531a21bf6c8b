--------------------------- MODULE BoardSerialLink ---------------------------
(***************************************************************************)
(* One board of the handover demonstration behind its serial line: the     *)
(* link object a BoardWorker calls, the line in both directions, and the   *)
(* session table of the firmware.                                          *)
(*                                                                         *)
(* The repository has three link classes for the same board: the one       *)
(* demo_pr5.py uses (serial_board_v2.py), a variant of it                  *)
(* (board_link_v2.py), and the one for the earlier fixed-vector protocol   *)
(* (board_link.py).  They differ in how they start and in how they open a  *)
(* session, and are the same in the rest.                                  *)
(*                                                                         *)
(* A call writes one line and takes the next line that comes as its        *)
(* answer.  A call that gives up leaves its answer on the line, and        *)
(* nothing but a new start throws waiting lines away.                      *)
(***************************************************************************)
EXTENDS Integers, Sequences

CONSTANTS
    LINKS,       \* among "serial_board_v2", "board_link_v2" and "board_link"
    Slot, VehicleId, Payload,
    None,
    MAX_OPENS,   \* bound: OPENs sent
    MAX_PACKETS, \* bound: packets opened in a session
    MAX_FAULTS,  \* bound: lines lost or cut, OPENs refused, calls given up early
    MAX_STARTS   \* bound: times the program is started

\* Lines: a command or an answer, what it is about, and the packet or key it carries.
Command == {"HELLO", "STATUS", "RESET", "OPEN", "LEAVE", "DATA", "SWKEM"}
Packet == [kem : Int, sid : Nat, counter : Nat, payload : Payload \cup {None}]
AnyLine == [kind : Command \cup {"READY", "RESP", "LEFT", "ERR", "cut"},
            slot : Slot \cup {None}, sid : Nat \cup {None},
            vid : VehicleId \cup {None}, packet : Packet \cup Int \cup {None}]

PcSession == [vid : VehicleId, sid : Nat, kem : Int, counter : Nat]

ASSUME LinkAssumption ==
    /\ LINKS \subseteq {"serial_board_v2", "board_link_v2", "board_link"}
    /\ {MAX_OPENS, MAX_PACKETS, MAX_FAULTS, MAX_STARTS} \subseteq Nat
    /\ None \notin Payload \cup VehicleId \cup Slot \cup PcSession \cup AnyLine

VARIABLES
    \* the class of link in use, the link object, and what the worker has learned
    LINK, link, call, sessions, sw_supported,
    \* the line
    to_board, to_pc,
    \* the firmware: its sessions and the number of the next one
    board, next_sid,
    \* history: packets the board has opened, OPENs, faults, starts, and whether
    \* a call has given up while its answer was still to come
    opened, opens, faults, starts, late

pc == <<link, call, sessions, sw_supported>>
uart == <<to_board, to_pc>>
firmware == <<board, next_sid>>
bounds == <<opens, faults, starts>>
vars == <<LINK, pc, uart, firmware, opened, bounds, late>>

-----------------------------------------------------------------------------
(* Lines.  A packet names the key and the session it was sealed under, its  *)
(* counter and its contents.                                                *)

Message(kind, slot, sid, vid, packet) ==
    [kind |-> kind, slot |-> slot, sid |-> sid, vid |-> vid, packet |-> packet]

Line(kind) == Message(kind, None, None, None, None)

\* The keys of a session follow from a fresh encapsulation, or, with the fixed
\* vectors of board_link.py, from the session id alone.
Encapsulation == IF LINK = "board_link" THEN 0 ELSE opens + 1

seal(s, payload) == [kem |-> s.kem, sid |-> s.sid, counter |-> s.counter, payload |-> payload]
altered(p) == [kem |-> p.kem, sid |-> p.sid, counter |-> p.counter, payload |-> None]

\* A packet can be opened by whoever holds its key and session, unaltered.
Authentic(packet, s) == packet.kem = s.kem /\ packet.sid = s.sid /\ packet.payload # None

NoSessions == [s \in Slot |-> None]

Init == /\ LINK \in LINKS
        /\ link = "closed" /\ call = None
        /\ sessions = NoSessions
        /\ sw_supported = "unknown"
        /\ to_board = <<>> /\ to_pc = <<>>
        /\ board \in {NoSessions} \cup
              {[NoSessions EXCEPT ![s] = [vid |-> v, sid |-> 0, kem |-> -1, counter |-> 0]]
                  : s \in Slot, v \in VehicleId}
        /\ next_sid = 1
        /\ opened = {}
        /\ opens = 0 /\ faults = 0 /\ starts = 0 /\ late = FALSE

-----------------------------------------------------------------------------
(* Start.  The first exchange checks the port; serial_board_v2 then resets  *)
(* the board.                                                               *)

First == IF LINK = "board_link" THEN "STATUS" ELSE "HELLO"

Flushed_Kept(line) == line                                     \* slip
Flushed(line) == <<>>

Start ==
    /\ link = "closed" /\ starts < MAX_STARTS
    /\ starts' = starts + 1
    /\ link' = "greeting"
    /\ call' = Line(First)
    /\ sessions' = NoSessions
    /\ sw_supported' = "unknown"
    /\ to_pc' = Flushed(to_pc)
    /\ to_board' = Append(to_board, Line(First))
    /\ UNCHANGED <<LINK, firmware, opened, opens, faults, late>>

\* The program ends, perhaps in the middle of a call.
Close == /\ link = "up"
         /\ link' = "closed" /\ call' = None
         /\ UNCHANGED <<LINK, sessions, sw_supported, uart, firmware, opened, bounds, late>>

-----------------------------------------------------------------------------
(* Calls of the worker, each refused at once when the local session map     *)
(* says so.                                                                 *)

MayOpen(s) == LINK = "board_link" \/ sessions[s] = None

Ask(line) == /\ link = "up" /\ call = None
             /\ call' = line
             /\ to_board' = Append(to_board, line)
             /\ UNCHANGED <<LINK, link, sessions, sw_supported, to_pc, firmware>>
             /\ UNCHANGED <<opened, faults, starts, late>>

open_session(s, v) ==
    /\ MayOpen(s) /\ opens < MAX_OPENS
    /\ opens' = opens + 1
    /\ Ask(Message("OPEN", s, None, v, Encapsulation))

leave_session(s) == /\ sessions[s] # None
                    /\ Ask(Message("LEAVE", s, None, None, None))
                    /\ UNCHANGED opens

send_data(s, payload, tamper) ==
    /\ sessions[s] # None /\ sessions[s].counter < MAX_PACKETS
    /\ LET packet == seal(sessions[s], payload) IN
       Ask(Message("DATA", s, None, None, IF tamper THEN altered(packet) ELSE packet))
    /\ UNCHANGED opens

sw_kem == /\ LINK = "serial_board_v2"
          /\ sw_supported # "no"
          /\ Ask(Line("SWKEM"))
          /\ UNCHANGED opens

-----------------------------------------------------------------------------
(* The firmware: the command loop of uart_secure_demo.c, to which           *)
(* board_link.py talks.  The two-board firmware of the other classes, which *)
(* adds HELLO, RESET and a vehicle to OPEN and READY, is not in the         *)
(* repository and is taken to answer the rest alike; it may or may not have *)
(* been given the SWKEM of swkem_patch.c.  A failed handshake leaves the    *)
(* session of the slot alone.  An echo that fails after its packet was      *)
(* opened (ERR TX) is to the PC what a cut answer is.                       *)

Reply(line) == to_board' = Tail(to_board) /\ to_pc' = Append(to_pc, line)

Ready(c) ==
    /\ board' = [board EXCEPT ![c.slot] =
                    [vid |-> c.vid, sid |-> next_sid, kem |-> c.packet, counter |-> 0]]
    /\ next_sid' = next_sid + 1
    /\ Reply(Message("READY", c.slot, next_sid, c.vid, None))
    /\ UNCHANGED <<opened, faults>>

Refuse(c) ==
    /\ \/ c.kind = "OPEN" /\ board[c.slot] # None /\ faults' = faults
       \/ c.kind = "OPEN" /\ board[c.slot] = None /\ faults < MAX_FAULTS /\ faults' = faults + 1
       \/ c.kind = "LEAVE" /\ board[c.slot] = None /\ faults' = faults
       \/ c.kind = "SWKEM" /\ faults' = faults
       \/ /\ c.kind = "DATA" /\ faults' = faults
          /\ board[c.slot] # None => \/ ~Authentic(c.packet, board[c.slot])
                                     \/ c.packet.counter # board[c.slot].counter
    /\ Reply(Line("ERR"))
    /\ UNCHANGED <<firmware, opened>>

Echo(c) ==
    /\ board[c.slot] # None
    /\ Authentic(c.packet, board[c.slot])
    /\ c.packet.counter = board[c.slot].counter
    /\ board' = [board EXCEPT ![c.slot].counter = @ + 1]
    /\ opened' = opened \cup {c.packet}
    /\ Reply(Message("RESP", c.slot, None, None, c.packet))
    /\ UNCHANGED <<next_sid, faults>>

Left(c) ==
    /\ board[c.slot] # None
    /\ board' = [board EXCEPT ![c.slot] = None]
    /\ Reply(Message("LEFT", c.slot, board[c.slot].sid, None, None))
    /\ UNCHANGED <<next_sid, opened, faults>>

Board ==
    /\ to_board # <<>>
    /\ LET c == Head(to_board) IN
       \/ c.kind = "OPEN" /\ Ready(c)
       \/ c.kind = "DATA" /\ Echo(c)
       \/ c.kind = "LEAVE" /\ Left(c)
       \/ c.kind \in {"OPEN", "LEAVE", "DATA", "SWKEM"} /\ Refuse(c)
       \/ /\ c.kind = "RESET"
          /\ board' = NoSessions
          /\ Reply(Line("RESET"))
          /\ UNCHANGED <<next_sid, opened, faults>>
       \/ /\ c.kind \in {"HELLO", "STATUS", "SWKEM"}
          /\ Reply(Line(c.kind))
          /\ UNCHANGED <<firmware, opened, faults>>
    /\ UNCHANGED <<LINK, pc, opens, starts, late>>

\* A command or an answer is lost, or an answer reaches the PC in two halves, of
\* which the first is too short and the second starts with no known word.
LoseLine ==
    /\ faults < MAX_FAULTS
    /\ faults' = faults + 1
    /\ \/ to_board # <<>> /\ to_board' = Tail(to_board) /\ UNCHANGED to_pc
       \/ /\ to_pc # <<>> /\ UNCHANGED to_board
          /\ to_pc' = SubSeq(to_pc, 1, Len(to_pc) - 1)
       \/ /\ to_pc # <<>> /\ UNCHANGED to_board
          /\ to_pc' = [to_pc EXCEPT ![Len(to_pc)] = Line("cut")]
    /\ UNCHANGED <<LINK, pc, firmware, opened, opens, starts, late>>

-----------------------------------------------------------------------------
(* Answers.  The next line is taken as the answer of the call.              *)

ReadyFor(c, a) == /\ a.kind = "READY" /\ a.slot = c.slot
                  /\ LINK = "board_link" \/ a.vid = c.vid

Session(c, a) == [vid |-> c.vid, sid |-> a.sid, kem |-> c.packet, counter |-> 0]

LeftFor_AnySlot(c, a) == a.kind = "LEFT"                       \* slip
LeftFor(c, a) == a.kind = "LEFT" /\ a.slot = c.slot /\ a.sid = sessions[c.slot].sid

\* The response must carry the counter of the request, open under the keys of
\* the session, and repeat the payload.  An altered packet is never an echo.
RespFor_AnyPayload(c, a) ==                                    \* slip
    /\ a.kind = "RESP" /\ a.slot = c.slot
    /\ a.packet.counter = sessions[c.slot].counter
    /\ Authentic(a.packet, sessions[c.slot])
RespFor(c, a) ==
    /\ a.kind = "RESP" /\ a.slot = c.slot
    /\ a.packet.counter = sessions[c.slot].counter
    /\ Authentic(a.packet, sessions[c.slot])
    /\ a.packet.payload = c.packet.payload

\* Sessions after an answer; one that is not accepted changes nothing.
Answered_AnyReady(c, a) ==                                     \* slip
    CASE c.kind = "OPEN" -> [sessions EXCEPT ![c.slot] = Session(c, a)]
      [] c.kind = "LEAVE" /\ LeftFor(c, a) -> [sessions EXCEPT ![c.slot] = None]
      [] c.kind = "DATA" /\ RespFor(c, a) -> [sessions EXCEPT ![c.slot].counter = @ + 1]
      [] OTHER -> sessions
Answered(c, a) ==
    CASE c.kind = "OPEN" /\ ReadyFor(c, a) -> [sessions EXCEPT ![c.slot] = Session(c, a)]
      [] c.kind = "LEAVE" /\ LeftFor(c, a) -> [sessions EXCEPT ![c.slot] = None]
      [] c.kind = "DATA" /\ RespFor(c, a) -> [sessions EXCEPT ![c.slot].counter = @ + 1]
      [] OTHER -> sessions

Greets_Anything(a) == a.kind # "ERR"                           \* slip
Greets(a) == a.kind = call.kind

Receive ==
    /\ call # None /\ to_pc # <<>>
    /\ to_pc' = Tail(to_pc)
    /\ LET a == Head(to_pc) IN
       \/ /\ link = "greeting" /\ Greets(a) /\ LINK = "serial_board_v2"
          /\ link' = "resetting"
          /\ call' = Line("RESET")
          /\ to_board' = Append(to_board, Line("RESET"))
          /\ UNCHANGED <<sessions, sw_supported>>
       \/ /\ \/ link = "resetting" /\ Greets(a)
             \/ link = "greeting" /\ Greets(a) /\ LINK # "serial_board_v2"
          /\ link' = "up" /\ call' = None
          /\ UNCHANGED <<to_board, sessions, sw_supported>>
       \/ /\ link \in {"greeting", "resetting"} /\ ~Greets(a)
          /\ link' = "closed" /\ call' = None
          /\ UNCHANGED <<to_board, sessions, sw_supported>>
       \/ /\ link = "up"
          /\ call' = None
          /\ sessions' = Answered(call, a)
          /\ sw_supported' = IF call.kind # "SWKEM" THEN sw_supported
                             ELSE IF a.kind = "SWKEM" THEN "yes" ELSE "no"
          /\ UNCHANGED <<link, to_board>>
    /\ UNCHANGED <<LINK, firmware, opened, bounds, late>>

\* The deadline of _read_protocol_line.  sw_kem takes it for a missing command.
Timeout ==
    /\ call # None /\ to_pc = <<>>
    /\ \/ to_board = <<>> /\ faults' = faults /\ late' = late
       \/ to_board # <<>> /\ faults < MAX_FAULTS /\ faults' = faults + 1 /\ late' = TRUE
    /\ link' = IF link = "up" THEN "up" ELSE "closed"
    /\ call' = None
    /\ sw_supported' = IF call.kind = "SWKEM" THEN "no" ELSE sw_supported
    /\ UNCHANGED <<LINK, sessions, uart, firmware, opened, opens, starts>>

-----------------------------------------------------------------------------

Next == \/ Start \/ Close \/ sw_kem
        \/ \E s \in Slot : leave_session(s)
                           \/ (\E v \in VehicleId : open_session(s, v))
                           \/ \E p \in Payload, t \in BOOLEAN : send_data(s, p, t)
        \/ Board \/ LoseLine \/ Receive \/ Timeout

\* The board answers what it reads, and a call reads or gives up; the user starts
\* the program again as long as it has not come up.
Fairness == WF_vars(Board) /\ WF_vars(Receive) /\ WF_vars(Timeout) /\ WF_vars(Start)

Spec == Init /\ [][Next]_vars
FairSpec == Spec /\ Fairness

-----------------------------------------------------------------------------
(* Properties.                                                              *)

TypeOK ==
    /\ link \in {"closed", "greeting", "resetting", "up"}
    /\ call # None => call.kind \in Command
    /\ sessions \in [Slot -> PcSession \cup {None}]
    /\ board \in [Slot -> PcSession \cup {None}]
    /\ sw_supported \in {"unknown", "yes", "no"}
    /\ next_sid \in Nat \ {0}

\* A link that comes up has an empty board in front of it and nothing on the
\* line, however many starts before it failed half-way and whatever the program
\* that ended before them had asked (serial_board_v2, calls that wait long enough).
StartsEmpty ==
    [][LINK = "serial_board_v2" /\ ~late /\ link # "up" /\ link' = "up" =>
          board' = NoSessions /\ to_board' = <<>> /\ to_pc' = <<>>]_vars

\* A session the PC holds is the board's, under the same keys, with a counter at
\* most one packet behind; or the board has left it in a LEAVE whose answer was
\* lost.  So for serial_board_v2, and for the first start of board_link_v2, which
\* does not reset the board; board_link may open a slot it holds.
HeldSessionAgrees ==
    ~late /\ (LINK = "serial_board_v2" \/ (LINK = "board_link_v2" /\ starts = 1)) =>
       \A s \in Slot :
          link = "up" /\ sessions[s] # None /\ call = None /\ board[s] # None =>
             /\ \A f \in {"vid", "sid", "kem"} : sessions[s][f] = board[s][f]
             /\ board[s].counter \in {sessions[s].counter, sessions[s].counter + 1}

\* "secure echo verified": when the PC counts a packet, the board has opened that
\* very packet, whatever late answers are on the line.
EchoMeansOpened ==
    [][\A s \in Slot :
          call # None /\ call.kind = "DATA" /\ sessions'[s] # sessions[s]
          => \E p \in opened : /\ p.sid = sessions[s].sid /\ p.kem = sessions[s].kem
                               /\ p.counter = sessions[s].counter
                               /\ p.payload = call.packet.payload]_vars

\* When the PC forgets a session on a LEFT, the board no longer has it.
LeftMeansLeft ==
    [][\A s \in Slot :
          link' = "up" /\ sessions[s] # None /\ sessions'[s] = None
          => board[s] = None \/ board[s].sid # sessions[s].sid]_vars

\* Once no more lines are lost or late, a start against a board that has answered
\* all it was sent comes up, whatever stale lines wait on the PC's side.
ComesUp ==
    (link = "closed" /\ to_board = <<>> /\ faults = MAX_FAULTS /\ starts < MAX_STARTS)
    ~> link = "up"
=============================================================================
