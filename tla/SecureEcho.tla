----------------------------- MODULE SecureEcho -----------------------------
(***************************************************************************)
(* The UART demonstration end to end: uart_secure_client.py on the PC,     *)
(* uart_secure_demo.c with its drivers on the processor, and the session   *)
(* table of the programmable logic, over a serial line in which commands   *)
(* and answers are queued, late, or lost.                                  *)
(*                                                                         *)
(* The firmware reads a command only when it has answered the one before,  *)
(* so its step is one command; DATA takes two, the packet being opened and *)
(* its echo sealed by separate requests to the logic.  The client sends    *)
(* one command, waits, and exits on any answer it did not expect.          *)
(*                                                                         *)
(* The shared secret and the ciphertext are the known-answer ones, so the  *)
(* traffic material of a session is a function of its session id: a packet *)
(* or answer names the id it was sealed under.                             *)
(***************************************************************************)
EXTENDS Integers, Sequences

CONSTANTS Slot,         \* session slots
          GENERATIONS,  \* values of the generation field of an id (2^22)
          Body,         \* payloads the user types
          LATE,         \* may the board answer after the client has given up?
          GLITCHES,     \* restarts after which a fault may be detected between handshakes
          None,
          MAX_OPENS,    \* bound: slot -> joins sent for it since the board started
          MAX_PACKETS,  \* bound: packets a client sends in a session
          MAX_BOOTS,    \* bound: restarts of the board
          LINES         \* bound: lines waiting in a direction of the UART

ASSUME EchoAssumption == /\ GENERATIONS \in Nat \ {0} /\ LATE \in BOOLEAN /\ GLITCHES \subseteq Nat
                         /\ None \notin Body /\ "stale" \notin Body
                         /\ MAX_OPENS \in [Slot -> Nat] /\ MAX_PACKETS \in Nat
                         /\ MAX_BOOTS \in Nat /\ LINES \in Nat

VARIABLES
    \* firmware: locals of uart_secure_demo_run
    running, session_active, session_generation, session_id,
    serving,                \* DATA command between its opening and its echo
    \* programmable logic: its session table and sticky fault flag
    pl, fault,
    \* UART: lines on their way
    to_board, to_client,
    \* client
    client, cmd, sessions,
    churn,                  \* progress of a /churn step: phase, slot, old session
    \* history: restarts, nonces used by either side
    boot, board_nonces, client_packets

board == <<running, session_active, session_generation, session_id, serving>>
uart == <<to_board, to_client>>
pc == <<client, cmd, sessions, churn>>
history == <<boot, board_nonces, client_packets>>
vars == <<board, pl, fault, uart, pc, history>>

-----------------------------------------------------------------------------
(* Session ids. *)

make_session_id_Unmasked(s, generation) == <<s, generation>>   \* slip
make_session_id(s, generation) == <<s, generation % GENERATIONS>>

\* The sessions of pqc_64session_validation_run, which every start of the board
\* leaves in the table before the demonstration begins; no client knows them.
ValidationId(s) == <<s, GENERATIONS>>

DemoId == Slot \X (0 .. GENERATIONS - 1)
SessionId == DemoId \cup {ValidationId(s) : s \in Slot}

NextGeneration_Same(g) == g                                    \* slip
NextGeneration(g) == g + 1

Entry(sid, tx, rx) == [sid |-> sid, tx |-> tx, rx |-> rx]

Session == [sid : DemoId, tx : Nat, rx : Nat, boot : Nat]
Commands == [op : {"STATUS", "QUIT"}] \cup [op : {"OPEN", "LEAVE"}, slot : Slot]
            \cup [op : {"DATA"}, slot : Slot, sid : SessionId, ctr : Nat,
                  body : Body \cup {"stale"}]

\* None is told apart from everything a variable may hold.
ASSUME NoneAssumption ==
    /\ None \notin DemoId /\ None \notin Session /\ None \notin Commands
    /\ None \notin [phase : {"leaving", "left", "refused", "rejoined", "probed"},
                    slot : Slot, old : Session]

-----------------------------------------------------------------------------

Init == /\ running = TRUE
        /\ session_active = {}
        /\ session_generation = [s \in Slot |-> 0]
        /\ session_id = [s \in Slot |-> None]
        /\ serving = None
        /\ pl = [s \in Slot |-> Entry(ValidationId(s), 1, 0)]
        /\ fault = FALSE
        /\ to_board = <<>> /\ to_client = <<>>
        /\ client = "down" /\ cmd = None
        /\ sessions = [s \in Slot |-> None]
        /\ churn = None
        /\ boot = 0 /\ board_nonces = {} /\ client_packets = {}

-----------------------------------------------------------------------------
(* Firmware: one command of uart_secure_demo_run. *)

Takes(op) == /\ running /\ serving = None /\ Len(to_client) < LINES
             /\ to_board # <<>> /\ Head(to_board).op = op
             /\ to_board' = Tail(to_board)
Answer(line) == to_client' = Append(to_client, line)
Err(why) == [kind |-> "ERR", why |-> why]
NoneElse == UNCHANGED <<pc, boot>>

FwStatus == /\ Takes("STATUS")
            /\ Answer([kind |-> "STATUS"])
            /\ UNCHANGED <<board, pl, fault, board_nonces, client_packets>>
            /\ NoneElse

FwQuit == /\ Takes("QUIT")
          /\ Answer([kind |-> "BYE"])
          /\ running' = FALSE
          /\ UNCHANGED <<session_active, session_generation, session_id, serving, pl,
                         fault, board_nonces, client_packets>>
          /\ NoneElse

\* A handshake clears the fault flag when it begins.  It installs the session and
\* succeeds, or fails and installs nothing (FaultProtectedTop): for a fault, which
\* leaves the flag set, or because the decapsulation reports that it failed.
FwOpen ==
    /\ Takes("OPEN")
    /\ LET s == Head(to_board).slot
           new_id == make_session_id(s, session_generation[s])
       IN \/ /\ pl' = [pl EXCEPT ![s] = Entry(new_id, 0, 0)]
             /\ fault' = FALSE
             /\ session_active' = session_active \cup {s}
             /\ session_id' = [session_id EXCEPT ![s] = new_id]
             /\ session_generation' = [session_generation EXCEPT ![s] = NextGeneration(@)]
             /\ Answer([kind |-> "READY", slot |-> s, sid |-> new_id, boot |-> boot])
          \/ /\ fault' \in BOOLEAN
             /\ Answer(Err("KEM"))
             /\ UNCHANGED <<pl, session_active, session_id, session_generation>>
    /\ UNCHANGED <<running, serving, board_nonces, client_packets>>
    /\ NoneElse

\* LEAVE is logical: the table of the logic keeps the session.
FwLeave ==
    /\ Takes("LEAVE")
    /\ LET s == Head(to_board).slot
       IN \/ /\ s \notin session_active
             /\ Answer(Err("NOSESSION"))
             /\ UNCHANGED <<session_active, session_id>>
          \/ /\ s \in session_active
             /\ Answer([kind |-> "LEFT", slot |-> s, sid |-> session_id[s]])
             /\ session_active' = session_active \ {s}
             /\ session_id' = [session_id EXCEPT ![s] = None]
    /\ UNCHANGED <<running, session_generation, serving, pl, fault, board_nonces,
                   client_packets>>
    /\ NoneElse

\* The logic opens a packet sealed under the slot's session for its next counter.
Opens_AnySession(e, packet) == e.rx = packet.ctr               \* slip
Opens(e, packet) == e.sid = packet.sid /\ e.rx = packet.ctr

\* First request of DATA.  While the fault flag is set the logic serves requests
\* and counts them, but answers that they failed.
FwDecrypt ==
    /\ Takes("DATA")
    /\ LET packet == Head(to_board)
           s == packet.slot
       IN \/ /\ s \notin session_active
             /\ Answer(Err("NOSESSION"))
             /\ UNCHANGED <<pl, serving>>
          \/ /\ s \in session_active /\ ~Opens(pl[s], packet)
             /\ Answer(Err("AUTH"))
             /\ UNCHANGED <<pl, serving>>
          \/ /\ s \in session_active /\ Opens(pl[s], packet)
             /\ pl' = [pl EXCEPT ![s].rx = @ + 1]
             /\ \/ fault /\ Answer(Err("AUTH")) /\ UNCHANGED serving
                \/ ~fault /\ serving' = packet /\ UNCHANGED to_client
    /\ UNCHANGED <<running, session_active, session_generation, session_id, fault,
                   board_nonces, client_packets>>
    /\ NoneElse

\* Second request: the echo.
FwEncrypt ==
    /\ running /\ serving # None /\ Len(to_client) < LINES
    /\ LET s == serving.slot
           e == pl[s]
       IN /\ pl' = [pl EXCEPT ![s].tx = @ + 1]
          /\ board_nonces' = board_nonces \cup {<<e.sid, e.tx>>}
          /\ Answer(IF fault THEN Err("TX")
                    ELSE [kind |-> "RESP", slot |-> s, ctr |-> e.tx, sid |-> e.sid,
                          body |-> serving.body])
    /\ serving' = None
    /\ UNCHANGED <<running, session_active, session_generation, session_id, fault, to_board,
                   client_packets>>
    /\ NoneElse

\* A response pulse nobody asked for raises the fault flag (FaultProtectedTop).
Glitch == /\ boot \in GLITCHES /\ ~fault /\ fault' = TRUE
          /\ UNCHANGED <<board, pl, uart, pc, history>>

\* The board starts over: volatile generations, validation sessions in the table.
BoardRestart ==
    /\ boot < MAX_BOOTS /\ boot' = boot + 1
    /\ running' = TRUE
    /\ session_active' = {}
    /\ session_generation' = [s \in Slot |-> 0]
    /\ session_id' = [s \in Slot |-> None]
    /\ serving' = None
    /\ pl' = [s \in Slot |-> Entry(ValidationId(s), 1, 0)]
    /\ fault' = FALSE
    /\ UNCHANGED <<uart, pc, board_nonces, client_packets>>

-----------------------------------------------------------------------------
(* The line. *)

LoseCommand == /\ to_board # <<>> /\ to_board' = Tail(to_board)
               /\ UNCHANGED <<board, pl, fault, to_client, pc, history>>
LoseAnswer == /\ to_client # <<>> /\ to_client' = Tail(to_client)
              /\ UNCHANGED <<board, pl, fault, to_board, pc, history>>

\* Noise that ends in a newline is answered ERR CMD, ERR SLOT or ERR LINE.
FwNoise == /\ running /\ serving = None /\ Len(to_client) < LINES
           /\ Answer(Err("CMD"))
           /\ UNCHANGED <<board, pl, fault, to_board, pc, history>>

-----------------------------------------------------------------------------
(* Client. *)

BoardSide == <<board, pl, fault, boot, board_nonces>>

Send(c) == /\ Len(to_board) < LINES
           /\ to_board' = Append(to_board, c)
           /\ cmd' = c
           /\ client' = "wait"

Packet(s, state, body) ==
    [op |-> "DATA", slot |-> s, sid |-> state.sid, ctr |-> state.tx, body |-> body]
Seals(c) == client_packets' = client_packets \cup {<<c.sid, c.ctr, c.body>>}

\* Nothing the board has read, and nothing it will read before it is restarted,
\* is still to be answered.
Quiet == to_client = <<>> /\ serving = None /\ (running => to_board = <<>>)

\* main() drops what the port has received so far, which leaves answers that are
\* still on their way, and asks for the status first.
ClientStart ==
    /\ client = "down"
    /\ LATE \/ Quiet
    /\ Send([op |-> "STATUS"])
    /\ \E n \in 0 .. Len(to_client) : to_client' = SubSeq(to_client, n + 1, Len(to_client))
    /\ UNCHANGED <<sessions, churn, client_packets, BoardSide>>

\* A bound: opens sent for a slot.
MayOpen(s) == session_generation[s] < MAX_OPENS[s]

UserJoin(s) == /\ client = "prompt" /\ MayOpen(s)
               /\ Send([op |-> "OPEN", slot |-> s])
               /\ UNCHANGED <<to_client, sessions, churn, client_packets, BoardSide>>

UserLeave(s) == /\ client = "prompt" /\ sessions[s] # None
                /\ Send([op |-> "LEAVE", slot |-> s])
                /\ UNCHANGED <<to_client, sessions, churn, client_packets, BoardSide>>

UserStatus == /\ client = "prompt"
              /\ Send([op |-> "STATUS"])
              /\ UNCHANGED <<to_client, sessions, churn, client_packets, BoardSide>>

\* /quit does not wait for the answer.
UserQuit == /\ client = "prompt"
            /\ Len(to_board) < LINES
            /\ to_board' = Append(to_board, [op |-> "QUIT"])
            /\ client' = "down" /\ cmd' = None
            /\ sessions' = [s \in Slot |-> None]
            /\ UNCHANGED <<to_client, churn, client_packets, BoardSide>>

UserEcho(s, body) ==
    /\ client = "prompt"
    /\ sessions[s] # None /\ sessions[s].tx < MAX_PACKETS
    /\ LET packet == Packet(s, sessions[s], body) IN Send(packet) /\ Seals(packet)
    /\ UNCHANGED <<to_client, sessions, churn, BoardSide>>

\* /churn: leave, a stale packet that must meet no session, join, the stale
\* packet again that must fail authentication, an echo.
UserChurn(s) ==
    /\ client = "prompt" /\ sessions[s] # None
    /\ sessions[s].tx < MAX_PACKETS /\ MayOpen(s)
    /\ Send([op |-> "LEAVE", slot |-> s])
    /\ churn' = [phase |-> "leaving", slot |-> s, old |-> sessions[s]]
    /\ UNCHANGED <<to_client, sessions, client_packets, BoardSide>>

ChurnStale ==
    /\ client = "churn" /\ churn.phase \in {"left", "rejoined"}
    /\ LET packet == Packet(churn.slot, churn.old, "stale") IN Send(packet) /\ Seals(packet)
    /\ UNCHANGED <<to_client, sessions, churn, BoardSide>>

ChurnJoin == /\ client = "churn" /\ churn.phase = "refused"
             /\ Send([op |-> "OPEN", slot |-> churn.slot])
             /\ UNCHANGED <<to_client, sessions, churn, client_packets, BoardSide>>

ChurnEcho == /\ client = "churn" /\ churn.phase = "probed"
             /\ churn' = None
             /\ \E body \in Body :
                    LET packet == Packet(churn.slot, sessions[churn.slot], body)
                    IN Send(packet) /\ Seals(packet)
             /\ UNCHANGED <<to_client, sessions, BoardSide>>

NextPhase(phase) == CASE phase = "leaving" -> "left" [] phase = "left" -> "refused"
                      [] phase = "refused" -> "rejoined" [] phase = "rejoined" -> "probed"

\* What the client takes for the answer to its command.
StaleProbe == cmd.op = "DATA" /\ cmd.body = "stale"
Expected(a) ==
    \/ cmd.op = "STATUS" /\ a.kind = "STATUS"
    \/ cmd.op = "OPEN" /\ a.kind = "READY" /\ a.slot = cmd.slot
    \/ cmd.op = "LEAVE" /\ a.kind = "LEFT" /\ a.slot = cmd.slot
                       /\ a.sid = sessions[cmd.slot].sid
    \/ StaleProbe /\ a.kind = "ERR"
                  /\ a.why = IF churn.phase = "left" THEN "NOSESSION" ELSE "AUTH"
    \/ cmd.op = "DATA" /\ ~StaleProbe /\ a.kind = "RESP" /\ a.slot = cmd.slot
                      /\ a.ctr = sessions[cmd.slot].rx /\ a.sid = sessions[cmd.slot].sid
                      /\ a.body = cmd.body

Counted(held) == [sid |-> held.sid, tx |-> held.tx + 1, rx |-> held.rx + 1,
                  boot |-> held.boot]

\* What an expected answer does to the client's sessions.
Updated(a) ==
    CASE cmd.op = "OPEN" ->
            [sessions EXCEPT ![cmd.slot] = [sid |-> a.sid, tx |-> 0, rx |-> 0, boot |-> a.boot]]
      [] cmd.op = "LEAVE" -> [sessions EXCEPT ![cmd.slot] = None]
      [] cmd.op = "DATA" /\ ~StaleProbe ->
            [sessions EXCEPT ![cmd.slot] = Counted(sessions[cmd.slot])]
      [] OTHER -> sessions

Exit_StaysUp == /\ client' = "prompt" /\ cmd' = None      \* slip: reports and goes on
                /\ churn' = None /\ UNCHANGED sessions
Exit == /\ client' = "down" /\ cmd' = None
        /\ churn' = None /\ sessions' = [s \in Slot |-> None]

Receive ==
    /\ client = "wait" /\ to_client # <<>>
    /\ to_client' = Tail(to_client)
    /\ \/ /\ Expected(Head(to_client))
          /\ sessions' = Updated(Head(to_client))
          /\ cmd' = None
          /\ client' = IF churn = None THEN "prompt" ELSE "churn"
          /\ churn' = IF churn = None THEN None
                      ELSE [churn EXCEPT !.phase = NextPhase(@)]
       \/ ~Expected(Head(to_client)) /\ Exit
    /\ UNCHANGED <<to_board, client_packets, BoardSide>>

\* read_protocol_line gives up after 60 seconds; every wait of the firmware is
\* bounded by its poll limit, a second or so.
Timeout == /\ client = "wait"
           /\ LATE \/ Quiet
           /\ Exit
           /\ UNCHANGED <<uart, client_packets, BoardSide>>

\* The user stops the client at any moment.
Interrupt == /\ client # "down"
             /\ Exit
             /\ UNCHANGED <<uart, client_packets, BoardSide>>

-----------------------------------------------------------------------------

Firmware == FwStatus \/ FwQuit \/ FwOpen \/ FwLeave \/ FwDecrypt \/ FwEncrypt
User == \/ ClientStart \/ UserStatus \/ UserQuit
        \/ \E s \in Slot : UserJoin(s) \/ UserLeave(s) \/ UserChurn(s)
        \/ \E s \in Slot, body \in Body : UserEcho(s, body)
ChurnStep == ChurnStale \/ ChurnJoin \/ ChurnEcho
Environment == Glitch \/ BoardRestart \/ LoseCommand \/ LoseAnswer \/ FwNoise

Next == Firmware \/ User \/ ChurnStep \/ Receive \/ Timeout \/ Interrupt \/ Environment

Spec == Init /\ [][Next]_vars

-----------------------------------------------------------------------------
(* Properties. *)

\* Every variable holds a value of its kind; an id has its generation field masked.
TypeOK ==
    /\ running \in BOOLEAN /\ fault \in BOOLEAN
    /\ session_active \subseteq Slot
    /\ session_generation \in [Slot -> Nat]
    /\ session_id \in [Slot -> DemoId \cup {None}]
    /\ serving = None \/ serving \in Commands
    /\ \A s \in Slot : pl[s] \in [sid : SessionId, tx : Nat, rx : Nat]
    /\ \A i \in DOMAIN to_board : to_board[i] \in Commands
    /\ client \in {"down", "prompt", "wait", "churn"}
    /\ cmd = None \/ cmd \in Commands
    /\ (client = "wait") = (cmd # None)
    /\ \A s \in Slot : sessions[s] = None \/ sessions[s] \in Session

\* If answers are not later than the client's patience: while the client is not
\* waiting for an answer, a session it holds is the one
\* the firmware authorises and the one in the logic's table, with each side's
\* send counter equal to the other's receive counter: no lost or unexpected
\* answer, restart or failed operation leaves the two out of step.
SessionsAgree ==
    client \in {"prompt", "churn"} =>
        \A s \in Slot : sessions[s] # None /\ sessions[s].boot = boot =>
            /\ s \in session_active
            /\ session_id[s] = sessions[s].sid
            /\ pl[s] = Entry(sessions[s].sid, sessions[s].rx, sessions[s].tx)

\* The board never seals two echoes under the same key and counter.
BoardNonceNeverRepeats ==
    [][serving # None /\ serving' = None /\ boot' = boot
        => <<pl[serving.slot].sid, pl[serving.slot].tx>> \notin board_nonces]_vars

\* The client never seals two payloads under the same key and counter.
OnePayloadPerNonce ==
    \A p, q \in client_packets : p[1] = q[1] /\ p[2] = q[2] => p = q

\* A packet of a session that was left is not echoed, neither before nor after
\* another user has joined in its slot.
StaleNeverEchoed ==
    \A i \in DOMAIN to_client : to_client[i].kind = "RESP" => to_client[i].body # "stale"
=============================================================================
