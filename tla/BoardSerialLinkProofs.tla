------------------------ MODULE BoardSerialLinkProofs ------------------------
(***************************************************************************)
(* A board's serial link, proved for all link classes, every number of     *)
(* slots and vehicles, and any number of lost, cut and late lines, refused *)
(* commands and restarts: an echo is counted only for a packet the board   *)
(* has opened, a session is forgotten only when the board has, and the two *)
(* sides agree while no call gives up early.                               *)
(*                                                                         *)
(* Late answers make every answer a possible answer of every later call,   *)
(* so IInv says what each line on its way to the PC is worth whenever it   *)
(* is read.                                                                *)
(***************************************************************************)
EXTENDS BoardSerialLink, TLAPS

CommandLine ==
    {c \in AnyLine :
        /\ c.kind \in Command
        /\ c.kind \in {"OPEN", "LEAVE", "DATA"} => c.slot \in Slot
        /\ c.kind = "OPEN" => c.vid \in VehicleId /\ c.packet \in Int
        /\ c.kind = "DATA" => c.packet \in Packet}

\* An echo on the line is of a packet the board has opened; the session of a LEFT
\* on the line is not on the board, and no later one will have its number.
AnswerLine ==
    {a \in AnyLine :
        /\ a.kind = "READY" => a.sid \in Nat
        /\ a.kind = "RESP" => a.packet \in opened
        /\ a.kind = "LEFT" =>
              /\ a.sid \in Nat /\ a.sid < next_sid
              /\ \A s \in Slot : board[s] # None => board[s].sid # a.sid}

Lines == /\ to_board \in Seq(CommandLine)
         /\ to_pc \in Seq(AnswerLine)
         /\ opened \subseteq Packet

\* A call that is under way and what it needs.
Asked ==
    /\ link = "closed" => call = None
    /\ call # None => call \in CommandLine
    /\ call # None /\ call.kind \in {"OPEN", "LEAVE", "DATA"} => link = "up"
    /\ call # None /\ call.kind \in {"LEAVE", "DATA"} => sessions[call.slot] # None

\* The board's sessions have numbers of their own, all given out before.
Numbered ==
    /\ \A s \in Slot : board[s] # None => board[s].sid < next_sid
    /\ \A s, t \in Slot : s # t /\ board[s] # None /\ board[t] # None
                          => board[s].sid # board[t].sid

Kinds == /\ LINK \in LINKS
         /\ link \in {"closed", "greeting", "resetting", "up"}
         /\ sessions \in [Slot -> PcSession \cup {None}]
         /\ board \in [Slot -> PcSession \cup {None}]
         /\ sw_supported \in {"unknown", "yes", "no"}
         /\ next_sid \in Nat \ {0}
         /\ opens \in Nat

IInv == Kinds /\ Lines /\ Asked /\ Numbered

-----------------------------------------------------------------------------
(* Sequences of lines.                                                      *)

\* A line put at the end of a queue of good lines leaves it a queue of good lines.
LEMMA Appended ==
    ASSUME NEW S, NEW q \in Seq(S), NEW x \in S
    PROVE  Append(q, x) \in Seq(S)
OBVIOUS

\* The first line of a queue that is not empty is a good one, and so is the rest.
LEMMA Taken ==
    ASSUME NEW S, NEW q \in Seq(S), q # <<>>
    PROVE  Head(q) \in S /\ Tail(q) \in Seq(S)
OBVIOUS

\* What is good for fewer lines is good for more.
LEMMA Widened ==
    ASSUME NEW S, NEW T, S \subseteq T, NEW q \in Seq(S)
    PROVE  q \in Seq(T)
OBVIOUS

\* A queue without its last line.
LEMMA Shortened ==
    ASSUME NEW S, NEW q \in Seq(S), q # <<>>
    PROVE  SubSeq(q, 1, Len(q) - 1) \in Seq(S)
OBVIOUS

\* A queue with another last line.
LEMMA Replaced ==
    ASSUME NEW S, NEW q \in Seq(S), q # <<>>, NEW x \in S
    PROVE  [q EXCEPT ![Len(q)] = x] \in Seq(S)
OBVIOUS

\* A line with only a kind.
LEMMA PlainLine ==
    ASSUME NEW k \in Command \cup {"READY", "RESP", "LEFT", "ERR", "cut"}
    PROVE  /\ Line(k) \in AnyLine
           /\ Line(k).kind = k
BY DEF Line, Message, AnyLine

-----------------------------------------------------------------------------
(* Every step keeps the invariant.                                          *)

\* The program before its first start.
LEMMA InvariantInit == Init => IInv
<1> SUFFICES ASSUME Init PROVE IInv
  OBVIOUS
<1> USE LinkAssumption DEF Init
<1>1. \A s \in Slot, v \in VehicleId :
         [NoSessions EXCEPT ![s] = [vid |-> v, sid |-> 0, kem |-> -1, counter |-> 0]]
            \in [Slot -> PcSession \cup {None}]
  BY DEF NoSessions, PcSession
<1>2. board \in [Slot -> PcSession \cup {None}] /\ sessions \in [Slot -> PcSession \cup {None}]
  BY <1>1 DEF NoSessions
<1>3. Kinds
  BY <1>2 DEF Kinds
<1>4. Lines
  BY DEF Lines
<1>5. Asked
  BY DEF Asked
<1>6. Numbered
  BY DEF Numbered, NoSessions
<1> QED
  BY <1>3, <1>4, <1>5, <1>6 DEF IInv

\* While the board, what it has opened and its numbers stay, so do good answers.
LEMMA SameAnswers ==
    ASSUME UNCHANGED <<board, next_sid, opened>>
    PROVE  AnswerLine' = AnswerLine
BY DEF AnswerLine

\* Starting sends one plain line.
LEMMA StartStep == IInv /\ Start => IInv'
<1> SUFFICES ASSUME IInv, Start PROVE IInv'
  OBVIOUS
<1> USE DEF IInv, Start, firmware
<1>1. First \in {"HELLO", "STATUS"}
  BY DEF First
<1>2. Line(First) \in CommandLine /\ Line(First).kind = First
  BY <1>1, PlainLine DEF CommandLine, Command
<1>4. Kinds'
  BY DEF Kinds, NoSessions
<1>5. Lines'
  BY <1>2, Appended, SameAnswers DEF Lines, Flushed
<1>6. Asked'
  BY <1>1, <1>2 DEF Asked
<1>7. Numbered'
  BY DEF Numbered
<1> QED
  BY <1>4, <1>5, <1>6, <1>7

\* Ending the program forgets the call.
LEMMA CloseStep == IInv /\ Close => IInv'
<1> SUFFICES ASSUME IInv, Close PROVE IInv'
  OBVIOUS
<1> USE DEF IInv, Close, uart, firmware, bounds
<1>1. Kinds'
  BY DEF Kinds
<1>2. Lines'
  BY SameAnswers DEF Lines
<1>3. Asked'
  BY DEF Asked
<1>4. Numbered'
  BY DEF Numbered
<1> QED
  BY <1>1, <1>2, <1>3, <1>4

\* A call of a link that is up sends a command that is good for its session.
LEMMA AskStep ==
    ASSUME IInv, NEW c \in CommandLine, Ask(c), opens' \in Nat,
           c.kind \in {"LEAVE", "DATA"} => sessions[c.slot] # None
    PROVE  IInv'
<1> USE DEF IInv, Ask, firmware
<1>1. Kinds'
  BY DEF Kinds
<1>2. Lines'
  BY Appended, SameAnswers DEF Lines
<1>3. CommandLine' = CommandLine
  BY DEF CommandLine
<1>4. Asked'
  BY <1>3 DEF Asked
<1>5. Numbered'
  BY DEF Numbered
<1> QED
  BY <1>1, <1>2, <1>4, <1>5

\* Every call puts one good command on the line.
LEMMA CallStep ==
    ASSUME IInv,
           \/ sw_kem
           \/ \E s \in Slot : leave_session(s)
           \/ \E s \in Slot, v \in VehicleId : open_session(s, v)
           \/ \E s \in Slot, p \in Payload, t \in BOOLEAN : send_data(s, p, t)
    PROVE  IInv'
<1>1. CASE sw_kem
  <2>1. Line("SWKEM") \in CommandLine /\ Line("SWKEM").kind = "SWKEM"
    BY PlainLine DEF CommandLine, Command
  <2> QED
    BY <1>1, <2>1, AskStep DEF sw_kem, IInv, Kinds
<1>2. ASSUME NEW s \in Slot, leave_session(s) PROVE IInv'
  <2> DEFINE c == Message("LEAVE", s, None, None, None)
  <2>1. c \in CommandLine /\ c.slot = s
    BY DEF CommandLine, AnyLine, Command, Message
  <2> QED
    BY <1>2, <2>1, AskStep DEF leave_session, IInv, Kinds
<1>3. ASSUME NEW s \in Slot, NEW v \in VehicleId, open_session(s, v) PROVE IInv'
  <2> DEFINE c == Message("OPEN", s, None, v, Encapsulation)
  <2>1. Encapsulation \in Int
    BY DEF Encapsulation, IInv, Kinds
  <2>2. c \in CommandLine /\ c.kind = "OPEN"
    BY <2>1 DEF CommandLine, AnyLine, Command, Message
  <2>3. opens' \in Nat
    BY <1>3 DEF open_session, IInv, Kinds
  <2> QED
    BY <1>3, <2>2, <2>3, AskStep DEF open_session
<1>4. ASSUME NEW s \in Slot, NEW p \in Payload, NEW t \in BOOLEAN, send_data(s, p, t)
      PROVE  IInv'
  <2> DEFINE sealed == seal(sessions[s], p)
             packet == IF t THEN altered(sealed) ELSE sealed
             c == Message("DATA", s, None, None, packet)
  <2>1. sessions[s] \in PcSession
    BY <1>4 DEF send_data, IInv, Kinds
  <2>2. sealed \in Packet
    BY <2>1 DEF seal, PcSession, Packet
  <2>3. altered(sealed) \in Packet
    BY <2>2 DEF altered, Packet
  <2>4. packet \in Packet
    BY <2>2, <2>3
  <2>5. c \in CommandLine /\ c.slot = s
    BY <2>4 DEF CommandLine, AnyLine, Command, Message
  <2>6. Ask(c) /\ sessions[s] # None /\ UNCHANGED opens
    BY <1>4 DEF send_data
  <2> QED
    BY <2>5, <2>6, AskStep DEF IInv, Kinds
<1> QED
  BY <1>1, <1>2, <1>3, <1>4

\* The board answers a command it reads.  What it does to its sessions keeps every
\* answer that is still on the line as good as it was.
LEMMA ReplyStep ==
    ASSUME IInv, to_board # <<>>, NEW line, Reply(line),
           UNCHANGED <<LINK, pc, opens>>,
           AnswerLine \subseteq AnswerLine', line \in AnswerLine',
           board' \in [Slot -> PcSession \cup {None}], next_sid' \in Nat \ {0},
           opened' \subseteq Packet, Numbered'
    PROVE  IInv'
<1> USE DEF IInv, Reply, pc
<1>1. Kinds'
  BY DEF Kinds
<1>2. to_board' \in Seq(CommandLine')
  <2>1. CommandLine' = CommandLine
    BY DEF CommandLine
  <2> QED
    BY <2>1, Taken DEF Lines
<1>3. to_pc' \in Seq(AnswerLine')
  BY Widened, Appended DEF Lines
<1>4. Asked'
  BY DEF Asked, CommandLine
<1> QED
  BY <1>1, <1>2, <1>3, <1>4 DEF Lines

\* A new session has a number of its own.
LEMMA ReadyStep ==
    ASSUME IInv, to_board # <<>>, NEW c \in CommandLine, c.kind = "OPEN", Ready(c),
           UNCHANGED <<LINK, pc, opens>>
    PROVE  IInv'
<1> USE DEF IInv, Ready
<1> DEFINE new == [vid |-> c.vid, sid |-> next_sid, kem |-> c.packet, counter |-> 0]
           line == Message("READY", c.slot, next_sid, c.vid, None)
<1>1. c.slot \in Slot /\ c.vid \in VehicleId /\ c.packet \in Int /\ next_sid \in Nat
  BY DEF CommandLine, Kinds
<1>2. new \in PcSession /\ new.sid = next_sid
  BY <1>1 DEF PcSession
<1>3. /\ board' = [board EXCEPT ![c.slot] = new]
      /\ board' \in [Slot -> PcSession \cup {None}]
      /\ \A s \in Slot : board'[s] = IF s = c.slot THEN new ELSE board[s]
  BY <1>1, <1>2 DEF Kinds
<1>4. next_sid' \in Nat \ {0} /\ next_sid' = next_sid + 1 /\ opened' = opened
  BY <1>1 DEF Kinds
<1>5. Numbered'
  BY <1>1, <1>2, <1>3, <1>4 DEF Numbered, Kinds, PcSession
<1>6. AnswerLine \subseteq AnswerLine'
  BY <1>1, <1>2, <1>3, <1>4 DEF AnswerLine
<1>7. line \in AnyLine /\ line.kind = "READY" /\ line.sid = next_sid
  BY <1>1 DEF AnyLine, Message
<1>8. line \in AnswerLine'
  BY <1>1, <1>7 DEF AnswerLine
<1>9. opened' \subseteq Packet
  BY <1>4 DEF Lines
<1> HIDE DEF line
<1>10. Reply(line)
  BY DEF line
<1> QED
  BY <1>3, <1>4, <1>5, <1>6, <1>8, <1>9, <1>10, ReplyStep

\* An echo is of a packet that has just been opened.
LEMMA EchoStep ==
    ASSUME IInv, to_board # <<>>, NEW c \in CommandLine, c.kind = "DATA", Echo(c),
           UNCHANGED <<LINK, pc, opens>>
    PROVE  IInv'
<1> USE DEF IInv, Echo
<1> DEFINE line == Message("RESP", c.slot, None, None, c.packet)
<1>1. c.slot \in Slot /\ c.packet \in Packet /\ board[c.slot] \in PcSession
  BY DEF CommandLine, Kinds
<1>2. /\ board' \in [Slot -> PcSession \cup {None}]
      /\ \A s \in Slot : board'[s] # None => board[s] # None /\ board'[s].sid = board[s].sid
  <2> DEFINE new == [board[c.slot] EXCEPT !.counter = @ + 1]
  <2>1. new \in PcSession /\ new.sid = board[c.slot].sid
    BY <1>1 DEF PcSession
  <2>2. board' = [board EXCEPT ![c.slot] = new]
    OBVIOUS
  <2> HIDE DEF new
  <2>3. \A s \in Slot : board'[s] = IF s = c.slot THEN new ELSE board[s]
    BY <1>1, <2>2 DEF Kinds
  <2> QED
    BY <1>1, <2>1, <2>2, <2>3 DEF Kinds
<1>3. next_sid' = next_sid /\ opened' = opened \cup {c.packet}
  OBVIOUS
<1>4. Numbered'
  BY <1>2, <1>3 DEF Numbered
<1>5. AnswerLine \subseteq AnswerLine'
  BY <1>2, <1>3 DEF AnswerLine
<1>6. line \in AnyLine /\ line.kind = "RESP" /\ line.packet = c.packet
  BY <1>1 DEF AnyLine, Message
<1>7. line \in AnswerLine'
  BY <1>3, <1>6 DEF AnswerLine
<1>8. opened' \subseteq Packet
  BY <1>1, <1>3 DEF Lines
<1>9. next_sid' \in Nat \ {0}
  BY <1>3 DEF Kinds
<1> HIDE DEF line
<1>10. Reply(line)
  BY DEF line
<1> QED
  BY <1>2, <1>4, <1>5, <1>7, <1>8, <1>9, <1>10, ReplyStep

\* A LEFT names a session the board no longer has.
LEMMA LeftStep ==
    ASSUME IInv, to_board # <<>>, NEW c \in CommandLine, c.kind = "LEAVE", Left(c),
           UNCHANGED <<LINK, pc, opens>>
    PROVE  IInv'
<1> USE DEF IInv, Left
<1> DEFINE line == Message("LEFT", c.slot, board[c.slot].sid, None, None)
<1>1. c.slot \in Slot /\ board[c.slot] \in PcSession /\ board[c.slot].sid \in Nat
  BY DEF CommandLine, Kinds, PcSession
<1>2. /\ board' \in [Slot -> PcSession \cup {None}]
      /\ \A s \in Slot : board'[s] # None => board'[s] = board[s] /\ s # c.slot
  BY <1>1 DEF Kinds
<1>3. next_sid' = next_sid /\ opened' = opened
  OBVIOUS
<1>4. Numbered'
  BY <1>2, <1>3 DEF Numbered
<1>5. AnswerLine \subseteq AnswerLine'
  BY <1>2, <1>3 DEF AnswerLine
<1>6. line \in AnyLine /\ line.kind = "LEFT" /\ line.sid = board[c.slot].sid
  BY <1>1 DEF AnyLine, Message
<1>7. /\ line.sid < next_sid'
      /\ \A s \in Slot : board'[s] # None => board'[s].sid # line.sid
  BY <1>1, <1>2, <1>3, <1>6 DEF Numbered
<1>8. line \in AnswerLine'
  BY <1>1, <1>6, <1>7 DEF AnswerLine
<1>9. next_sid' \in Nat \ {0} /\ opened' \subseteq Packet
  BY <1>3 DEF Kinds, Lines
<1> HIDE DEF line
<1>10. Reply(line)
  BY DEF line
<1> QED
  BY <1>2, <1>4, <1>5, <1>8, <1>9, <1>10, ReplyStep

\* An answer that is only a word, with the sessions as they were or all gone.
LEMMA WordStep ==
    ASSUME IInv, to_board # <<>>, UNCHANGED <<LINK, pc, opens, next_sid, opened>>,
           board' = board \/ board' = NoSessions,
           NEW k \in {"HELLO", "STATUS", "SWKEM", "RESET", "ERR"}, Reply(Line(k))
    PROVE  IInv'
<1>1. /\ board' \in [Slot -> PcSession \cup {None}]
      /\ \A s \in Slot : board'[s] # None => board'[s] = board[s]
  BY DEF IInv, Kinds, NoSessions
<1>2. Numbered'
  BY <1>1 DEF IInv, Numbered
<1>3. AnswerLine \subseteq AnswerLine'
  BY <1>1 DEF AnswerLine
<1>4. Line(k) \in AnswerLine'
  BY PlainLine DEF AnswerLine, Command
<1>5. next_sid' \in Nat \ {0} /\ opened' \subseteq Packet
  BY DEF IInv, Kinds, Lines
<1> QED
  BY <1>1, <1>2, <1>3, <1>4, <1>5, ReplyStep

\* Whatever the board answers is a good answer.
LEMMA BoardStep == IInv /\ Board => IInv'
<1> SUFFICES ASSUME IInv, Board PROVE IInv'
  OBVIOUS
<1> DEFINE c == Head(to_board)
<1>1. c \in CommandLine /\ to_board # <<>> /\ UNCHANGED <<LINK, pc, opens>>
  BY Taken DEF IInv, Lines, Board
<1> HIDE DEF c
<1>2. CASE c.kind = "OPEN" /\ Ready(c)
  BY <1>1, <1>2, ReadyStep
<1>3. CASE c.kind = "DATA" /\ Echo(c)
  BY <1>1, <1>3, EchoStep
<1>4. CASE c.kind = "LEAVE" /\ Left(c)
  BY <1>1, <1>4, LeftStep
<1>5. CASE Refuse(c)
  BY <1>1, <1>5, WordStep DEF Refuse, firmware
<1>6. CASE board' = NoSessions /\ Reply(Line("RESET")) /\ UNCHANGED <<next_sid, opened>>
  BY <1>1, <1>6, WordStep
<1>7. CASE /\ c.kind \in {"HELLO", "STATUS", "SWKEM"} /\ Reply(Line(c.kind))
           /\ UNCHANGED <<firmware, opened>>
  BY <1>1, <1>7, WordStep DEF firmware
<1> QED
  BY <1>2, <1>3, <1>4, <1>5, <1>6, <1>7 DEF Board, c

\* Losing a line, or the second half of an answer.
LEMMA LoseStep == IInv /\ LoseLine => IInv'
<1> SUFFICES ASSUME IInv, LoseLine PROVE IInv'
  OBVIOUS
<1> USE DEF IInv, LoseLine, pc, firmware
<1>1. Kinds'
  BY DEF Kinds
<1>2. Line("cut") \in AnswerLine
  BY PlainLine DEF AnswerLine
<1>3. to_pc' \in Seq(AnswerLine)
  BY <1>2, Shortened, Replaced DEF Lines
<1>4. to_board' \in Seq(CommandLine)
  BY Taken DEF Lines
<1>5. CommandLine' = CommandLine
  BY DEF CommandLine
<1>6. Lines'
  BY <1>3, <1>4, <1>5, SameAnswers DEF Lines
<1>7. Asked' /\ Numbered'
  BY <1>5 DEF Asked, Numbered
<1> QED
  BY <1>1, <1>6, <1>7

\* The session map after an answer has the same slots, and a call that was refused,
\* lost or misunderstood leaves it as it was.
LEMMA AnsweredType ==
    ASSUME IInv, call # None, NEW a \in AnswerLine
    PROVE  Answered(call, a) \in [Slot -> PcSession \cup {None}]
<1> USE DEF IInv
<1>1. call \in CommandLine /\ sessions \in [Slot -> PcSession \cup {None}]
  BY DEF Asked, Kinds
<1>2. CASE call.kind = "OPEN" /\ ReadyFor(call, a)
  <2>1. Session(call, a) \in PcSession
    BY <1>1, <1>2 DEF CommandLine, AnswerLine, ReadyFor, Session, PcSession
  <2> QED
    BY <1>1, <1>2, <2>1 DEF Answered
<1>3. CASE call.kind = "LEAVE" /\ LeftFor(call, a)
  BY <1>1, <1>3 DEF Answered
<1>4. CASE call.kind = "DATA" /\ RespFor(call, a)
  <2> DEFINE new == [sessions[call.slot] EXCEPT !.counter = @ + 1]
  <2>1. call.slot \in Slot /\ sessions[call.slot] \in PcSession
    BY <1>1, <1>4 DEF CommandLine, Asked
  <2>2. new \in PcSession
    BY <2>1 DEF PcSession
  <2>3. Answered(call, a) = [sessions EXCEPT ![call.slot] = new]
    BY <1>4 DEF Answered
  <2> QED
    BY <1>1, <2>1, <2>2, <2>3
<1>5. CASE /\ ~(call.kind = "OPEN" /\ ReadyFor(call, a))
           /\ ~(call.kind = "LEAVE" /\ LeftFor(call, a))
           /\ ~(call.kind = "DATA" /\ RespFor(call, a))
  BY <1>1, <1>5 DEF Answered
<1> QED
  BY <1>2, <1>3, <1>4, <1>5

\* The PC takes one answer.
LEMMA ReceiveStep == IInv /\ Receive => IInv'
<1> SUFFICES ASSUME IInv, Receive PROVE IInv'
  OBVIOUS
<1> USE DEF IInv
<1> DEFINE a == Head(to_pc)
<1>1. a \in AnswerLine /\ to_pc' \in Seq(AnswerLine) /\ call # None
  BY Taken DEF Lines, Receive
<1>2. /\ UNCHANGED <<LINK, board, next_sid, opened, opens>>
      /\ sessions' = sessions \/ (link = "up" /\ sessions' = Answered(call, a) /\ call' = None)
      /\ link' \in {"closed", "resetting", "up"}
      /\ sw_supported' \in {"unknown", "yes", "no"}
      /\ call' = None \/ (call' = Line("RESET") /\ link' = "resetting")
      /\ to_board' = to_board \/ to_board' = Append(to_board, Line("RESET"))
      /\ link' = "closed" => call' = None
  BY DEF Receive, firmware, bounds, Kinds
<1> HIDE DEF a
<1>3. Line("RESET") \in CommandLine /\ Line("RESET").kind = "RESET"
  BY PlainLine DEF CommandLine, Command
<1>4. Kinds'
  BY <1>1, <1>2, AnsweredType DEF Kinds
<1>5. CommandLine' = CommandLine
  BY DEF CommandLine
<1>6. Lines'
  BY <1>1, <1>2, <1>3, <1>5, Appended, SameAnswers DEF Lines
<1>7. Asked'
  BY <1>2, <1>3, <1>5 DEF Asked
<1>8. Numbered'
  BY <1>2 DEF Numbered
<1> QED
  BY <1>4, <1>6, <1>7, <1>8

\* A deadline changes nothing but the PC.
LEMMA TimeoutStep == IInv /\ Timeout => IInv'
<1> SUFFICES ASSUME IInv, Timeout PROVE IInv'
  OBVIOUS
<1> USE DEF IInv, Timeout, uart, firmware
<1>1. Kinds'
  BY DEF Kinds
<1>2. CommandLine' = CommandLine
  BY DEF CommandLine
<1>3. Lines'
  BY <1>2, SameAnswers DEF Lines
<1>4. Asked' /\ Numbered'
  BY DEF Asked, Numbered
<1> QED
  BY <1>1, <1>3, <1>4

\* Every step of the system.
LEMMA InvariantStep == IInv /\ [Next]_vars => IInv'
<1> SUFFICES ASSUME IInv, [Next]_vars PROVE IInv'
  OBVIOUS
<1>1. CASE UNCHANGED vars
  BY <1>1 DEF vars, pc, uart, firmware, bounds, IInv, Kinds, Lines, Asked, Numbered,
              CommandLine, AnswerLine
<1>2. CASE Start \/ Close
  BY <1>2, StartStep, CloseStep
<1>3. CASE \/ sw_kem
           \/ \E s \in Slot : \/ leave_session(s)
                              \/ \E v \in VehicleId : open_session(s, v)
                              \/ \E p \in Payload, t \in BOOLEAN : send_data(s, p, t)
  BY <1>3, CallStep, Zenon
<1>4. CASE Board \/ LoseLine \/ Receive \/ Timeout
  BY <1>4, BoardStep, LoseStep, ReceiveStep, TimeoutStep
<1> QED
  BY <1>1, <1>2, <1>3, <1>4, Zenon DEF Next

THEOREM Invariant == Spec => []IInv
<1>1. Init => IInv
  BY InvariantInit
<1>2. IInv /\ [Next]_vars => IInv'
  BY InvariantStep
<1> QED
  BY <1>1, <1>2, PTL DEF Spec

-----------------------------------------------------------------------------
(* What follows.                                                            *)

\* The link object, the board and the call under way keep to their types, for every
\* class of link and whatever is lost or late.
THEOREM TypeCorrect == Spec => []TypeOK
<1>1. IInv => TypeOK
  BY DEF IInv, Kinds, Asked, CommandLine, Command, TypeOK
<1> QED
  BY <1>1, Invariant, PTL

\* Only an answer to a DATA call changes a session while a DATA call is under way.
LEMMA CountedByReceive ==
    ASSUME IInv, [Next]_vars, call # None, call.kind = "DATA",
           NEW s \in Slot, sessions'[s] # sessions[s]
    PROVE  Receive /\ sessions' = Answered(call, Head(to_pc))
<1>1. link = "up"
  BY DEF IInv, Asked
<1>2. sessions' # sessions
  OBVIOUS
<1>3. ~ UNCHANGED vars /\ ~Start /\ ~Close /\ ~Board /\ ~LoseLine /\ ~Timeout
  BY <1>1, <1>2 DEF vars, pc, Start, Close, Board, LoseLine, Timeout
<1>4. \A c : ~Ask(c)
  BY DEF Ask
<1>5. /\ ~sw_kem
      /\ \A t \in Slot : ~leave_session(t)
      /\ \A t \in Slot, v \in VehicleId : ~open_session(t, v)
      /\ \A t \in Slot, p \in Payload, b \in BOOLEAN : ~send_data(t, p, b)
  BY <1>4 DEF sw_kem, leave_session, open_session, send_data
<1>6. Receive
  BY <1>3, <1>5, Zenon DEF Next
<1> QED
  BY <1>1, <1>2, <1>6 DEF Receive

\* When the PC counts a packet, the board has opened that packet: same session, same
\* keys, same counter, same contents.
LEMMA EchoStepMeansOpened ==
    ASSUME IInv, [Next]_vars, NEW s \in Slot, call # None, call.kind = "DATA",
           sessions'[s] # sessions[s]
    PROVE  \E p \in opened : /\ p.sid = sessions[s].sid /\ p.kem = sessions[s].kem
                             /\ p.counter = sessions[s].counter
                             /\ p.payload = call.packet.payload
<1> DEFINE a == Head(to_pc)
<1>1. Receive /\ sessions' = Answered(call, a)
  BY CountedByReceive
<1>2. a \in AnswerLine
  BY <1>1, Taken DEF IInv, Lines, Receive
<1> HIDE DEF a
<1>3. RespFor(call, a)
  BY <1>1 DEF Answered
<1>4. call.slot = s
  BY <1>1, <1>3 DEF Answered, IInv, Kinds, Asked, CommandLine
<1>5. a.packet \in opened
  BY <1>2, <1>3 DEF AnswerLine, RespFor
<1> QED
  BY <1>3, <1>4, <1>5 DEF RespFor, Authentic

\* "secure echo verified": an echo that is counted is of a packet the board opened,
\* with late answers, restarts and every class of link.
THEOREM EchoesWereOpened == Spec => EchoMeansOpened
<1>1. IInv /\ [Next]_vars =>
         \A s \in Slot :
            call # None /\ call.kind = "DATA" /\ sessions'[s] # sessions[s]
            => \E p \in opened : /\ p.sid = sessions[s].sid /\ p.kem = sessions[s].kem
                                 /\ p.counter = sessions[s].counter
                                 /\ p.payload = call.packet.payload
  BY EchoStepMeansOpened, Zenon
<1> QED
  BY <1>1, Invariant, PTL DEF Spec, EchoMeansOpened

\* When the PC forgets a session while the link is up, it has read a LEFT for it, and
\* the board no longer has it.
LEMMA LeaveStepMeansLeft ==
    ASSUME IInv, [Next]_vars, NEW s \in Slot, link' = "up",
           sessions[s] # None, sessions'[s] = None
    PROVE  board[s] = None \/ board[s].sid # sessions[s].sid
<1> DEFINE a == Head(to_pc)
<1>1. sessions' # sessions
  OBVIOUS
<1>2. ~ UNCHANGED vars /\ ~Start /\ ~Close /\ ~Board /\ ~LoseLine /\ ~Timeout
  BY <1>1 DEF vars, pc, Start, Close, Board, LoseLine, Timeout
<1>3. \A c : ~Ask(c)
  BY <1>1 DEF Ask
<1>4. /\ ~sw_kem
      /\ \A t \in Slot : ~leave_session(t)
      /\ \A t \in Slot, v \in VehicleId : ~open_session(t, v)
      /\ \A t \in Slot, p \in Payload, b \in BOOLEAN : ~send_data(t, p, b)
  BY <1>3 DEF sw_kem, leave_session, open_session, send_data
<1>5. Receive
  BY <1>2, <1>4, Zenon DEF Next
<1>6. a \in AnswerLine /\ call # None /\ sessions' = Answered(call, a)
  BY <1>1, <1>5, Taken DEF IInv, Lines, Receive
<1> HIDE DEF a
<1>7. /\ call \in CommandLine /\ sessions \in [Slot -> PcSession \cup {None}]
      /\ None \notin PcSession
  BY <1>6, LinkAssumption DEF IInv, Asked, Kinds, PcSession
<1>8. ~(call.kind = "OPEN" /\ ReadyFor(call, a))
  <2> SUFFICES ASSUME call.kind = "OPEN", ReadyFor(call, a) PROVE FALSE
    OBVIOUS
  <2>1. Session(call, a) \in PcSession
    BY <1>6, <1>7 DEF CommandLine, AnswerLine, ReadyFor, Session, PcSession
  <2>2. sessions' = [sessions EXCEPT ![call.slot] = Session(call, a)]
    BY <1>6 DEF Answered
  <2> QED
    BY <1>7, <2>1, <2>2
<1>9. ~(call.kind = "DATA" /\ RespFor(call, a))
  <2> SUFFICES ASSUME call.kind = "DATA", RespFor(call, a) PROVE FALSE
    OBVIOUS
  <2> DEFINE new == [sessions[call.slot] EXCEPT !.counter = @ + 1]
  <2>1. call.slot \in Slot /\ sessions[call.slot] \in PcSession
    BY <1>6, <1>7 DEF CommandLine, IInv, Asked
  <2>2. new \in PcSession
    BY <2>1 DEF PcSession
  <2>3. sessions' = [sessions EXCEPT ![call.slot] = new]
    BY <1>6 DEF Answered
  <2> QED
    BY <1>7, <2>1, <2>2, <2>3
<1>10. call.kind = "LEAVE" /\ LeftFor(call, a)
  BY <1>1, <1>6, <1>8, <1>9 DEF Answered
<1>11. call.slot = s
  BY <1>6, <1>7, <1>10 DEF Answered, CommandLine
<1> QED
  BY <1>6, <1>10, <1>11 DEF LeftFor, AnswerLine

\* A session is forgotten only when the board has left it, so a late LEFT never makes
\* the PC give up a session that is still there.
THEOREM LeftsWereLeft == Spec => LeftMeansLeft
<1>1. IInv /\ [Next]_vars =>
         \A s \in Slot :
            link' = "up" /\ sessions[s] # None /\ sessions'[s] = None
            => board[s] = None \/ board[s].sid # sessions[s].sid
  BY LeaveStepMeansLeft, Zenon
<1> QED
  BY <1>1, Invariant, PTL DEF Spec, LeftMeansLeft

-----------------------------------------------------------------------------
(* Agreement of the PC and the board, while every call waits long enough: of *)
(* serial_board_v2, and of the first start of board_link_v2.                 *)

Prompt == ~late /\ (LINK = "serial_board_v2" \/ (LINK = "board_link_v2" /\ starts <= 1))

\* A session both sides have is the same one, and the board is at most one packet ahead.
Agree(h, b) == /\ h.vid = b.vid /\ h.sid = b.sid /\ h.kem = b.kem
               /\ b.counter \in {h.counter, h.counter + 1}
Paired == \A s \in Slot : sessions[s] # None /\ board[s] # None => Agree(sessions[s], board[s])

Outstanding == Len(to_pc) + Len(to_board)

\* What the answer to the call leaves behind on the board.
Fits(a) ==
    /\ call.kind = "OPEN" /\ a.kind = "READY" =>
          /\ board[call.slot] # None /\ board[call.slot].vid = call.vid
          /\ board[call.slot].sid = a.sid /\ board[call.slot].kem = call.packet
          /\ board[call.slot].counter = 0
    /\ call.kind = "DATA" /\ a.kind = "RESP" /\ board[call.slot] # None =>
          board[call.slot].counter = sessions[call.slot].counter + 1

\* At most one line of an earlier run is ahead of the first exchange, so no answer to a
\* RESET is taken for a later one's.
Closed == Outstanding <= 1
Greeting ==
    /\ sessions = NoSessions
    /\ Outstanding <= (IF LINK = "serial_board_v2" THEN 2 ELSE 1)
    /\ \A i \in DOMAIN to_pc : i > 1 => to_pc[i].kind # "RESET"
    /\ \A i \in DOMAIN to_board : i > 1 \/ to_pc # <<>> => to_board[i].kind # "RESET"
Resetting ==
    /\ LINK = "serial_board_v2"
    /\ sessions = NoSessions
    /\ Outstanding <= 2
    /\ \A i \in DOMAIN to_board : i # Len(to_board) => to_board[i].kind # "RESET"
    /\ \A i \in DOMAIN to_pc : to_pc[i].kind = "RESET" =>
          i = Len(to_pc) /\ to_board = <<>> /\ board = NoSessions
Up ==
    /\ Paired
    /\ call = None => to_pc = <<>> /\ to_board = <<>>
    /\ call # None =>
          /\ \/ to_pc = <<>> /\ to_board = <<call>>
             \/ Len(to_pc) <= 1 /\ to_board = <<>>
          /\ \A i \in DOMAIN to_pc : Fits(to_pc[i])
          /\ call.kind = "OPEN" => sessions[call.slot] = None
          /\ call.kind = "DATA" => call.packet.counter = sessions[call.slot].counter

InStep ==
    /\ starts \in Nat
    /\ starts = 0 => link = "closed" /\ to_board = <<>>
    /\ link = "greeting" => call # None /\ call.kind = First
    /\ link = "resetting" => call # None /\ call.kind = "RESET"
    /\ Prompt => /\ link = "closed" => Closed
                 /\ link = "greeting" => Greeting
                 /\ link = "resetting" => Resetting
                 /\ link = "up" => Up

\* What a queue keeps when its first line is taken.
LEMMA TailIndex ==
    ASSUME NEW S, NEW q \in Seq(S), q # <<>>
    PROVE  /\ Head(q) = q[1] /\ 1 \in DOMAIN q /\ DOMAIN q = 1 .. Len(q) /\ Len(q) \in Nat
           /\ Tail(q) \in Seq(S) /\ Len(Tail(q)) = Len(q) - 1
           /\ DOMAIN Tail(q) = 1 .. Len(q) - 1 /\ Len(q) >= 1
           /\ Len(q) = 1 => Tail(q) = <<>>
           /\ \A i \in DOMAIN Tail(q) : i \in Nat /\ i + 1 \in DOMAIN q /\ Tail(q)[i] = q[i + 1]
OBVIOUS

\* What it keeps when a line is added.
LEMMA AppendIndex ==
    ASSUME NEW S, NEW q \in Seq(S), NEW x \in S
    PROVE  /\ Append(q, x) # <<>> /\ Append(q, x) \in Seq(S)
           /\ DOMAIN q = 1 .. Len(q) /\ Len(q) \in Nat
           /\ Len(Append(q, x)) = Len(q) + 1 /\ DOMAIN Append(q, x) = 1 .. Len(q) + 1
           /\ \A i \in DOMAIN q : Append(q, x)[i] = q[i]
           /\ Append(q, x)[Len(q) + 1] = x
OBVIOUS

\* Intervals from 1 are the same only up to the same number.
LEMMA SameInterval ==
    ASSUME NEW m \in Nat, NEW n \in Nat, 1 .. m = 1 .. n
    PROVE  m = n
<1>1. m > 0 => m \in 1 .. n
  OBVIOUS
<1>2. n > 0 => n \in 1 .. m
  OBVIOUS
<1> QED
  BY <1>1, <1>2

\* One line of a queue put in the place of another.
LEMMA OneReplaced ==
    ASSUME NEW S, NEW q \in Seq(S), NEW x \in S, NEW n \in DOMAIN q
    PROVE  /\ DOMAIN [q EXCEPT ![n] = x] = DOMAIN q
           /\ Len([q EXCEPT ![n] = x]) = Len(q)
           /\ \A i \in DOMAIN q : \/ [q EXCEPT ![n] = x][i] = q[i]
                                  \/ [q EXCEPT ![n] = x][i] = x
<1>1. DOMAIN [q EXCEPT ![n] = x] = DOMAIN q
  OBVIOUS
<1>2. [q EXCEPT ![n] = x] \in Seq(S)
  OBVIOUS
<1>3. \A i \in DOMAIN q : [q EXCEPT ![n] = x][i] = IF i = n THEN x ELSE q[i]
  OBVIOUS
<1>4. Len([q EXCEPT ![n] = x]) = Len(q)
  <2> DEFINE r == [q EXCEPT ![n] = x]
  <2>1. r \in Seq(S) /\ DOMAIN r = DOMAIN q
    BY <1>1, <1>2
  <2>2. Len(r) \in Nat /\ DOMAIN r = 1 .. Len(r) /\ Len(q) \in Nat /\ DOMAIN q = 1 .. Len(q)
    <3> HIDE DEF r
    <3> QED
      BY <2>1
  <2> HIDE DEF r
  <2>3. 1 .. Len(r) = 1 .. Len(q)
    BY <2>1, <2>2
  <2>4. Len(r) = Len(q)
    BY <2>2, <2>3, SameInterval
  <2> QED
    BY <2>4 DEF r
<1> QED
  BY <1>1, <1>3, <1>4

\* What it keeps without its last line, or with another one.
LEMMA LastIndex ==
    ASSUME NEW S, NEW q \in Seq(S), q # <<>>, NEW x \in S
    PROVE  /\ Len(SubSeq(q, 1, Len(q) - 1)) = Len(q) - 1 /\ Len(q) \in Nat
           /\ \A i \in DOMAIN SubSeq(q, 1, Len(q) - 1) :
                 i \in DOMAIN q /\ i # Len(q) /\ SubSeq(q, 1, Len(q) - 1)[i] = q[i]
           /\ Len([q EXCEPT ![Len(q)] = x]) = Len(q)
           /\ DOMAIN [q EXCEPT ![Len(q)] = x] = DOMAIN q
           /\ \A i \in DOMAIN q : \/ [q EXCEPT ![Len(q)] = x][i] = q[i]
                                  \/ [q EXCEPT ![Len(q)] = x][i] = x
<1>1. Len(q) \in DOMAIN q /\ Len(q) \in Nat /\ Len(q) >= 1 /\ DOMAIN q = 1 .. Len(q)
  OBVIOUS
<1>2. Len(SubSeq(q, 1, Len(q) - 1)) = Len(q) - 1
  BY <1>1
<1>3. \A i \in DOMAIN SubSeq(q, 1, Len(q) - 1) :
         i \in DOMAIN q /\ i # Len(q) /\ SubSeq(q, 1, Len(q) - 1)[i] = q[i]
  BY <1>1
<1> QED
  BY <1>1, <1>2, <1>3, OneReplaced

\* Nothing in a queue.
LEMMA EmptyQueue ==
    ASSUME NEW S, NEW q \in Seq(S)
    PROVE  /\ q = <<>> <=> Len(q) = 0
           /\ Len(q) \in Nat /\ DOMAIN q = 1 .. Len(q)
           /\ q = <<>> => DOMAIN q = {}
OBVIOUS

\* The queues, and None told apart from sessions and commands.
LEMMA Values ==
    ASSUME IInv
    PROVE  /\ to_board \in Seq(CommandLine) /\ to_pc \in Seq(AnswerLine)
           /\ Len(to_board) \in Nat /\ Len(to_pc) \in Nat
           /\ DOMAIN to_board = 1 .. Len(to_board) /\ DOMAIN to_pc = 1 .. Len(to_pc)
           /\ sessions \in [Slot -> PcSession \cup {None}]
           /\ board \in [Slot -> PcSession \cup {None}]
           /\ link \in {"closed", "greeting", "resetting", "up"}
           /\ call # None => call \in CommandLine
           /\ None \notin CommandLine /\ None \notin PcSession
<1>1. to_board \in Seq(CommandLine) /\ to_pc \in Seq(AnswerLine)
  BY DEF IInv, Lines
<1>2. CommandLine \subseteq AnyLine
  BY DEF CommandLine
<1>3. None \notin AnyLine /\ None \notin PcSession
  BY LinkAssumption
<1> QED
  BY <1>1, <1>2, <1>3, EmptyQueue, LinkAssumption DEF IInv, Kinds, Asked, PcSession

\* Once a call has given up too early, or a second start is made, that stays so.
LEMMA PromptStays ==
    ASSUME starts \in Nat, LINK' = LINK, late' = late \/ late',
           starts' = starts \/ starts' = starts + 1
    PROVE  Prompt' => Prompt
BY DEF Prompt

\* A start throws away what waits for the PC, and at most one command of an earlier run is
\* still on its way to the board.
LEMMA StartInStep == IInv /\ InStep /\ Start => InStep'
<1> SUFFICES ASSUME IInv, InStep, Start PROVE InStep'
  OBVIOUS
<1>1. /\ link = "closed" /\ link' = "greeting" /\ starts' = starts + 1 /\ starts \in Nat
      /\ LINK' = LINK /\ late' = late /\ sessions' = NoSessions /\ to_pc' = <<>>
      /\ call' = Line(First) /\ to_board' = Append(to_board, Line(First)) /\ First' = First
  BY DEF Start, InStep, Flushed, First
<1>2. /\ Line(First) \in CommandLine /\ Line(First).kind = First /\ First # "RESET"
      /\ Line(First) # None
  BY PlainLine, Values DEF First, CommandLine, Command
<1>3. ASSUME Prompt' PROVE Greeting'
  <2>1. Prompt
    BY <1>1, <1>3, PromptStays
  <2>2. Len(to_board) <= 1 /\ Len(to_board) \in Nat
    BY <1>1, <2>1, Values DEF InStep, Closed, Outstanding
  <2>3. LINK # "serial_board_v2" => Len(to_board) = 0
    BY <1>1, <1>3, Values, EmptyQueue DEF Prompt, InStep
  <2>4. /\ DOMAIN to_board' = 1 .. Len(to_board) + 1 /\ Len(to_board') = Len(to_board) + 1
        /\ to_board'[Len(to_board) + 1] = Line(First)
    BY <1>1, <1>2, Values, AppendIndex
  <2>5. Len(to_pc') = 0 /\ DOMAIN to_pc' = {}
    BY <1>1
  <2>6. \A i \in DOMAIN to_board' : i > 1 => to_board'[i].kind # "RESET"
    BY <1>2, <2>2, <2>4
  <2>7. Outstanding' <= (IF LINK = "serial_board_v2" THEN 2 ELSE 1)
    BY <2>2, <2>3, <2>4, <2>5 DEF Outstanding
  <2> QED
    BY <1>1, <2>5, <2>6, <2>7 DEF Greeting
<1> QED
  BY <1>1, <1>2, <1>3 DEF InStep

\* What a link that is up has on its line.
LEMMA UpLine ==
    ASSUME IInv, Up
    PROVE  Outstanding <= 1
<1>1. CASE call = None
  BY <1>1 DEF Up, Outstanding
<1>2. CASE call # None /\ to_pc = <<>> /\ to_board = <<call>>
  BY <1>2 DEF Outstanding
<1>3. CASE Len(to_pc) <= 1 /\ to_board = <<>>
  BY <1>3, Values DEF Outstanding
<1> QED
  BY <1>1, <1>2, <1>3 DEF Up

\* Ending the program leaves at most the line of the call it was in.
LEMMA CloseInStep == IInv /\ InStep /\ Close => InStep'
<1> SUFFICES ASSUME IInv, InStep, Close PROVE InStep'
  OBVIOUS
<1>1. /\ link = "up" /\ link' = "closed" /\ starts' = starts /\ starts \in Nat
      /\ LINK' = LINK /\ late' = late /\ to_pc' = to_pc /\ to_board' = to_board
  BY DEF Close, InStep, uart, bounds
<1>2. Prompt' => Closed'
  BY <1>1, PromptStays, UpLine DEF InStep, Closed, Outstanding
<1> QED
  BY <1>1, <1>2 DEF InStep

\* A call of a link that is up finds the line empty.
LEMMA AskInStep ==
    ASSUME IInv, InStep, NEW c \in CommandLine, Ask(c),
           c.kind = "OPEN" => LINK = "board_link" \/ sessions[c.slot] = None,
           c.kind = "DATA" => c.packet.counter = sessions[c.slot].counter
    PROVE  InStep'
<1>1. /\ link = "up" /\ link' = "up" /\ starts' = starts /\ starts \in Nat /\ call = None
      /\ LINK' = LINK /\ late' = late /\ to_pc' = to_pc /\ to_board' = Append(to_board, c)
      /\ call' = c /\ UNCHANGED <<sessions, board>>
  BY DEF Ask, InStep, firmware
<1>2. ASSUME Prompt' PROVE Up'
  <2>1. Up /\ LINK # "board_link"
    BY <1>1, <1>2, PromptStays DEF InStep, Prompt
  <2>2. to_pc' = <<>> /\ to_board' = <<call'>>
    BY <1>1, <2>1 DEF Up
  <2>3. c # None
    BY Values
  <2>4. Paired'
    BY <1>1, <2>1 DEF Up, Paired
  <2> QED
    BY <1>1, <2>1, <2>2, <2>3, <2>4 DEF Up
<1> QED
  BY <1>1, <1>2 DEF InStep

\* The calls of the worker, and what they carry.
LEMMA CallInStep ==
    ASSUME IInv, InStep,
           \/ sw_kem
           \/ \E s \in Slot : leave_session(s)
           \/ \E s \in Slot, v \in VehicleId : open_session(s, v)
           \/ \E s \in Slot, p \in Payload, t \in BOOLEAN : send_data(s, p, t)
    PROVE  InStep'
<1>1. CASE sw_kem
  <2>1. Line("SWKEM") \in CommandLine /\ Line("SWKEM").kind = "SWKEM"
    BY PlainLine DEF CommandLine, Command
  <2> QED
    BY <1>1, <2>1, AskInStep DEF sw_kem
<1>2. ASSUME NEW s \in Slot, leave_session(s) PROVE InStep'
  <2> DEFINE c == Message("LEAVE", s, None, None, None)
  <2>1. c \in CommandLine /\ c.kind = "LEAVE"
    BY DEF CommandLine, AnyLine, Command, Message
  <2> QED
    BY <1>2, <2>1, AskInStep DEF leave_session
<1>3. ASSUME NEW s \in Slot, NEW v \in VehicleId, open_session(s, v) PROVE InStep'
  <2> DEFINE c == Message("OPEN", s, None, v, Encapsulation)
  <2>1. Encapsulation \in Int
    BY DEF Encapsulation, IInv, Kinds
  <2>2. c \in CommandLine /\ c.kind = "OPEN" /\ c.slot = s
    BY <2>1 DEF CommandLine, AnyLine, Command, Message
  <2>3. Ask(c) /\ MayOpen(s)
    BY <1>3 DEF open_session
  <2> HIDE DEF c
  <2> QED
    BY <2>2, <2>3, AskInStep DEF MayOpen
<1>4. ASSUME NEW s \in Slot, NEW p \in Payload, NEW t \in BOOLEAN, send_data(s, p, t)
      PROVE  InStep'
  <2> DEFINE sealed == seal(sessions[s], p)
             packet == IF t THEN altered(sealed) ELSE sealed
             c == Message("DATA", s, None, None, packet)
  <2>1. sessions[s] \in PcSession
    BY <1>4 DEF send_data, IInv, Kinds
  <2>2. sealed \in Packet /\ sealed.counter = sessions[s].counter
    BY <2>1 DEF seal, PcSession, Packet
  <2>3. altered(sealed) \in Packet /\ altered(sealed).counter = sealed.counter
    BY <2>2 DEF altered, Packet
  <2>4. packet \in Packet /\ packet.counter = sessions[s].counter
    BY <2>2, <2>3
  <2>5. c \in CommandLine /\ c.slot = s /\ c.packet = packet /\ c.kind = "DATA"
    BY <2>4 DEF CommandLine, AnyLine, Command, Message
  <2>6. Ask(c)
    BY <1>4 DEF send_data
  <2> HIDE DEF c, packet
  <2> QED
    BY <2>4, <2>5, <2>6, AskInStep
<1> QED
  BY <1>1, <1>2, <1>3, <1>4

\* A queue with any line added.
LEMMA AddedIndex ==
    ASSUME NEW S, NEW q \in Seq(S), NEW x
    PROVE  /\ Append(q, x) # <<>>
           /\ DOMAIN q = 1 .. Len(q) /\ Len(q) \in Nat
           /\ Len(Append(q, x)) = Len(q) + 1 /\ DOMAIN Append(q, x) = 1 .. Len(q) + 1
           /\ \A i \in DOMAIN q : Append(q, x)[i] = q[i]
           /\ Append(q, x)[Len(q) + 1] = x
<1> DEFINE T == S \cup {x}
<1>1. q \in Seq(T)
  BY Widened
<1>2. x \in T
  OBVIOUS
<1> HIDE DEF T
<1> QED
  BY <1>1, <1>2, AppendIndex

\* What a step of the board does to the line: it answers what it read, a RESET with a
\* RESET and nothing else so.
LEMMA BoardAnswers ==
    ASSUME IInv, Board
    PROVE  /\ to_board # <<>> /\ to_board' = Tail(to_board)
           /\ UNCHANGED <<LINK, link, call, sessions, starts, late>>
           /\ \E a : /\ to_pc' = Append(to_pc, a)
                     /\ a.kind = "RESET" => Head(to_board).kind = "RESET" /\ board' = NoSessions
<1> DEFINE c == Head(to_board)
<1>1. to_board # <<>> /\ UNCHANGED <<LINK, link, call, sessions, starts, late>>
  BY DEF Board, pc
<1>2. \/ c.kind = "OPEN" /\ Ready(c)
      \/ c.kind = "DATA" /\ Echo(c)
      \/ c.kind = "LEAVE" /\ Left(c)
      \/ c.kind \in {"OPEN", "LEAVE", "DATA", "SWKEM"} /\ Refuse(c)
      \/ c.kind = "RESET" /\ board' = NoSessions /\ Reply(Line("RESET"))
      \/ c.kind \in {"HELLO", "STATUS", "SWKEM"} /\ Reply(Line(c.kind))
  BY DEF Board
<1> HIDE DEF c
<1> DEFINE Answers(a) == Reply(a) /\ (a.kind = "RESET" => c.kind = "RESET" /\ board' = NoSessions)
<1>3. \E a : Answers(a)
  <2>1. CASE c.kind = "OPEN" /\ Ready(c)
    <3>1. Answers(Message("READY", c.slot, next_sid, c.vid, None))
      BY <2>1 DEF Ready, Message
    <3> QED
      BY <3>1
  <2>2. CASE c.kind = "DATA" /\ Echo(c)
    <3>1. Answers(Message("RESP", c.slot, None, None, c.packet))
      BY <2>2 DEF Echo, Message
    <3> QED
      BY <3>1
  <2>3. CASE c.kind = "LEAVE" /\ Left(c)
    <3>1. Answers(Message("LEFT", c.slot, board[c.slot].sid, None, None))
      BY <2>3 DEF Left, Message
    <3> QED
      BY <3>1
  <2>4. CASE c.kind \in {"OPEN", "LEAVE", "DATA", "SWKEM"} /\ Refuse(c)
    <3>1. Answers(Line("ERR"))
      BY <2>4 DEF Refuse, Line, Message
    <3> QED
      BY <3>1
  <2>5. CASE c.kind = "RESET" /\ board' = NoSessions /\ Reply(Line("RESET"))
    <3>1. Answers(Line("RESET"))
      BY <2>5
    <3> QED
      BY <3>1
  <2>6. CASE c.kind \in {"HELLO", "STATUS", "SWKEM"} /\ Reply(Line(c.kind))
    <3>1. Answers(Line(c.kind))
      BY <2>6 DEF Line, Message
    <3> QED
      BY <3>1
  <2> QED
    BY <1>2, <2>1, <2>2, <2>3, <2>4, <2>5, <2>6
<1> QED
  BY <1>1, <1>3 DEF Reply, c

\* The answer of the board to the call of a link that is up.
LEMMA UpBoard ==
    ASSUME IInv, Up, Board, link = "up"
    PROVE  Up'
<1>1. /\ to_board # <<>> /\ to_board' = Tail(to_board)
      /\ UNCHANGED <<LINK, link, call, sessions, starts, late>>
  BY BoardAnswers
<1>2. call # None /\ to_pc = <<>> /\ to_board = <<call>> /\ call \in CommandLine
  BY <1>1, Values DEF Up
<1>3. Head(to_board) = call /\ to_board' = <<>>
  BY <1>1, <1>2
<1>4. /\ sessions \in [Slot -> PcSession \cup {None}] /\ board \in [Slot -> PcSession \cup {None}]
      /\ call.kind \in {"OPEN", "LEAVE", "DATA"} => call.slot \in Slot
      /\ None \notin PcSession
      /\ call.kind = "DATA" => sessions[call.slot] # None
  BY <1>2, Values DEF CommandLine, IInv, Asked
<1> SUFFICES Paired' /\ (\E a : to_pc' = <<a>> /\ Fits(a)')
  BY <1>1, <1>2, <1>3 DEF Up
<1>5. CASE call.kind = "OPEN" /\ Ready(call)
  <2> PICK a : a = Message("READY", call.slot, next_sid, call.vid, None)
    OBVIOUS
  <2>1. board' = [board EXCEPT ![call.slot] =
                    [vid |-> call.vid, sid |-> next_sid, kem |-> call.packet, counter |-> 0]]
    BY <1>5 DEF Ready
  <2>2. to_pc' = <<a>> /\ a.kind = "READY" /\ a.sid = next_sid
    BY <1>2, <1>5 DEF Ready, Reply, Message
  <2>3. board'[call.slot] = [vid |-> call.vid, sid |-> next_sid, kem |-> call.packet, counter |-> 0]
    BY <1>4, <1>5, <2>1
  <2>4. board'[call.slot] # None
    BY BoardStep, Values, <2>3, <1>5, <1>2, <1>4 DEF CommandLine, PcSession, IInv, Kinds
  <2>5. Fits(a)'
    BY <1>1, <1>5, <2>2, <2>3, <2>4 DEF Fits
  <2>6. Paired'
    <3> SUFFICES ASSUME NEW s \in Slot, sessions[s] # None, board'[s] # None
                 PROVE  Agree(sessions[s], board'[s])
      BY <1>1 DEF Paired, Agree
    <3>1. s # call.slot
      BY <1>2, <1>5 DEF Up
    <3>2. board'[s] = board[s]
      BY <1>4, <2>1, <3>1
    <3> QED
      BY <3>2 DEF Up, Paired
  <2> QED
    BY <2>2, <2>5, <2>6
<1>6. CASE call.kind = "DATA" /\ Echo(call)
  <2> PICK a : a = Message("RESP", call.slot, None, None, call.packet)
    OBVIOUS
  <2> DEFINE b == board[call.slot]
             h == sessions[call.slot]
  <2>1. /\ board' = [board EXCEPT ![call.slot].counter = @ + 1]
        /\ b # None /\ call.packet.counter = b.counter
    BY <1>6 DEF Echo
  <2>2. to_pc' = <<a>> /\ a.kind = "RESP"
    BY <1>2, <1>6 DEF Echo, Reply, Message
  <2>3. b \in PcSession /\ h \in PcSession
    BY <1>4, <1>6, <2>1
  <2>4. Agree(h, b) /\ h.counter = b.counter
    BY <1>2, <1>4, <1>6, <2>1 DEF Up, Paired
  <2>5. board'[call.slot] = [b EXCEPT !.counter = @ + 1]
    BY <1>4, <1>6, <2>1
  <2>6. /\ board'[call.slot].counter = h.counter + 1
        /\ Agree(h, board'[call.slot])
    BY <2>3, <2>4, <2>5 DEF Agree, PcSession
  <2>7. Fits(a)'
    BY <1>1, <1>6, <2>2, <2>6 DEF Fits
  <2>8. Paired'
    <3> SUFFICES ASSUME NEW s \in Slot, sessions[s] # None, board'[s] # None
                 PROVE  Agree(sessions[s], board'[s])
      BY <1>1 DEF Paired, Agree
    <3>1. CASE s = call.slot
      BY <3>1, <2>6
    <3>2. CASE s # call.slot
      <4>1. board'[s] = board[s]
        BY <1>4, <2>1, <3>2
      <4> QED
        BY <4>1 DEF Up, Paired
    <3> QED
      BY <3>1, <3>2
  <2> QED
    BY <2>2, <2>7, <2>8
<1>7. CASE call.kind = "LEAVE" /\ Left(call)
  <2> PICK a : a = Message("LEFT", call.slot, board[call.slot].sid, None, None)
    OBVIOUS
  <2>1. to_pc' = <<a>> /\ a.kind = "LEFT" /\ board' = [board EXCEPT ![call.slot] = None]
    BY <1>2, <1>7 DEF Left, Reply, Message
  <2>2. Fits(a)'
    BY <2>1 DEF Fits
  <2>3. \A s \in Slot : board'[s] # None => board'[s] = board[s]
    BY <1>4, <2>1
  <2>4. Paired'
    BY <1>1, <2>3 DEF Up, Paired, Agree
  <2> QED
    BY <2>1, <2>2, <2>4
<1>8. CASE \E k \in {"ERR", "HELLO", "STATUS", "SWKEM"} : Reply(Line(k)) /\ board' = board
  <2>1. PICK k \in {"ERR", "HELLO", "STATUS", "SWKEM"} : Reply(Line(k)) /\ board' = board
    BY <1>8
  <2>2. Line(k).kind = k /\ to_pc' = <<Line(k)>>
    BY <1>2, <2>1 DEF Reply, Line, Message
  <2>3. Fits(Line(k))'
    BY <2>2 DEF Fits, Line, Message
  <2>4. Paired'
    BY <1>1, <2>1 DEF Up, Paired, Agree
  <2> QED
    BY <2>2, <2>3, <2>4
<1>9. CASE board' = NoSessions /\ Reply(Line("RESET"))
  <2>1. Line("RESET").kind = "RESET" /\ to_pc' = <<Line("RESET")>>
    BY <1>2, <1>9 DEF Reply, Line, Message
  <2>2. Fits(Line("RESET"))'
    BY <2>1 DEF Fits, Line, Message
  <2>3. Paired'
    BY <1>9 DEF Paired, NoSessions
  <2> QED
    BY <2>1, <2>2, <2>3
<1> QED
  BY <1>3, <1>5, <1>6, <1>7, <1>8, <1>9 DEF Board, Refuse, firmware

\* The board: it moves one line from one direction to the other.
LEMMA BoardInStep == IInv /\ InStep /\ Board => InStep'
<1> SUFFICES ASSUME IInv, InStep, Board PROVE InStep'
  OBVIOUS
<1>1. /\ to_board # <<>> /\ to_board' = Tail(to_board)
      /\ UNCHANGED <<LINK, link, call, sessions, starts, late>>
  BY BoardAnswers
<1>2. PICK a : /\ to_pc' = Append(to_pc, a)
               /\ a.kind = "RESET" => Head(to_board).kind = "RESET" /\ board' = NoSessions
  BY BoardAnswers
<1>3. /\ Head(to_board) = to_board[1] /\ 1 \in DOMAIN to_board
      /\ Len(to_board) \in Nat /\ DOMAIN to_board = 1 .. Len(to_board)
      /\ Len(to_board') = Len(to_board) - 1 /\ Len(to_board) >= 1
      /\ DOMAIN to_board' = 1 .. Len(to_board) - 1
      /\ Len(to_board) = 1 => to_board' = <<>>
      /\ \A i \in DOMAIN to_board' :
            i \in Nat /\ i + 1 \in DOMAIN to_board /\ to_board'[i] = to_board[i + 1]
  BY <1>1, Values, TailIndex
<1>4. /\ to_pc' # <<>> /\ DOMAIN to_pc = 1 .. Len(to_pc) /\ Len(to_pc) \in Nat
      /\ Len(to_pc') = Len(to_pc) + 1 /\ DOMAIN to_pc' = 1 .. Len(to_pc) + 1
      /\ \A i \in DOMAIN to_pc : to_pc'[i] = to_pc[i]
      /\ to_pc'[Len(to_pc) + 1] = a
  BY <1>2, Values, AddedIndex
<1>5. Outstanding' = Outstanding
  BY <1>3, <1>4 DEF Outstanding
<1>6. Prompt' => Prompt
  BY <1>1 DEF Prompt
<1>7. ASSUME Greeting PROVE Greeting'
  <2>1. ASSUME NEW i \in DOMAIN to_pc', i > 1 PROVE to_pc'[i].kind # "RESET"
    <3>1. CASE i \in DOMAIN to_pc
      BY <1>4, <1>7, <2>1, <3>1 DEF Greeting
    <3>2. CASE i = Len(to_pc) + 1
      <4>1. Len(to_pc) >= 1
        BY <1>4, <2>1, <3>2
      <4>2. to_pc # <<>>
        BY <4>1
      <4>3. to_board[1].kind # "RESET"
        BY <1>3, <1>7, <4>2 DEF Greeting
      <4> QED
        BY <1>2, <1>3, <1>4, <3>2, <4>3
    <3> QED
      BY <1>4, <3>1, <3>2
  <2>2. ASSUME NEW i \in DOMAIN to_board' PROVE to_board'[i].kind # "RESET"
    <3>1. i + 1 \in DOMAIN to_board /\ i + 1 > 1 /\ to_board'[i] = to_board[i + 1]
      BY <1>3
    <3> QED
      BY <1>7, <3>1 DEF Greeting
  <2> QED
    BY <1>1, <1>5, <1>7, <2>1, <2>2 DEF Greeting
<1>8. ASSUME Resetting PROVE Resetting'
  <2>1. ASSUME NEW i \in DOMAIN to_board', i # Len(to_board')
        PROVE  to_board'[i].kind # "RESET"
    <3>1. i + 1 \in DOMAIN to_board /\ i + 1 # Len(to_board) /\ to_board'[i] = to_board[i + 1]
      BY <1>3, <2>1
    <3> QED
      BY <1>8, <3>1 DEF Resetting
  <2>2. ASSUME NEW i \in DOMAIN to_pc', to_pc'[i].kind = "RESET"
        PROVE  i = Len(to_pc') /\ to_board' = <<>> /\ board' = NoSessions
    <3>1. i \notin DOMAIN to_pc
      BY <1>1, <1>4, <1>8, <2>2 DEF Resetting
    <3>2. i = Len(to_pc) + 1
      BY <1>4, <3>1
    <3>3. to_board[1].kind = "RESET" /\ board' = NoSessions
      BY <1>2, <1>3, <1>4, <2>2, <3>2
    <3>4. 1 = Len(to_board)
      BY <1>3, <1>8, <3>3 DEF Resetting
    <3> QED
      BY <1>3, <1>4, <3>2, <3>3, <3>4
  <2> QED
    BY <1>1, <1>5, <1>8, <2>1, <2>2 DEF Resetting
<1>9. link = "up" /\ Up => Up'
  BY UpBoard
<1> QED
  BY <1>1, <1>5, <1>6, <1>7, <1>8, <1>9 DEF InStep, Closed, First

\* What a fault does to the line: it takes the next command, or it takes or cuts the last
\* answer.
LEMMA LineLost ==
    ASSUME IInv, LoseLine
    PROVE  /\ UNCHANGED <<LINK, link, call, sessions, board, starts, late>>
           /\ \/ to_board # <<>> /\ to_board' = Tail(to_board) /\ to_pc' = to_pc
              \/ /\ to_pc # <<>> /\ to_board' = to_board
                 /\ Len(to_pc') \in Nat /\ Len(to_pc') <= Len(to_pc)
                 /\ \A i \in DOMAIN to_pc' :
                       /\ i \in DOMAIN to_pc
                       /\ \/ to_pc'[i] = to_pc[i]
                             /\ (Len(to_pc') = Len(to_pc) \/ i # Len(to_pc))
                          \/ to_pc'[i] = Line("cut")
<1>1. UNCHANGED <<LINK, link, call, sessions, board, starts, late>>
  BY DEF LoseLine, pc, firmware
<1>2. CASE to_board # <<>> /\ to_board' = Tail(to_board) /\ UNCHANGED to_pc
  BY <1>1, <1>2
<1>3. CASE /\ to_pc # <<>> /\ UNCHANGED to_board
           /\ to_pc' = SubSeq(to_pc, 1, Len(to_pc) - 1)
  <2> DEFINE q == to_pc
             r == SubSeq(to_pc, 1, Len(to_pc) - 1)
  <2>1. /\ Len(r) = Len(q) - 1 /\ Len(q) \in Nat
        /\ \A i \in DOMAIN r : i \in DOMAIN q /\ i # Len(q) /\ r[i] = q[i]
    <3>1. PICK x \in AnswerLine : x = Head(q)
      BY <1>3, Values, Taken
    <3> QED
      BY <1>3, Values, LastIndex
  <2>2. Len(q) >= 1
    BY <1>3, Values, TailIndex
  <2>3. Len(r) \in Nat /\ Len(r) <= Len(q)
    <3> HIDE DEF q, r
    <3> QED
      BY <2>1, <2>2
  <2> QED
    BY <1>1, <1>3, <2>1, <2>3
<1>4. CASE /\ to_pc # <<>> /\ UNCHANGED to_board
           /\ to_pc' = [to_pc EXCEPT ![Len(to_pc)] = Line("cut")]
  <2>1. Line("cut") \in AnswerLine
    BY PlainLine DEF AnswerLine, Line, Message
  <2> DEFINE x == Line("cut")
             q == to_pc
             r == [to_pc EXCEPT ![Len(to_pc)] = x]
  <2>2. /\ Len(r) = Len(q) /\ Len(q) \in Nat /\ DOMAIN r = DOMAIN q
        /\ \A i \in DOMAIN q : r[i] = q[i] \/ r[i] = x
    <3> HIDE DEF x
    <3> QED
      BY <1>4, <2>1, Values, LastIndex DEF x
  <2> HIDE DEF x
  <2>3. to_pc' = r
    BY <1>4 DEF x
  <2> HIDE DEF r
  <2>4. /\ Len(to_pc') \in Nat /\ Len(to_pc') <= Len(to_pc)
        /\ \A i \in DOMAIN to_pc' :
              /\ i \in DOMAIN to_pc
              /\ \/ to_pc'[i] = to_pc[i] /\ Len(to_pc') = Len(to_pc)
                 \/ to_pc'[i] = x
    BY <2>2, <2>3
  <2> QED
    BY <1>1, <1>4, <2>4 DEF x
<1> QED
  BY <1>2, <1>3, <1>4 DEF LoseLine

\* A lost or cut line: what is left was there before.
LEMMA LoseInStep == IInv /\ InStep /\ LoseLine => InStep'
<1> SUFFICES ASSUME IInv, InStep, LoseLine PROVE InStep'
  OBVIOUS
<1>1. UNCHANGED <<LINK, link, call, sessions, board, starts, late>>
  BY LineLost
<1>2. Line("cut").kind = "cut"
  BY DEF Line, Message
<1>3. CASE to_board # <<>> /\ to_board' = Tail(to_board) /\ to_pc' = to_pc
  <2>1. /\ Len(to_board) \in Nat /\ DOMAIN to_board = 1 .. Len(to_board)
        /\ Len(to_board') = Len(to_board) - 1 /\ Len(to_board) >= 1
        /\ DOMAIN to_board' = 1 .. Len(to_board) - 1
        /\ Len(to_board) = 1 => to_board' = <<>>
        /\ \A i \in DOMAIN to_board' :
              i \in Nat /\ i + 1 \in DOMAIN to_board /\ to_board'[i] = to_board[i + 1]
    BY <1>3, Values, TailIndex
  <2>2. Outstanding' <= Outstanding /\ Outstanding \in Nat /\ Outstanding' \in Nat
    BY <1>3, <2>1, Values DEF Outstanding
  <2>3. ASSUME Greeting PROVE Greeting'
    <3>1. ASSUME NEW i \in DOMAIN to_board' PROVE to_board'[i].kind # "RESET"
      <4>1. i + 1 \in DOMAIN to_board /\ i + 1 > 1 /\ to_board'[i] = to_board[i + 1]
        BY <2>1
      <4> QED
        BY <2>3, <4>1 DEF Greeting
    <3>2. Outstanding' <= (IF LINK = "serial_board_v2" THEN 2 ELSE 1)
      BY <2>2, <2>3 DEF Greeting
    <3> QED
      BY <1>1, <1>3, <2>3, <3>1, <3>2 DEF Greeting
  <2>4. ASSUME Resetting PROVE Resetting'
    <3>1. ASSUME NEW i \in DOMAIN to_board', i # Len(to_board')
          PROVE  to_board'[i].kind # "RESET"
      <4>1. i + 1 \in DOMAIN to_board /\ i + 1 # Len(to_board) /\ to_board'[i] = to_board[i + 1]
        BY <2>1, <3>1
      <4> QED
        BY <2>4, <4>1 DEF Resetting
    <3>2. \A i \in DOMAIN to_pc : to_pc[i].kind # "RESET"
      BY <1>3, <2>4 DEF Resetting
    <3>3. Outstanding' <= 2
      BY <2>2, <2>4 DEF Resetting
    <3> QED
      BY <1>1, <1>3, <2>4, <3>1, <3>2, <3>3 DEF Resetting
  <2>5. ASSUME Up PROVE Up'
    <3>1. call # None /\ to_pc = <<>> /\ to_board = <<call>>
      BY <1>3, <2>5 DEF Up
    <3>2. to_board' = <<>> /\ to_pc' = <<>>
      BY <1>3, <3>1
    <3> QED
      BY <1>1, <2>5, <3>2 DEF Up, Paired, Agree
  <2>6. Closed => Closed'
    BY <2>2 DEF Closed
  <2> QED
    BY <1>1, <1>3, <2>1, <2>3, <2>4, <2>5, <2>6 DEF InStep, Prompt, First
<1>4. CASE /\ to_pc # <<>> /\ to_board' = to_board
           /\ Len(to_pc') \in Nat /\ Len(to_pc') <= Len(to_pc)
           /\ \A i \in DOMAIN to_pc' :
                 /\ i \in DOMAIN to_pc
                 /\ \/ to_pc'[i] = to_pc[i]
                       /\ (Len(to_pc') = Len(to_pc) \/ i # Len(to_pc))
                    \/ to_pc'[i] = Line("cut")
  <2>2. Outstanding' <= Outstanding /\ Outstanding \in Nat /\ Outstanding' \in Nat
    BY <1>4, Values DEF Outstanding
  <2>3. ASSUME Greeting PROVE Greeting'
    <3>1. \A i \in DOMAIN to_pc' : i > 1 => to_pc'[i].kind # "RESET"
      BY <1>2, <1>4, <2>3 DEF Greeting
    <3>2. \A i \in DOMAIN to_board : to_board[i].kind # "RESET"
      BY <1>4, <2>3 DEF Greeting
    <3>3. Outstanding' <= (IF LINK = "serial_board_v2" THEN 2 ELSE 1)
      BY <2>2, <2>3 DEF Greeting
    <3> QED
      BY <1>1, <1>4, <2>3, <3>1, <3>2, <3>3 DEF Greeting
  <2>4. ASSUME Resetting PROVE Resetting'
    <3>1. ASSUME NEW i \in DOMAIN to_pc', to_pc'[i].kind = "RESET"
          PROVE  i = Len(to_pc') /\ to_board' = <<>> /\ board' = NoSessions
      <4>1. /\ i \in DOMAIN to_pc /\ to_pc[i].kind = "RESET"
            /\ Len(to_pc') = Len(to_pc) \/ i # Len(to_pc)
        BY <1>2, <1>4, <3>1
      <4> QED
        BY <1>1, <1>4, <2>4, <4>1 DEF Resetting
    <3>2. Outstanding' <= 2
      BY <2>2, <2>4 DEF Resetting
    <3> QED
      BY <1>1, <1>4, <2>4, <3>1, <3>2 DEF Resetting
  <2>5. ASSUME Up PROVE Up'
    <3>1. call # None /\ to_board = <<>> /\ Len(to_pc) <= 1
      BY <1>4, <2>5 DEF Up
    <3>2. Len(to_pc') <= 1
      BY <1>4, <3>1, Values
    <3>3. \A i \in DOMAIN to_pc' : Fits(to_pc'[i])
      <4>1. Fits(Line("cut"))
        BY DEF Fits, Line, Message
      <4> QED
        BY <1>4, <2>5, <3>1, <4>1 DEF Up
    <3>4. (\A i \in DOMAIN to_pc : Fits(to_pc[i]))'
      BY <1>1, <3>3 DEF Fits
    <3> QED
      BY <1>1, <1>4, <2>5, <3>1, <3>2, <3>4 DEF Up, Paired, Agree
  <2>6. Closed => Closed'
    BY <2>2 DEF Closed
  <2> QED
    BY <1>1, <1>4, <2>3, <2>4, <2>5, <2>6 DEF InStep, Prompt, First
<1> QED
  BY <1>3, <1>4, LineLost

\* Lines as they were: nothing else of the invariant moves either.
LEMMA StillInStep == InStep /\ UNCHANGED vars => InStep'
<1> SUFFICES ASSUME InStep, UNCHANGED vars PROVE InStep'
  OBVIOUS
<1>1. UNCHANGED <<LINK, link, call, sessions, to_board, to_pc, board, starts, late>>
  BY DEF vars, pc, uart, firmware, bounds
<1> QED
  BY <1>1 DEF InStep, Prompt, First, Closed, Greeting, Resetting, Up, Paired, Agree, Fits,
              Outstanding

\* A deadline: when no call gives up early there is nothing left on the line.
LEMMA TimeoutInStep == IInv /\ InStep /\ Timeout => InStep'
<1> SUFFICES ASSUME IInv, InStep, Timeout PROVE InStep'
  OBVIOUS
<1>1. /\ call # None /\ to_pc = <<>> /\ call' = None
      /\ UNCHANGED <<LINK, sessions, board, to_board, to_pc, starts>>
      /\ link' = IF link = "up" THEN "up" ELSE "closed"
      /\ \/ to_board = <<>> /\ late' = late
         \/ late' = TRUE
  BY DEF Timeout, uart, firmware
<1>2. starts # 0
  BY <1>1 DEF InStep, IInv, Asked
<1>3. ASSUME Prompt' PROVE Prompt /\ to_board = <<>>
  BY <1>1, <1>3 DEF Prompt
<1>4. ASSUME Prompt', link = "up" PROVE Up'
  <2>1. Up
    BY <1>3, <1>4 DEF InStep
  <2> QED
    BY <1>1, <1>3, <1>4, <2>1 DEF Up, Paired, Agree
<1>5. ASSUME Prompt' PROVE Closed'
  BY <1>1, <1>3, <1>5 DEF Closed, Outstanding
<1> QED
  BY <1>1, <1>2, <1>4, <1>5 DEF InStep

\* A RESET answered while the link waits for it finds the board empty and the line too.
LEMMA ResetIsFresh ==
    ASSUME IInv, Resetting, to_pc # <<>>, Head(to_pc).kind = "RESET"
    PROVE  board = NoSessions /\ to_board = <<>> /\ Tail(to_pc) = <<>>
<1>1. /\ Head(to_pc) = to_pc[1] /\ 1 \in DOMAIN to_pc
      /\ Len(to_pc) = 1 => Tail(to_pc) = <<>>
  BY Values, TailIndex
<1> QED
  BY <1>1 DEF Resetting

\* The answer to the call of a link that is up.
LEMMA UpReceive ==
    ASSUME IInv, Up, Receive, link = "up"
    PROVE  Up'
<1> DEFINE a == Head(to_pc)
<1>1. /\ call # None /\ to_pc # <<>> /\ to_pc' = Tail(to_pc) /\ call' = None
      /\ UNCHANGED <<LINK, link, board, to_board>>
      /\ sessions' = Answered(call, a)
  BY DEF Receive, firmware
<1>2. /\ a = to_pc[1] /\ 1 \in DOMAIN to_pc /\ Len(to_pc) \in Nat /\ Len(to_pc) >= 1
      /\ Len(to_pc) = 1 => Tail(to_pc) = <<>>
  BY <1>1, Values, TailIndex
<1>3. to_board' = <<>> /\ to_pc' = <<>> /\ Fits(a)
  BY <1>1, <1>2 DEF Up
<1>4. /\ sessions \in [Slot -> PcSession \cup {None}] /\ board \in [Slot -> PcSession \cup {None}]
      /\ call.kind \in {"OPEN", "LEAVE", "DATA"} => call.slot \in Slot
      /\ None \notin PcSession
      /\ call.kind = "DATA" => sessions[call.slot] # None
  BY <1>1, Values DEF CommandLine, IInv, Asked
<1> HIDE DEF a
<1> SUFFICES ASSUME NEW s \in Slot, sessions'[s] # None, board[s] # None
             PROVE  Agree(sessions'[s], board[s])
  BY <1>1, <1>3 DEF Up, Paired, Agree
<1>5. sessions[s] # None => Agree(sessions[s], board[s])
  BY DEF Up, Paired
<1>6. CASE sessions'[s] = sessions[s]
  BY <1>5, <1>6
<1>7. CASE call.kind = "OPEN" /\ ReadyFor(call, a) /\ sessions'[s] # sessions[s]
  <2>1. sessions' = [sessions EXCEPT ![call.slot] = Session(call, a)]
    BY <1>1, <1>7 DEF Answered
  <2>2. s = call.slot /\ sessions'[s] = Session(call, a)
    BY <1>4, <1>7, <2>1
  <2>3. /\ board[s].vid = call.vid /\ board[s].sid = a.sid /\ board[s].kem = call.packet
        /\ board[s].counter = 0
    BY <1>3, <1>7, <2>2 DEF Fits, ReadyFor
  <2> QED
    BY <2>2, <2>3 DEF Agree, Session
<1>8. CASE call.kind = "LEAVE" /\ LeftFor(call, a) /\ sessions'[s] # sessions[s]
  <2>1. sessions' = [sessions EXCEPT ![call.slot] = None]
    BY <1>1, <1>8 DEF Answered
  <2> QED
    BY <1>4, <1>8, <2>1
<1>9. CASE call.kind = "DATA" /\ RespFor(call, a) /\ sessions'[s] # sessions[s]
  <2>1. sessions' = [sessions EXCEPT ![call.slot].counter = @ + 1]
    BY <1>1, <1>9 DEF Answered
  <2>2. s = call.slot
    BY <1>4, <1>9, <2>1
  <2>3. sessions[s] # None /\ sessions[s] \in PcSession
    BY <1>4, <1>9, <2>2
  <2>4. sessions'[s] = [sessions[s] EXCEPT !.counter = @ + 1]
    BY <1>4, <2>1, <2>2
  <2>5. board[s].counter = sessions[s].counter + 1
    BY <1>3, <1>9, <2>2 DEF Fits, RespFor
  <2> QED
    BY <1>5, <2>3, <2>4, <2>5 DEF Agree, PcSession
<1>10. sessions'[s] = sessions[s] \/ \/ call.kind = "OPEN" /\ ReadyFor(call, a)
                                     \/ call.kind = "LEAVE" /\ LeftFor(call, a)
                                     \/ call.kind = "DATA" /\ RespFor(call, a)
  BY <1>1 DEF Answered
<1> QED
  BY <1>6, <1>7, <1>8, <1>9, <1>10

\* An answer: the exchanges of a start, and the calls of a link that is up.
LEMMA ReceiveInStep == IInv /\ InStep /\ Receive => InStep'
<1> SUFFICES ASSUME IInv, InStep, Receive PROVE InStep'
  OBVIOUS
<1> DEFINE a == Head(to_pc)
<1>1. /\ call # None /\ to_pc # <<>> /\ to_pc' = Tail(to_pc)
      /\ UNCHANGED <<LINK, board, starts, late>>
  BY DEF Receive, firmware, bounds
<1>2. starts # 0 /\ starts \in Nat
  BY <1>1 DEF InStep, IInv, Asked
<1>3. /\ a = to_pc[1] /\ 1 \in DOMAIN to_pc
      /\ Len(to_pc) \in Nat /\ Len(to_pc) >= 1 /\ DOMAIN to_pc = 1 .. Len(to_pc)
      /\ Len(to_pc') = Len(to_pc) - 1 /\ DOMAIN to_pc' = 1 .. Len(to_pc) - 1
      /\ Len(to_pc) = 1 => to_pc' = <<>>
      /\ \A i \in DOMAIN to_pc' : i \in Nat /\ i + 1 \in DOMAIN to_pc /\ to_pc'[i] = to_pc[i + 1]
      /\ Len(to_board) \in Nat /\ (to_board = <<>> <=> Len(to_board) = 0)
  BY <1>1, Values, TailIndex, EmptyQueue
<1>4. Prompt' => Prompt
  BY <1>1 DEF Prompt
<1>5. CASE /\ link = "greeting" /\ LINK = "serial_board_v2"
           /\ link' = "resetting" /\ call' = Line("RESET")
           /\ to_board' = Append(to_board, Line("RESET"))
           /\ UNCHANGED sessions
  <2>1. Line("RESET") # None /\ Line("RESET").kind = "RESET" /\ Line("RESET") \in CommandLine
    BY PlainLine, Values DEF CommandLine, Command
  <2>2. /\ DOMAIN to_board = 1 .. Len(to_board)
        /\ Len(to_board') = Len(to_board) + 1 /\ DOMAIN to_board' = 1 .. Len(to_board) + 1
        /\ \A i \in DOMAIN to_board : to_board'[i] = to_board[i]
    BY <1>5, <2>1, Values, AppendIndex
  <2>3. ASSUME Greeting PROVE Resetting'
    <3>1. Outstanding' <= 2
      BY <1>3, <1>5, <2>2, <2>3 DEF Greeting, Outstanding
    <3>2. ASSUME NEW i \in DOMAIN to_board', i # Len(to_board')
          PROVE  to_board'[i].kind # "RESET"
      <4>1. i \in DOMAIN to_board
        BY <1>3, <2>2, <3>2
      <4> QED
        BY <1>1, <2>2, <2>3, <4>1 DEF Greeting
    <3>3. ASSUME NEW i \in DOMAIN to_pc' PROVE to_pc'[i].kind # "RESET"
      <4>1. i + 1 \in DOMAIN to_pc /\ i + 1 > 1 /\ to_pc'[i] = to_pc[i + 1]
        BY <1>3
      <4> QED
        BY <2>3, <4>1 DEF Greeting
    <3> QED
      BY <1>1, <1>5, <2>3, <3>1, <3>2, <3>3 DEF Greeting, Resetting
  <2> QED
    BY <1>1, <1>2, <1>4, <1>5, <2>1, <2>3 DEF InStep
<1>6. CASE /\ \/ link = "resetting" /\ Greets(a)
              \/ link = "greeting" /\ Greets(a) /\ LINK # "serial_board_v2"
           /\ link' = "up" /\ call' = None
           /\ UNCHANGED <<to_board, sessions>>
  <2>1. ASSUME Prompt PROVE sessions = NoSessions /\ to_board' = <<>> /\ to_pc' = <<>>
    <3>1. CASE link = "resetting" /\ Greets(a)
      <4>1. Resetting /\ a.kind = "RESET"
        BY <2>1, <3>1 DEF InStep, Greets
      <4> QED
        BY <1>1, <1>6, <4>1, ResetIsFresh DEF Resetting
    <3>2. CASE link = "greeting" /\ LINK # "serial_board_v2"
      <4>1. Outstanding <= 1 /\ sessions = NoSessions
        BY <2>1, <3>2 DEF InStep, Greeting
      <4>2. Len(to_pc) = 1 /\ Len(to_board) = 0
        BY <1>3, <4>1 DEF Outstanding
      <4> QED
        BY <1>3, <1>6, <4>1, <4>2
    <3> QED
      BY <1>6, <3>1, <3>2
  <2>2. ASSUME Prompt PROVE Up'
    BY <1>6, <2>1, <2>2 DEF Up, Paired, NoSessions
  <2> QED
    BY <1>1, <1>2, <1>4, <1>6, <2>2 DEF InStep
<1>7. CASE /\ link \in {"greeting", "resetting"}
           /\ link' = "closed" /\ call' = None
           /\ UNCHANGED <<to_board, sessions>>
  <2>1. ASSUME Prompt PROVE Closed'
    <3>1. Outstanding <= 2
      BY <1>3, <1>7, <2>1 DEF InStep, Greeting, Resetting, Outstanding
    <3> QED
      BY <1>3, <1>7, <3>1 DEF Outstanding, Closed
  <2> QED
    BY <1>1, <1>2, <1>4, <1>7, <2>1 DEF InStep
<1>8. CASE link = "up"
  <2>1. link' = "up"
    BY <1>8 DEF Receive
  <2>2. Prompt => Up'
    BY <1>8, UpReceive DEF InStep
  <2> QED
    BY <1>1, <1>2, <1>4, <2>1, <2>2 DEF InStep
<1> HIDE DEF a
<1>9. \/ /\ link = "greeting" /\ LINK = "serial_board_v2"
         /\ link' = "resetting" /\ call' = Line("RESET")
         /\ to_board' = Append(to_board, Line("RESET"))
         /\ UNCHANGED sessions
      \/ /\ \/ link = "resetting" /\ Greets(a)
            \/ link = "greeting" /\ Greets(a) /\ LINK # "serial_board_v2"
         /\ link' = "up" /\ call' = None
         /\ UNCHANGED <<to_board, sessions>>
      \/ /\ link \in {"greeting", "resetting"}
         /\ link' = "closed" /\ call' = None
         /\ UNCHANGED <<to_board, sessions>>
      \/ link = "up"
  BY DEF Receive, a
<1> QED
  BY <1>5, <1>6, <1>7, <1>8, <1>9

\* Nothing has been asked yet.
LEMMA InitInStep == Init => InStep
BY DEF Init, InStep, Closed, Outstanding

\* Every step keeps both sides in step.
LEMMA InStepStep == IInv /\ InStep /\ [Next]_vars => InStep'
<1> SUFFICES ASSUME IInv, InStep, [Next]_vars PROVE InStep'
  OBVIOUS
<1> QED
  BY StartInStep, CloseInStep, CallInStep, BoardInStep, LoseInStep, ReceiveInStep,
     TimeoutInStep, StillInStep DEF Next

\* So both sides are in step in every state.
LEMMA AlwaysInStep == Spec => []InStep
<1>1. Spec => []IInv
  BY Invariant
<1> QED
  BY <1>1, InitInStep, InStepStep, PTL DEF Spec

\* While no call has given up early, a session the PC holds is the one the board holds,
\* under the same keys, and the board is at most one packet ahead (serial_board_v2.py,
\* and board_link_v2.py as long as the program is started once).
THEOREM HeldAgrees == Spec => []HeldSessionAgrees
<1>1. InStep => HeldSessionAgrees
  BY DEF InStep, Prompt, HeldSessionAgrees, Up, Paired, Agree
<1> QED
  BY <1>1, AlwaysInStep, PTL

\* However many starts failed half-way before and whatever an earlier program had asked,
\* a link of serial_board_v2.py that comes up has an empty board in front of it and an
\* empty line (SerialBoardLinkV2's HELLO and RESET).
THEOREM StartsOnEmpty == Spec => StartsEmpty
<1>1. ASSUME IInv, InStep, [Next]_vars,
             LINK = "serial_board_v2", ~late, link # "up", link' = "up"
      PROVE  board' = NoSessions /\ to_board' = <<>> /\ to_pc' = <<>>
  <2>1. Receive
    BY <1>1 DEF Next, vars, pc, Start, Close, sw_kem, leave_session, open_session, send_data,
                Ask, Board, LoseLine, Timeout
  <2>2. /\ link = "resetting" /\ Head(to_pc).kind = call.kind
        /\ to_pc # <<>> /\ to_pc' = Tail(to_pc)
        /\ to_board' = to_board /\ board' = board
    BY <1>1, <2>1 DEF Receive, Greets, firmware
  <2>3. Resetting /\ call.kind = "RESET"
    BY <1>1, <2>2 DEF InStep, Prompt
  <2> QED
    BY <1>1, <2>2, <2>3, ResetIsFresh
<1>2. IInv /\ InStep /\ [Next]_vars =>
         [LINK = "serial_board_v2" /\ ~late /\ link # "up" /\ link' = "up" =>
             board' = NoSessions /\ to_board' = <<>> /\ to_pc' = <<>>]_vars
  BY <1>1
<1>3. Spec => []IInv
  BY Invariant
<1> QED
  BY <1>2, <1>3, AlwaysInStep, PTL DEF Spec, StartsEmpty
=============================================================================
