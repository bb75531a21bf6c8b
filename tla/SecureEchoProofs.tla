-------------------------- MODULE SecureEchoProofs --------------------------
(***************************************************************************)
(* The UART demonstration, proved for all slots, payloads and bounds, any  *)
(* length of the lines' queues, any number of lost lines, noise, faults    *)
(* and clients stopped and started.                                        *)
(***************************************************************************)
EXTENDS SecureEcho, TLAPS

Phase == {"leaving", "left", "refused", "rejoined", "probed"}
Churn == [phase : Phase, slot : Slot, old : Session]
Payload == Body \cup {"stale"}
Reason == {"NOSESSION", "KEM", "AUTH", "TX", "CMD"}
Line == [kind : {"STATUS", "BYE"}]
        \cup [kind : {"READY"}, slot : Slot, sid : DemoId, boot : Nat]
        \cup [kind : {"LEFT"}, slot : Slot, sid : DemoId]
        \cup [kind : {"RESP"}, slot : Slot, ctr : Nat, sid : SessionId, body : Payload]
        \cup [kind : {"ERR"}, why : Reason]

NoSessions == [s \in Slot |-> None]

\* What TypeOK leaves open: the lines under way, the step of /churn, the domains.
Typed ==
    /\ to_board \in Seq(Commands) /\ to_client \in Seq(Line)
    /\ pl \in [Slot -> [sid : SessionId, tx : Nat, rx : Nat]]
    /\ sessions \in [Slot -> Session \cup {None}]
    /\ churn \in Churn \cup {None}
    /\ \A s \in session_active : session_id[s] \in DemoId /\ session_id[s][1] = s
    /\ serving # None => serving.op = "DATA"
    /\ boot \in Nat

\* The client: the command it waits for belongs to the step of /churn it is in, or
\* to a session it holds; an id names the slot it is held for.
Awaiting ==
    /\ client \in {"down", "prompt"} => churn = None
    /\ client = "down" => sessions = NoSessions
    /\ client = "churn" => churn # None /\ churn.phase # "leaving"
    /\ client = "wait" /\ churn = None =>
          /\ cmd.op \in {"STATUS", "OPEN", "LEAVE", "DATA"}
          /\ cmd.op \in {"LEAVE", "DATA"} => sessions[cmd.slot] # None
          /\ cmd.op = "DATA" => /\ cmd.body # "stale"
                                /\ cmd = Packet(cmd.slot, sessions[cmd.slot], cmd.body)
    /\ client = "wait" /\ churn # None =>
          /\ churn.phase # "probed"
          /\ churn.phase = "leaving" => cmd = [op |-> "LEAVE", slot |-> churn.slot]
          /\ churn.phase \in {"left", "rejoined"} =>
                cmd = Packet(churn.slot, churn.old, "stale")
          /\ churn.phase = "refused" => cmd = [op |-> "OPEN", slot |-> churn.slot]
    /\ churn # None =>
          /\ churn.phase = "leaving" => sessions[churn.slot] = churn.old
          /\ churn.phase \in {"rejoined", "probed"} => sessions[churn.slot] # None
          /\ churn.old.sid[1] = churn.slot
    /\ \A s \in Slot : sessions[s] # None => sessions[s].sid[1] = s

\* The ids announced are those of the firmware, and the firmware's those of the logic.
Announced ==
    /\ \A s \in Slot : sessions[s] # None => sessions[s].boot <= boot
    /\ \A i \in DOMAIN to_client : to_client[i].kind = "READY" =>
          to_client[i].sid[1] = to_client[i].slot /\ to_client[i].boot <= boot
    /\ \A s \in session_active : pl[s].sid = session_id[s]

Asking == Awaiting /\ Announced

Types == TypeOK /\ Typed

-----------------------------------------------------------------------------
(* Queues of lines. *)

\* What a queue keeps when its first line is taken.
LEMMA TailIndex ==
    ASSUME NEW S, NEW q \in Seq(S), q # <<>>
    PROVE  /\ Head(q) \in S /\ Tail(q) \in Seq(S)
           /\ 1 \in DOMAIN q /\ Head(q) = q[1] /\ DOMAIN q = 1 .. Len(q) /\ Len(q) \in Nat
           /\ Len(Tail(q)) = Len(q) - 1 /\ DOMAIN Tail(q) = 1 .. Len(q) - 1
           /\ \A i \in DOMAIN Tail(q) : i \in Nat /\ i + 1 \in DOMAIN q /\ Tail(q)[i] = q[i + 1]
  OBVIOUS

\* What a queue keeps when a line is added.
LEMMA AppendIndex ==
    ASSUME NEW S, NEW q \in Seq(S), NEW x \in S
    PROVE  /\ Append(q, x) \in Seq(S) /\ Append(q, x) # <<>>
           /\ DOMAIN q = 1 .. Len(q) /\ Len(q) \in Nat
           /\ Len(Append(q, x)) = Len(q) + 1
           /\ DOMAIN Append(q, x) = 1 .. Len(q) + 1
           /\ \A i \in DOMAIN q : Append(q, x)[i] = q[i]
           /\ Append(q, x)[Len(q) + 1] = x
  OBVIOUS

\* What a queue keeps when the client drops its first n lines.
LEMMA SubSeqIndex ==
    ASSUME NEW S, NEW q \in Seq(S), NEW n \in 0 .. Len(q)
    PROVE  /\ SubSeq(q, n + 1, Len(q)) \in Seq(S)
           /\ \A i \in DOMAIN SubSeq(q, n + 1, Len(q)) :
                 i \in Nat /\ i + n \in DOMAIN q /\ SubSeq(q, n + 1, Len(q))[i] = q[i + n]
  <1>1. Len(q) \in Nat /\ n \in Nat /\ n <= Len(q)
    OBVIOUS
  <1>2. \A i \in 1 .. Len(q) - n : q[i + n] \in S
    BY <1>1
  <1>3. SubSeq(q, n + 1, Len(q)) = [i \in 1 .. Len(q) - n |-> q[i + n]]
    BY <1>1
  <1> QED
    BY <1>1, <1>2, <1>3

-----------------------------------------------------------------------------
(* Values. *)

\* An id names its slot, and its generation fits the field.
LEMMA Ids ==
    /\ \A s \in Slot, g \in Nat : /\ make_session_id(s, g) \in DemoId
                                  /\ make_session_id(s, g) = <<s, g % GENERATIONS>>
    /\ \A s \in Slot : ValidationId(s) \in SessionId
    /\ \A sid \in DemoId : /\ sid \in SessionId /\ sid = <<sid[1], sid[2]>>
                           /\ sid[1] \in Slot /\ sid[2] \in 0 .. GENERATIONS - 1
  <1>1. \A g \in Nat : g % GENERATIONS \in 0 .. GENERATIONS - 1
    BY EchoAssumption
  <1> QED
    BY <1>1 DEF make_session_id, DemoId, SessionId, ValidationId

\* The fields of a command.
LEMMA CommandFields ==
    ASSUME NEW c \in Commands
    PROVE  /\ c.op \in {"STATUS", "QUIT", "OPEN", "LEAVE", "DATA"}
           /\ c.op \in {"OPEN", "LEAVE", "DATA"} => c.slot \in Slot
           /\ c.op = "DATA" => c.sid \in SessionId /\ c.ctr \in Nat /\ c.body \in Payload
           /\ c # None
  BY NoneAssumption DEF Commands, Payload

\* The commands the client builds.
LEMMA CommandTypes ==
    /\ \A op \in {"STATUS", "QUIT"} : [op |-> op] \in Commands
    /\ \A op \in {"OPEN", "LEAVE"}, s \in Slot : [op |-> op, slot |-> s] \in Commands
    /\ \A s \in Slot, sid \in DemoId, n \in Nat, body \in Payload :
          [op |-> "DATA", slot |-> s, sid |-> sid, ctr |-> n, body |-> body] \in Commands
  BY Ids DEF Commands, Payload

\* The packets it seals, those of /churn included.
LEMMA PacketType ==
    ASSUME NEW s \in Slot, NEW h \in Session, NEW body \in Payload
    PROVE  /\ Packet(s, h, body) \in Commands
           /\ Packet(s, h, body).op = "DATA" /\ Packet(s, h, body).slot = s
           /\ Packet(s, h, body).sid = h.sid /\ Packet(s, h, body).ctr = h.tx
           /\ Packet(s, h, body).body = body
  BY CommandTypes DEF Packet, Session

\* The answers the firmware builds.
LEMMA LineTypes ==
    /\ \A kind \in {"STATUS", "BYE"} : [kind |-> kind] \in Line
    /\ \A s \in Slot, sid \in DemoId, n \in Nat :
          [kind |-> "READY", slot |-> s, sid |-> sid, boot |-> n] \in Line
    /\ \A s \in Slot, sid \in DemoId : [kind |-> "LEFT", slot |-> s, sid |-> sid] \in Line
    /\ \A s \in Slot, n \in Nat, sid \in SessionId, body \in Payload :
          [kind |-> "RESP", slot |-> s, ctr |-> n, sid |-> sid, body |-> body] \in Line
    /\ \A why \in Reason : Err(why) \in Line
  BY DEF Line, Err

\* The fields of an answer.
LEMMA LineFields ==
    ASSUME NEW a \in Line
    PROVE  /\ a.kind \in {"STATUS", "BYE", "READY", "LEFT", "RESP", "ERR"}
           /\ a.kind \in {"READY", "LEFT", "RESP"} => a.slot \in Slot
           /\ a.kind = "READY" => a.sid \in DemoId /\ a.boot \in Nat
           /\ a.kind = "LEFT" => a.sid \in DemoId
           /\ a.kind = "RESP" => a.ctr \in Nat /\ a.sid \in SessionId /\ a.body \in Payload
  BY DEF Line

\* Counting a packet changes one counter of one slot's entry.
LEMMA CountedEntry ==
    ASSUME NEW table \in [Slot -> [sid : SessionId, tx : Nat, rx : Nat]], NEW s \in Slot
    PROVE  LET e == table[s] IN
           /\ [table EXCEPT ![s].rx = @ + 1] = [table EXCEPT ![s] = Entry(e.sid, e.tx, e.rx + 1)]
           /\ [table EXCEPT ![s].tx = @ + 1] = [table EXCEPT ![s] = Entry(e.sid, e.tx + 1, e.rx)]
           /\ Entry(e.sid, e.tx, e.rx + 1) \in [sid : SessionId, tx : Nat, rx : Nat]
           /\ Entry(e.sid, e.tx + 1, e.rx) \in [sid : SessionId, tx : Nat, rx : Nat]
           /\ e = Entry(e.sid, e.tx, e.rx)
  <1> DEFINE e == table[s]
  <1>1. e \in [sid : SessionId, tx : Nat, rx : Nat]
    OBVIOUS
  <1> HIDE DEF e
  <1>2. /\ [e EXCEPT !.rx = @ + 1] = Entry(e.sid, e.tx, e.rx + 1)
        /\ [e EXCEPT !.tx = @ + 1] = Entry(e.sid, e.tx + 1, e.rx)
        /\ Entry(e.sid, e.tx, e.rx + 1) \in [sid : SessionId, tx : Nat, rx : Nat]
        /\ Entry(e.sid, e.tx + 1, e.rx) \in [sid : SessionId, tx : Nat, rx : Nat]
        /\ e = Entry(e.sid, e.tx, e.rx)
    BY <1>1 DEF Entry
  <1> QED
    BY <1>2 DEF e

-----------------------------------------------------------------------------
(* Types: the firmware. *)

\* A command taken is the first one waiting.
LEMMA Taken ==
    ASSUME Types, NEW op, Takes(op)
    PROVE  /\ running /\ serving = None
           /\ Head(to_board) \in Commands /\ Head(to_board).op = op
           /\ Head(to_board) = to_board[1] /\ 1 \in DOMAIN to_board
           /\ to_board' = Tail(to_board) /\ to_board' \in Seq(Commands)
           /\ \A i \in DOMAIN to_board' :
                 i \in Nat /\ i + 1 \in DOMAIN to_board /\ to_board'[i] = to_board[i + 1]
  <1>1. to_board \in Seq(Commands) /\ to_board # <<>>
    BY DEF Types, Typed, Takes
  <1>2. /\ running /\ serving = None /\ Head(to_board).op = op /\ to_board' = Tail(to_board)
    BY DEF Takes
  <1> QED
    BY <1>1, <1>2, TailIndex

\* What a step must keep for the types of the firmware, the logic and the line.
LEMMA BoardTypes ==
    ASSUME Types, UNCHANGED <<pc, boot>>,
           to_board' \in Seq(Commands), to_client' \in Seq(Line),
           running' \in BOOLEAN, fault' \in BOOLEAN,
           session_active' \subseteq Slot,
           session_generation' \in [Slot -> Nat],
           session_id' \in [Slot -> DemoId \cup {None}],
           serving' # None => serving' \in Commands /\ serving'.op = "DATA",
           pl' \in [Slot -> [sid : SessionId, tx : Nat, rx : Nat]],
           \A s \in session_active' : session_id'[s] \in DemoId /\ session_id'[s][1] = s
    PROVE  Types'
  <1>1. \A i \in DOMAIN to_board' : to_board'[i] \in Commands
    OBVIOUS
  <1>2. UNCHANGED <<client, cmd, sessions, churn>>
    BY DEF pc
  <1> QED
    BY <1>1, <1>2, Ids DEF Types, TypeOK, Typed

\* Answering appends a line.
LEMMA Answered1 ==
    ASSUME Types, NEW a \in Line, Answer(a)
    PROVE  /\ to_client' = Append(to_client, a) /\ to_client' \in Seq(Line)
           /\ \A i \in DOMAIN to_client' :
                 (i \in DOMAIN to_client /\ to_client'[i] = to_client[i]) \/ to_client'[i] = a
  BY AppendIndex DEF Types, Typed, Answer

\* Every step of the firmware keeps the types.
LEMMA FirmwareTypes == Types /\ Firmware => Types'
  <1> SUFFICES ASSUME Types, Firmware PROVE Types'
    OBVIOUS
  <1>0. /\ running \in BOOLEAN /\ fault \in BOOLEAN /\ session_active \subseteq Slot
        /\ session_generation \in [Slot -> Nat]
        /\ session_id \in [Slot -> DemoId \cup {None}]
        /\ serving # None => serving \in Commands /\ serving.op = "DATA"
        /\ pl \in [Slot -> [sid : SessionId, tx : Nat, rx : Nat]]
        /\ to_board \in Seq(Commands) /\ to_client \in Seq(Line) /\ boot \in Nat
        /\ \A s \in session_active : session_id[s] \in DemoId /\ session_id[s][1] = s
    BY DEF Types, TypeOK, Typed
  <1>1. CASE FwStatus
    <2>1. to_client' \in Seq(Line) /\ to_board' \in Seq(Commands)
      BY <1>1, LineTypes, Answered1, Taken DEF FwStatus
    <2> QED
      BY <1>0, <1>1, <2>1, BoardTypes DEF FwStatus, NoneElse, board
  <1>2. CASE FwQuit
    <2>1. to_client' \in Seq(Line) /\ to_board' \in Seq(Commands)
      BY <1>2, LineTypes, Answered1, Taken DEF FwQuit
    <2> QED
      BY <1>0, <1>2, <2>1, BoardTypes DEF FwQuit, NoneElse
  <1>3. CASE FwOpen
    <2> DEFINE s == Head(to_board).slot
               new_id == make_session_id(s, session_generation[s])
    <2>1. s \in Slot /\ to_board' \in Seq(Commands)
      BY <1>3, Taken, CommandFields DEF FwOpen
    <2>2. new_id \in DemoId /\ new_id[1] = s
      <3>1. session_generation[s] \in Nat
        BY <1>0, <2>1
      <3> HIDE DEF s
      <3>2. new_id = <<s, session_generation[s] % GENERATIONS>> /\ new_id \in DemoId
        BY <2>1, <3>1, Ids
      <3> QED
        BY <3>2
    <2>3. UNCHANGED <<running, serving, pc, boot>>
      BY <1>3 DEF FwOpen, NoneElse
    <2>4. CASE /\ pl' = [pl EXCEPT ![s] = Entry(new_id, 0, 0)]
               /\ fault' = FALSE
               /\ session_active' = session_active \cup {s}
               /\ session_id' = [session_id EXCEPT ![s] = new_id]
               /\ session_generation' =
                     [session_generation EXCEPT ![s] = NextGeneration(@)]
               /\ Answer([kind |-> "READY", slot |-> s, sid |-> new_id, boot |-> boot])
      <3> HIDE DEF new_id, s
      <3>1. to_client' \in Seq(Line)
        BY <1>0, <2>1, <2>2, <2>4, LineTypes, Answered1
      <3>2. pl' \in [Slot -> [sid : SessionId, tx : Nat, rx : Nat]]
        BY <1>0, <2>1, <2>2, <2>4, Ids DEF Entry
      <3>3. session_generation' \in [Slot -> Nat]
        BY <1>0, <2>1, <2>4 DEF NextGeneration
      <3>4. session_id' \in [Slot -> DemoId \cup {None}]
        BY <1>0, <2>1, <2>2, <2>4
      <3>5. \A t \in session_active' : session_id'[t] \in DemoId /\ session_id'[t][1] = t
        BY <1>0, <2>1, <2>2, <2>4
      <3> QED
        BY <1>0, <2>1, <2>3, <2>4, <3>1, <3>2, <3>3, <3>4, <3>5, BoardTypes
    <2>5. CASE /\ fault' \in BOOLEAN
               /\ Answer(Err("KEM"))
               /\ UNCHANGED <<pl, session_active, session_id, session_generation>>
      <3>1. to_client' \in Seq(Line)
        BY <2>5, LineTypes, Answered1 DEF Reason
      <3> QED
        BY <1>0, <2>1, <2>3, <2>5, <3>1, BoardTypes
    <2> QED
      BY <1>3, <2>4, <2>5 DEF FwOpen
  <1>4. CASE FwLeave
    <2> DEFINE s == Head(to_board).slot
    <2>1. s \in Slot /\ to_board' \in Seq(Commands)
      BY <1>4, Taken, CommandFields DEF FwLeave
    <2>2. UNCHANGED <<running, serving, pl, fault, session_generation, pc, boot>>
      BY <1>4 DEF FwLeave, NoneElse
    <2>3. CASE /\ Answer(Err("NOSESSION")) /\ UNCHANGED <<session_active, session_id>>
      <3>1. to_client' \in Seq(Line)
        BY <2>3, LineTypes, Answered1 DEF Reason
      <3> QED
        BY <1>0, <2>1, <2>2, <2>3, <3>1, BoardTypes
    <2>4. CASE /\ s \in session_active
               /\ Answer([kind |-> "LEFT", slot |-> s, sid |-> session_id[s]])
               /\ session_active' = session_active \ {s}
               /\ session_id' = [session_id EXCEPT ![s] = None]
      <3>1. to_client' \in Seq(Line)
        BY <1>0, <2>1, <2>4, LineTypes, Answered1
      <3> QED
        BY <1>0, <2>1, <2>2, <2>4, <3>1, BoardTypes
    <2> QED
      BY <1>4, <2>3, <2>4 DEF FwLeave
  <1>5. CASE FwDecrypt
    <2> DEFINE packet == Head(to_board)
               s == packet.slot
    <2>1. packet \in Commands /\ packet.op = "DATA" /\ s \in Slot /\ packet # None
          /\ to_board' \in Seq(Commands) /\ serving = None
      BY <1>5, Taken, CommandFields DEF FwDecrypt
    <2>2. UNCHANGED <<running, session_active, session_generation, session_id, fault,
                      pc, boot>>
      BY <1>5 DEF FwDecrypt, NoneElse
    <2>3. \A why \in {"NOSESSION", "AUTH"} : Answer(Err(why)) => to_client' \in Seq(Line)
      BY LineTypes, Answered1 DEF Reason
    <2>4. CASE /\ Answer(Err("NOSESSION")) \/ Answer(Err("AUTH"))
               /\ UNCHANGED <<pl, serving>>
      BY <1>0, <2>1, <2>2, <2>3, <2>4, BoardTypes
    <2>5. CASE /\ pl' = [pl EXCEPT ![s].rx = @ + 1]
               /\ \/ Answer(Err("AUTH")) /\ UNCHANGED serving
                  \/ serving' = packet /\ UNCHANGED to_client
      <3>1. pl' \in [Slot -> [sid : SessionId, tx : Nat, rx : Nat]]
        <4> HIDE DEF s
        <4>1. pl' = [pl EXCEPT ![s] = Entry(pl[s].sid, pl[s].tx, pl[s].rx + 1)]
          BY <1>0, <2>1, <2>5, CountedEntry, Zenon
        <4>2. Entry(pl[s].sid, pl[s].tx, pl[s].rx + 1) \in [sid : SessionId, tx : Nat, rx : Nat]
          BY <1>0, <2>1, CountedEntry, Zenon
        <4> QED
          BY <1>0, <4>1, <4>2
      <3>2. to_client' \in Seq(Line)
        BY <1>0, <2>3, <2>5
      <3>3. serving' = None \/ serving' = packet
        BY <2>1, <2>5
      <3> QED
        BY <1>0, <2>1, <2>2, <3>1, <3>2, <3>3, BoardTypes
    <2> QED
      BY <1>5, <2>4, <2>5 DEF FwDecrypt
  <1>6. CASE FwEncrypt
    <2> DEFINE s == serving.slot
               e == pl[s]
    <2>1. serving \in Commands /\ serving.op = "DATA" /\ s \in Slot
          /\ serving.body \in Payload
      BY <1>0, <1>6, CommandFields DEF FwEncrypt
    <2>2. e \in [sid : SessionId, tx : Nat, rx : Nat]
      BY <1>0, <2>1
    <2>3. /\ pl' = [pl EXCEPT ![s].tx = @ + 1] /\ serving' = None
          /\ UNCHANGED <<running, session_active, session_generation, session_id, fault,
                         to_board, pc, boot>>
      BY <1>6 DEF FwEncrypt, NoneElse
    <2>4. pl' \in [Slot -> [sid : SessionId, tx : Nat, rx : Nat]]
      <3> HIDE DEF s, e
      <3>1. pl' = [pl EXCEPT ![s] = Entry(pl[s].sid, pl[s].tx + 1, pl[s].rx)]
        BY <1>0, <2>1, <2>3, CountedEntry, Zenon
      <3>2. Entry(pl[s].sid, pl[s].tx + 1, pl[s].rx) \in [sid : SessionId, tx : Nat, rx : Nat]
        BY <1>0, <2>1, CountedEntry, Zenon
      <3> QED
        BY <1>0, <3>1, <3>2
    <2>5. to_client' \in Seq(Line)
      <3>1. CASE fault
        <4>1. Answer(Err("TX"))
          BY <1>6, <3>1 DEF FwEncrypt
        <4> QED
          BY <4>1, LineTypes, Answered1 DEF Reason
      <3>2. CASE ~fault
        <4>1. Answer([kind |-> "RESP", slot |-> s, ctr |-> e.tx, sid |-> e.sid,
                      body |-> serving.body])
          BY <1>6, <3>2 DEF FwEncrypt
        <4> QED
          BY <2>1, <2>2, <4>1, LineTypes, Answered1
      <3> QED
        BY <3>1, <3>2
    <2> QED
      BY <1>0, <2>3, <2>4, <2>5, BoardTypes
  <1> QED
    BY <1>1, <1>2, <1>3, <1>4, <1>5, <1>6 DEF Firmware

-----------------------------------------------------------------------------
(* Types: the line and the client. *)

\* What a step must keep for the types of the client and the line.
LEMMA PcTypes ==
    ASSUME Types, UNCHANGED <<board, pl, fault, boot>>,
           to_board' \in Seq(Commands), to_client' \in Seq(Line),
           client' \in {"down", "prompt", "wait", "churn"},
           cmd' = None \/ cmd' \in Commands,
           (client' = "wait") <=> (cmd' # None),
           sessions' \in [Slot -> Session \cup {None}],
           churn' \in Churn \cup {None}
    PROVE  Types'
  <1>1. \A i \in DOMAIN to_board' : to_board'[i] \in Commands
    OBVIOUS
  <1>2. UNCHANGED <<running, session_active, session_generation, session_id, serving>>
    BY DEF board
  <1> QED
    BY <1>1, <1>2 DEF Types, TypeOK, Typed

\* Sending appends a command and waits for its answer.
LEMMA Sent ==
    ASSUME Types, NEW c \in Commands, Send(c)
    PROVE  /\ to_board' = Append(to_board, c) /\ to_board' \in Seq(Commands)
           /\ cmd' = c /\ cmd' \in Commands /\ cmd' # None /\ client' = "wait"
           /\ Len(to_board) \in Nat /\ DOMAIN to_board = 1 .. Len(to_board)
           /\ DOMAIN to_board' = 1 .. Len(to_board) + 1 /\ Len(to_board') = Len(to_board) + 1
           /\ \A i \in DOMAIN to_board : to_board'[i] = to_board[i]
           /\ to_board'[Len(to_board) + 1] = c
           /\ to_board' # <<>>
  <1>1. /\ to_board' = Append(to_board, c) /\ cmd' = c /\ client' = "wait"
        /\ to_board \in Seq(Commands)
    BY DEF Types, Typed, Send
  <1>2. c # None
    BY CommandFields
  <1> QED
    BY <1>1, <1>2, AppendIndex

\* What Types says of the client and the line.
LEMMA PcValues ==
    ASSUME Types
    PROVE  /\ to_board \in Seq(Commands) /\ to_client \in Seq(Line)
           /\ client \in {"down", "prompt", "wait", "churn"}
           /\ cmd = None \/ cmd \in Commands
           /\ (client = "wait") <=> (cmd # None)
           /\ sessions \in [Slot -> Session \cup {None}]
           /\ churn \in Churn \cup {None}
           /\ NoSessions \in [Slot -> Session \cup {None}]
  BY DEF Types, TypeOK, Typed, NoSessions

\* A step of /churn names a slot and the session it left.
LEMMA ChurnFields ==
    ASSUME Types, churn # None
    PROVE  /\ churn.phase \in Phase /\ churn.slot \in Slot /\ churn.old \in Session
           /\ churn.old.sid \in DemoId /\ churn.old.tx \in Nat /\ churn.old.rx \in Nat
           /\ churn.old.boot \in Nat
  <1>1. churn \in Churn
    BY PcValues
  <1>2. churn.phase \in Phase /\ churn.slot \in Slot /\ churn.old \in Session
    BY <1>1 DEF Churn
  <1> QED
    BY <1>2 DEF Session

\* The fields of a session the client holds.
LEMMA HeldFields ==
    ASSUME Types, NEW s \in Slot, sessions[s] # None
    PROVE  /\ sessions[s] \in Session
           /\ sessions[s].sid \in DemoId /\ sessions[s].tx \in Nat /\ sessions[s].rx \in Nat
           /\ sessions[s].boot \in Nat
  <1>1. sessions[s] \in Session
    BY PcValues
  <1> QED
    BY <1>1 DEF Session

\* A step that sends a command and leaves the sessions alone keeps the types.
LEMMA SendTypes ==
    ASSUME Types, NEW c \in Commands, Send(c), UNCHANGED <<sessions, BoardSide>>,
           to_client' \in Seq(Line), churn' \in Churn \cup {None}
    PROVE  Types'
  BY Sent, PcValues, PcTypes DEF BoardSide

\* Every command of the user, and every step of /churn, keeps the types.
LEMMA UserTypes == Types /\ Asking /\ (User \/ ChurnStep) => Types'
  <1> SUFFICES ASSUME Types, Asking, User \/ ChurnStep PROVE Types'
    OBVIOUS
  <1>0. to_client \in Seq(Line) /\ churn \in Churn \cup {None} /\ Body \subseteq Payload
        /\ "stale" \in Payload
    BY PcValues DEF Payload
  <1>1. CASE ClientStart
    <2>1. PICK n \in 0 .. Len(to_client) :
              to_client' = SubSeq(to_client, n + 1, Len(to_client))
      BY <1>1 DEF ClientStart
    <2>2. to_client' \in Seq(Line)
      BY <1>0, <2>1, SubSeqIndex
    <2>3. [op |-> "STATUS"] \in Commands
      BY CommandTypes
    <2> QED
      BY <1>0, <1>1, <2>2, <2>3, SendTypes DEF ClientStart
  <1>2. CASE UserStatus
    <2>1. [op |-> "STATUS"] \in Commands
      BY CommandTypes
    <2> QED
      BY <1>0, <1>2, <2>1, SendTypes DEF UserStatus
  <1>3. CASE UserQuit
    <2>1. to_board' \in Seq(Commands)
      BY <1>3, CommandTypes, PcValues, AppendIndex DEF UserQuit
    <2> QED
      BY <1>0, <1>3, <2>1, PcValues, PcTypes DEF UserQuit, BoardSide, NoSessions
  <1>4. ASSUME NEW s \in Slot, UserJoin(s) PROVE Types'
    <2>1. [op |-> "OPEN", slot |-> s] \in Commands
      BY CommandTypes
    <2> QED
      BY <1>0, <1>4, <2>1, SendTypes DEF UserJoin
  <1>5. ASSUME NEW s \in Slot, UserLeave(s) PROVE Types'
    <2>1. [op |-> "LEAVE", slot |-> s] \in Commands
      BY CommandTypes
    <2> QED
      BY <1>0, <1>5, <2>1, SendTypes DEF UserLeave
  <1>6. ASSUME NEW s \in Slot, UserChurn(s) PROVE Types'
    <2>1. [op |-> "LEAVE", slot |-> s] \in Commands
      BY CommandTypes
    <2>2. churn' \in Churn
      BY <1>6, HeldFields DEF UserChurn, Churn, Phase
    <2> QED
      BY <1>0, <1>6, <2>1, <2>2, SendTypes DEF UserChurn
  <1>7. ASSUME NEW s \in Slot, NEW body \in Body, UserEcho(s, body) PROVE Types'
    <2>1. Packet(s, sessions[s], body) \in Commands
      BY <1>0, <1>7, HeldFields, PacketType DEF UserEcho
    <2> QED
      BY <1>0, <1>7, <2>1, SendTypes DEF UserEcho
  <1>8. CASE ChurnStale
    <2>1. churn # None
      BY <1>8 DEF ChurnStale, Asking, Awaiting
    <2>2. Packet(churn.slot, churn.old, "stale") \in Commands
      BY <1>0, <2>1, ChurnFields, PacketType
    <2> QED
      BY <1>0, <1>8, <2>2, SendTypes DEF ChurnStale
  <1>9. CASE ChurnJoin
    <2>1. churn # None
      BY <1>9 DEF ChurnJoin, Asking, Awaiting
    <2>2. [op |-> "OPEN", slot |-> churn.slot] \in Commands
      BY <2>1, ChurnFields, CommandTypes
    <2> QED
      BY <1>0, <1>9, <2>2, SendTypes DEF ChurnJoin
  <1>10. CASE ChurnEcho
    <2>1. churn # None /\ churn.slot \in Slot /\ sessions[churn.slot] # None
      BY <1>10, ChurnFields DEF ChurnEcho, Asking, Awaiting
    <2>2. PICK body \in Body : Send(Packet(churn.slot, sessions[churn.slot], body))
      BY <1>10 DEF ChurnEcho
    <2>3. Packet(churn.slot, sessions[churn.slot], body) \in Commands
      BY <1>0, <2>1, HeldFields, PacketType
    <2> QED
      BY <1>0, <1>10, <2>2, <2>3, SendTypes DEF ChurnEcho
  <1> QED
    BY <1>1, <1>2, <1>3, <1>4, <1>5, <1>6, <1>7, <1>8, <1>9, <1>10 DEF User, ChurnStep

\* The line read is the first one waiting.
LEMMA Read ==
    ASSUME Types, Receive
    PROVE  /\ client = "wait" /\ cmd \in Commands /\ cmd # None
           /\ Head(to_client) \in Line /\ Head(to_client) = to_client[1]
           /\ 1 \in DOMAIN to_client
           /\ to_client' = Tail(to_client) /\ to_client' \in Seq(Line)
           /\ \A i \in DOMAIN to_client' :
                 i \in Nat /\ i + 1 \in DOMAIN to_client /\ to_client'[i] = to_client[i + 1]
           /\ UNCHANGED <<to_board, client_packets, BoardSide>>
           /\ UNCHANGED <<running, session_active, session_generation, session_id, serving>>
           /\ UNCHANGED <<pl, fault, boot, board_nonces>>
  <1>1. /\ client = "wait" /\ to_client # <<>> /\ to_client' = Tail(to_client)
        /\ UNCHANGED <<to_board, client_packets, BoardSide>>
    BY DEF Receive
  <1>2. UNCHANGED <<running, session_active, session_generation, session_id, serving,
                    pl, fault, boot, board_nonces>>
    BY <1>1 DEF BoardSide, board
  <1>3. to_client \in Seq(Line) /\ cmd \in Commands /\ cmd # None
    BY <1>1, PcValues
  <1> QED
    BY <1>1, <1>2, <1>3, TailIndex

\* An expected answer opens the session it announces, closes the one left, or
\* counts a packet each way.
LEMMA UpdatedTo ==
    ASSUME Types, Asking, client = "wait", NEW a \in Line, Expected(a)
    PROVE  \/ /\ cmd.op = "STATUS" /\ a.kind = "STATUS" /\ Updated(a) = sessions
           \/ /\ cmd.op = "OPEN" /\ a.kind = "READY" /\ a.slot = cmd.slot /\ cmd.slot \in Slot
              /\ Updated(a) = [sessions EXCEPT ![cmd.slot] =
                                  [sid |-> a.sid, tx |-> 0, rx |-> 0, boot |-> a.boot]]
              /\ [sid |-> a.sid, tx |-> 0, rx |-> 0, boot |-> a.boot] \in Session
           \/ /\ cmd.op = "LEAVE" /\ a.kind = "LEFT" /\ a.slot = cmd.slot /\ cmd.slot \in Slot
              /\ sessions[cmd.slot] # None /\ a.sid = sessions[cmd.slot].sid
              /\ Updated(a) = [sessions EXCEPT ![cmd.slot] = None]
           \/ /\ StaleProbe /\ churn # None /\ a.kind = "ERR" /\ Updated(a) = sessions
              /\ a.why = IF churn.phase = "left" THEN "NOSESSION" ELSE "AUTH"
           \/ /\ cmd.op = "DATA" /\ ~StaleProbe /\ churn = None /\ cmd.slot \in Slot
              /\ sessions[cmd.slot] # None
              /\ a.kind = "RESP" /\ a.slot = cmd.slot /\ a.ctr = sessions[cmd.slot].rx
              /\ a.sid = sessions[cmd.slot].sid /\ a.body = cmd.body
              /\ Updated(a) = [sessions EXCEPT ![cmd.slot] =
                      [sid |-> sessions[cmd.slot].sid, tx |-> sessions[cmd.slot].tx + 1,
                       rx |-> sessions[cmd.slot].rx + 1, boot |-> sessions[cmd.slot].boot]]
              /\ [sid |-> sessions[cmd.slot].sid, tx |-> sessions[cmd.slot].tx + 1,
                  rx |-> sessions[cmd.slot].rx + 1, boot |-> sessions[cmd.slot].boot]
                     \in Session
  <1>1. cmd \in Commands /\ cmd # None
    BY PcValues
  <1>2. CASE cmd.op = "STATUS" /\ a.kind = "STATUS"
    BY <1>2 DEF Updated
  <1>3. CASE cmd.op = "OPEN" /\ a.kind = "READY" /\ a.slot = cmd.slot
    <2>1. cmd.slot \in Slot
      BY <1>1, <1>3, CommandFields
    <2>2. [sid |-> a.sid, tx |-> 0, rx |-> 0, boot |-> a.boot] \in Session
      BY <1>3, LineFields DEF Session
    <2> QED
      BY <1>3, <2>1, <2>2 DEF Updated
  <1>4. CASE /\ cmd.op = "LEAVE" /\ a.kind = "LEFT" /\ a.slot = cmd.slot
             /\ a.sid = sessions[cmd.slot].sid
    <2>1. cmd.slot \in Slot
      BY <1>1, <1>4, CommandFields
    <2>2. sessions[cmd.slot] # None
      <3>1. CASE churn = None
        BY <1>4, <3>1 DEF Asking, Awaiting
      <3>2. CASE churn # None
        <4>1. churn.phase \in Phase /\ churn.old \in Session
          BY <3>2, ChurnFields
        <4>2. churn.phase = "leaving" /\ cmd.slot = churn.slot
          BY <1>4, <3>2, <4>1 DEF Asking, Awaiting, Packet, Phase
        <4>3. sessions[churn.slot] = churn.old
          BY <3>2, <4>2 DEF Asking, Awaiting
        <4> QED
          BY <4>1, <4>2, <4>3, NoneAssumption
      <3> QED
        BY <3>1, <3>2
    <2> QED
      BY <1>4, <2>1, <2>2 DEF Updated
  <1>5. CASE /\ StaleProbe /\ a.kind = "ERR"
             /\ a.why = IF churn.phase = "left" THEN "NOSESSION" ELSE "AUTH"
    <2>1. cmd.op = "DATA" /\ cmd.body = "stale"
      BY <1>5 DEF StaleProbe
    <2>2. churn # None
      BY <2>1 DEF Asking, Awaiting
    <2>3. Updated(a) = sessions
      BY <1>5, <2>1 DEF Updated
    <2> QED
      BY <1>5, <2>2, <2>3
  <1>6. CASE /\ cmd.op = "DATA" /\ ~StaleProbe /\ a.kind = "RESP" /\ a.slot = cmd.slot
             /\ a.ctr = sessions[cmd.slot].rx /\ a.sid = sessions[cmd.slot].sid
             /\ a.body = cmd.body
    <2> DEFINE s == cmd.slot
               h == sessions[s]
    <2>1. s \in Slot
      BY <1>1, <1>6, CommandFields
    <2>2. churn = None
      <3> SUFFICES ASSUME churn # None PROVE FALSE
        OBVIOUS
      <3>1. churn.phase \in Phase
        BY ChurnFields
      <3>2. churn.phase \in {"left", "rejoined"} /\ cmd = Packet(churn.slot, churn.old, "stale")
        BY <1>6, <3>1 DEF Asking, Awaiting, Phase
      <3>3. cmd.body = "stale"
        BY <3>2 DEF Packet
      <3> QED
        BY <1>6, <3>3 DEF StaleProbe
    <2>3. h # None
      BY <1>6, <2>2 DEF Asking, Awaiting
    <2>4. h \in [sid : DemoId, tx : Nat, rx : Nat, boot : Nat]
      BY <2>1, <2>3, HeldFields DEF Session
    <2>5. Updated(a) = [sessions EXCEPT ![s] = Counted(h)]
      BY <1>6 DEF Updated
    <2>6. /\ Counted(h) = [sid |-> h.sid, tx |-> h.tx + 1, rx |-> h.rx + 1, boot |-> h.boot]
          /\ [sid |-> h.sid, tx |-> h.tx + 1, rx |-> h.rx + 1, boot |-> h.boot] \in Session
      <3> HIDE DEF h
      <3>1. Counted(h) = [sid |-> h.sid, tx |-> h.tx + 1, rx |-> h.rx + 1, boot |-> h.boot]
        BY <2>4 DEF Counted
      <3>2. h.sid \in DemoId /\ h.tx \in Nat /\ h.rx \in Nat /\ h.boot \in Nat
        BY <2>4
      <3>3. h.tx + 1 \in Nat /\ h.rx + 1 \in Nat
        BY <3>2
      <3> QED
        BY <3>1, <3>2, <3>3 DEF Session
    <2> QED
      BY <1>6, <2>1, <2>2, <2>3, <2>5, <2>6
  <1> QED
    BY <1>2, <1>3, <1>4, <1>5, <1>6 DEF Expected

\* An answer read, an exit, and whatever befalls the line and the board keep the types.
LEMMA OtherTypes ==
    Types /\ Asking /\ (Receive \/ Timeout \/ Interrupt \/ Environment) => Types'
  <1> SUFFICES ASSUME Types, Asking, Receive \/ Timeout \/ Interrupt \/ Environment
               PROVE  Types'
    OBVIOUS
  <1>0. /\ to_client \in Seq(Line) /\ to_board \in Seq(Commands)
        /\ NoSessions \in [Slot -> Session \cup {None}]
    BY PcValues
  <1>1. CASE Receive
    <2> DEFINE a == Head(to_client)
    <2>1. a \in Line /\ client = "wait"
      BY <1>1, Read
    <2>2. CASE /\ Expected(a) /\ sessions' = Updated(a) /\ cmd' = None
               /\ client' = IF churn = None THEN "prompt" ELSE "churn"
               /\ churn' = IF churn = None THEN None
                           ELSE [churn EXCEPT !.phase = NextPhase(@)]
      <3>1. sessions' \in [Slot -> Session \cup {None}]
        BY <2>1, <2>2, UpdatedTo, PcValues
      <3>2. churn' \in Churn \cup {None}
        <4>1. CASE churn = None
          BY <2>2, <4>1
        <4>2. CASE churn # None
          <5>1. churn \in Churn /\ churn.phase \in Phase /\ churn.phase # "probed"
            BY <2>1, <4>2, PcValues, ChurnFields DEF Asking, Awaiting
          <5>2. NextPhase(churn.phase) \in Phase
            BY <5>1 DEF NextPhase, Phase
          <5>3. churn' = [churn EXCEPT !.phase = NextPhase(churn.phase)]
            BY <2>2, <4>2
          <5> QED
            BY <5>1, <5>2, <5>3 DEF Churn
        <4> QED
          BY <4>1, <4>2
      <3> QED
        BY <1>0, <1>1, <2>2, <3>1, <3>2, Read, PcTypes DEF BoardSide
    <2>3. CASE Exit
      BY <1>0, <1>1, <2>3, Read, PcTypes DEF BoardSide, Exit, NoSessions
    <2> QED
      BY <1>1, <2>2, <2>3 DEF Receive
  <1>2. CASE Timeout \/ Interrupt
    BY <1>0, <1>2, PcTypes DEF Timeout, Interrupt, Exit, BoardSide, uart, NoSessions
  <1>3. CASE Glitch
    BY <1>3 DEF Glitch, Types, TypeOK, Typed, board, uart, pc, history
  <1>4. CASE BoardRestart
    <2>1. pl' \in [Slot -> [sid : SessionId, tx : Nat, rx : Nat]]
      BY <1>4, Ids DEF BoardRestart, Entry
    <2>2. UNCHANGED <<to_board, to_client, client, cmd, sessions, churn>>
      BY <1>4 DEF BoardRestart, uart, pc
    <2>3. /\ running' = TRUE /\ session_active' = {} /\ serving' = None /\ fault' = FALSE
          /\ session_generation' = [s \in Slot |-> 0]
          /\ session_id' = [s \in Slot |-> None] /\ boot' = boot + 1
      BY <1>4 DEF BoardRestart
    <2>4. /\ session_generation' \in [Slot -> Nat] /\ boot' \in Nat
          /\ session_id' \in [Slot -> DemoId \cup {None}]
      BY <2>3 DEF Types, Typed
    <2>5. TypeOK'
      BY <2>1, <2>2, <2>3, <2>4 DEF Types, TypeOK
    <2>6. Typed'
      BY <2>1, <2>2, <2>3, <2>4 DEF Types, Typed
    <2> QED
      BY <2>5, <2>6 DEF Types
  <1>5. CASE LoseCommand
    <2>1. to_board' \in Seq(Commands)
      BY <1>0, <1>5, TailIndex DEF LoseCommand
    <2> QED
      BY <1>0, <1>5, <2>1, PcTypes, PcValues DEF LoseCommand, pc, history
  <1>6. CASE LoseAnswer
    <2>1. to_client' \in Seq(Line)
      BY <1>0, <1>6, TailIndex DEF LoseAnswer
    <2> QED
      BY <1>0, <1>6, <2>1, PcTypes, PcValues DEF LoseAnswer, pc, history
  <1>7. CASE FwNoise
    <2>1. to_client' \in Seq(Line)
      BY <1>7, LineTypes, Answered1 DEF FwNoise, Reason
    <2> QED
      BY <1>0, <1>7, <2>1, PcTypes, PcValues DEF FwNoise, pc, history
  <1> QED
    BY <1>1, <1>2, <1>3, <1>4, <1>5, <1>6, <1>7 DEF Environment

-----------------------------------------------------------------------------
(* Steps by what they do to the answers under way: the firmware adds a line, *)
(* every other step leaves a tail of them.                                   *)

Dropped == \E n \in Nat : \A i \in DOMAIN to_client' :
              i \in Nat /\ i + n \in DOMAIN to_client /\ to_client'[i] = to_client[i + n]

\* Leaving the answers alone drops none of them.
LEMMA NothingDropped == Types /\ UNCHANGED to_client => Dropped
  <1> SUFFICES ASSUME Types, UNCHANGED to_client PROVE Dropped
    OBVIOUS
  <1>1. to_client \in Seq(Line)
    BY PcValues
  <1>2. \A i \in DOMAIN to_client : i \in Nat /\ i + 0 = i
    BY <1>1
  <1> QED
    BY <1>2 DEF Dropped

\* Reading or losing an answer drops the first.
LEMMA HeadDropped == Types /\ to_client # <<>> /\ to_client' = Tail(to_client) => Dropped
  <1> SUFFICES ASSUME Types, to_client # <<>>, to_client' = Tail(to_client) PROVE Dropped
    OBVIOUS
  <1>1. \A i \in DOMAIN Tail(to_client) :
           i \in Nat /\ i + 1 \in DOMAIN to_client /\ Tail(to_client)[i] = to_client[i + 1]
    BY PcValues, TailIndex
  <1> QED
    BY <1>1 DEF Dropped

\* A client that starts drops the answers the port holds.
LEMMA StartDropped == Types /\ ClientStart => Dropped
  <1> SUFFICES ASSUME Types, ClientStart PROVE Dropped
    OBVIOUS
  <1>1. PICK n \in 0 .. Len(to_client) :
            to_client' = SubSeq(to_client, n + 1, Len(to_client))
    BY DEF ClientStart
  <1>2. to_client \in Seq(Line)
    BY PcValues
  <1>3. n \in Nat
    BY <1>2
  <1>4. \A i \in DOMAIN to_client' :
           i \in Nat /\ i + n \in DOMAIN to_client /\ to_client'[i] = to_client[i + n]
    BY <1>1, <1>2, SubSeqIndex
  <1> QED
    BY <1>3, <1>4 DEF Dropped

\* The steps of the client leave the board alone and add no answer.
LEMMA ClientDrops ==
    Types /\ (User \/ ChurnStep \/ Receive \/ Timeout \/ Interrupt)
        => /\ Dropped
           /\ UNCHANGED <<running, session_active, session_generation, session_id, serving>>
           /\ UNCHANGED <<pl, fault, boot, board_nonces>>
  <1> SUFFICES ASSUME Types, User \/ ChurnStep \/ Receive \/ Timeout \/ Interrupt
               PROVE  Dropped /\ UNCHANGED BoardSide
    BY DEF BoardSide, board
  <1>1. CASE ClientStart
    BY <1>1, StartDropped DEF ClientStart
  <1>2. CASE Receive
    BY <1>2, HeadDropped DEF Receive
  <1>3. CASE UNCHANGED to_client /\ UNCHANGED BoardSide
    BY <1>3, NothingDropped
  <1> QED
    BY <1>1, <1>2, <1>3 DEF User, ChurnStep, Timeout, Interrupt, uart, UserStatus, UserQuit,
       UserJoin, UserLeave, UserChurn, UserEcho, ChurnStale, ChurnJoin, ChurnEcho

\* A step that adds no answer and does not move the board keeps what was announced.
LEMMA AnnouncedKept ==
    ASSUME Announced, Dropped, UNCHANGED <<session_active, session_id, pl, boot>>,
           \A s \in Slot : sessions'[s] # None => sessions'[s].boot <= boot
    PROVE  Announced'
  <1>1. PICK n \in Nat : \A i \in DOMAIN to_client' :
            i \in Nat /\ i + n \in DOMAIN to_client /\ to_client'[i] = to_client[i + n]
    BY DEF Dropped
  <1>2. \A i \in DOMAIN to_client' : to_client'[i].kind = "READY" =>
            to_client'[i].sid[1] = to_client'[i].slot /\ to_client'[i].boot <= boot'
    BY <1>1 DEF Announced
  <1> QED
    BY <1>2 DEF Announced

\* A step of the board keeps what was announced if the line it adds does.
LEMMA AnnouncedAnswer ==
    ASSUME Types, Announced, UNCHANGED <<pc, boot>>, NEW a \in Line,
           UNCHANGED to_client \/ Answer(a),
           a.kind = "READY" => a.sid[1] = a.slot /\ a.boot <= boot,
           \A s \in session_active' : pl'[s].sid = session_id'[s]
    PROVE  Announced'
  <1>1. UNCHANGED <<sessions, boot>>
    BY DEF pc
  <1>2. CASE UNCHANGED to_client
    BY <1>1, <1>2 DEF Announced
  <1>3. CASE Answer(a)
    <2>1. \A i \in DOMAIN to_client' :
             (i \in DOMAIN to_client /\ to_client'[i] = to_client[i]) \/ to_client'[i] = a
      BY <1>3, Answered1
    <2> QED
      BY <1>1, <2>1 DEF Announced
  <1> QED
    BY <1>2, <1>3

-----------------------------------------------------------------------------
(* The client asks for what it holds. *)

\* The firmware announces the ids that its slots and the logic hold.
LEMMA FirmwareAsking == Types /\ Asking /\ Firmware => Asking'
  <1> SUFFICES ASSUME Types, Asking, Firmware PROVE Asking'
    OBVIOUS
  <1>0. /\ pl \in [Slot -> [sid : SessionId, tx : Nat, rx : Nat]] /\ boot \in Nat
        /\ session_id \in [Slot -> DemoId \cup {None}] /\ session_active \subseteq Slot
        /\ session_generation \in [Slot -> Nat]
        /\ \A s \in session_active : session_id[s] \in DemoId /\ pl[s].sid = session_id[s]
        /\ Announced
        /\ serving # None => serving \in Commands /\ serving.op = "DATA"
    BY DEF Types, TypeOK, Typed, Asking, Announced
  <1>1. UNCHANGED <<pc, boot>>
    BY DEF Firmware, FwStatus, FwQuit, FwOpen, FwLeave, FwDecrypt, FwEncrypt, NoneElse
  <1>2. Awaiting'
    BY <1>1 DEF Asking, Awaiting, NoSessions, Packet, pc
  <1>3. CASE FwStatus \/ FwQuit
    <2>1. PICK kind \in {"STATUS", "BYE"} : Answer([kind |-> kind])
      BY <1>3 DEF FwStatus, FwQuit
    <2>2. [kind |-> kind] \in Line
      BY LineTypes
    <2>3. UNCHANGED <<pl, session_id, session_active>>
      BY <1>3 DEF FwStatus, FwQuit, board
    <2>4. Announced'
      <3> DEFINE a == [kind |-> kind]
      <3>1. a.kind # "READY" /\ a \in Line /\ Answer(a)
        BY <2>1, <2>2
      <3> HIDE DEF a
      <3> QED
        BY <1>0, <1>1, <2>3, <3>1, AnnouncedAnswer
    <2> QED
      BY <1>2, <2>4 DEF Asking
  <1>4. CASE FwOpen
    <2> DEFINE s == Head(to_board).slot
               new_id == make_session_id(s, session_generation[s])
               a == [kind |-> "READY", slot |-> s, sid |-> new_id, boot |-> boot]
    <2>1. s \in Slot
      BY <1>4, Taken, CommandFields DEF FwOpen
    <2>2. new_id \in DemoId /\ new_id[1] = s
      <3>1. session_generation[s] \in Nat
        BY <1>0, <2>1
      <3> HIDE DEF s
      <3>2. new_id = <<s, session_generation[s] % GENERATIONS>> /\ new_id \in DemoId
        BY <2>1, <3>1, Ids
      <3> QED
        BY <3>2
    <2>3. CASE /\ pl' = [pl EXCEPT ![s] = Entry(new_id, 0, 0)]
               /\ session_active' = session_active \cup {s}
               /\ session_id' = [session_id EXCEPT ![s] = new_id]
               /\ Answer(a)
      <3> HIDE DEF new_id, s
      <3>1. a \in Line
        BY <1>0, <2>1, <2>2, LineTypes
      <3>2. \A t \in session_active' : pl'[t].sid = session_id'[t]
        BY <1>0, <2>1, <2>3 DEF Entry
      <3>3. a.sid[1] = a.slot /\ a.boot <= boot
        BY <1>0, <2>2
      <3> HIDE DEF a
      <3>4. Announced'
        BY <1>0, <1>1, <2>3, <3>1, <3>2, <3>3, AnnouncedAnswer
      <3> QED
        BY <1>2, <3>4 DEF Asking
    <2>4. CASE Answer(Err("KEM")) /\ UNCHANGED <<pl, session_active, session_id>>
      <3>1. Err("KEM") \in Line /\ Err("KEM").kind # "READY"
        BY LineTypes DEF Reason, Err
      <3>2. Announced'
        BY <1>0, <1>1, <2>4, <3>1, AnnouncedAnswer
      <3> QED
        BY <1>2, <3>2 DEF Asking
    <2> QED
      BY <1>4, <2>3, <2>4 DEF FwOpen
  <1>5. CASE FwLeave
    <2> DEFINE s == Head(to_board).slot
    <2>1. s \in Slot
      BY <1>5, Taken, CommandFields DEF FwLeave
    <2>2. UNCHANGED pl
      BY <1>5 DEF FwLeave
    <2>3. CASE Answer(Err("NOSESSION")) /\ UNCHANGED <<session_active, session_id>>
      <3>1. Err("NOSESSION") \in Line /\ Err("NOSESSION").kind # "READY"
        BY LineTypes DEF Reason, Err
      <3>2. Announced'
        BY <1>0, <1>1, <2>2, <2>3, <3>1, AnnouncedAnswer
      <3> QED
        BY <1>2, <3>2 DEF Asking
    <2>4. CASE /\ s \in session_active
               /\ Answer([kind |-> "LEFT", slot |-> s, sid |-> session_id[s]])
               /\ session_active' = session_active \ {s}
               /\ session_id' = [session_id EXCEPT ![s] = None]
      <3> DEFINE a == [kind |-> "LEFT", slot |-> s, sid |-> session_id[s]]
      <3> HIDE DEF s
      <3>1. a \in Line /\ a.kind # "READY"
        BY <1>0, <2>1, <2>4, LineTypes
      <3>2. \A t \in session_active' : pl'[t].sid = session_id'[t]
        BY <1>0, <2>1, <2>2, <2>4
      <3> HIDE DEF a
      <3>3. Announced'
        BY <1>0, <1>1, <2>4, <3>1, <3>2, AnnouncedAnswer DEF a
      <3> QED
        BY <1>2, <3>3 DEF Asking
    <2> QED
      BY <1>5, <2>3, <2>4 DEF FwLeave
  <1>6. CASE FwDecrypt
    <2>1. Head(to_board).slot \in Slot
      BY <1>6, Taken, CommandFields DEF FwDecrypt
    <2>2. \A s \in session_active : pl'[s].sid = pl[s].sid
      <3> DEFINE t == Head(to_board).slot
      <3> HIDE DEF t
      <3>1. UNCHANGED pl \/ pl' = [pl EXCEPT ![t].rx = @ + 1]
        BY <1>6 DEF FwDecrypt, t
      <3>2. UNCHANGED pl \/ pl' = [pl EXCEPT ![t] = Entry(pl[t].sid, pl[t].tx, pl[t].rx + 1)]
        BY <1>0, <2>1, <3>1, CountedEntry, Zenon DEF t
      <3> QED
        BY <1>0, <2>1, <3>2 DEF Entry, t
    <2>3. UNCHANGED <<session_active, session_id>>
      BY <1>6 DEF FwDecrypt
    <2>4. UNCHANGED to_client \/ \E why \in {"NOSESSION", "AUTH"} : Answer(Err(why))
      BY <1>6 DEF FwDecrypt
    <2>5. \A why \in {"NOSESSION", "AUTH"} : Err(why) \in Line /\ Err(why).kind # "READY"
      BY LineTypes DEF Reason, Err
    <2>6. Announced'
      BY <1>0, <1>1, <2>2, <2>3, <2>4, <2>5, AnnouncedAnswer
    <2> QED
      BY <1>2, <2>6 DEF Asking
  <1>7. CASE FwEncrypt
    <2> DEFINE s == serving.slot
               e == pl[s]
    <2>1. s \in Slot /\ serving.body \in Payload
      BY <1>0, <1>7, CommandFields DEF FwEncrypt
    <2>2. e \in [sid : SessionId, tx : Nat, rx : Nat]
      BY <1>0, <2>1
    <2>3. \A t \in session_active : pl'[t].sid = pl[t].sid
      <3>1. pl' = [pl EXCEPT ![s].tx = @ + 1]
        BY <1>7 DEF FwEncrypt
      <3> HIDE DEF s, e
      <3>2. pl' = [pl EXCEPT ![s] = Entry(pl[s].sid, pl[s].tx + 1, pl[s].rx)]
        BY <1>0, <2>1, <3>1, CountedEntry, Zenon
      <3> QED
        BY <1>0, <2>1, <3>2 DEF Entry
    <2>4. UNCHANGED <<session_active, session_id>>
      BY <1>7 DEF FwEncrypt
    <2>5. \E a \in Line : a.kind # "READY" /\ Answer(a)
      <3>1. CASE fault
        BY <1>7, <3>1, LineTypes DEF FwEncrypt, Reason, Err
      <3>2. CASE ~fault
        <4> DEFINE a == [kind |-> "RESP", slot |-> s, ctr |-> e.tx, sid |-> e.sid,
                         body |-> serving.body]
        <4>1. Answer(a)
          BY <1>7, <3>2 DEF FwEncrypt
        <4> HIDE DEF s, e
        <4>2. a \in Line /\ a.kind # "READY"
          BY <2>1, <2>2, LineTypes
        <4> QED
          BY <4>1, <4>2
      <3> QED
        BY <3>1, <3>2
    <2>6. Announced'
      BY <1>0, <1>1, <2>3, <2>4, <2>5, AnnouncedAnswer
    <2> QED
      BY <1>2, <2>6 DEF Asking
  <1> QED
    BY <1>3, <1>4, <1>5, <1>6, <1>7 DEF Firmware

\* Sending for a session held, or for the step of /churn under way.
LEMMA SendAsking ==
    ASSUME Types, Asking, NEW c \in Commands, Send(c), UNCHANGED <<sessions, BoardSide>>,
           Dropped,
           \/ /\ churn' = None /\ c.op \in {"STATUS", "OPEN", "LEAVE", "DATA"}
              /\ c.op \in {"LEAVE", "DATA"} => sessions[c.slot] # None
              /\ c.op = "DATA" => /\ c.body # "stale"
                                  /\ c = Packet(c.slot, sessions[c.slot], c.body)
           \/ /\ churn' # None /\ churn' = churn /\ churn.phase # "probed"
              /\ churn.phase # "leaving"
              /\ churn.phase \in {"left", "rejoined"} => c = Packet(churn.slot, churn.old, "stale")
              /\ churn.phase = "refused" => c = [op |-> "OPEN", slot |-> churn.slot]
           \/ /\ churn' # None /\ churn'.phase = "leaving" /\ churn'.slot \in Slot
              /\ c = [op |-> "LEAVE", slot |-> churn'.slot]
              /\ sessions[churn'.slot] = churn'.old /\ churn'.old # None
    PROVE  Asking'
  <1>1. client' = "wait" /\ cmd' = c /\ UNCHANGED sessions
    BY Sent
  <1>2. UNCHANGED <<session_active, session_id, pl, boot>>
    BY DEF BoardSide, board
  <1>3. Announced'
    BY <1>1, <1>2, AnnouncedKept DEF Asking, Announced
  <1>4. Awaiting'
    BY <1>1 DEF Asking, Awaiting, Packet
  <1> QED
    BY <1>3, <1>4 DEF Asking

\* A client that exits holds nothing.
LEMMA ExitAsking ==
    ASSUME Types, Asking, Dropped, UNCHANGED <<session_active, session_id, pl, boot>>,
           client' = "down", churn' = None, sessions' = NoSessions
    PROVE  Asking'
  <1>1. Announced'
    BY AnnouncedKept DEF Asking, NoSessions
  <1>2. Awaiting'
    BY DEF Awaiting, NoSessions
  <1> QED
    BY <1>1, <1>2 DEF Asking

\* What the user sends is what the client then waits for the answer to.
LEMMA UserAsking == Types /\ Asking /\ (User \/ ChurnStep) => Asking'
  <1> SUFFICES ASSUME Types, Asking, User \/ ChurnStep PROVE Asking'
    OBVIOUS
  <1>0. /\ Dropped /\ Body \subseteq Payload /\ "stale" \in Payload
        /\ UNCHANGED <<session_active, session_id, pl, boot>>
    BY ClientDrops DEF Payload
  <1>1. CASE ClientStart
    <2>1. [op |-> "STATUS"] \in Commands
      BY CommandTypes
    <2>2. churn = None /\ UNCHANGED churn
      BY <1>1 DEF ClientStart, Asking, Awaiting
    <2> QED
      BY <1>0, <1>1, <2>1, <2>2, SendAsking DEF ClientStart
  <1>2. CASE UserStatus
    <2>1. [op |-> "STATUS"] \in Commands
      BY CommandTypes
    <2>2. churn = None /\ UNCHANGED churn
      BY <1>2 DEF UserStatus, Asking, Awaiting
    <2> QED
      BY <1>0, <1>2, <2>1, <2>2, SendAsking DEF UserStatus
  <1>3. CASE UserQuit
    <2>1. churn' = None /\ client' = "down" /\ sessions' = NoSessions
      BY <1>3 DEF UserQuit, Asking, Awaiting, NoSessions
    <2> QED
      BY <1>0, <2>1, ExitAsking
  <1>4. ASSUME NEW s \in Slot, UserJoin(s) PROVE Asking'
    <2>1. [op |-> "OPEN", slot |-> s] \in Commands
      BY CommandTypes
    <2>2. churn = None /\ UNCHANGED churn
      BY <1>4 DEF UserJoin, Asking, Awaiting
    <2> QED
      BY <1>0, <1>4, <2>1, <2>2, SendAsking DEF UserJoin
  <1>5. ASSUME NEW s \in Slot, UserLeave(s) PROVE Asking'
    <2>1. [op |-> "LEAVE", slot |-> s] \in Commands
      BY CommandTypes
    <2>2. churn = None /\ UNCHANGED churn
      BY <1>5 DEF UserLeave, Asking, Awaiting
    <2> QED
      BY <1>0, <1>5, <2>1, <2>2, SendAsking DEF UserLeave
  <1>6. ASSUME NEW s \in Slot, UserChurn(s) PROVE Asking'
    <2>1. [op |-> "LEAVE", slot |-> s] \in Commands
      BY CommandTypes
    <2>2. /\ churn' = [phase |-> "leaving", slot |-> s, old |-> sessions[s]]
          /\ sessions[s] # None
      BY <1>6 DEF UserChurn
    <2>3. churn' # None
      <3>1. churn' \in [phase : {"leaving", "left", "refused", "rejoined", "probed"},
                        slot : Slot, old : Session]
        BY <2>2, HeldFields
      <3> QED
        BY <3>1, NoneAssumption
    <2> QED
      BY <1>0, <1>6, <2>1, <2>2, <2>3, SendAsking DEF UserChurn
  <1>7. ASSUME NEW s \in Slot, NEW body \in Body, UserEcho(s, body) PROVE Asking'
    <2>1. sessions[s] \in Session /\ sessions[s] # None
      BY <1>7, HeldFields DEF UserEcho
    <2>2. churn = None /\ UNCHANGED churn
      BY <1>7 DEF UserEcho, Asking, Awaiting
    <2> DEFINE c == Packet(s, sessions[s], body)
    <2>3. Send(c) /\ UNCHANGED <<sessions, BoardSide>>
      BY <1>7 DEF UserEcho
    <2>4. c \in Commands /\ c.op = "DATA" /\ c.slot = s /\ c.body = body
      BY <1>0, <2>1, PacketType
    <2>5. c = Packet(c.slot, sessions[c.slot], c.body) /\ c.body # "stale"
      BY <2>4, EchoAssumption
    <2> HIDE DEF c
    <2> QED
      BY <1>0, <2>1, <2>2, <2>3, <2>4, <2>5, SendAsking
  <1>8. CASE ChurnStale
    <2>1. churn # None /\ churn.phase \in {"left", "rejoined"} /\ UNCHANGED churn
      BY <1>8 DEF ChurnStale, Asking, Awaiting
    <2>2. Packet(churn.slot, churn.old, "stale") \in Commands
      BY <1>0, <2>1, ChurnFields, PacketType
    <2>3. Send(Packet(churn.slot, churn.old, "stale")) /\ UNCHANGED <<sessions, BoardSide>>
      BY <1>8 DEF ChurnStale
    <2> QED
      BY <1>0, <2>1, <2>2, <2>3, SendAsking
  <1>9. CASE ChurnJoin
    <2>1. churn # None /\ churn.phase = "refused" /\ UNCHANGED churn
      BY <1>9 DEF ChurnJoin, Asking, Awaiting
    <2>2. [op |-> "OPEN", slot |-> churn.slot] \in Commands
      BY <2>1, ChurnFields, CommandTypes
    <2> QED
      BY <1>0, <1>9, <2>1, <2>2, SendAsking DEF ChurnJoin
  <1>10. CASE ChurnEcho
    <2> DEFINE s == churn.slot
    <2>1. churn # None /\ s \in Slot /\ sessions[s] # None /\ sessions[s] \in Session
      BY <1>10, ChurnFields, HeldFields DEF ChurnEcho, Asking, Awaiting
    <2>2. PICK body \in Body : Send(Packet(s, sessions[s], body))
      BY <1>10 DEF ChurnEcho
    <2> DEFINE c == Packet(s, sessions[s], body)
    <2>3. UNCHANGED <<sessions, BoardSide>> /\ churn' = None
      BY <1>10 DEF ChurnEcho
    <2>4. c \in Commands /\ c.op = "DATA" /\ c.slot = s /\ c.body = body
      BY <1>0, <2>1, PacketType
    <2>5. c = Packet(c.slot, sessions[c.slot], c.body) /\ c.body # "stale"
      BY <2>4, EchoAssumption
    <2> HIDE DEF c, s
    <2> QED
      BY <1>0, <2>1, <2>2, <2>3, <2>4, <2>5, SendAsking DEF c
  <1> QED
    BY <1>1, <1>2, <1>3, <1>4, <1>5, <1>6, <1>7, <1>8, <1>9, <1>10 DEF User, ChurnStep

\* The next step of /churn.
LEMMA ChurnMoved ==
    ASSUME Types, churn # None, churn.phase # "probed",
           churn' = [churn EXCEPT !.phase = NextPhase(@)]
    PROVE  /\ churn' # None /\ churn'.slot = churn.slot /\ churn'.old = churn.old
           /\ churn.phase = "leaving" => churn'.phase = "left"
           /\ churn.phase = "left" => churn'.phase = "refused"
           /\ churn.phase = "refused" => churn'.phase = "rejoined"
           /\ churn.phase = "rejoined" => churn'.phase = "probed"
           /\ churn.phase \in Phase
  <1>1. churn \in Churn /\ churn.phase \in Phase
    BY PcValues, ChurnFields
  <1>2. churn' = [phase |-> NextPhase(churn.phase), slot |-> churn.slot, old |-> churn.old]
    BY <1>1 DEF Churn
  <1>3. NextPhase(churn.phase) \in Phase
    BY <1>1 DEF NextPhase, Phase
  <1>4. churn' \in Churn
    BY <1>1, <1>2, <1>3 DEF Churn
  <1> QED
    BY <1>1, <1>2, <1>3, <1>4, NoneAssumption DEF NextPhase, Phase, Churn

\* An answer is accepted, or the client exits.
LEMMA Accepted ==
    ASSUME Types, Asking, Receive
    PROVE  \/ /\ Expected(Head(to_client)) /\ sessions' = Updated(Head(to_client))
              /\ cmd' = None
              /\ churn = None => churn' = None /\ client' = "prompt"
              /\ churn # None =>
                    /\ client' = "churn"
                    /\ churn' # None /\ churn'.slot = churn.slot /\ churn'.old = churn.old
                    /\ churn.phase \in Phase /\ churn.phase # "probed"
                    /\ churn.phase = "leaving" => churn'.phase = "left" /\ cmd.op = "LEAVE"
                                                  /\ cmd.slot = churn.slot
                    /\ churn.phase = "left" => churn'.phase = "refused" /\ StaleProbe
                    /\ churn.phase = "refused" => churn'.phase = "rejoined" /\ cmd.op = "OPEN"
                                                  /\ cmd.slot = churn.slot
                    /\ churn.phase = "rejoined" => churn'.phase = "probed" /\ StaleProbe
           \/ Exit /\ ~Expected(Head(to_client))
  <1> DEFINE a == Head(to_client)
  <1>1. CASE /\ Expected(a) /\ sessions' = Updated(a) /\ cmd' = None
             /\ client' = IF churn = None THEN "prompt" ELSE "churn"
             /\ churn' = IF churn = None THEN None
                         ELSE [churn EXCEPT !.phase = NextPhase(@)]
    <2>1. churn = None => churn' = None /\ client' = "prompt"
      BY <1>1
    <2>2. CASE churn # None
      <3>1. client = "wait" /\ churn.phase # "probed"
        BY <2>2, Read DEF Asking, Awaiting
      <3>2. client' = "churn" /\ churn' = [churn EXCEPT !.phase = NextPhase(@)]
        BY <1>1, <2>2
      <3>3. /\ churn.phase = "leaving" => cmd.op = "LEAVE" /\ cmd.slot = churn.slot
            /\ churn.phase \in {"left", "rejoined"} => StaleProbe
            /\ churn.phase = "refused" => cmd.op = "OPEN" /\ cmd.slot = churn.slot
        BY <2>2, <3>1 DEF Asking, Awaiting, Packet, StaleProbe
      <3> HIDE DEF a
      <3> QED
        BY <1>1, <2>2, <3>1, <3>2, <3>3, ChurnMoved DEF a
    <2> QED
      BY <1>1, <2>1, <2>2
  <1> QED
    BY <1>1 DEF Receive

\* An accepted answer takes /churn to its next step with the session it announced.
LEMMA ReceiveAsking == Types /\ Asking /\ Receive => Asking'
  <1> SUFFICES ASSUME Types, Asking, Receive PROVE Asking'
    OBVIOUS
  <1> DEFINE a == Head(to_client)
  <1>0. /\ Dropped /\ UNCHANGED <<session_active, session_id, pl, boot>>
        /\ sessions \in [Slot -> Session \cup {None}]
        /\ None \notin Session /\ a \in Line /\ a = to_client[1] /\ 1 \in DOMAIN to_client
        /\ client = "wait"
    BY ClientDrops, PcValues, NoneAssumption, Read
  <1>1. CASE Exit
    BY <1>0, <1>1, ExitAsking DEF Exit, NoSessions
  <1>2. CASE Expected(a) /\ ~Exit
    <2>1. /\ sessions' = Updated(a) /\ cmd' = None
          /\ churn = None => churn' = None /\ client' = "prompt"
          /\ churn # None =>
                /\ client' = "churn"
                /\ churn' # None /\ churn'.slot = churn.slot /\ churn'.old = churn.old
                /\ churn.phase \in Phase /\ churn.phase # "probed"
                /\ churn.phase = "leaving" => churn'.phase = "left" /\ cmd.op = "LEAVE"
                                              /\ cmd.slot = churn.slot
                /\ churn.phase = "left" => churn'.phase = "refused" /\ StaleProbe
                /\ churn.phase = "refused" => churn'.phase = "rejoined" /\ cmd.op = "OPEN"
                                              /\ cmd.slot = churn.slot
                /\ churn.phase = "rejoined" => churn'.phase = "probed" /\ StaleProbe
      BY <1>2, Accepted
    <2>2. \A s \in Slot : sessions'[s] # None =>
              sessions'[s].sid[1] = s /\ sessions'[s].boot <= boot
      <3> HIDE DEF a
      <3>1. CASE sessions' = sessions
        BY <3>1 DEF Asking, Awaiting, Announced
      <3>2. CASE cmd.slot \in Slot /\ sessions' = [sessions EXCEPT ![cmd.slot] = None]
        BY <1>0, <3>2 DEF Asking, Awaiting, Announced
      <3>3. CASE /\ cmd.slot \in Slot /\ a.kind = "READY" /\ a.slot = cmd.slot
                 /\ sessions' = [sessions EXCEPT ![cmd.slot] =
                                  [sid |-> a.sid, tx |-> 0, rx |-> 0, boot |-> a.boot]]
        <4>1. a.sid[1] = a.slot /\ a.boot <= boot
          BY <1>0, <3>3 DEF Asking, Announced
        <4> QED
          BY <1>0, <3>3, <4>1 DEF Asking, Awaiting, Announced
      <3>4. CASE /\ cmd.slot \in Slot /\ sessions[cmd.slot] # None
                 /\ sessions' = [sessions EXCEPT ![cmd.slot] =
                      [sid |-> sessions[cmd.slot].sid, tx |-> sessions[cmd.slot].tx + 1,
                       rx |-> sessions[cmd.slot].rx + 1, boot |-> sessions[cmd.slot].boot]]
        <4>1. /\ sessions[cmd.slot].sid[1] = cmd.slot /\ sessions[cmd.slot].boot <= boot
          BY <3>4 DEF Asking, Awaiting, Announced
        <4> QED
          BY <1>0, <3>4, <4>1 DEF Asking, Awaiting, Announced
      <3> QED
        BY <1>0, <1>2, <2>1, <3>1, <3>2, <3>3, <3>4, UpdatedTo DEF a
    <2>3. Announced'
      BY <1>0, <2>2, AnnouncedKept DEF Asking
    <2>4. CASE churn = None
      <3>1. churn' = None /\ client' = "prompt"
        BY <2>1, <2>4
      <3>2. Awaiting'
        BY <2>2, <3>1 DEF Awaiting
      <3> QED
        BY <2>3, <3>2 DEF Asking
    <2>5. CASE churn # None
      <3>1. /\ client' = "churn" /\ churn' # None /\ churn'.old.sid[1] = churn'.slot
            /\ churn'.phase # "leaving"
        BY <2>1, <2>5 DEF Asking, Awaiting, Phase
      <3>2. churn'.phase \in {"rejoined", "probed"} => sessions'[churn'.slot] # None
        <4>1. CASE churn.phase = "refused"
          <5> HIDE DEF a
          <5>1. /\ cmd.slot \in Slot
                /\ sessions' = [sessions EXCEPT ![cmd.slot] =
                                  [sid |-> a.sid, tx |-> 0, rx |-> 0, boot |-> a.boot]]
                /\ [sid |-> a.sid, tx |-> 0, rx |-> 0, boot |-> a.boot] \in Session
            BY <1>0, <1>2, <2>1, <2>5, <4>1, UpdatedTo DEF StaleProbe
          <5>2. sessions'[churn'.slot] \in Session
            BY <1>0, <2>1, <2>5, <4>1, <5>1
          <5> QED
            BY <1>0, <5>2
        <4>2. CASE churn.phase = "rejoined"
          <5>1. StaleProbe /\ sessions[churn.slot] # None
            BY <2>1, <2>5, <4>2 DEF Asking, Awaiting
          <5>2. sessions' = sessions
            BY <1>0, <1>2, <2>1, <5>1, UpdatedTo DEF StaleProbe
          <5> QED
            BY <2>1, <2>5, <5>1, <5>2
        <4> QED
          BY <2>1, <2>5, <4>1, <4>2 DEF Phase
      <3>3. Awaiting'
        BY <2>2, <3>1, <3>2 DEF Awaiting
      <3> QED
        BY <2>3, <3>3 DEF Asking
    <2> QED
      BY <2>4, <2>5
  <1> QED
    BY <1>1, <1>2, Accepted

\* An exit forgets the sessions; the line and the board change nothing of the client.
LEMMA OtherAsking == Types /\ Asking /\ (Timeout \/ Interrupt \/ Environment) => Asking'
  <1> SUFFICES ASSUME Types, Asking, Timeout \/ Interrupt \/ Environment PROVE Asking'
    OBVIOUS
  <1>1. CASE Timeout \/ Interrupt
    <2>1. Dropped /\ UNCHANGED <<session_active, session_id, pl, boot>>
      BY <1>1, ClientDrops
    <2> QED
      BY <1>1, <2>1, ExitAsking DEF Timeout, Interrupt, Exit, NoSessions
  <1>2. CASE Glitch \/ LoseCommand \/ LoseAnswer
    <2>1. UNCHANGED <<session_active, session_id, pl, boot, pc>>
      BY <1>2 DEF Glitch, LoseCommand, LoseAnswer, board, history
    <2>2. Dropped
      BY <1>2, NothingDropped, HeadDropped DEF Glitch, LoseCommand, LoseAnswer, uart
    <2>3. Awaiting'
      BY <2>1 DEF Asking, Awaiting, NoSessions, Packet, pc
    <2>4. Announced'
      BY <2>1, <2>2, AnnouncedKept DEF Asking, Announced, pc
    <2> QED
      BY <2>3, <2>4 DEF Asking
  <1>3. CASE FwNoise
    <2>1. UNCHANGED <<session_active, session_id, pl, boot, pc>>
      BY <1>3 DEF FwNoise, board, history
    <2>2. Err("CMD") \in Line /\ Err("CMD").kind # "READY" /\ Answer(Err("CMD"))
      BY <1>3, LineTypes DEF Reason, Err, FwNoise
    <2>3. Awaiting'
      BY <2>1 DEF Asking, Awaiting, NoSessions, Packet, pc
    <2>4. Announced'
      BY <2>1, <2>2, AnnouncedAnswer DEF Asking, Announced
    <2> QED
      BY <2>3, <2>4 DEF Asking
  <1>4. CASE BoardRestart
    <2>1. /\ UNCHANGED <<to_client, client, cmd, sessions, churn>>
          /\ session_active' = {} /\ boot' = boot + 1
      BY <1>4 DEF BoardRestart, uart, pc
    <2>2. Awaiting'
      BY <2>1 DEF Asking, Awaiting, NoSessions, Packet
    <2>3. boot \in Nat /\ \A s \in Slot : sessions[s] # None => sessions[s].boot \in Nat
      BY HeldFields DEF Types, Typed
    <2>4. \A i \in DOMAIN to_client : to_client[i].kind = "READY" => to_client[i].boot \in Nat
      <3>1. \A i \in DOMAIN to_client : to_client[i] \in Line
        BY PcValues
      <3> QED
        BY <3>1, LineFields
    <2>5. \A n \in Nat : n <= boot => n <= boot + 1
      BY <2>3
    <2>6. Announced'
      BY <2>1, <2>3, <2>4, <2>5 DEF Asking, Announced
    <2> QED
      BY <2>2, <2>6 DEF Asking
  <1> QED
    BY <1>1, <1>2, <1>3, <1>4 DEF Environment

\* At the start no client is running and nothing is announced.
LEMMA InitAsking == Init => Types /\ Asking
  <1> SUFFICES ASSUME Init PROVE Types /\ Asking
    OBVIOUS
  <1>1. pl \in [Slot -> [sid : SessionId, tx : Nat, rx : Nat]]
    BY Ids DEF Init, Entry
  <1>2. TypeOK
    <2>1. session_id \in [Slot -> DemoId \cup {None}] /\ session_generation \in [Slot -> Nat]
      BY DEF Init
    <2>2. \A s \in Slot : sessions[s] = None
      BY DEF Init
    <2>3. (client = "wait") = (cmd # None)
      BY DEF Init
    <2>4. \A i \in DOMAIN to_board : to_board[i] \in Commands
      BY DEF Init
    <2> QED
      BY <1>1, <2>1, <2>2, <2>3, <2>4 DEF Init, TypeOK
  <1>3. Typed
    BY <1>1 DEF Init, Typed
  <1>4. Asking
    BY DEF Init, Asking, Awaiting, Announced, NoSessions
  <1> QED
    BY <1>2, <1>3, <1>4 DEF Types

\* The types and what the client waits for are inductive together.
LEMMA StepAsking == Types /\ Asking /\ [Next]_vars => Types' /\ Asking'
  <1> SUFFICES ASSUME Types, Asking, [Next]_vars PROVE Types' /\ Asking'
    OBVIOUS
  <1>1. CASE Next
    BY <1>1, FirmwareTypes, UserTypes, OtherTypes, FirmwareAsking, UserAsking, ReceiveAsking,
       OtherAsking DEF Next
  <1>2. CASE UNCHANGED vars
    <2>1. UNCHANGED <<running, session_active, session_generation, session_id, serving>>
          /\ UNCHANGED <<pl, fault, to_board, to_client, client, cmd, sessions, churn, boot>>
      BY <1>2 DEF vars, board, uart, pc, history
    <2>2. TypeOK'
      BY <2>1 DEF Types, TypeOK
    <2>3. Typed'
      BY <2>1 DEF Types, Typed
    <2>4. Awaiting'
      BY <2>1 DEF Asking, Awaiting, NoSessions, Packet
    <2>5. Announced'
      BY <2>1 DEF Asking, Announced
    <2> QED
      BY <2>2, <2>3, <2>4, <2>5 DEF Types, Asking
  <1> QED
    BY <1>1, <1>2

\* They hold of every behaviour.
LEMMA AlwaysAsking == Spec => [](Types /\ Asking)
  BY InitAsking, StepAsking, PTL DEF Spec

\* Every variable keeps to its kind, and an id's generation to its field.
THEOREM TypeCorrect == Spec => []TypeOK
  <1>1. Types => TypeOK
    BY DEF Types
  <1> QED
    BY <1>1, AlwaysAsking, PTL

-----------------------------------------------------------------------------
(* Keys and counters.  The traffic material of a session is a function of    *)
(* its id, so the properties below can hold only while no id is given twice: *)
(* until the generation field of a slot wraps, or the board is restarted.    *)

NoIdReused == boot = 0 /\ \A s \in Slot : session_generation[s] <= GENERATIONS

\* An id is issued when a session is opened under it, and gone when that session has
\* been left or replaced.
Issued(sid) == sid \in DemoId /\ sid[2] < session_generation[sid[1]]
Gone(sid) == Issued(sid) /\ ~ (sid[1] \in session_active /\ pl[sid[1]].sid = sid)

\* Every id in the system has been issued, or is one of the validation's.
Known ==
    /\ \A s \in Slot : \/ pl[s].sid = ValidationId(s)
                       \/ Issued(pl[s].sid) /\ pl[s].sid[1] = s
    /\ \A s \in Slot : sessions[s] # None => Issued(sessions[s].sid)
    /\ churn # None => Issued(churn.old.sid)
    /\ \A i \in DOMAIN to_client : to_client[i].kind = "READY" => Issued(to_client[i].sid)
    /\ \A p \in client_packets : Issued(p[1]) /\ p[2] \in Nat
    /\ \A n \in board_nonces : /\ n[2] \in Nat
                               /\ Issued(n[1]) \/ \E s \in Slot : n[1] = ValidationId(s)

\* An id is announced once, before any packet is sealed under it.
ReadyIsNew ==
    \A i \in DOMAIN to_client : to_client[i].kind = "READY" =>
        /\ \A j \in DOMAIN to_client : to_client[j].kind = "READY" /\ j # i
              => to_client[j].sid # to_client[i].sid
        /\ \A p \in client_packets : p[1] # to_client[i].sid
        /\ \A s \in Slot : sessions[s] # None => sessions[s].sid # to_client[i].sid
        /\ churn # None => churn.old.sid # to_client[i].sid

\* A packet sealed under the id of a session held is below its counter, or is the one
\* the client waits an answer for; of a session left by /churn only the stale packet
\* is not below the counter it was left with.
Pending(p) == client = "wait" /\ cmd.op = "DATA" /\ p = <<cmd.sid, cmd.ctr, cmd.body>>
SealedBelow ==
    /\ \A p \in client_packets, s \in Slot :
          sessions[s] # None /\ p[1] = sessions[s].sid => p[2] < sessions[s].tx \/ Pending(p)
    /\ churn # None /\ churn.phase # "leaving" =>
          /\ \A s \in Slot : sessions[s] # None => sessions[s].sid # churn.old.sid
          /\ \A p \in client_packets : p[1] = churn.old.sid
                => p[2] < churn.old.tx \/ p = <<churn.old.sid, churn.old.tx, "stale">>

\* A stale packet is one of a session that is gone.
StaleGone ==
    /\ \A i \in DOMAIN to_client : to_client[i].kind = "LEFT" => Gone(to_client[i].sid)
    /\ churn # None /\ churn.phase # "leaving" => Gone(churn.old.sid)
    /\ \A i \in DOMAIN to_board : to_board[i].op = "DATA" /\ to_board[i].body = "stale"
          => Gone(to_board[i].sid) /\ to_board[i].sid[1] = to_board[i].slot
    /\ serving # None => serving.body # "stale"

\* The echoes sealed under the id of a slot's session are below its counter.
NoncesBelow == \A n \in board_nonces, s \in Slot : n[1] = pl[s].sid => n[2] < pl[s].tx

\* What a step does to ids and counters.
OpenedFor(s) ==
    LET id == <<s, session_generation[s]>>
    IN /\ id \in DemoId
       /\ pl' = [pl EXCEPT ![s] = Entry(id, 0, 0)]
       /\ session_active' = session_active \cup {s}
       /\ session_generation' = [session_generation EXCEPT ![s] = session_generation[s] + 1]
       /\ Answer([kind |-> "READY", slot |-> s, sid |-> id, boot |-> boot])
       /\ UNCHANGED <<serving, board_nonces>>

LeftBy(s) ==
    /\ s \in session_active /\ session_active' = session_active \ {s}
    /\ Answer([kind |-> "LEFT", slot |-> s, sid |-> session_id[s]])
    /\ UNCHANGED <<pl, session_generation, serving, board_nonces>>

PacketOpened(s) ==
    /\ s \in session_active
    /\ 1 \in DOMAIN to_board /\ to_board[1].op = "DATA" /\ to_board[1].slot = s
    /\ to_board[1].sid = pl[s].sid
    /\ pl' = [pl EXCEPT ![s] = Entry(pl[s].sid, pl[s].tx, pl[s].rx + 1)]
    /\ serving' = None \/ serving' = to_board[1]
    /\ UNCHANGED to_client \/ Answer(Err("AUTH"))
    /\ UNCHANGED <<session_active, session_generation, board_nonces>>

EchoSealed(s) ==
    /\ serving # None /\ serving' = None
    /\ pl' = [pl EXCEPT ![s] = Entry(pl[s].sid, pl[s].tx + 1, pl[s].rx)]
    /\ board_nonces' = board_nonces \cup {<<pl[s].sid, pl[s].tx>>}
    /\ \E a \in Line : /\ Answer(a) /\ a.kind \in {"ERR", "RESP"}
                       /\ a.kind = "RESP" => a.body = serving.body
    /\ UNCHANGED <<session_active, session_generation>>

KeysAlone ==
    /\ UNCHANGED <<pl, session_active, session_generation, serving, board_nonces>>
    /\ \/ Dropped
       \/ \E a \in Line : Answer(a) /\ a.kind \in {"STATUS", "BYE", "ERR"}

CommandsKept ==
    \A i \in DOMAIN to_board' : \E j \in DOMAIN to_board : to_board'[i] = to_board[j]

BoardMove ==
    /\ UNCHANGED <<client, cmd, sessions, churn, client_packets, boot>>
    /\ CommandsKept
    /\ \/ \E s \in Slot : OpenedFor(s) \/ LeftBy(s) \/ PacketOpened(s) \/ EchoSealed(s)
       \/ KeysAlone

\* Once an id has been reused, it has been.
LEMMA ReuseStays == Types /\ Asking /\ [Next]_vars /\ NoIdReused' => NoIdReused
  <1> SUFFICES ASSUME Types, Asking, [Next]_vars, NoIdReused' PROVE NoIdReused
    OBVIOUS
  <1>1. boot \in Nat /\ session_generation \in [Slot -> Nat]
    BY DEF Types, TypeOK, Typed
  <1>2. CASE UNCHANGED <<boot, session_generation>>
    BY <1>2 DEF NoIdReused
  <1>3. CASE BoardRestart
    <2>1. boot' = boot + 1 /\ boot' = 0
      BY <1>3 DEF BoardRestart, NoIdReused
    <2> QED
      BY <1>1, <2>1
  <1>4. CASE FwOpen
    <2>1. UNCHANGED boot
      BY <1>4 DEF FwOpen, NoneElse
    <2>2. Head(to_board).slot \in Slot
      BY <1>4, Taken, CommandFields DEF FwOpen
    <2>3. \A s \in Slot : session_generation[s] <= session_generation'[s]
      BY <1>1, <1>4, <2>2 DEF FwOpen, NextGeneration
    <2>4. GENERATIONS \in Nat /\ session_generation' \in [Slot -> Nat]
      BY <1>1, <1>4, <2>2, EchoAssumption DEF FwOpen, NextGeneration
    <2> QED
      BY <1>1, <2>1, <2>3, <2>4 DEF NoIdReused
  <1>5. CASE User \/ ChurnStep \/ Receive \/ Timeout \/ Interrupt
    <2>1. UNCHANGED <<boot, session_generation>>
      BY <1>5, ClientDrops
    <2> QED
      BY <1>2, <2>1
  <1>6. CASE (Firmware /\ ~FwOpen) \/ (Environment /\ ~BoardRestart) \/ UNCHANGED vars
    <2>1. UNCHANGED <<boot, session_generation>>
      BY <1>6 DEF Firmware, Environment, FwStatus, FwQuit, FwLeave, FwDecrypt, FwEncrypt,
         NoneElse, Glitch, LoseCommand, LoseAnswer, FwNoise, board, history, vars
    <2> QED
      BY <1>2, <2>1
  <1> QED
    BY <1>3, <1>4, <1>5, <1>6 DEF Next

\* Every step of the board or the line is one of these.
LEMMA BoardKinds ==
    ASSUME Types, Asking, NoIdReused, NoIdReused', Firmware \/ Environment
    PROVE  BoardMove
  <1>0. /\ pl \in [Slot -> [sid : SessionId, tx : Nat, rx : Nat]]
        /\ session_generation \in [Slot -> Nat]
        /\ to_board \in Seq(Commands)
        /\ serving # None => serving \in Commands /\ serving.op = "DATA"
        /\ boot \in Nat
    BY DEF Types, TypeOK, Typed
  <1>1. ~BoardRestart
    BY <1>0 DEF BoardRestart, NoIdReused
  <1>2. UNCHANGED <<client, cmd, sessions, churn, client_packets, boot>>
    BY <1>1 DEF Firmware, Environment, FwStatus, FwQuit, FwOpen, FwLeave, FwDecrypt, FwEncrypt,
       NoneElse, Glitch, LoseCommand, LoseAnswer, FwNoise, pc, history
  <1>3. CommandsKept
    <2>1. CASE UNCHANGED to_board
      BY <2>1 DEF CommandsKept
    <2>2. CASE to_board # <<>> /\ to_board' = Tail(to_board)
      <3>1. \A i \in DOMAIN Tail(to_board) :
               i + 1 \in DOMAIN to_board /\ Tail(to_board)[i] = to_board[i + 1]
        BY <1>0, <2>2, TailIndex
      <3> QED
        BY <2>2, <3>1 DEF CommandsKept
    <2> QED
      BY <1>1, <2>1, <2>2 DEF Firmware, Environment, FwStatus, FwQuit, FwOpen, FwLeave,
         FwDecrypt, FwEncrypt, Takes, Glitch, LoseCommand, LoseAnswer, FwNoise, uart
  <1>4. CASE FwStatus \/ FwQuit
    <2>1. KeysAlone
      BY <1>4, LineTypes DEF FwStatus, FwQuit, board, KeysAlone
    <2> QED
      BY <1>2, <1>3, <2>1 DEF BoardMove
  <1>5. CASE FwOpen
    <2> DEFINE s == Head(to_board).slot
               new_id == make_session_id(s, session_generation[s])
    <2>1. s \in Slot /\ session_generation[s] \in Nat
      BY <1>0, <1>5, Taken, CommandFields DEF FwOpen
    <2>2. UNCHANGED <<serving, board_nonces>>
      BY <1>5 DEF FwOpen
    <2>3. CASE /\ pl' = [pl EXCEPT ![s] = Entry(new_id, 0, 0)]
               /\ session_active' = session_active \cup {s}
               /\ session_generation' =
                     [session_generation EXCEPT ![s] = NextGeneration(@)]
               /\ Answer([kind |-> "READY", slot |-> s, sid |-> new_id, boot |-> boot])
      <3>1. session_generation' = [session_generation EXCEPT ![s] = session_generation[s] + 1]
        BY <2>3 DEF NextGeneration
      <3>2. new_id \in DemoId /\ new_id = <<s, session_generation[s]>>
        <4> HIDE DEF s
        <4>1. session_generation'[s] = session_generation[s] + 1
          BY <1>0, <2>1, <3>1
        <4>2. session_generation[s] < GENERATIONS
          BY <2>1, <4>1, EchoAssumption DEF NoIdReused
        <4>3. session_generation[s] % GENERATIONS = session_generation[s]
          BY <2>1, <4>2, EchoAssumption
        <4> QED
          BY <2>1, <4>3, Ids
      <3> HIDE DEF s, new_id
      <3>3. OpenedFor(s)
        BY <2>2, <2>3, <3>1, <3>2 DEF OpenedFor
      <3> QED
        BY <1>2, <1>3, <2>1, <3>3 DEF BoardMove
    <2>4. CASE /\ Answer(Err("KEM"))
               /\ UNCHANGED <<pl, session_active, session_id, session_generation>>
      <3>1. Err("KEM") \in Line /\ Err("KEM").kind = "ERR"
        BY LineTypes DEF Reason, Err
      <3>2. KeysAlone
        BY <2>2, <2>4, <3>1 DEF KeysAlone
      <3> QED
        BY <1>2, <1>3, <3>2 DEF BoardMove
    <2> QED
      BY <1>5, <2>3, <2>4 DEF FwOpen
  <1>6. CASE FwLeave
    <2>1. Head(to_board).slot \in Slot
      BY <1>6, Taken, CommandFields DEF FwLeave
    <2>2. UNCHANGED <<pl, session_generation, serving, board_nonces>>
      BY <1>6 DEF FwLeave
    <2>3. CASE Answer(Err("NOSESSION")) /\ UNCHANGED <<session_active, session_id>>
      <3>1. Err("NOSESSION") \in Line /\ Err("NOSESSION").kind = "ERR"
        BY LineTypes DEF Reason, Err
      <3>2. KeysAlone
        BY <2>2, <2>3, <3>1 DEF KeysAlone
      <3> QED
        BY <1>2, <1>3, <3>2 DEF BoardMove
    <2>4. CASE LeftBy(Head(to_board).slot)
      BY <1>2, <1>3, <2>1, <2>4 DEF BoardMove
    <2> QED
      BY <1>6, <2>2, <2>3, <2>4 DEF FwLeave, LeftBy
  <1>7. CASE FwDecrypt
    <2> DEFINE s == Head(to_board).slot
    <2>1. s \in Slot /\ Head(to_board).op = "DATA" /\ serving = None
          /\ 1 \in DOMAIN to_board /\ to_board[1] = Head(to_board)
      BY <1>7, Taken, CommandFields DEF FwDecrypt
    <2>2. UNCHANGED <<session_active, session_generation, board_nonces>>
      BY <1>7 DEF FwDecrypt
    <2>3. CASE UNCHANGED <<pl, serving>> /\ \E why \in {"NOSESSION", "AUTH"} : Answer(Err(why))
      <3>1. \A why \in {"NOSESSION", "AUTH"} : Err(why) \in Line /\ Err(why).kind = "ERR"
        BY LineTypes DEF Reason, Err
      <3>2. KeysAlone
        BY <2>2, <2>3, <3>1 DEF KeysAlone
      <3> QED
        BY <1>2, <1>3, <3>2 DEF BoardMove
    <2>4. CASE /\ s \in session_active /\ Opens(pl[s], Head(to_board))
               /\ pl' = [pl EXCEPT ![s].rx = @ + 1]
               /\ \/ Answer(Err("AUTH")) /\ UNCHANGED serving
                  \/ serving' = Head(to_board) /\ UNCHANGED to_client
      <3> HIDE DEF s
      <3>1. pl' = [pl EXCEPT ![s] = Entry(pl[s].sid, pl[s].tx, pl[s].rx + 1)]
        BY <1>0, <2>1, <2>4, CountedEntry, Zenon
      <3>2. PacketOpened(s)
        BY <2>1, <2>2, <2>4, <3>1 DEF PacketOpened, Opens, s
      <3> QED
        BY <1>2, <1>3, <2>1, <3>2 DEF BoardMove
    <2> QED
      BY <1>7, <2>3, <2>4 DEF FwDecrypt
  <1>8. CASE FwEncrypt
    <2> DEFINE s == serving.slot
    <2>1. s \in Slot /\ serving # None /\ serving.body \in Payload /\ pl[s].tx \in Nat
          /\ pl[s].sid \in SessionId
      BY <1>0, <1>8, CommandFields DEF FwEncrypt
    <2>2. /\ UNCHANGED <<session_active, session_generation>> /\ serving' = None
          /\ board_nonces' = board_nonces \cup {<<pl[s].sid, pl[s].tx>>}
          /\ pl' = [pl EXCEPT ![s].tx = @ + 1]
      BY <1>8 DEF FwEncrypt
    <2>3. \E a \in Line : /\ Answer(a) /\ a.kind \in {"ERR", "RESP"}
                          /\ a.kind = "RESP" => a.body = serving.body
      <3>1. CASE fault
        BY <1>8, <3>1, LineTypes DEF FwEncrypt, Reason, Err
      <3>2. CASE ~fault
        <4> DEFINE a == [kind |-> "RESP", slot |-> s, ctr |-> pl[s].tx, sid |-> pl[s].sid,
                         body |-> serving.body]
        <4>1. Answer(a)
          BY <1>8, <3>2 DEF FwEncrypt
        <4>2. a \in Line /\ a.kind = "RESP" /\ a.body = serving.body
          BY <2>1, LineTypes
        <4> QED
          BY <4>1, <4>2
      <3> QED
        BY <3>1, <3>2
    <2> HIDE DEF s
    <2>4. pl' = [pl EXCEPT ![s] = Entry(pl[s].sid, pl[s].tx + 1, pl[s].rx)]
      BY <1>0, <2>1, <2>2, CountedEntry, Zenon
    <2>5. EchoSealed(s)
      BY <2>1, <2>2, <2>3, <2>4 DEF EchoSealed
    <2> QED
      BY <1>2, <1>3, <2>1, <2>5 DEF BoardMove
  <1>9. CASE Glitch \/ LoseCommand \/ LoseAnswer \/ FwNoise
    <2>1. UNCHANGED <<pl, session_active, session_generation, serving, board_nonces>>
      BY <1>9 DEF Glitch, LoseCommand, LoseAnswer, FwNoise, board, history
    <2>2. CASE FwNoise
      <3>1. Err("CMD") \in Line /\ Err("CMD").kind = "ERR" /\ Answer(Err("CMD"))
        BY <2>2, LineTypes DEF Reason, Err, FwNoise
      <3>2. KeysAlone
        BY <2>1, <3>1 DEF KeysAlone
      <3> QED
        BY <1>2, <1>3, <3>2 DEF BoardMove
    <2>3. CASE Glitch \/ LoseCommand \/ LoseAnswer
      <3>1. Dropped
        BY <2>3, NothingDropped, HeadDropped DEF Glitch, LoseCommand, LoseAnswer, uart
      <3>2. KeysAlone
        BY <2>1, <3>1 DEF KeysAlone
      <3> QED
        BY <1>2, <1>3, <3>2 DEF BoardMove
    <2> QED
      BY <1>9, <2>2, <2>3
  <1> QED
    BY <1>1, <1>4, <1>5, <1>6, <1>7, <1>8, <1>9 DEF Firmware, Environment

\* Ids stay issued, and a session that is gone does not come back.
LEMMA IssuedStays ==
    ASSUME Types, BoardMove
    PROVE  \A sid : Issued(sid) => Issued(sid)'
  <1> SUFFICES ASSUME NEW sid, Issued(sid) PROVE Issued(sid)'
    OBVIOUS
  <1>0. sid \in DemoId /\ sid[1] \in Slot /\ sid[2] \in Nat /\ sid[2] < session_generation[sid[1]]
    BY Ids, EchoAssumption DEF Issued
  <1>1. session_generation \in [Slot -> Nat]
    BY DEF Types, TypeOK
  <1>2. CASE UNCHANGED session_generation
    BY <1>0, <1>2 DEF Issued
  <1>3. ASSUME NEW s \in Slot, OpenedFor(s) PROVE Issued(sid)'
    <2>1. session_generation' = [session_generation EXCEPT ![s] = session_generation[s] + 1]
      BY <1>3 DEF OpenedFor
    <2>2. sid[2] < session_generation'[sid[1]]
      BY <1>0, <1>1, <2>1
    <2> QED
      BY <1>0, <2>2 DEF Issued
  <1> QED
    BY <1>2, <1>3 DEF BoardMove, LeftBy, PacketOpened, EchoSealed, KeysAlone

\* The id of a session that is opened has not been issued before.
LEMMA NewId ==
    ASSUME Types, NEW s \in Slot, OpenedFor(s), NEW id, id = <<s, session_generation[s]>>
    PROVE  /\ ~Issued(id) /\ Issued(id)' /\ id \in DemoId /\ id[1] = s
           /\ \A t \in Slot : id # ValidationId(t)
           /\ [kind |-> "READY", slot |-> s, sid |-> id, boot |-> boot] \in Line
  <1>0. session_generation[s] \in Nat /\ session_generation \in [Slot -> Nat] /\ boot \in Nat
    BY DEF Types, TypeOK, Typed
  <1>1. id \in DemoId /\ id[1] = s /\ id[2] = session_generation[s]
    BY DEF OpenedFor
  <1>2. session_generation'[s] = session_generation[s] + 1
    BY <1>0 DEF OpenedFor
  <1>3. ~Issued(id) /\ Issued(id)'
    BY <1>0, <1>1, <1>2 DEF Issued
  <1>4. \A t \in Slot : id # ValidationId(t)
    <2>1. session_generation[s] \in 0 .. GENERATIONS - 1
      BY <1>1, Ids
    <2> QED
      BY <2>1, EchoAssumption DEF ValidationId
  <1>5. [kind |-> "READY", slot |-> s, sid |-> id, boot |-> boot] \in Line
    BY <1>0, <1>1, LineTypes
  <1> QED
    BY <1>1, <1>3, <1>4, <1>5

\* A session that is gone does not come back.
LEMMA GoneStays ==
    ASSUME Types, BoardMove
    PROVE  \A sid : Gone(sid) => Gone(sid)'
  <1> SUFFICES ASSUME NEW sid, Gone(sid) PROVE Gone(sid)'
    OBVIOUS
  <1>0. /\ Issued(sid) /\ Issued(sid)' /\ sid[1] \in Slot
        /\ ~ (sid[1] \in session_active /\ pl[sid[1]].sid = sid)
    BY IssuedStays, Ids DEF Gone, Issued
  <1>1. pl \in [Slot -> [sid : SessionId, tx : Nat, rx : Nat]]
    BY DEF Types, Typed
  <1>2. ASSUME NEW s \in Slot, OpenedFor(s) PROVE Gone(sid)'
    <2>1. sid # <<s, session_generation[s]>>
      BY <1>0, <1>2, NewId
    <2>2. /\ pl' = [pl EXCEPT ![s] = Entry(<<s, session_generation[s]>>, 0, 0)]
          /\ session_active' = session_active \cup {s}
      BY <1>2 DEF OpenedFor
    <2>3. sid[1] # s => pl'[sid[1]] = pl[sid[1]]
      BY <1>0, <1>1, <2>2
    <2>4. sid[1] = s => pl'[sid[1]].sid # sid
      BY <1>0, <1>1, <2>1, <2>2 DEF Entry
    <2> QED
      BY <1>0, <2>2, <2>3, <2>4 DEF Gone
  <1>3. ASSUME NEW s \in Slot, LeftBy(s) PROVE Gone(sid)'
    BY <1>0, <1>3 DEF LeftBy, Gone
  <1>4. ASSUME NEW s \in Slot, PacketOpened(s) \/ EchoSealed(s) PROVE Gone(sid)'
    <2>1. pl'[sid[1]].sid = pl[sid[1]].sid
      BY <1>0, <1>1, <1>4 DEF PacketOpened, EchoSealed, Entry
    <2> QED
      BY <1>0, <1>4, <2>1 DEF Gone, PacketOpened, EchoSealed
  <1>5. CASE KeysAlone
    BY <1>0, <1>5 DEF KeysAlone, Gone
  <1> QED
    BY <1>2, <1>3, <1>4, <1>5 DEF BoardMove

\* The answers under way after a step of the board: those before it, and one more.
LEMMA BoardAnswers ==
    ASSUME Types, BoardMove
    PROVE  \/ Dropped
           \/ \E a \in Line :
                 /\ Answer(a)
                 /\ \/ a.kind \in {"STATUS", "BYE", "ERR"}
                    \/ \E s \in Slot : OpenedFor(s)
                          /\ a = [kind |-> "READY", slot |-> s,
                                  sid |-> <<s, session_generation[s]>>, boot |-> boot]
                    \/ \E s \in Slot : LeftBy(s)
                          /\ a = [kind |-> "LEFT", slot |-> s, sid |-> session_id[s]]
                    \/ a.kind = "RESP" /\ serving # None /\ a.body = serving.body
  <1>1. ASSUME NEW s \in Slot, OpenedFor(s)
        PROVE  \E a \in Line : Answer(a) /\ a = [kind |-> "READY", slot |-> s,
                                   sid |-> <<s, session_generation[s]>>, boot |-> boot]
    BY <1>1, NewId DEF OpenedFor
  <1>2. ASSUME NEW s \in Slot, LeftBy(s)
        PROVE  \E a \in Line : Answer(a) /\ a = [kind |-> "LEFT", slot |-> s, sid |-> session_id[s]]
    <2>1. session_id[s] \in DemoId
      BY <1>2 DEF LeftBy, Types, Typed
    <2> QED
      BY <1>2, <2>1, LineTypes DEF LeftBy
  <1>3. ASSUME NEW s \in Slot, PacketOpened(s)
        PROVE  Dropped \/ \E a \in Line : Answer(a) /\ a.kind = "ERR"
    <2>1. Err("AUTH") \in Line /\ Err("AUTH").kind = "ERR"
      BY LineTypes DEF Reason, Err
    <2> QED
      BY <1>3, <2>1, NothingDropped DEF PacketOpened
  <1>4. ASSUME NEW s \in Slot, EchoSealed(s)
        PROVE  \E a \in Line : Answer(a) /\ \/ a.kind = "ERR"
                                            \/ a.kind = "RESP" /\ serving # None /\ a.body = serving.body
    BY <1>4 DEF EchoSealed
  <1>5. CASE KeysAlone
    BY <1>5 DEF KeysAlone
  <1> QED
    BY <1>1, <1>2, <1>3, <1>4, <1>5 DEF BoardMove

-----------------------------------------------------------------------------
(* Keys and counters: the steps of the board. *)

\* A step of the board keeps every id the client knows among those issued.
LEMMA KnownBoard == Types /\ Asking /\ Known /\ BoardMove => Known'
  <1> SUFFICES ASSUME Types, Asking, Known, BoardMove PROVE Known'
    OBVIOUS
  <1>0. /\ UNCHANGED <<sessions, churn, client_packets>>
        /\ pl \in [Slot -> [sid : SessionId, tx : Nat, rx : Nat]]
        /\ \A sid : Issued(sid) => Issued(sid)'
    BY IssuedStays DEF BoardMove, Types, Typed
  <1>1. \A s \in Slot : \/ pl'[s].sid = ValidationId(s)
                        \/ Issued(pl[s].sid)' /\ pl'[s].sid[1] = s
    <2>1. ASSUME NEW t \in Slot, OpenedFor(t)
          PROVE  \A s \in Slot : \/ pl'[s].sid = ValidationId(s)
                                 \/ Issued(pl[s].sid)' /\ pl'[s].sid[1] = s
      <3> DEFINE id == <<t, session_generation[t]>>
      <3>2. PICK new : new = id
        OBVIOUS
      <3>3. Issued(new)' /\ new[1] = t
        BY <2>1, <3>2, NewId
      <3>4. pl' = [pl EXCEPT ![t] = Entry(new, 0, 0)]
        BY <2>1, <3>2 DEF OpenedFor
      <3>5. pl'[t].sid = new /\ \A s \in Slot : s # t => pl'[s] = pl[s]
        BY <1>0, <3>4 DEF Entry
      <3> HIDE DEF id
      <3>6. ASSUME NEW s \in Slot
            PROVE  \/ pl'[s].sid = ValidationId(s)
                   \/ Issued(pl[s].sid)' /\ pl'[s].sid[1] = s
        <4>1. CASE s = t
          <5>1. Issued(pl[s].sid)'
            BY <3>3, <3>5, <4>1 DEF Issued
          <5> QED
            BY <3>3, <3>5, <4>1, <5>1
        <4>2. CASE s # t
          <5>1. pl[s].sid = ValidationId(s) \/ (Issued(pl[s].sid) /\ pl[s].sid[1] = s)
            BY DEF Known
          <5>2. pl'[s].sid = pl[s].sid
            BY <3>5, <4>2
          <5>3. PICK sid : sid = pl[s].sid
            OBVIOUS
          <5>4. Issued(sid) => Issued(pl[s].sid)'
            BY <1>0, <5>2, <5>3 DEF Issued
          <5> QED
            BY <5>1, <5>2, <5>3, <5>4
        <4> QED
          BY <4>1, <4>2
      <3> QED
        BY <3>6
    <2>2. CASE \A s \in Slot : pl'[s].sid = pl[s].sid
      <3>1. ASSUME NEW s \in Slot
            PROVE  \/ pl'[s].sid = ValidationId(s)
                   \/ Issued(pl[s].sid)' /\ pl'[s].sid[1] = s
        <4>1. pl[s].sid = ValidationId(s) \/ (Issued(pl[s].sid) /\ pl[s].sid[1] = s)
          BY DEF Known
        <4>2. PICK sid : sid = pl[s].sid
          OBVIOUS
        <4>3. Issued(sid) => Issued(pl[s].sid)'
          BY <1>0, <2>2, <4>2 DEF Issued
        <4> QED
          BY <2>2, <4>1, <4>2, <4>3
      <3> QED
        BY <3>1
    <2>3. ASSUME NEW t \in Slot, LeftBy(t) \/ PacketOpened(t) \/ EchoSealed(t)
          PROVE  \A s \in Slot : pl'[s].sid = pl[s].sid
      BY <1>0, <2>3 DEF LeftBy, PacketOpened, EchoSealed, Entry
    <2> QED
      BY <2>1, <2>2, <2>3 DEF BoardMove, KeysAlone
  <1>2. \A i \in DOMAIN to_client' : to_client'[i].kind = "READY" => Issued(to_client[i].sid)'
    <2>1. CASE Dropped
      <3>1. PICK n \in Nat : \A i \in DOMAIN to_client' :
                i \in Nat /\ i + n \in DOMAIN to_client /\ to_client'[i] = to_client[i + n]
        BY <2>1 DEF Dropped
      <3>2. ASSUME NEW i \in DOMAIN to_client', to_client'[i].kind = "READY"
            PROVE  Issued(to_client[i].sid)'
        <4>1. PICK sid : sid = to_client[i + n].sid
          OBVIOUS
        <4>2. Issued(sid)' /\ sid = to_client'[i].sid
          BY <1>0, <3>1, <3>2, <4>1 DEF Known
        <4> QED
          BY <4>2 DEF Issued
      <3> QED
        BY <3>2
    <2>2. ASSUME NEW a \in Line, Answer(a), NEW sid,
                 a.kind = "READY" => sid = a.sid /\ Issued(sid)'
          PROVE  \A i \in DOMAIN to_client' :
                    to_client'[i].kind = "READY" => Issued(to_client[i].sid)'
      <3>1. \A i \in DOMAIN to_client' :
               (i \in DOMAIN to_client /\ to_client'[i] = to_client[i]) \/ to_client'[i] = a
        BY <2>2, Answered1
      <3>2. ASSUME NEW i \in DOMAIN to_client', to_client'[i].kind = "READY"
            PROVE  Issued(to_client[i].sid)'
        <4>1. PICK old : old = to_client[i].sid
          OBVIOUS
        <4>2. CASE i \in DOMAIN to_client /\ to_client'[i] = to_client[i]
          <5>1. Issued(old)'
            BY <1>0, <3>2, <4>1, <4>2 DEF Known
          <5> QED
            BY <4>1, <4>2, <5>1 DEF Issued
        <4>3. CASE to_client'[i] = a
          BY <2>2, <3>2, <4>3 DEF Issued
        <4> QED
          BY <3>1, <4>2, <4>3
      <3> QED
        BY <3>2
    <2>3. CASE \E a \in Line : Answer(a) /\ a.kind # "READY"
      BY <2>2, <2>3
    <2>4. ASSUME NEW s \in Slot, OpenedFor(s)
          PROVE  \A i \in DOMAIN to_client' :
                    to_client'[i].kind = "READY" => Issued(to_client[i].sid)'
      <3>1. PICK id : id = <<s, session_generation[s]>>
        OBVIOUS
      <3>2. /\ Issued(id)' /\ Answer([kind |-> "READY", slot |-> s, sid |-> id, boot |-> boot])
            /\ [kind |-> "READY", slot |-> s, sid |-> id, boot |-> boot] \in Line
        BY <2>4, <3>1, NewId DEF OpenedFor
      <3>3. [kind |-> "READY", slot |-> s, sid |-> id, boot |-> boot].sid = id
        OBVIOUS
      <3> QED
        BY <2>2, <3>2, <3>3
    <2> QED
      BY <2>1, <2>3, <2>4, BoardAnswers
  <1>3. \A n \in board_nonces' : /\ n[2] \in Nat
                                 /\ Issued(n[1])' \/ \E s \in Slot : n[1] = ValidationId(s)
    <2>1. \A n \in board_nonces' : \/ n \in board_nonces
                                   \/ n[2] \in Nat /\ \E s \in Slot : n[1] = pl[s].sid
      <3>1. ASSUME NEW s \in Slot, EchoSealed(s)
            PROVE  \A n \in board_nonces' : \/ n \in board_nonces
                                            \/ n[2] \in Nat /\ n[1] = pl[s].sid
        <4> DEFINE new == <<pl[s].sid, pl[s].tx>>
        <4>1. board_nonces' = board_nonces \cup {new} /\ new[1] = pl[s].sid /\ new[2] \in Nat
          BY <1>0, <3>1 DEF EchoSealed
        <4> HIDE DEF new
        <4> QED
          BY <4>1
      <3>2. ASSUME NEW s \in Slot, OpenedFor(s) \/ LeftBy(s) \/ PacketOpened(s)
            PROVE  UNCHANGED board_nonces
        BY <3>2 DEF OpenedFor, LeftBy, PacketOpened
      <3>3. KeysAlone => UNCHANGED board_nonces
        BY DEF KeysAlone
      <3> QED
        BY <3>1, <3>2, <3>3 DEF BoardMove
    <2> QED
      BY <1>0, <2>1 DEF Known
  <1>4. \A s \in Slot : sessions'[s] # None => Issued(sessions[s].sid)'
    <2>1. ASSUME NEW s \in Slot, sessions'[s] # None PROVE Issued(sessions[s].sid)'
      <3>1. PICK sid : sid = sessions[s].sid
        OBVIOUS
      <3>2. Issued(sid)' /\ sessions'[s].sid = sid
        BY <1>0, <2>1, <3>1 DEF Known
      <3> QED
        BY <3>2 DEF Issued
    <2> QED
      BY <2>1
  <1>5. churn' # None => Issued(churn.old.sid)'
    <2>1. PICK sid : sid = churn.old.sid
      OBVIOUS
    <2>2. churn' # None => Issued(sid)' /\ churn'.old.sid = sid
      BY <1>0, <2>1 DEF Known
    <2> QED
      BY <2>2 DEF Issued
  <1>6. \A p \in client_packets' : Issued(p[1])' /\ p[2] \in Nat
    BY <1>0 DEF Known
  <1> QED
    BY <1>1, <1>2, <1>3, <1>4, <1>5, <1>6 DEF Known

\* A session the board announces is one no packet was sealed for.
LEMMA ReadyIsNewBoard == Types /\ Asking /\ Known /\ ReadyIsNew /\ BoardMove => ReadyIsNew'
  <1> SUFFICES ASSUME Types, Asking, Known, ReadyIsNew, BoardMove PROVE ReadyIsNew'
    OBVIOUS
  <1>0. UNCHANGED <<sessions, churn, client_packets>>
    BY DEF BoardMove
  <1>1. CASE Dropped
    <2>1. PICK n \in Nat : \A i \in DOMAIN to_client' :
              i \in Nat /\ i + n \in DOMAIN to_client /\ to_client'[i] = to_client[i + n]
      BY <1>1 DEF Dropped
    <2>2. \A i, j \in DOMAIN to_client' : i # j => i + n # j + n
      BY <2>1
    <2> QED
      BY <1>0, <2>1, <2>2 DEF ReadyIsNew
  <1>2. ASSUME NEW a \in Line, Answer(a),
               a.kind = "READY" =>
                  /\ \A j \in DOMAIN to_client : to_client[j].kind = "READY"
                        => to_client[j].sid # a.sid
                  /\ \A p \in client_packets : p[1] # a.sid
                  /\ \A s \in Slot : sessions[s] # None => sessions[s].sid # a.sid
                  /\ churn # None => churn.old.sid # a.sid
        PROVE  ReadyIsNew'
    <2>1. /\ \A i \in DOMAIN to_client' : i \in DOMAIN to_client \/ i = Len(to_client) + 1
          /\ \A i \in DOMAIN to_client : to_client'[i] = to_client[i]
          /\ to_client'[Len(to_client) + 1] = a
      BY <1>2, PcValues, AppendIndex DEF Answer
    <2> QED
      BY <1>0, <1>2, <2>1 DEF ReadyIsNew
  <1>3. CASE \E a \in Line : Answer(a) /\ a.kind # "READY"
    BY <1>2, <1>3
  <1>4. ASSUME NEW s \in Slot, OpenedFor(s) PROVE ReadyIsNew'
    <2>1. PICK id : id = <<s, session_generation[s]>>
      OBVIOUS
    <2> DEFINE a == [kind |-> "READY", slot |-> s, sid |-> id, boot |-> boot]
    <2>2. ~Issued(id) /\ a \in Line /\ Answer(a) /\ a.sid = id
      BY <1>4, <2>1, NewId DEF OpenedFor
    <2> HIDE DEF a
    <2>3. /\ \A j \in DOMAIN to_client : to_client[j].kind = "READY" => to_client[j].sid # a.sid
          /\ \A p \in client_packets : p[1] # a.sid
          /\ \A t \in Slot : sessions[t] # None => sessions[t].sid # a.sid
          /\ churn # None => churn.old.sid # a.sid
      BY <2>2 DEF Known
    <2> QED
      BY <1>2, <2>2, <2>3
  <1> QED
    BY <1>1, <1>3, <1>4, BoardAnswers

\* A stale packet meets no session of its id, so the board does not echo it.
LEMMA StaleGoneBoard ==
    Types /\ Asking /\ Known /\ StaleGone /\ StaleNeverEchoed /\ BoardMove
        => StaleGone' /\ StaleNeverEchoed'
  <1> SUFFICES ASSUME Types, Asking, Known, StaleGone, StaleNeverEchoed, BoardMove
               PROVE  StaleGone' /\ StaleNeverEchoed'
    OBVIOUS
  <1>0. /\ UNCHANGED <<sessions, churn>> /\ CommandsKept
        /\ \A sid : Gone(sid) => Gone(sid)'
        /\ \A sid : Issued(sid) => Issued(sid)'
    BY GoneStays, IssuedStays DEF BoardMove
  <1> DEFINE Fine(a) == /\ a.kind = "LEFT" => \E sid : sid = a.sid /\ Gone(sid)'
                        /\ a.kind = "RESP" => a.body # "stale"
  <1>1. \A i \in DOMAIN to_client : Fine(to_client[i])
    <2>1. ASSUME NEW i \in DOMAIN to_client, to_client[i].kind = "LEFT"
          PROVE  \E sid : sid = to_client[i].sid /\ Gone(sid)'
      <3>1. PICK sid : sid = to_client[i].sid
        OBVIOUS
      <3>2. Gone(sid)'
        BY <1>0, <2>1, <3>1 DEF StaleGone
      <3> QED
        BY <3>1, <3>2
    <2> QED
      BY <2>1 DEF StaleNeverEchoed
  <1>2. \A i \in DOMAIN to_client' : Fine(to_client'[i])
    <2>1. CASE Dropped
      <3> HIDE DEF Fine
      <3> QED
        BY <1>1, <2>1 DEF Dropped
    <2>2. ASSUME NEW a \in Line, Answer(a), Fine(a)
          PROVE  \A i \in DOMAIN to_client' : Fine(to_client'[i])
      <3>1. \A i \in DOMAIN to_client' :
               (i \in DOMAIN to_client /\ to_client'[i] = to_client[i]) \/ to_client'[i] = a
        BY <2>2, Answered1
      <3> HIDE DEF Fine
      <3> QED
        BY <1>1, <2>2, <3>1
    <2>3. CASE \E a \in Line : Answer(a) /\ a.kind \in {"STATUS", "BYE", "ERR", "READY"}
      BY <2>2, <2>3
    <2>4. CASE \E a \in Line : /\ Answer(a) /\ a.kind = "RESP"
                               /\ serving # None /\ a.body = serving.body
      BY <2>2, <2>4 DEF StaleGone
    <2>5. ASSUME NEW s \in Slot, LeftBy(s), NEW a \in Line, Answer(a),
                 a = [kind |-> "LEFT", slot |-> s, sid |-> session_id[s]]
          PROVE  \A i \in DOMAIN to_client' : Fine(to_client'[i])
      <3>1. PICK sid : sid = session_id[s]
        OBVIOUS
      <3>2. sid \in DemoId /\ sid[1] = s /\ pl[s].sid = sid
        BY <2>5, <3>1 DEF LeftBy, Types, Typed, Asking, Announced
      <3>3. Issued(sid)
        <4>1. sid # ValidationId(s)
          BY <3>2, Ids, EchoAssumption DEF ValidationId
        <4> QED
          BY <3>2, <4>1 DEF Known
      <3>4. Gone(sid)'
        BY <1>0, <2>5, <3>2, <3>3 DEF LeftBy, Gone
      <3>5. a.sid = sid /\ a.kind = "LEFT"
        BY <2>5, <3>1
      <3>6. Fine(a)
        BY <3>4, <3>5
      <3> QED
        BY <2>2, <2>5, <3>6
    <2>6. \A s \in Slot : \A id :
             [kind |-> "READY", slot |-> s, sid |-> id, boot |-> boot].kind = "READY"
      OBVIOUS
    <2> HIDE DEF Fine
    <2> QED
      BY <2>1, <2>3, <2>4, <2>5, <2>6, BoardAnswers
  <1>3. ASSUME NEW i \in DOMAIN to_client', to_client'[i].kind = "LEFT"
        PROVE  Gone(to_client[i].sid)'
    <2>1. PICK sid : sid = to_client'[i].sid /\ Gone(sid)'
      BY <1>2, <1>3
    <2> QED
      BY <2>1 DEF Gone, Issued
  <1>4. churn' # None /\ churn'.phase # "leaving" => Gone(churn.old.sid)'
    <2>1. PICK sid : sid = churn.old.sid
      OBVIOUS
    <2>2. churn' # None /\ churn'.phase # "leaving" => Gone(sid)'
      BY <1>0, <2>1 DEF StaleGone
    <2> QED
      BY <1>0, <2>1, <2>2 DEF Gone, Issued
  <1>5. ASSUME NEW i \in DOMAIN to_board', to_board'[i].op = "DATA", to_board'[i].body = "stale"
        PROVE  Gone(to_board[i].sid)' /\ to_board'[i].sid[1] = to_board'[i].slot
    <2>1. PICK j \in DOMAIN to_board : to_board'[i] = to_board[j]
      BY <1>0 DEF CommandsKept
    <2>2. PICK sid : sid = to_board[j].sid
      OBVIOUS
    <2>3. Gone(sid)' /\ to_board[j].sid[1] = to_board[j].slot
      BY <1>0, <1>5, <2>1, <2>2 DEF StaleGone
    <2> QED
      BY <2>1, <2>2, <2>3 DEF Gone, Issued
  <1>6. serving' # None => serving'.body # "stale"
    <2>1. ASSUME NEW s \in Slot, PacketOpened(s), to_board[1].body = "stale"
          PROVE  FALSE
      <3>1. Gone(to_board[1].sid) /\ to_board[1].sid[1] = s
        BY <2>1 DEF StaleGone, PacketOpened
      <3> QED
        BY <2>1, <3>1 DEF PacketOpened, Gone
    <2>2. ASSUME NEW s \in Slot, PacketOpened(s) PROVE serving' = None \/ serving' = to_board[1]
      BY <2>2 DEF PacketOpened
    <2>3. ASSUME NEW s \in Slot, OpenedFor(s) \/ LeftBy(s) \/ EchoSealed(s)
          PROVE  serving' = None \/ serving' = serving
      BY <2>3 DEF OpenedFor, LeftBy, EchoSealed
    <2>4. KeysAlone => serving' = serving
      BY DEF KeysAlone
    <2> QED
      BY <2>1, <2>2, <2>3, <2>4 DEF BoardMove, StaleGone
  <1>7. StaleGone'
    BY <1>3, <1>4, <1>5, <1>6 DEF StaleGone
  <1>8. StaleNeverEchoed'
    BY <1>2 DEF StaleNeverEchoed
  <1> QED
    BY <1>7, <1>8

\* The nonces the board used stay below the counters of the table.
LEMMA NoncesBelowBoard == Types /\ Asking /\ Known /\ NoncesBelow /\ BoardMove => NoncesBelow'
  <1> SUFFICES ASSUME Types, Asking, Known, NoncesBelow, BoardMove PROVE NoncesBelow'
    OBVIOUS
  <1>0. pl \in [Slot -> [sid : SessionId, tx : Nat, rx : Nat]]
    BY DEF Types, Typed
  <1>1. ASSUME NEW s \in Slot, OpenedFor(s) PROVE NoncesBelow'
    <2>1. PICK id : id = <<s, session_generation[s]>>
      OBVIOUS
    <2>2. /\ pl' = [pl EXCEPT ![s] = Entry(id, 0, 0)] /\ UNCHANGED board_nonces
          /\ ~Issued(id) /\ \A t \in Slot : id # ValidationId(t)
      BY <1>1, <2>1, NewId DEF OpenedFor
    <2>3. \A n \in board_nonces : n[1] # id
      BY <2>2 DEF Known
    <2>4. pl'[s].sid = id /\ \A t \in Slot : t # s => pl'[t] = pl[t]
      BY <1>0, <2>2 DEF Entry
    <2> QED
      BY <2>2, <2>3, <2>4 DEF NoncesBelow
  <1>2. ASSUME NEW s \in Slot, PacketOpened(s) PROVE NoncesBelow'
    <2>1. /\ \A t \in Slot : pl'[t].sid = pl[t].sid /\ pl'[t].tx = pl[t].tx
          /\ UNCHANGED board_nonces
      BY <1>0, <1>2 DEF PacketOpened, Entry
    <2> QED
      BY <2>1 DEF NoncesBelow
  <1>3. ASSUME NEW s \in Slot, EchoSealed(s) PROVE NoncesBelow'
    <2> DEFINE e == pl[s]
    <2>1. e.tx \in Nat
      BY <1>0
    <2>2. /\ pl' = [pl EXCEPT ![s] = Entry(e.sid, e.tx + 1, e.rx)]
          /\ board_nonces' = board_nonces \cup {<<e.sid, e.tx>>}
      BY <1>3 DEF EchoSealed
    <2>3. /\ pl'[s].sid = e.sid /\ pl'[s].tx = e.tx + 1
          /\ \A t \in Slot : t # s => pl'[t] = pl[t]
      <3> HIDE DEF e
      <3> QED
        BY <1>0, <2>2 DEF Entry
    <2>4. \A t \in Slot : pl[t].sid[1] = t
      BY DEF Known, ValidationId
    <2>5. \A n \in board_nonces, t \in Slot : n[1] = pl[t].sid => n[2] < pl[t].tx
      BY DEF NoncesBelow
    <2>6. ASSUME NEW n \in board_nonces', NEW t \in Slot, n[1] = pl'[t].sid
          PROVE  n[2] < pl'[t].tx
      <3>1. CASE n \in board_nonces /\ t # s
        BY <2>3, <2>5, <2>6, <3>1
      <3>2. CASE n \in board_nonces /\ t = s
        <4>1. n[2] < e.tx
          BY <2>3, <2>5, <2>6, <3>2
        <4>2. n[2] \in Nat
          BY <3>2 DEF Known
        <4> QED
          BY <2>1, <2>3, <3>2, <4>1, <4>2
      <3>3. CASE n = <<e.sid, e.tx>>
        <4>1. n[1] = e.sid /\ n[2] = e.tx
          BY <3>3
        <4>2. t = s
          <5> SUFFICES ASSUME t # s PROVE FALSE
            OBVIOUS
          <5>1. pl[t].sid = pl[s].sid
            BY <2>3, <2>6, <4>1
          <5> QED
            BY <2>4, <5>1
        <4> QED
          BY <2>1, <2>3, <4>1, <4>2
      <3> QED
        BY <2>2, <2>6, <3>1, <3>2, <3>3
    <2> QED
      BY <2>6 DEF NoncesBelow
  <1>4. CASE UNCHANGED <<pl, board_nonces>>
    BY <1>4 DEF NoncesBelow
  <1> QED
    BY <1>1, <1>2, <1>3, <1>4 DEF BoardMove, LeftBy, KeysAlone

-----------------------------------------------------------------------------
(* Keys and counters: the steps of the client. *)

Keys == /\ Known /\ ReadyIsNew /\ SealedBelow /\ StaleGone /\ NoncesBelow
        /\ OnePayloadPerNonce /\ StaleNeverEchoed

\* A step of the client keeps them if what it holds, sends and seals does.
LEMMA ClientKeys ==
    ASSUME Types, Keys, Dropped,
           UNCHANGED <<session_active, session_generation, serving, pl, board_nonces>>,
           \A s \in Slot : sessions'[s] # None => Issued(sessions'[s].sid),
           churn' # None => Issued(churn'.old.sid),
           \A p \in client_packets' : Issued(p[1]) /\ p[2] \in Nat,
           \A i \in DOMAIN to_client' : to_client'[i].kind = "READY" =>
              /\ \A p \in client_packets' : p[1] # to_client'[i].sid
              /\ \A s \in Slot : sessions'[s] # None => sessions'[s].sid # to_client'[i].sid
              /\ churn' # None => churn'.old.sid # to_client'[i].sid,
           SealedBelow', OnePayloadPerNonce',
           churn' # None /\ churn'.phase # "leaving" => Gone(churn'.old.sid),
           \A i \in DOMAIN to_board' : to_board'[i].op = "DATA" /\ to_board'[i].body = "stale"
              => Gone(to_board'[i].sid) /\ to_board'[i].sid[1] = to_board'[i].slot
    PROVE  Keys'
  <1>0. Known /\ ReadyIsNew /\ StaleGone /\ NoncesBelow /\ StaleNeverEchoed
    BY DEF Keys
  <1>1. PICK n \in Nat : \A i \in DOMAIN to_client' :
            i \in Nat /\ i + n \in DOMAIN to_client /\ to_client'[i] = to_client[i + n]
    BY DEF Dropped
  <1>2. NoncesBelow'
    BY <1>0 DEF NoncesBelow
  <1>3. StaleNeverEchoed'
    BY <1>0, <1>1 DEF StaleNeverEchoed
  <1>4. Known'
    <2>1. \A i \in DOMAIN to_client' : to_client'[i].kind = "READY" => Issued(to_client[i].sid)'
      BY <1>0, <1>1 DEF Known, Issued
    <2>2. \A s \in Slot : \/ pl'[s].sid = ValidationId(s)
                          \/ Issued(pl[s].sid)' /\ pl'[s].sid[1] = s
      BY <1>0 DEF Known, Issued
    <2>3. \A k \in board_nonces' : /\ k[2] \in Nat
                                   /\ Issued(k[1])' \/ \E s \in Slot : k[1] = ValidationId(s)
      BY <1>0 DEF Known, Issued
    <2>4. /\ \A s \in Slot : sessions'[s] # None => Issued(sessions[s].sid)'
          /\ churn' # None => Issued(churn.old.sid)'
          /\ \A p \in client_packets' : Issued(p[1])' /\ p[2] \in Nat
      BY DEF Issued
    <2> QED
      BY <2>1, <2>2, <2>3, <2>4 DEF Known
  <1>5. ReadyIsNew'
    <2>1. \A i, j \in DOMAIN to_client' : j # i => j + n # i + n
      BY <1>1
    <2>2. \A i, j \in DOMAIN to_client' :
             to_client'[i].kind = "READY" /\ to_client'[j].kind = "READY" /\ j # i
                => to_client'[j].sid # to_client'[i].sid
      BY <1>0, <1>1, <2>1 DEF ReadyIsNew
    <2> QED
      BY <2>2 DEF ReadyIsNew
  <1>6. StaleGone'
    <2>1. \A i \in DOMAIN to_client' : to_client'[i].kind = "LEFT" => Gone(to_client[i].sid)'
      BY <1>0, <1>1 DEF StaleGone, Gone, Issued
    <2>2. churn' # None /\ churn'.phase # "leaving" => Gone(churn.old.sid)'
      BY DEF Gone, Issued
    <2>3. \A i \in DOMAIN to_board' : to_board'[i].op = "DATA" /\ to_board'[i].body = "stale"
              => Gone(to_board[i].sid)' /\ to_board'[i].sid[1] = to_board'[i].slot
      BY DEF Gone, Issued
    <2>4. serving' # None => serving'.body # "stale"
      BY <1>0 DEF StaleGone
    <2> QED
      BY <2>1, <2>2, <2>3, <2>4 DEF StaleGone
  <1> QED
    BY <1>2, <1>3, <1>4, <1>5, <1>6 DEF Keys

\* What the invariant says of an answer under way also holds of one that is not dropped.
LEMMA ReadyDropped ==
    ASSUME Keys, Dropped
    PROVE  \A i \in DOMAIN to_client' : to_client'[i].kind = "READY" =>
              /\ \A p \in client_packets : p[1] # to_client'[i].sid
              /\ \A s \in Slot : sessions[s] # None => sessions[s].sid # to_client'[i].sid
              /\ churn # None => churn.old.sid # to_client'[i].sid
  BY DEF Keys, ReadyIsNew, Dropped

\* A command that is no packet: nothing is sealed.
LEMMA PlainKeys ==
    ASSUME Types, Asking, Keys, NEW c \in Commands, Send(c), c.op # "DATA", client # "wait",
           Dropped, UNCHANGED <<sessions, client_packets, BoardSide>>,
           \/ UNCHANGED churn
           \/ \E s \in Slot : /\ sessions[s] # None
                              /\ churn' = [phase |-> "leaving", slot |-> s, old |-> sessions[s]]
    PROVE  Keys'
  <1>0. /\ UNCHANGED <<session_active, session_generation, serving, pl, board_nonces>>
        /\ Known /\ SealedBelow /\ OnePayloadPerNonce /\ StaleGone
    BY DEF BoardSide, board, Keys
  <1>1. \/ UNCHANGED churn
        \/ \E s \in Slot : sessions[s] # None /\ churn'.old = sessions[s] /\ churn'.phase = "leaving"
    OBVIOUS
  <1>2. /\ \A s \in Slot : sessions'[s] # None => Issued(sessions'[s].sid)
        /\ churn' # None => Issued(churn'.old.sid)
        /\ \A p \in client_packets' : Issued(p[1]) /\ p[2] \in Nat
    BY <1>0, <1>1 DEF Known
  <1>3. \A i \in DOMAIN to_client' : to_client'[i].kind = "READY" =>
              /\ \A p \in client_packets' : p[1] # to_client'[i].sid
              /\ \A s \in Slot : sessions'[s] # None => sessions'[s].sid # to_client'[i].sid
              /\ churn' # None => churn'.old.sid # to_client'[i].sid
    BY <1>1, ReadyDropped
  <1>4. SealedBelow'
    <2>1. \A p \in client_packets : ~Pending(p)
      BY DEF Pending
    <2> QED
      BY <1>0, <1>1, <2>1 DEF SealedBelow
  <1>5. OnePayloadPerNonce'
    BY <1>0 DEF OnePayloadPerNonce
  <1>6. churn' # None /\ churn'.phase # "leaving" => Gone(churn'.old.sid)
    BY <1>0, <1>1 DEF StaleGone
  <1>7. \A i \in DOMAIN to_board' : to_board'[i].op = "DATA" /\ to_board'[i].body = "stale"
              => Gone(to_board'[i].sid) /\ to_board'[i].sid[1] = to_board'[i].slot
    <2>1. \A i \in DOMAIN to_board' :
             (i \in DOMAIN to_board /\ to_board'[i] = to_board[i]) \/ to_board'[i] = c
      BY PcValues, AppendIndex DEF Send
    <2> QED
      BY <1>0, <2>1 DEF StaleGone
  <1> QED
    BY <1>0, <1>2, <1>3, <1>4, <1>5, <1>6, <1>7, ClientKeys

\* A client that exits holds nothing, and has sealed what it has.
LEMMA ExitKeys ==
    ASSUME Types, Asking, Keys, Dropped, UNCHANGED <<client_packets, BoardSide>>,
           sessions' = NoSessions, churn' = None,
           \/ UNCHANGED to_board
           \/ to_board' = Append(to_board, [op |-> "QUIT"])
    PROVE  Keys'
  <1>0. /\ UNCHANGED <<session_active, session_generation, serving, pl, board_nonces>>
        /\ Known /\ OnePayloadPerNonce /\ StaleGone
        /\ \A s \in Slot : sessions'[s] = None
    BY DEF BoardSide, board, Keys, NoSessions
  <1>1. \A p \in client_packets' : Issued(p[1]) /\ p[2] \in Nat
    BY <1>0 DEF Known
  <1>2. \A i \in DOMAIN to_client' : to_client'[i].kind = "READY" =>
              \A p \in client_packets' : p[1] # to_client'[i].sid
    BY ReadyDropped
  <1>3. SealedBelow'
    BY <1>0 DEF SealedBelow
  <1>4. OnePayloadPerNonce'
    BY <1>0 DEF OnePayloadPerNonce
  <1>5. \A i \in DOMAIN to_board' : to_board'[i].op = "DATA" /\ to_board'[i].body = "stale"
              => Gone(to_board'[i].sid) /\ to_board'[i].sid[1] = to_board'[i].slot
    <2>1. \A i \in DOMAIN to_board' :
             \/ i \in DOMAIN to_board /\ to_board'[i] = to_board[i]
             \/ to_board'[i] = [op |-> "QUIT"]
      <3>1. CASE to_board' = Append(to_board, [op |-> "QUIT"])
        BY <3>1, CommandTypes, PcValues, AppendIndex
      <3> QED
        BY <3>1
    <2>2. [op |-> "QUIT"].op # "DATA"
      OBVIOUS
    <2> QED
      BY <1>0, <2>1, <2>2 DEF StaleGone
  <1> QED
    BY <1>0, <1>1, <1>2, <1>3, <1>4, <1>5, ClientKeys

\* A packet of a session held takes the session's next counter.
LEMMA EchoKeys ==
    ASSUME Types, Asking, Keys, NEW s \in Slot, NEW body \in Body, sessions[s] # None,
           client # "wait", Send(Packet(s, sessions[s], body)), Seals(Packet(s, sessions[s], body)),
           Dropped, UNCHANGED <<sessions, BoardSide>>, churn' = None
    PROVE  Keys'
  <1> DEFINE c == Packet(s, sessions[s], body)
  <1>0. PICK new : new = <<c.sid, c.ctr, c.body>>
    OBVIOUS
  <1>1. /\ UNCHANGED <<session_active, session_generation, serving, pl, board_nonces>>
        /\ Known /\ SealedBelow /\ OnePayloadPerNonce /\ StaleGone
    BY DEF BoardSide, board, Keys
  <1>2. /\ c \in Commands /\ c.op = "DATA" /\ c.body = body /\ body # "stale"
        /\ c.sid = sessions[s].sid /\ c.ctr = sessions[s].tx /\ c.ctr \in Nat
    BY HeldFields, PacketType, EchoAssumption DEF Payload
  <1>3. client_packets' = client_packets \cup {new} /\ Send(c) /\ cmd' = c /\ client' = "wait"
    BY <1>0 DEF Seals, Send
  <1>4. new[1] = sessions[s].sid /\ new[2] = sessions[s].tx
    BY <1>0, <1>2
  <1>5. Pending(new)'
    BY <1>0, <1>2, <1>3 DEF Pending
  <1> HIDE DEF c
  <1>6. \A p \in client_packets, t \in Slot :
           sessions[t] # None /\ p[1] = sessions[t].sid => p[2] < sessions[t].tx
    BY <1>1 DEF SealedBelow, Pending
  <1>7. /\ \A t \in Slot : sessions'[t] # None => Issued(sessions'[t].sid)
        /\ \A p \in client_packets' : Issued(p[1]) /\ p[2] \in Nat
    BY <1>1, <1>2, <1>3, <1>4 DEF Known
  <1>8. \A i \in DOMAIN to_client' : to_client'[i].kind = "READY" =>
              /\ \A p \in client_packets' : p[1] # to_client'[i].sid
              /\ \A t \in Slot : sessions'[t] # None => sessions'[t].sid # to_client'[i].sid
    BY <1>3, <1>4, ReadyDropped
  <1>9. SealedBelow'
    BY <1>1, <1>3, <1>5, <1>6 DEF SealedBelow
  <1>10. OnePayloadPerNonce'
    <2>1. \A p \in client_packets : ~ (p[1] = new[1] /\ p[2] = new[2])
      <3>1. ASSUME NEW p \in client_packets, p[1] = new[1], p[2] = new[2] PROVE FALSE
        <4>1. p[2] < sessions[s].tx /\ p[2] = sessions[s].tx
          BY <1>4, <1>6, <3>1
        <4> QED
          BY <1>2, <4>1
      <3> QED
        BY <3>1
    <2> QED
      BY <1>1, <1>3, <2>1 DEF OnePayloadPerNonce
  <1>11. \A i \in DOMAIN to_board' : to_board'[i].op = "DATA" /\ to_board'[i].body = "stale"
              => Gone(to_board'[i].sid) /\ to_board'[i].sid[1] = to_board'[i].slot
    <2>1. \A i \in DOMAIN to_board' :
             (i \in DOMAIN to_board /\ to_board'[i] = to_board[i]) \/ to_board'[i] = c
      BY <1>2, <1>3, PcValues, AppendIndex DEF Send
    <2> QED
      BY <1>1, <1>2, <2>1 DEF StaleGone
  <1> QED
    BY <1>1, <1>7, <1>8, <1>9, <1>10, <1>11, ClientKeys

\* The stale packet takes the counter its session was left with, once or twice.
LEMMA StaleKeys == Types /\ Asking /\ Keys /\ ChurnStale => Keys'
  <1> SUFFICES ASSUME Types, Asking, Keys, ChurnStale PROVE Keys'
    OBVIOUS
  <1> DEFINE c == Packet(churn.slot, churn.old, "stale")
             new == <<c.sid, c.ctr, c.body>>
  <1>0. /\ UNCHANGED <<session_active, session_generation, serving, pl, board_nonces>>
        /\ UNCHANGED <<to_client, sessions, churn>>
        /\ client = "churn" /\ churn.phase # "leaving" /\ churn # None
        /\ Known /\ SealedBelow /\ OnePayloadPerNonce /\ StaleGone
    BY DEF ChurnStale, BoardSide, board, Keys, Asking, Awaiting
  <1>1. /\ c \in Commands /\ c.op = "DATA" /\ c.body = "stale" /\ c.slot = churn.slot
        /\ c.sid = churn.old.sid /\ c.ctr = churn.old.tx /\ churn.old.tx \in Nat
        /\ churn.old.sid[1] = churn.slot
    BY <1>0, ChurnFields, PacketType DEF Payload, Asking, Awaiting
  <1>2. client_packets' = client_packets \cup {new} /\ Send(c) /\ cmd' = c /\ client' = "wait"
    BY DEF ChurnStale, Seals, Send
  <1>3. /\ new[1] = churn.old.sid /\ new[2] = churn.old.tx
        /\ new = <<churn.old.sid, churn.old.tx, "stale">>
    BY <1>1
  <1> HIDE DEF new, c
  <1>4. /\ \A p \in client_packets, t \in Slot :
              sessions[t] # None /\ p[1] = sessions[t].sid => p[2] < sessions[t].tx
        /\ \A t \in Slot : sessions[t] # None => sessions[t].sid # churn.old.sid
        /\ \A p \in client_packets : p[1] = churn.old.sid => p[2] < churn.old.tx \/ p = new
    BY <1>0, <1>3 DEF SealedBelow, Pending
  <1>5. /\ \A t \in Slot : sessions'[t] # None => Issued(sessions'[t].sid)
        /\ churn' # None => Issued(churn'.old.sid)
        /\ \A p \in client_packets' : Issued(p[1]) /\ p[2] \in Nat
    BY <1>0, <1>1, <1>2, <1>3 DEF Known
  <1>6. Dropped
    BY <1>0, NothingDropped
  <1>7. \A i \in DOMAIN to_client' : to_client'[i].kind = "READY" =>
              /\ \A p \in client_packets' : p[1] # to_client'[i].sid
              /\ \A t \in Slot : sessions'[t] # None => sessions'[t].sid # to_client'[i].sid
              /\ churn' # None => churn'.old.sid # to_client'[i].sid
    BY <1>0, <1>2, <1>3, <1>6, ReadyDropped
  <1>8. SealedBelow'
    <2>1. \A p \in client_packets' : p \in client_packets \/ p = new
      BY <1>2
    <2>2. \A p \in client_packets', t \in Slot :
             sessions[t] # None /\ p[1] = sessions[t].sid => p[2] < sessions[t].tx
      BY <1>3, <1>4, <2>1
    <2>3. \A p \in client_packets' : p[1] = churn.old.sid => p[2] < churn.old.tx \/ p = new
      BY <1>4, <2>1
    <2> QED
      BY <1>0, <1>3, <1>4, <2>2, <2>3 DEF SealedBelow
  <1>9. OnePayloadPerNonce'
    <2>1. \A p \in client_packets : p[1] = new[1] /\ p[2] = new[2] => p = new
      BY <1>1, <1>3, <1>4
    <2> QED
      BY <1>0, <1>2, <2>1 DEF OnePayloadPerNonce
  <1>10. \A i \in DOMAIN to_board' : to_board'[i].op = "DATA" /\ to_board'[i].body = "stale"
              => Gone(to_board'[i].sid) /\ to_board'[i].sid[1] = to_board'[i].slot
    <2>1. \A i \in DOMAIN to_board' :
             (i \in DOMAIN to_board /\ to_board'[i] = to_board[i]) \/ to_board'[i] = c
      BY <1>1, <1>2, PcValues, AppendIndex DEF Send
    <2>2. Gone(c.sid) /\ c.sid[1] = c.slot
      BY <1>0, <1>1 DEF StaleGone
    <2> QED
      BY <1>0, <1>1, <2>1, <2>2 DEF StaleGone
  <1>11. churn' # None /\ churn'.phase # "leaving" => Gone(churn'.old.sid)
    BY <1>0 DEF StaleGone
  <1> QED
    BY <1>0, <1>5, <1>6, <1>7, <1>8, <1>9, <1>10, <1>11, ClientKeys

\* What the client seals takes a nonce it has not used.
LEMMA UserKeys == Types /\ Asking /\ Keys /\ (User \/ ChurnStep) => Keys'
  <1> SUFFICES ASSUME Types, Asking, Keys, User \/ ChurnStep PROVE Keys'
    OBVIOUS
  <1>0. Dropped
    BY ClientDrops
  <1>1. CASE ClientStart \/ UserStatus
    <2> DEFINE c == [op |-> "STATUS"]
    <2>1. c \in Commands /\ c.op # "DATA" /\ Send(c)
      BY <1>1, CommandTypes DEF ClientStart, UserStatus
    <2> HIDE DEF c
    <2> QED
      BY <1>0, <1>1, <2>1, PlainKeys DEF ClientStart, UserStatus
  <1>2. CASE UserQuit
    <2>1. churn' = None /\ sessions' = NoSessions
      BY <1>2 DEF UserQuit, Asking, Awaiting, NoSessions
    <2> QED
      BY <1>0, <1>2, <2>1, ExitKeys DEF UserQuit
  <1>3. ASSUME NEW s \in Slot, UserJoin(s) PROVE Keys'
    <2> DEFINE c == [op |-> "OPEN", slot |-> s]
    <2>1. c \in Commands /\ c.op # "DATA" /\ Send(c)
      BY <1>3, CommandTypes DEF UserJoin
    <2> HIDE DEF c
    <2> QED
      BY <1>0, <1>3, <2>1, PlainKeys DEF UserJoin
  <1>4. ASSUME NEW s \in Slot, UserLeave(s) \/ UserChurn(s) PROVE Keys'
    <2> DEFINE c == [op |-> "LEAVE", slot |-> s]
    <2>1. c \in Commands /\ c.op # "DATA" /\ Send(c)
      BY <1>4, CommandTypes DEF UserLeave, UserChurn
    <2>2. /\ client # "wait" /\ UNCHANGED <<sessions, client_packets, BoardSide>>
          /\ \/ UNCHANGED churn
             \/ /\ sessions[s] # None
                /\ churn' = [phase |-> "leaving", slot |-> s, old |-> sessions[s]]
      BY <1>4 DEF UserLeave, UserChurn
    <2> HIDE DEF c
    <2> QED
      BY <1>0, <2>1, <2>2, PlainKeys
  <1>5. ASSUME NEW s \in Slot, NEW body \in Body, UserEcho(s, body) PROVE Keys'
    <2>1. churn' = None
      BY <1>5 DEF UserEcho, Asking, Awaiting
    <2>2. /\ client # "wait" /\ sessions[s] # None /\ UNCHANGED <<sessions, BoardSide>>
          /\ Send(Packet(s, sessions[s], body)) /\ Seals(Packet(s, sessions[s], body))
      BY <1>5 DEF UserEcho
    <2> QED
      BY <1>0, <2>1, <2>2, EchoKeys
  <1>6. CASE ChurnStale
    BY <1>6, StaleKeys
  <1>7. CASE ChurnJoin
    <2> DEFINE c == [op |-> "OPEN", slot |-> churn.slot]
    <2>1. churn # None
      BY <1>7 DEF ChurnJoin, Asking, Awaiting
    <2>2. c \in Commands /\ c.op # "DATA" /\ Send(c)
      BY <1>7, <2>1, CommandTypes, ChurnFields DEF ChurnJoin
    <2> HIDE DEF c
    <2> QED
      BY <1>0, <1>7, <2>2, PlainKeys DEF ChurnJoin
  <1>8. CASE ChurnEcho
    <2>1. churn # None /\ churn.slot \in Slot /\ sessions[churn.slot] # None
      BY <1>8, ChurnFields DEF ChurnEcho, Asking, Awaiting
    <2>2. PICK body \in Body : /\ Send(Packet(churn.slot, sessions[churn.slot], body))
                               /\ Seals(Packet(churn.slot, sessions[churn.slot], body))
      BY <1>8 DEF ChurnEcho
    <2>3. client # "wait" /\ UNCHANGED <<sessions, BoardSide>> /\ churn' = None
      BY <1>8 DEF ChurnEcho
    <2> QED
      BY <1>0, <2>1, <2>2, <2>3, EchoKeys
  <1> QED
    BY <1>1, <1>2, <1>3, <1>4, <1>5, <1>6, <1>7, <1>8 DEF User, ChurnStep

\* An accepted answer counts a packet, or opens a session nothing was sealed for.
LEMMA ReceiveKeys == Types /\ Asking /\ Keys /\ Receive => Keys'
  <1> SUFFICES ASSUME Types, Asking, Keys, Receive PROVE Keys'
    OBVIOUS
  <1> DEFINE a == Head(to_client)
             s == cmd.slot
             h == sessions[s]
  <1>0. /\ Dropped /\ UNCHANGED <<to_board, client_packets, BoardSide>>
        /\ UNCHANGED <<session_active, session_generation, serving, pl, board_nonces>>
        /\ sessions \in [Slot -> Session \cup {None}] /\ None \notin Session
        /\ a \in Line /\ a = to_client[1] /\ 1 \in DOMAIN to_client /\ client = "wait"
        /\ \A i \in DOMAIN to_client' :
              i \in Nat /\ i + 1 \in DOMAIN to_client /\ to_client'[i] = to_client[i + 1]
        /\ Known /\ ReadyIsNew /\ SealedBelow /\ StaleGone /\ OnePayloadPerNonce
    BY ClientDrops, PcValues, NoneAssumption, Read DEF Keys
  <1>1. CASE Exit
    BY <1>0, <1>1, ExitKeys DEF Exit, NoSessions
  <1>2. CASE Expected(a) /\ ~Exit
    <2>1. /\ sessions' = Updated(a)
          /\ churn = None => churn' = None
          /\ churn # None =>
                /\ churn' # None /\ churn'.old = churn.old
                /\ churn.phase = "leaving" => cmd.op = "LEAVE" /\ s = churn.slot
                /\ churn.phase = "left" => StaleProbe
                /\ churn.phase = "refused" => cmd.op = "OPEN" /\ s = churn.slot
                /\ churn.phase = "rejoined" => StaleProbe
                /\ churn.phase \in Phase /\ churn.phase # "probed"
      BY <1>2, Accepted
    <2>2. \/ sessions' = sessions /\ cmd.op # "LEAVE" /\ (cmd.op = "DATA" => StaleProbe /\ churn # None)
          \/ /\ cmd.op = "OPEN" /\ a.kind = "READY" /\ s \in Slot
             /\ sessions' = [sessions EXCEPT ![s] =
                                [sid |-> a.sid, tx |-> 0, rx |-> 0, boot |-> a.boot]]
          \/ /\ cmd.op = "LEAVE" /\ s \in Slot /\ a.kind = "LEFT" /\ a.sid = h.sid /\ h # None
             /\ sessions' = [sessions EXCEPT ![s] = None]
          \/ /\ cmd.op = "DATA" /\ ~StaleProbe /\ churn = None /\ s \in Slot /\ h # None
             /\ sessions' = [sessions EXCEPT ![s] =
                     [sid |-> h.sid, tx |-> h.tx + 1, rx |-> h.rx + 1, boot |-> h.boot]]
      BY <1>0, <1>2, <2>1, UpdatedTo DEF StaleProbe
    <2> HIDE DEF a
    <2>3. \A t \in Slot : sessions'[t] # None =>
             \/ sessions[t] # None /\ sessions'[t].sid = sessions[t].sid
             \/ a.kind = "READY" /\ sessions'[t].sid = a.sid
      BY <1>0, <2>2
    <2>4. /\ \A t \in Slot : sessions'[t] # None => Issued(sessions'[t].sid)
          /\ churn' # None => Issued(churn'.old.sid)
          /\ \A p \in client_packets' : Issued(p[1]) /\ p[2] \in Nat
      BY <1>0, <2>1, <2>3 DEF Known
    <2>5. \A i \in DOMAIN to_client' : to_client'[i].kind = "READY" =>
              /\ \A p \in client_packets' : p[1] # to_client'[i].sid
              /\ \A t \in Slot : sessions'[t] # None => sessions'[t].sid # to_client'[i].sid
              /\ churn' # None => churn'.old.sid # to_client'[i].sid
      <3>1. \A i \in DOMAIN to_client' : i + 1 # 1
        <4>1. to_client' \in Seq(Line)
          BY Read
        <4>2. \A i \in DOMAIN to_client' : i \in Nat /\ i >= 1
          BY <4>1
        <4> QED
          BY <4>2
      <3>2. \A i \in DOMAIN to_client' :
               to_client'[i].kind = "READY" /\ a.kind = "READY" => a.sid # to_client'[i].sid
        BY <1>0, <3>1 DEF ReadyIsNew
      <3> QED
        BY <1>0, <2>1, <2>3, <3>2, ReadyDropped
    <2>6. \A t \in Slot : sessions[t] # None => sessions[t].sid[1] = t
      BY DEF Asking, Awaiting
    <2>7. SealedBelow'
      <3>1. ASSUME NEW p \in client_packets, NEW t \in Slot, sessions'[t] # None,
                   p[1] = sessions'[t].sid
            PROVE  p[2] < sessions'[t].tx
        <4>1. CASE a.kind = "READY" /\ sessions'[t].sid = a.sid
          <5>1. p[1] # a.sid
            BY <1>0, <4>1 DEF ReadyIsNew
          <5> QED
            BY <3>1, <4>1, <5>1
        <4>2. CASE sessions[t] # None /\ sessions'[t].sid = sessions[t].sid
                   /\ ~ (a.kind = "READY" /\ sessions'[t].sid = a.sid)
          <5>1. p[2] < sessions[t].tx \/ (cmd.op = "DATA" /\ p = <<cmd.sid, cmd.ctr, cmd.body>>)
            BY <1>0, <3>1, <4>2 DEF SealedBelow, Pending
          <5>2. CASE cmd.op # "DATA"
            <6>1. sessions'[t] = sessions[t]
              BY <1>0, <2>2, <3>1, <4>2, <5>2
            <6> QED
              BY <5>1, <5>2, <6>1
          <5>3. CASE cmd.op = "DATA" /\ sessions' = sessions /\ StaleProbe /\ churn # None
            <6>1. /\ cmd = Packet(churn.slot, churn.old, "stale")
                  /\ churn.phase # "leaving"
              BY <1>0, <2>1, <5>3 DEF Asking, Awaiting, Phase
            <6>2. sessions[t].sid # churn.old.sid /\ cmd.sid = churn.old.sid
              BY <1>0, <4>2, <5>3, <6>1 DEF SealedBelow, Packet
            <6>3. p # <<cmd.sid, cmd.ctr, cmd.body>>
              BY <3>1, <4>2, <6>2
            <6> QED
              BY <5>1, <5>3, <6>3
          <5>4. CASE /\ cmd.op = "DATA" /\ ~StaleProbe /\ churn = None /\ s \in Slot /\ h # None
                     /\ sessions' = [sessions EXCEPT ![s] =
                          [sid |-> h.sid, tx |-> h.tx + 1, rx |-> h.rx + 1, boot |-> h.boot]]
            <6>1. cmd = Packet(s, h, cmd.body)
              BY <1>0, <5>4 DEF Asking, Awaiting
            <6> HIDE DEF s
            <6>2. cmd.sid = h.sid /\ cmd.ctr = h.tx /\ h.tx \in Nat /\ h.sid[1] = s
              <7>1. h.tx \in Nat
                BY <5>4, HeldFields
              <7> QED
                BY <2>6, <5>4, <6>1, <7>1 DEF Packet
            <6>3. CASE t = s
              <7>1. sessions'[t].tx = h.tx + 1
                BY <1>0, <5>4, <6>3
              <7>2. p[2] \in Nat /\ (p[2] < h.tx \/ p[2] = h.tx)
                <8>1. p = <<cmd.sid, cmd.ctr, cmd.body>> => p[2] = cmd.ctr
                  OBVIOUS
                <8> QED
                  BY <1>0, <5>1, <6>2, <6>3, <8>1 DEF Known
              <7> QED
                BY <6>2, <7>1, <7>2
            <6>4. CASE t # s
              <7>1. sessions'[t] = sessions[t]
                BY <1>0, <5>4, <6>4
              <7>2. p # <<cmd.sid, cmd.ctr, cmd.body>>
                BY <2>6, <3>1, <4>2, <6>2, <6>4
              <7> QED
                BY <5>1, <7>1, <7>2
            <6> QED
              BY <6>3, <6>4
          <5> QED
            BY <2>2, <5>2, <5>3, <5>4
        <4> QED
          BY <2>3, <3>1, <4>1, <4>2
      <3>2. CASE churn = None
        BY <1>0, <2>1, <3>1, <3>2 DEF SealedBelow
      <3>3. CASE churn # None /\ churn.phase = "leaving"
        <4>1. /\ cmd.op = "LEAVE" /\ s = churn.slot /\ churn.slot \in Slot
              /\ sessions' = [sessions EXCEPT ![churn.slot] = None]
              /\ sessions[churn.slot] = churn.old /\ churn.old.sid[1] = churn.slot
              /\ churn.old # None
          BY <2>1, <2>2, <3>3 DEF Asking, Awaiting
        <4>2. \A t \in Slot : sessions'[t] # None => sessions'[t].sid # churn.old.sid
          BY <1>0, <2>6, <4>1
        <4>3. \A p \in client_packets : p[1] = churn.old.sid => p[2] < churn.old.tx
          BY <1>0, <4>1 DEF SealedBelow, Pending
        <4> QED
          BY <1>0, <2>1, <3>1, <3>3, <4>2, <4>3 DEF SealedBelow
      <3>4. CASE churn # None /\ churn.phase # "leaving"
        <4>1. /\ \A t \in Slot : sessions[t] # None => sessions[t].sid # churn.old.sid
              /\ \A p \in client_packets : p[1] = churn.old.sid
                    => p[2] < churn.old.tx \/ p = <<churn.old.sid, churn.old.tx, "stale">>
          BY <1>0, <3>4 DEF SealedBelow
        <4>2. a.kind = "READY" => churn.old.sid # a.sid
          BY <1>0, <3>4 DEF ReadyIsNew
        <4>3. \A t \in Slot : sessions'[t] # None => sessions'[t].sid # churn.old.sid
          BY <2>3, <4>1, <4>2
        <4> QED
          BY <1>0, <2>1, <3>1, <3>4, <4>1, <4>3 DEF SealedBelow
      <3> QED
        BY <3>2, <3>3, <3>4
    <2>8. OnePayloadPerNonce'
      BY <1>0 DEF OnePayloadPerNonce
    <2>9. churn' # None /\ churn'.phase # "leaving" => Gone(churn'.old.sid)
      <3>1. CASE churn # None /\ churn.phase = "leaving"
        <4>1. a.kind = "LEFT" /\ a.sid = churn.old.sid
          BY <2>1, <2>2, <3>1 DEF Asking, Awaiting
        <4> QED
          BY <1>0, <2>1, <3>1, <4>1 DEF StaleGone
      <3> QED
        BY <1>0, <2>1, <3>1 DEF StaleGone
    <2>10. \A i \in DOMAIN to_board' : to_board'[i].op = "DATA" /\ to_board'[i].body = "stale"
              => Gone(to_board'[i].sid) /\ to_board'[i].sid[1] = to_board'[i].slot
      BY <1>0 DEF StaleGone
    <2> QED
      BY <1>0, <2>4, <2>5, <2>7, <2>8, <2>9, <2>10, ClientKeys
  <1> QED
    BY <1>1, <1>2, Accepted

\* At the start nothing is sealed and no id issued.
LEMMA InitKeys == Init => Keys
  <1> SUFFICES ASSUME Init PROVE Keys
    OBVIOUS
  <1>1. \A s \in Slot : pl[s].sid = ValidationId(s)
    BY DEF Init, Entry
  <1>2. Known
    BY <1>1 DEF Init, Known
  <1>3. ReadyIsNew /\ SealedBelow /\ StaleGone /\ NoncesBelow
    BY DEF Init, ReadyIsNew, SealedBelow, StaleGone, NoncesBelow
  <1>4. OnePayloadPerNonce /\ StaleNeverEchoed
    BY DEF Init, OnePayloadPerNonce, StaleNeverEchoed
  <1> QED
    BY <1>2, <1>3, <1>4 DEF Keys

\* As long as no id is reused, every step keeps the account of ids and nonces.
LEMMA StepKeys ==
    Types /\ Asking /\ (NoIdReused => Keys) /\ [Next]_vars => (NoIdReused => Keys)'
  <1> SUFFICES ASSUME Types, Asking, NoIdReused => Keys, [Next]_vars, NoIdReused' PROVE Keys'
    OBVIOUS
  <1>0. NoIdReused /\ Keys
    BY ReuseStays
  <1>1. CASE Firmware \/ Environment
    <2>1. BoardMove
      BY <1>0, <1>1, BoardKinds
    <2>2. Known' /\ ReadyIsNew' /\ StaleGone' /\ StaleNeverEchoed' /\ NoncesBelow'
      BY <1>0, <2>1, KnownBoard, ReadyIsNewBoard, StaleGoneBoard, NoncesBelowBoard DEF Keys
    <2>3. SealedBelow'
      BY <1>0, <2>1 DEF Keys, SealedBelow, Pending, BoardMove
    <2>4. OnePayloadPerNonce'
      BY <1>0, <2>1 DEF Keys, OnePayloadPerNonce, BoardMove
    <2> QED
      BY <2>2, <2>3, <2>4 DEF Keys
  <1>2. CASE User \/ ChurnStep
    BY <1>0, <1>2, UserKeys
  <1>3. CASE Receive
    BY <1>0, <1>3, ReceiveKeys
  <1>4. CASE Timeout \/ Interrupt
    <2>1. Dropped /\ UNCHANGED <<to_board, client_packets, BoardSide>>
          /\ sessions' = NoSessions /\ churn' = None
      BY <1>4, ClientDrops DEF Timeout, Interrupt, Exit, uart, NoSessions
    <2> QED
      BY <1>0, <2>1, ExitKeys
  <1>5. CASE UNCHANGED vars
    <2>1. UNCHANGED <<running, session_active, session_generation, session_id, serving>>
          /\ UNCHANGED <<pl, fault, to_board, to_client, client, cmd, sessions, churn, boot>>
          /\ UNCHANGED <<board_nonces, client_packets>>
      BY <1>5 DEF vars, board, uart, pc, history
    <2>2. Known' /\ ReadyIsNew' /\ SealedBelow' /\ StaleGone' /\ NoncesBelow'
      BY <1>0, <2>1 DEF Keys, Known, ReadyIsNew, SealedBelow, StaleGone, NoncesBelow, Issued,
         Gone, Pending
    <2>3. OnePayloadPerNonce' /\ StaleNeverEchoed'
      BY <1>0, <2>1 DEF Keys, OnePayloadPerNonce, StaleNeverEchoed
    <2> QED
      BY <2>2, <2>3 DEF Keys
  <1> QED
    BY <1>1, <1>2, <1>3, <1>4, <1>5 DEF Next

\* It holds of every behaviour, up to the first id reused.
LEMMA AlwaysKeys == Spec => [](NoIdReused => Keys)
  <1>1. Init => (NoIdReused => Keys)
    BY InitKeys
  <1> QED
    BY <1>1, AlwaysAsking, StepKeys, PTL DEF Spec

\* While no id has been given twice, the client seals one payload under a key and counter.
THEOREM PayloadsApart == Spec => [](NoIdReused => OnePayloadPerNonce)
  <1>1. (NoIdReused => Keys) => (NoIdReused => OnePayloadPerNonce)
    BY DEF Keys
  <1> QED
    BY <1>1, AlwaysKeys, PTL

\* While no id has been given twice, the packet of a session that was left meets no
\* session under its key: uart_secure_demo.c answers it with an error.
THEOREM StaleRefused == Spec => [](NoIdReused => StaleNeverEchoed)
  <1>1. (NoIdReused => Keys) => (NoIdReused => StaleNeverEchoed)
    BY DEF Keys
  <1> QED
    BY <1>1, AlwaysKeys, PTL

\* While no id is given twice, the counter an echo is sealed with is new to its key.
THEOREM EchoNoncesNew == Spec /\ []NoIdReused => BoardNonceNeverRepeats
  <1>1. (NoIdReused => Keys) /\ NoIdReused /\ Types
           => [serving # None /\ serving' = None /\ boot' = boot
                 => <<pl[serving.slot].sid, pl[serving.slot].tx>> \notin board_nonces]_vars
    <2> SUFFICES ASSUME NoncesBelow, Types, serving # None
                 PROVE  <<pl[serving.slot].sid, pl[serving.slot].tx>> \notin board_nonces
      BY DEF Keys
    <2>1. serving.slot \in Slot
      BY CommandFields DEF Types, TypeOK, Typed
    <2>2. pl[serving.slot].tx \in Nat
      BY <2>1 DEF Types, Typed
    <2> DEFINE n == <<pl[serving.slot].sid, pl[serving.slot].tx>>
    <2>3. n[1] = pl[serving.slot].sid /\ n[2] = pl[serving.slot].tx
      OBVIOUS
    <2> HIDE DEF n
    <2>4. n \notin board_nonces
      BY <2>1, <2>2, <2>3 DEF NoncesBelow
    <2> QED
      BY <2>4 DEF n
  <1> QED
    BY <1>1, AlwaysKeys, AlwaysAsking, PTL DEF BoardNonceNeverRepeats

-----------------------------------------------------------------------------
(* Agreement of the two sides, if no answer is later than the client's       *)
(* patience, the generation field holds two values at least, and no fault is *)
(* raised between handshakes once the board has been restarted.              *)

\* A session held since the last restart is in step with the firmware and the logic.
AgreeAt(s, held) ==
    held # None /\ held.boot = boot =>
        /\ s \in session_active /\ session_id[s] = held.sid
        /\ pl[s] = Entry(held.sid, held.rx, held.tx)
Agreed == \A s \in Slot : AgreeAt(s, sessions[s])

\* Lines that may come whatever was asked: noise, and a status asked for by a client
\* that has exited and answered after a restart.
Unasked(a) == a.kind = "STATUS" \/ (a.kind = "ERR" /\ a.why = "CMD")
OnlyUnasked == \A i \in DOMAIN to_client : Unasked(to_client[i])
StatusOnly == \A i \in DOMAIN to_board : to_board[i].op = "STATUS"

\* The ids of the two sessions of a /churn differ where the logic could take one
\* for the other.
Apart(held) == held.boot = boot => \/ boot = 0 /\ held.sid # churn.old.sid
                                   \/ boot > 0 /\ ~fault

\* Where the command the client waits for is: on its way, between its two requests,
\* or answered or lost.
Unsent == /\ to_board # <<>> /\ to_board[Len(to_board)] = cmd
          /\ \A i \in DOMAIN to_board : i # Len(to_board) => to_board[i].op = "STATUS"
          /\ serving = None /\ OnlyUnasked /\ Agreed
HalfServed(s, held) ==
    held # None /\ held.boot = boot =>
        /\ s \in session_active /\ session_id[s] = held.sid
        /\ s = serving.slot => pl[s] = Entry(held.sid, held.rx, held.tx + 1)
        /\ s # serving.slot => pl[s] = Entry(held.sid, held.rx, held.tx)
Served == /\ serving # None /\ serving = cmd /\ to_board = <<>> /\ OnlyUnasked
          /\ serving.body # "stale" => \A s \in Slot : HalfServed(s, sessions[s])
Arriving(a) == \E i \in DOMAIN to_client : to_client[i] = a
Fits(a) == /\ Expected(a) => \A s \in Slot : AgreeAt(s, Updated(a)[s])
           /\ churn # None /\ a.kind = "READY" => Apart(a)
Answered ==
    /\ serving = None /\ to_board = <<>>
    /\ cmd.op = "STATUS" => OnlyUnasked
    /\ \A i, j \in DOMAIN to_client : i # j => Unasked(to_client[i]) \/ Unasked(to_client[j])
    /\ \A a \in Line : Arriving(a) => Fits(a)

Resting == client \in {"prompt", "churn"} => serving = None /\ StatusOnly /\ OnlyUnasked /\ Agreed
InFlight == client = "wait" => Unsent \/ Served \/ Answered
Stopped == ~running => /\ StatusOnly /\ client \in {"down", "wait"}
                       /\ client = "wait" => cmd.op = "STATUS" /\ to_client = <<>>
QuitLast == \A i \in DOMAIN to_board :
                to_board[i].op = "QUIT" => i = Len(to_board) /\ client = "down"
LastId == \A s \in session_active :
              /\ session_generation[s] > 0
              /\ session_id[s] = make_session_id(s, session_generation[s] - 1)
JoinAhead == \/ churn.phase \in {"leaving", "left"}
             \/ churn.phase = "refused" /\ (client = "churn" \/ to_board # <<>>)
NextId == make_session_id(churn.slot, session_generation[churn.slot])
ChurnApart ==
    churn # None => /\ boot = 0 /\ JoinAhead => NextId # churn.old.sid
                    /\ churn.phase = "rejoined" => Apart(sessions[churn.slot])

Dialogue == Resting /\ InFlight /\ Stopped /\ QuitLast /\ LastId /\ ChurnApart

\* Consecutive ids of a slot differ.
LEMMA ModNext ==
    ASSUME NEW m \in Nat, NEW g \in Nat, m > 1, g > 0
    PROVE  g % m # (g - 1) % m
  <1> DEFINE q == g \div m
             r == g % m
  <1>0. ASSUME NEW n \in Nat
        PROVE  n \div m \in Int /\ n % m \in 0 .. m - 1 /\ n = (n % m) + m * (n \div m)
    OBVIOUS
  <1>1. q \in Int /\ r \in 0 .. m - 1 /\ g = r + m * q
    BY <1>0
  <1> HIDE DEF q, r
  <1> DEFINE h == g - 1
             p == h \div m
  <1>2. h \in Nat /\ h = g - 1
    OBVIOUS
  <1> HIDE DEF h
  <1>3. p \in Int /\ h = (h % m) + m * p
    BY <1>0, <1>2
  <1> SUFFICES ASSUME r = h % m PROVE FALSE
    BY DEF r, h
  <1> HIDE DEF p
  <1>4. m * q - m * p = 1
    BY <1>1, <1>2, <1>3
  <1>5. m * (q - p) = 1 /\ q - p \in Int
    BY <1>1, <1>3, <1>4
  <1>6. CASE q - p <= 0
    BY <1>5, <1>6
  <1>7. CASE q - p >= 1
    BY <1>5, <1>7
  <1> QED
    BY <1>5, <1>6, <1>7

\* So do the ids of two successive sessions of a slot.
LEMMA NextIdDiffers ==
    ASSUME GENERATIONS > 1, NEW s \in Slot, NEW g \in Nat, g > 0
    PROVE  make_session_id(s, g) # make_session_id(s, g - 1)
  BY ModNext, EchoAssumption DEF make_session_id

-----------------------------------------------------------------------------
(* Agreement: the lines under way. *)

\* Dropping lines adds none.
LEMMA ArrivingDropped == Dropped => \A a : Arriving(a)' => Arriving(a)
  BY DEF Dropped, Arriving

\* An answer adds one line.
LEMMA ArrivingAdded ==
    ASSUME Types, NEW b \in Line, Answer(b)
    PROVE  \A a : Arriving(a)' => Arriving(a) \/ a = b
  BY Answered1 DEF Arriving

\* A tail of lines nobody asked for is one, and so is one more of them.
LEMMA UnaskedKept ==
    ASSUME Types, OnlyUnasked,
           Dropped \/ \E b \in Line : Answer(b) /\ Unasked(b)
    PROVE  OnlyUnasked'
  <1>1. CASE Dropped
    BY <1>1 DEF Dropped, OnlyUnasked, Unasked
  <1>2. ASSUME NEW b \in Line, Answer(b), Unasked(b) PROVE OnlyUnasked'
    <2>1. \A i \in DOMAIN to_client' :
             (i \in DOMAIN to_client /\ to_client'[i] = to_client[i]) \/ to_client'[i] = b
      BY <1>2, Answered1
    <2> QED
      BY <1>2, <2>1 DEF OnlyUnasked, Unasked
  <1> QED
    BY <1>1, <1>2

\* Noise and a status may come whatever was asked.
LEMMA UnaskedLines ==
    Unasked([kind |-> "STATUS"]) /\ Unasked(Err("CMD"))
  BY DEF Unasked, Err

\* A command taken or lost leaves the others in their order.
LEMMA CommandsTail ==
    ASSUME Types, UNCHANGED to_board \/ (to_board # <<>> /\ to_board' = Tail(to_board))
    PROVE  /\ StatusOnly => StatusOnly'
           /\ QuitLast /\ client' = client => QuitLast'
           /\ to_board' # <<>> => to_board # <<>>
  <1>0. to_board \in Seq(Commands)
    BY PcValues
  <1>1. CASE UNCHANGED to_board
    BY <1>1 DEF StatusOnly, QuitLast
  <1>2. CASE to_board # <<>> /\ to_board' = Tail(to_board)
    <2>1. /\ Len(to_board') = Len(to_board) - 1 /\ Len(to_board) \in Nat
          /\ \A i \in DOMAIN to_board' :
                i \in Nat /\ i + 1 \in DOMAIN to_board /\ to_board'[i] = to_board[i + 1]
      BY <1>0, <1>2, TailIndex
    <2>2. StatusOnly => StatusOnly'
      BY <2>1 DEF StatusOnly
    <2>3. QuitLast /\ client' = client => QuitLast'
      BY <2>1 DEF QuitLast
    <2> QED
      BY <1>2, <2>2, <2>3
  <1> QED
    BY <1>1, <1>2

\* What the client makes of a line depends on the client alone.
LEMMA PcFrame ==
    ASSUME UNCHANGED <<cmd, sessions, churn>>
    PROVE  /\ \A a : Expected(a)' <=> Expected(a)
           /\ \A a : Updated(a)' = Updated(a)
           /\ StaleProbe' <=> StaleProbe
  BY DEF Expected, Updated, StaleProbe, Counted

\* Of the lines that may come whatever was asked, it accepts a status it asked for.
LEMMA UnaskedExpected ==
    ASSUME Types, Asking, client = "wait", NEW a \in Line, Unasked(a), Expected(a)
    PROVE  cmd.op = "STATUS" /\ Updated(a) = sessions /\ a.kind # "READY"
  <1>1. a.kind = "STATUS" \/ (a.kind = "ERR" /\ a.why = "CMD")
    BY DEF Unasked
  <1> QED
    BY <1>1, UpdatedTo

\* An answer the line brings fits as long as neither side moves.
LEMMA FitsFrame ==
    ASSUME UNCHANGED <<cmd, sessions, churn, boot, session_active, session_id, pl>>,
           boot # 0 /\ ~fault => ~fault'
    PROVE  \A a : Fits(a) => Fits(a)'
  <1> SUFFICES ASSUME NEW a, Fits(a) PROVE Fits(a)'
    OBVIOUS
  <1>1. (Expected(a)' <=> Expected(a)) /\ Updated(a)' = Updated(a)
    BY PcFrame
  <1>2. Expected(a)' => \A s \in Slot : AgreeAt(s, Updated(a)[s])'
    BY <1>1 DEF Fits, AgreeAt
  <1>3. (churn' # None /\ a.kind = "READY") => Apart(a)'
    BY DEF Fits, Apart
  <1> QED
    BY <1>2, <1>3 DEF Fits

\* The answer of the board to a command that was the last on its way.
LEMMA AnsweredBy ==
    ASSUME Types, Asking, client = "wait", UNCHANGED <<cmd, sessions, churn>>, OnlyUnasked,
           serving' = None, to_board' = <<>>,
           cmd.op = "STATUS" => Agreed',
           \/ Dropped
           \/ \E b \in Line : Answer(b) /\ (Unasked(b) \/ (cmd.op # "STATUS" /\ Fits(b)'))
    PROVE  Answered'
  <1>1. ASSUME NEW a \in Line, Unasked(a) PROVE Fits(a)'
    <2>1. (Expected(a)' <=> Expected(a)) /\ Updated(a)' = Updated(a)
      BY PcFrame
    <2>2. Expected(a) => cmd.op = "STATUS" /\ Updated(a) = sessions
      BY <1>1, UnaskedExpected
    <2>3. Expected(a)' => \A s \in Slot : AgreeAt(s, Updated(a)[s])'
      BY <2>1, <2>2 DEF Agreed, AgreeAt
    <2>4. a.kind # "READY"
      BY <1>1 DEF Unasked
    <2> QED
      BY <2>3, <2>4 DEF Fits
  <1>2. \A a \in Line : Arriving(a) => Unasked(a)
    BY DEF Arriving, OnlyUnasked
  <1>3. CASE Dropped
    <2>1. OnlyUnasked'
      BY <1>3, UnaskedKept
    <2>2. \A a \in Line : Arriving(a)' => Fits(a)'
      BY <1>1, <1>2, <1>3, ArrivingDropped
    <2>3. \A i, j \in DOMAIN to_client' : i # j => Unasked(to_client'[i]) \/ Unasked(to_client'[j])
      BY <2>1 DEF OnlyUnasked, Unasked
    <2> QED
      BY <2>1, <2>2, <2>3 DEF Answered, Unasked
  <1>4. ASSUME NEW b \in Line, Answer(b), Unasked(b) \/ (cmd.op # "STATUS" /\ Fits(b)')
        PROVE  Answered'
    <2>1. cmd'.op = "STATUS" => OnlyUnasked'
      BY <1>4, UnaskedKept
    <2>2. \A a \in Line : Arriving(a)' => Fits(a)'
      BY <1>1, <1>2, <1>4, ArrivingAdded
    <2>3. \A i, j \in DOMAIN to_client' : i # j => Unasked(to_client'[i]) \/ Unasked(to_client'[j])
      <3>1. /\ DOMAIN to_client' = 1 .. Len(to_client) + 1 /\ Len(to_client) \in Nat
            /\ DOMAIN to_client = 1 .. Len(to_client)
            /\ \A i \in DOMAIN to_client : to_client'[i] = to_client[i]
        BY <1>4, PcValues, AppendIndex DEF Answer
      <3>2. \A i \in DOMAIN to_client' : i # Len(to_client) + 1 => Unasked(to_client'[i])
        BY <3>1 DEF OnlyUnasked
      <3> QED
        BY <3>2
    <2> QED
      BY <2>1, <2>2, <2>3 DEF Answered, Unasked
  <1> QED
    BY <1>3, <1>4

-----------------------------------------------------------------------------
(* Agreement: a step that moves neither side, only what is between them. *)

\* Losing a line, noise, and a status answered keep the agreement.
LEMMA LineDialogue ==
    ASSUME Types, Asking, Dialogue, Types',
           UNCHANGED <<running, client, cmd, sessions, churn, boot, session_active, session_id,
                       session_generation, pl, serving>>,
           boot # 0 /\ ~fault => ~fault',
           UNCHANGED to_board \/ (to_board # <<>> /\ to_board' = Tail(to_board)),
           \/ Dropped
           \/ Answer(Err("CMD")) /\ running
           \/ Answer([kind |-> "STATUS"]) /\ running /\ to_board # <<>>
    PROVE  Dialogue'
  <1>0. /\ Resting /\ InFlight /\ Stopped /\ QuitLast /\ LastId /\ ChurnApart
        /\ Agreed => Agreed'
        /\ Err("CMD") \in Line /\ [kind |-> "STATUS"] \in Line
        /\ to_board \in Seq(Commands)
    BY LineTypes, PcValues DEF Dialogue, Agreed, AgreeAt, Reason
  <1>1. OnlyUnasked => OnlyUnasked'
    BY <1>0, UnaskedKept, UnaskedLines
  <1>2. Resting'
    BY <1>0, <1>1, CommandsTail DEF Resting
  <1>3. InFlight'
    <2> SUFFICES ASSUME client = "wait" PROVE (Unsent \/ Served \/ Answered)'
      BY DEF InFlight
    <2>1. CASE Unsent
      <3>1. serving' = None /\ OnlyUnasked' /\ Agreed' /\ cmd' = cmd
        BY <1>0, <1>1, <2>1 DEF Unsent
      <3>2. CASE UNCHANGED to_board
        BY <2>1, <3>1, <3>2 DEF Unsent
      <3>3. CASE to_board' = Tail(to_board) /\ Len(to_board) = 1
        <4>1. to_board' = <<>>
          BY <1>0, <3>3
        <4>2. Answered'
          BY <1>0, <2>1, <3>1, <4>1, AnsweredBy, UnaskedLines DEF Unsent
        <4> QED
          BY <4>2
      <3>4. CASE to_board # <<>> /\ to_board' = Tail(to_board) /\ Len(to_board) # 1
        <4>1. /\ Len(to_board') = Len(to_board) - 1 /\ Len(to_board) \in Nat
              /\ DOMAIN to_board = 1 .. Len(to_board)
              /\ DOMAIN to_board' = 1 .. Len(to_board) - 1
              /\ \A i \in DOMAIN to_board' :
                    i \in Nat /\ i + 1 \in DOMAIN to_board /\ to_board'[i] = to_board[i + 1]
          BY <1>0, <3>4, TailIndex
        <4>2. Len(to_board) >= 2 /\ to_board' # <<>>
          <5>1. 1 \in DOMAIN to_board
            BY <1>0, <3>4, TailIndex
          <5>2. Len(to_board) >= 2
            <6> DEFINE n == Len(to_board)
            <6>1. n \in Nat /\ n # 1 /\ 1 \in 1 .. n
              BY <3>4, <4>1, <5>1
            <6> HIDE DEF n
            <6>2. n >= 2
              BY <6>1
            <6> QED
              BY <6>2 DEF n
          <5>3. 1 \in DOMAIN to_board'
            BY <4>1, <5>2
          <5> QED
            BY <5>2, <5>3
        <4>3. to_board'[Len(to_board')] = cmd
          BY <2>1, <4>1, <4>2 DEF Unsent
        <4>4. \A i \in DOMAIN to_board' : i # Len(to_board') => to_board'[i].op = "STATUS"
          BY <2>1, <4>1, <4>2 DEF Unsent
        <4> QED
          BY <3>1, <4>2, <4>3, <4>4 DEF Unsent
      <3> QED
        BY <3>2, <3>3, <3>4
    <2>2. CASE Served
      <3>1. to_board' = <<>> /\ OnlyUnasked'
        BY <1>1, <2>2 DEF Served
      <3>2. serving.body # "stale" => \A s \in Slot : HalfServed(s, sessions[s])'
        BY <2>2 DEF Served, HalfServed
      <3> QED
        BY <2>2, <3>1, <3>2 DEF Served
    <2>3. CASE Answered
      <3>1. to_board' = <<>> /\ serving' = None /\ (cmd'.op = "STATUS" => OnlyUnasked')
        BY <1>1, <2>3 DEF Answered
      <3>2. \A a \in Line : Arriving(a) => Fits(a)'
        BY <2>3, FitsFrame DEF Answered
      <3>3. CASE Dropped
        <4>1. PICK n \in Nat : \A i \in DOMAIN to_client' :
                  i \in Nat /\ i + n \in DOMAIN to_client /\ to_client'[i] = to_client[i + n]
          BY <3>3 DEF Dropped
        <4>2. \A i, j \in DOMAIN to_client' : i # j => i + n # j + n
          BY <4>1
        <4>3. \A i, j \in DOMAIN to_client' :
                 i # j => Unasked(to_client'[i]) \/ Unasked(to_client'[j])
          BY <2>3, <4>1, <4>2 DEF Answered
        <4>4. \A a \in Line : Arriving(a)' => Fits(a)'
          BY <3>2, <3>3, ArrivingDropped
        <4> QED
          BY <3>1, <4>3, <4>4 DEF Answered, Unasked
      <3>4. CASE Answer(Err("CMD"))
        <4>1. ~Expected(Err("CMD"))
          BY <1>0, UnaskedLines, UnaskedExpected, UpdatedTo DEF Err
        <4>2. PICK b : b = Err("CMD")
          OBVIOUS
        <4>3. Fits(b)'
          <5>1. ~Expected(b)' /\ b.kind = "ERR"
            BY <4>1, <4>2, PcFrame DEF Err
          <5> QED
            BY <5>1 DEF Fits
        <4>4. \A a \in Line : Arriving(a)' => Fits(a)'
          BY <1>0, <3>2, <3>4, <4>2, <4>3, ArrivingAdded
        <4>5. /\ DOMAIN to_client' = 1 .. Len(to_client) + 1 /\ Len(to_client) \in Nat
              /\ DOMAIN to_client = 1 .. Len(to_client)
              /\ \A i \in DOMAIN to_client : to_client'[i] = to_client[i]
              /\ to_client'[Len(to_client) + 1] = Err("CMD")
          BY <1>0, <3>4, PcValues, AppendIndex DEF Answer
        <4>6. \A i, j \in DOMAIN to_client' :
                 i # j => Unasked(to_client'[i]) \/ Unasked(to_client'[j])
          <5>1. \A i, j \in DOMAIN to_client :
                   i # j => Unasked(to_client[i]) \/ Unasked(to_client[j])
            BY <2>3 DEF Answered
          <5>2. \A i \in DOMAIN to_client' : i \in DOMAIN to_client \/ i = Len(to_client) + 1
            BY <4>5
          <5> QED
            BY <4>5, <5>1, <5>2, UnaskedLines
        <4> QED
          BY <3>1, <4>4, <4>6 DEF Answered, Unasked
      <3>5. to_board = <<>>
        BY <2>3 DEF Answered
      <3> QED
        BY <3>3, <3>4, <3>5
    <2> QED
      BY <1>0, <2>1, <2>2, <2>3 DEF InFlight
  <1>4. Stopped'
    <2>1. ~running /\ to_client = <<>> => to_client' = <<>>
      <3> SUFFICES ASSUME ~running, to_client = <<>> PROVE to_client' = <<>>
        OBVIOUS
      <3>1. DOMAIN to_client' = {}
        <4>1. DOMAIN to_client = {} /\ Dropped
          OBVIOUS
        <4> QED
          BY <4>1 DEF Dropped
      <3>2. to_client' \in Seq(Line)
        BY DEF Types, Typed
      <3> QED
        BY <3>1, <3>2
    <2> QED
      BY <1>0, <2>1, CommandsTail DEF Stopped
  <1>5. QuitLast'
    BY <1>0, CommandsTail
  <1>6. LastId'
    BY <1>0 DEF LastId
  <1>7. ChurnApart'
    <2>1. JoinAhead' => JoinAhead
      BY CommandsTail DEF JoinAhead
    <2>2. NextId' = NextId
      BY DEF NextId
    <2>3. Apart(sessions[churn.slot]) => Apart(sessions[churn.slot])'
      BY DEF Apart
    <2> QED
      BY <1>0, <2>1, <2>2, <2>3 DEF ChurnApart
  <1> QED
    BY <1>2, <1>3, <1>4, <1>5, <1>6, <1>7 DEF Dialogue

-----------------------------------------------------------------------------
(* Agreement: the steps of the firmware. *)

\* A command other than STATUS is the one the client waits for, the last on its way.
LEMMA Located ==
    ASSUME Types, Dialogue, NEW op, Takes(op), op # "STATUS"
    PROVE  \/ client = "down"
           \/ /\ client = "wait" /\ Unsent /\ Head(to_board) = cmd /\ cmd.op = op
              /\ to_board' = <<>>
  <1>0. /\ to_board \in Seq(Commands) /\ to_board # <<>> /\ Head(to_board) = to_board[1]
        /\ 1 \in DOMAIN to_board /\ Head(to_board).op = op /\ to_board' = Tail(to_board)
        /\ client \in {"down", "prompt", "wait", "churn"}
    BY Taken, PcValues DEF Takes
  <1>1. CASE client \in {"prompt", "churn"}
    BY <1>0, <1>1 DEF Dialogue, Resting, StatusOnly
  <1>2. CASE client = "wait"
    <2>1. Unsent
      BY <1>0, <1>2 DEF Dialogue, InFlight, Served, Answered
    <2>2. Len(to_board) = 1
      BY <1>0, <2>1 DEF Unsent
    <2>3. Head(to_board) = cmd /\ to_board' = <<>>
      BY <1>0, <2>1, <2>2 DEF Unsent
    <2> QED
      BY <1>0, <1>2, <2>1, <2>3
  <1> QED
    BY <1>0, <1>1, <1>2

\* The firmware's generation of an active slot is one ahead of its session's.
LEMMA FirmwareLastId == Types /\ LastId /\ Firmware => LastId'
  <1> SUFFICES ASSUME Types, LastId, Firmware PROVE LastId'
    OBVIOUS
  <1>0. /\ session_generation \in [Slot -> Nat] /\ session_active \subseteq Slot
        /\ session_id \in [Slot -> DemoId \cup {None}]
    BY DEF Types, TypeOK
  <1>1. CASE FwOpen
    <2> DEFINE s == Head(to_board).slot
               new_id == make_session_id(s, session_generation[s])
    <2>1. s \in Slot
      BY <1>1, Taken, CommandFields DEF FwOpen
    <2>2. CASE UNCHANGED <<session_active, session_id, session_generation>>
      BY <2>2 DEF LastId
    <2>3. CASE /\ session_active' = session_active \cup {s}
               /\ session_id' = [session_id EXCEPT ![s] = new_id]
               /\ session_generation' =
                     [session_generation EXCEPT ![s] = NextGeneration(@)]
      <3> HIDE DEF s
      <3>1. /\ session_generation'[s] = session_generation[s] + 1
            /\ session_id'[s] = new_id /\ session_generation[s] \in Nat
            /\ \A t \in Slot : t # s => /\ session_generation'[t] = session_generation[t]
                                        /\ session_id'[t] = session_id[t]
        BY <1>0, <2>1, <2>3 DEF NextGeneration
      <3>2. session_generation'[s] > 0 /\ session_generation'[s] - 1 = session_generation[s]
        BY <3>1
      <3>3. ASSUME NEW t \in session_active'
            PROVE  /\ session_generation'[t] > 0
                   /\ session_id'[t] = make_session_id(t, session_generation'[t] - 1)
        <4>1. CASE t = s
          BY <3>1, <3>2, <4>1
        <4>2. CASE t # s
          BY <1>0, <2>3, <3>1, <3>3, <4>2 DEF LastId
        <4> QED
          BY <4>1, <4>2
      <3> QED
        BY <3>3 DEF LastId, make_session_id
    <2> QED
      BY <1>1, <2>2, <2>3 DEF FwOpen
  <1>2. CASE FwLeave
    <2> DEFINE s == Head(to_board).slot
    <2>1. s \in Slot /\ UNCHANGED session_generation
      BY <1>2, Taken, CommandFields DEF FwLeave
    <2>2. CASE UNCHANGED <<session_active, session_id>>
      BY <2>1, <2>2 DEF LastId
    <2>3. CASE /\ session_active' = session_active \ {s}
               /\ session_id' = [session_id EXCEPT ![s] = None]
      BY <1>0, <2>1, <2>3 DEF LastId
    <2> QED
      BY <1>2, <2>2, <2>3 DEF FwLeave
  <1>3. CASE UNCHANGED <<session_active, session_id, session_generation>>
    BY <1>3 DEF LastId
  <1> QED
    BY <1>1, <1>2, <1>3 DEF Firmware, FwStatus, FwQuit, FwDecrypt, FwEncrypt, board

\* With no client at the line the firmware may answer what it likes.
LEMMA DownDialogue ==
    ASSUME Types, Asking, Dialogue, Firmware, client = "down"
    PROVE  Dialogue'
  <1>0. /\ UNCHANGED <<client, churn>> /\ churn = None /\ running
        /\ UNCHANGED to_board \/ (to_board # <<>> /\ to_board' = Tail(to_board))
    BY DEF Firmware, FwStatus, FwQuit, FwOpen, FwLeave, FwDecrypt, FwEncrypt, Takes, NoneElse,
       pc, Asking, Awaiting
  <1>1. Resting' /\ InFlight' /\ ChurnApart'
    BY <1>0 DEF Resting, InFlight, ChurnApart
  <1>2. QuitLast'
    BY <1>0, CommandsTail DEF Dialogue
  <1>3. LastId'
    BY FirmwareLastId DEF Dialogue
  <1>4. Stopped'
    <2>1. CASE FwQuit
      <3>1. to_board[1].op = "QUIT" /\ 1 \in DOMAIN to_board /\ to_board' = Tail(to_board)
            /\ to_board \in Seq(Commands)
        BY <2>1, Taken, PcValues DEF FwQuit
      <3>2. Len(to_board) = 1
        BY <3>1 DEF Dialogue, QuitLast
      <3>3. to_board' = <<>>
        BY <3>1, <3>2
      <3> QED
        BY <1>0, <3>3 DEF Stopped, StatusOnly
    <2>2. CASE running'
      BY <2>2 DEF Stopped
    <2> QED
      BY <1>0, <2>1, <2>2 DEF Firmware, FwStatus, FwOpen, FwLeave, FwDecrypt, FwEncrypt, board
  <1> QED
    BY <1>1, <1>2, <1>3, <1>4 DEF Dialogue

\* While the client waits, the firmware's answer must fit what it does to the session.
LEMMA WaitDialogue ==
    ASSUME Types, Asking, Dialogue, Firmware, client = "wait", ~FwStatus, ~FwQuit,
           to_board' = <<>>, Served' \/ Answered',
           ChurnApart'
    PROVE  Dialogue'
  <1>0. client' = client /\ running'
    BY DEF Firmware, FwOpen, FwLeave, FwDecrypt, FwEncrypt, Takes, NoneElse, pc
  <1>1. LastId'
    BY FirmwareLastId DEF Dialogue
  <1>2. QuitLast'
    BY DEF QuitLast
  <1> QED
    BY <1>0, <1>1, <1>2 DEF Dialogue, Resting, InFlight, Stopped

\* A step that opens no session leaves the ids of a /churn apart.
LEMMA ChurnApartKept ==
    ASSUME ChurnApart, UNCHANGED <<client, sessions, churn, boot, session_generation, fault>>,
           to_board' # <<>> => to_board # <<>>
    PROVE  ChurnApart'
  <1>1. JoinAhead' => JoinAhead
    BY DEF JoinAhead
  <1>2. NextId' = NextId
    BY DEF NextId
  <1>3. Apart(sessions[churn.slot]) => Apart(sessions[churn.slot])'
    BY DEF Apart
  <1> QED
    BY <1>1, <1>2, <1>3 DEF ChurnApart

\* A session opened is announced as the logic installed it, or refused.
LEMMA OpenDialogue ==
    ASSUME Types, Asking, Dialogue, FwOpen
    PROVE  Dialogue'
  <1>1. CASE client = "down"
    BY <1>1, DownDialogue DEF Firmware
  <1>2. CASE client # "down"
    <2> DEFINE s == Head(to_board).slot
               id == make_session_id(s, session_generation[s])
               a == [kind |-> "READY", slot |-> s, sid |-> id, boot |-> boot]
    <2>1. /\ client = "wait" /\ Unsent /\ Head(to_board) = cmd /\ cmd.op = "OPEN"
          /\ to_board' = <<>>
      BY <1>2, Located DEF FwOpen
    <2>2. /\ s = cmd.slot /\ s \in Slot /\ session_generation[s] \in Nat /\ boot \in Nat
          /\ pl \in [Slot -> [sid : SessionId, tx : Nat, rx : Nat]]
          /\ session_id \in [Slot -> DemoId \cup {None}]
          /\ sessions \in [Slot -> Session \cup {None}]
          /\ session_active \subseteq Slot
      BY <2>1, Taken, CommandFields, PcValues DEF FwOpen, Types, TypeOK, Typed
    <2>3. /\ UNCHANGED <<client, cmd, sessions, churn, boot, serving>>
          /\ serving = None /\ OnlyUnasked /\ Agreed
      BY <2>1 DEF FwOpen, NoneElse, pc, Unsent
    <2>4. churn # None => churn.phase = "refused" /\ churn.slot = s
      <3> SUFFICES ASSUME churn # None PROVE churn.phase = "refused" /\ churn.slot = s
        OBVIOUS
      <3>1. churn.phase \in Phase
        BY ChurnFields
      <3>2. churn.phase # "probed" /\ churn.phase # "leaving"
            /\ churn.phase \notin {"left", "rejoined"}
        BY <2>1 DEF Asking, Awaiting, Packet
      <3>3. churn.phase = "refused"
        BY <3>1, <3>2 DEF Phase
      <3> QED
        BY <2>1, <2>2, <3>3 DEF Asking, Awaiting
    <2>5. ChurnApart'
      BY <2>1, <2>3, <2>4 DEF ChurnApart, JoinAhead
    <2>6. ASSUME pl' = [pl EXCEPT ![s] = Entry(id, 0, 0)], fault' = FALSE,
                 session_active' = session_active \cup {s},
                 session_id' = [session_id EXCEPT ![s] = id], Answer(a)
          PROVE  Answered'
      <3>1. id \in DemoId
        <4> HIDE DEF s
        <4> QED
          BY <2>2, Ids
      <3>2. boot = 0 /\ churn # None => id # churn.old.sid
        BY <2>1, <2>2, <2>4 DEF Dialogue, ChurnApart, JoinAhead, NextId, Unsent
      <3> HIDE DEF id, s
      <3>3. a \in Line
        BY <2>2, <3>1, LineTypes
      <3>4. PICK b : b = a
        OBVIOUS
      <3>5. b.kind = "READY" /\ b.sid = id /\ b.boot = boot /\ b.slot = s
        BY <3>4
      <3>6. Updated(b) = [sessions EXCEPT ![s] = [sid |-> id, tx |-> 0, rx |-> 0, boot |-> boot]]
        BY <2>1, <2>2, <3>5 DEF Updated
      <3>7. Updated(b)' = Updated(b)
        BY <2>3, PcFrame
      <3>8. \A t \in Slot : AgreeAt(t, Updated(b)[t])'
        <4>1. Updated(b)[s] = [sid |-> id, tx |-> 0, rx |-> 0, boot |-> boot]
          BY <2>2, <3>6
        <4>2. pl'[s] = Entry(id, 0, 0) /\ session_id'[s] = id /\ s \in session_active'
          BY <2>2, <2>6
        <4>3. ASSUME NEW t \in Slot, t = s PROVE AgreeAt(t, Updated(b)[t])'
          <5> DEFINE held == [sid |-> id, tx |-> 0, rx |-> 0, boot |-> boot]
          <5>1. held.sid = id /\ held.tx = 0 /\ held.rx = 0
            OBVIOUS
          <5>2. Updated(b)'[t] = held
            BY <3>7, <4>1, <4>3
          <5> HIDE DEF held
          <5> QED
            BY <4>2, <4>3, <5>1, <5>2 DEF AgreeAt
        <4>4. ASSUME NEW t \in Slot, t # s PROVE AgreeAt(t, Updated(b)[t])'
          <5>1. Updated(b)[t] = sessions[t] /\ pl'[t] = pl[t] /\ session_id'[t] = session_id[t]
                /\ (t \in session_active => t \in session_active')
            BY <2>2, <2>6, <3>6, <4>4
          <5>2. AgreeAt(t, sessions[t])
            BY <2>3 DEF Agreed
          <5> QED
            BY <2>3, <3>7, <5>1, <5>2 DEF AgreeAt
        <4> QED
          BY <4>3, <4>4
      <3>9. churn # None => Apart(b)'
        BY <2>2, <2>3, <2>6, <3>2, <3>5 DEF Apart
      <3>10. Fits(b)'
        BY <2>3, <3>8, <3>9 DEF Fits
      <3> HIDE DEF a
      <3> QED
        BY <2>1, <2>3, <2>6, <3>3, <3>4, <3>10, AnsweredBy
    <2>7. ASSUME Answer(Err("KEM")) PROVE Answered'
      <3>1. PICK b : b = Err("KEM")
        OBVIOUS
      <3>2. b \in Line /\ b.kind = "ERR"
        BY <3>1, LineTypes DEF Reason, Err
      <3>3. ~Expected(b)'
        <4>1. ~Expected(b)
          BY <2>1, <3>2 DEF Expected, StaleProbe
        <4> QED
          BY <2>3, <4>1, PcFrame
      <3>4. Fits(b)'
        BY <3>2, <3>3 DEF Fits
      <3> QED
        BY <2>1, <2>3, <2>7, <3>1, <3>2, <3>4, AnsweredBy
    <2>8. Answered'
      BY <2>6, <2>7 DEF FwOpen
    <2>9. ~FwStatus /\ ~FwQuit
      BY <2>1 DEF FwStatus, FwQuit, Takes
    <2> QED
      BY <2>1, <2>5, <2>8, <2>9, WaitDialogue DEF Firmware
  <1> QED
    BY <1>1, <1>2

\* A session left is announced as left, or refused.
LEMMA LeaveDialogue ==
    ASSUME Types, Asking, Dialogue, FwLeave
    PROVE  Dialogue'
  <1>1. CASE client = "down"
    BY <1>1, DownDialogue DEF Firmware
  <1>2. CASE client # "down"
    <2> DEFINE s == Head(to_board).slot
               a == [kind |-> "LEFT", slot |-> s, sid |-> session_id[s]]
    <2>1. /\ client = "wait" /\ Unsent /\ Head(to_board) = cmd /\ cmd.op = "LEAVE"
          /\ to_board' = <<>>
      BY <1>2, Located DEF FwLeave
    <2>2. /\ s = cmd.slot /\ s \in Slot
          /\ session_id \in [Slot -> DemoId \cup {None}]
          /\ sessions \in [Slot -> Session \cup {None}]
      BY <2>1, Taken, CommandFields, PcValues DEF FwLeave, Types, TypeOK
    <2>3. /\ UNCHANGED <<client, cmd, sessions, churn, boot, serving, session_generation,
                         fault, pl>>
          /\ serving = None /\ OnlyUnasked /\ Agreed
      BY <2>1 DEF FwLeave, NoneElse, pc, Unsent
    <2>4. ChurnApart'
      BY <2>1, <2>3, ChurnApartKept DEF Dialogue
    <2>5. ASSUME s \in session_active, session_active' = session_active \ {s},
                 session_id' = [session_id EXCEPT ![s] = None], Answer(a)
          PROVE  Answered'
      <3>1. session_id[s] \in DemoId
        BY <2>5 DEF Types, Typed
      <3> HIDE DEF s
      <3>2. a \in Line
        BY <2>2, <3>1, LineTypes
      <3>3. PICK b : b = a
        OBVIOUS
      <3>4. b.kind = "LEFT"
        BY <3>3
      <3>5. Updated(b) = [sessions EXCEPT ![s] = None] /\ Updated(b)' = Updated(b)
        BY <2>1, <2>2, <2>3, PcFrame DEF Updated
      <3>6. \A t \in Slot : AgreeAt(t, Updated(b)[t])'
        <4>1. ASSUME NEW t \in Slot PROVE AgreeAt(t, Updated(b)[t])'
          <5>1. CASE t = s
            BY <2>2, <3>5, <5>1 DEF AgreeAt
          <5>2. CASE t # s
            <6>1. Updated(b)[t] = sessions[t] /\ session_id'[t] = session_id[t]
                  /\ (t \in session_active => t \in session_active')
              BY <2>2, <2>5, <3>5, <5>2
            <6>2. AgreeAt(t, sessions[t])
              BY <2>3 DEF Agreed
            <6> QED
              BY <2>3, <3>5, <6>1, <6>2 DEF AgreeAt
          <5> QED
            BY <5>1, <5>2
        <4> QED
          BY <4>1
      <3>7. Fits(b)'
        BY <3>4, <3>6 DEF Fits
      <3> HIDE DEF a
      <3> QED
        BY <2>1, <2>3, <2>5, <3>2, <3>3, <3>7, AnsweredBy
    <2>6. ASSUME Answer(Err("NOSESSION")) PROVE Answered'
      <3>1. PICK b : b = Err("NOSESSION")
        OBVIOUS
      <3>2. b \in Line /\ b.kind = "ERR"
        BY <3>1, LineTypes DEF Reason, Err
      <3>3. ~Expected(b)'
        <4>1. ~Expected(b)
          BY <2>1, <3>2 DEF Expected, StaleProbe
        <4> QED
          BY <2>3, <4>1, PcFrame
      <3>4. Fits(b)'
        BY <3>2, <3>3 DEF Fits
      <3> QED
        BY <2>1, <2>3, <2>6, <3>1, <3>2, <3>4, AnsweredBy
    <2>7. Answered'
      BY <2>5, <2>6 DEF FwLeave
    <2>8. ~FwStatus /\ ~FwQuit
      BY <2>1 DEF FwStatus, FwQuit, Takes
    <2> QED
      BY <2>1, <2>4, <2>7, <2>8, WaitDialogue DEF Firmware
  <1> QED
    BY <1>1, <1>2

\* A refusal fits: only a stale probe expects one, and it leaves the sessions as they are.
LEMMA RefusalFits ==
    ASSUME Types, Asking, client = "wait", UNCHANGED <<cmd, sessions, churn>>,
           NEW b \in Line, b.kind = "ERR",
           Expected(b) => \A t \in Slot : AgreeAt(t, sessions[t])'
    PROVE  Fits(b)'
  <1>1. (Expected(b)' <=> Expected(b)) /\ Updated(b)' = Updated(b)
    BY PcFrame
  <1>2. Expected(b) => Updated(b) = sessions
    BY UpdatedTo
  <1>3. Expected(b)' => \A t \in Slot : AgreeAt(t, Updated(b)[t])'
    BY <1>1, <1>2 DEF AgreeAt
  <1> QED
    BY <1>3 DEF Fits

\* What a stale probe that the logic opens would find out of step is no longer held.
LEMMA StaleOpened ==
    ASSUME Types, Asking, Dialogue, client = "wait", Agreed, cmd.op = "DATA", StaleProbe,
           churn.phase # "left", Opens(pl[cmd.slot], cmd), fault
    PROVE  sessions[cmd.slot].boot # boot
  <1>1. churn # None
    BY DEF StaleProbe, Asking, Awaiting
  <1>2. churn.phase \in Phase /\ churn.slot \in Slot
    BY <1>1, ChurnFields
  <1>3. churn.phase = "rejoined" /\ cmd = Packet(churn.slot, churn.old, "stale")
    BY <1>1, <1>2 DEF Asking, Awaiting, Phase
  <1>4. cmd.slot = churn.slot /\ pl[cmd.slot].sid = churn.old.sid
    BY <1>3 DEF Packet, Opens
  <1>5. sessions[churn.slot] # None
    BY <1>1, <1>3 DEF Asking, Awaiting
  <1>6. Apart(sessions[churn.slot])
    BY <1>1, <1>3 DEF Dialogue, ChurnApart
  <1> SUFFICES ASSUME sessions[cmd.slot].boot = boot PROVE FALSE
    OBVIOUS
  <1>7. pl[cmd.slot] = Entry(sessions[cmd.slot].sid, sessions[cmd.slot].rx, sessions[cmd.slot].tx)
    BY <1>2, <1>4, <1>5 DEF Agreed, AgreeAt
  <1>8. pl[cmd.slot].sid = sessions[cmd.slot].sid
    BY <1>7 DEF Entry
  <1> QED
    BY <1>4, <1>6, <1>8 DEF Apart

\* A packet opened is counted and about to be echoed, or refused and not counted.
LEMMA DecryptDialogue ==
    ASSUME Types, Asking, Dialogue, FwDecrypt
    PROVE  Dialogue'
  <1>1. CASE client = "down"
    BY <1>1, DownDialogue DEF Firmware
  <1>2. CASE client # "down"
    <2> DEFINE s == cmd.slot
    <2>1. /\ client = "wait" /\ Unsent /\ Head(to_board) = cmd /\ cmd.op = "DATA"
          /\ to_board' = <<>>
      BY <1>2, Located DEF FwDecrypt
    <2>2. /\ s \in Slot /\ cmd \in Commands /\ cmd # None
          /\ pl \in [Slot -> [sid : SessionId, tx : Nat, rx : Nat]]
          /\ sessions \in [Slot -> Session \cup {None}]
      BY <2>1, CommandFields, PcValues DEF Types, Typed
    <2>3. /\ UNCHANGED <<client, cmd, sessions, churn, boot, session_generation, fault,
                         session_active, session_id>>
          /\ serving = None /\ OnlyUnasked /\ Agreed
      BY <2>1 DEF FwDecrypt, NoneElse, pc, Unsent
    <2>4. ChurnApart'
      BY <2>1, <2>3, ChurnApartKept DEF Dialogue
    <2>5. \/ (Answer(Err("NOSESSION")) \/ Answer(Err("AUTH"))) /\ UNCHANGED <<pl, serving>>
          \/ /\ Opens(pl[s], cmd) /\ pl' = [pl EXCEPT ![s].rx = @ + 1]
             /\ fault /\ Answer(Err("AUTH")) /\ UNCHANGED serving
          \/ /\ Opens(pl[s], cmd) /\ pl' = [pl EXCEPT ![s].rx = @ + 1]
             /\ serving' = cmd /\ UNCHANGED to_client
      BY <2>1 DEF FwDecrypt
    <2>6. ASSUME NEW why \in {"NOSESSION", "AUTH"}, Answer(Err(why)), UNCHANGED <<pl, serving>>
          PROVE  Answered'
      <3>1. PICK b : b = Err(why)
        OBVIOUS
      <3>2. b \in Line /\ b.kind = "ERR"
        BY <3>1, LineTypes DEF Reason, Err
      <3>3. \A t \in Slot : AgreeAt(t, sessions[t])'
        BY <2>3, <2>6 DEF Agreed, AgreeAt
      <3>4. Fits(b)'
        BY <2>1, <2>3, <3>2, <3>3, RefusalFits
      <3> QED
        BY <2>1, <2>3, <2>6, <3>1, <3>2, <3>4, AnsweredBy
    <2>7. ASSUME Opens(pl[s], cmd), pl' = [pl EXCEPT ![s].rx = @ + 1],
                 fault, Answer(Err("AUTH")), UNCHANGED serving
          PROVE  Answered'
      <3>1. PICK b : b = Err("AUTH")
        OBVIOUS
      <3>2. b \in Line /\ b.kind = "ERR"
        BY <3>1, LineTypes DEF Reason, Err
      <3>3. Expected(b) => StaleProbe /\ churn.phase # "left"
        <4>1. Expected(b) => StaleProbe /\ b.why = IF churn.phase = "left" THEN "NOSESSION"
                                                   ELSE "AUTH"
          BY <2>1, <3>2 DEF Expected
        <4>2. b.why = "AUTH"
          BY <3>1 DEF Err
        <4> QED
          BY <4>1, <4>2
      <3>4. ASSUME Expected(b), NEW t \in Slot PROVE AgreeAt(t, sessions[t])'
        <4>1. AgreeAt(t, sessions[t])
          BY <2>3 DEF Agreed
        <4>2. CASE t = s
          <5>1. sessions[s].boot # boot
            BY <2>1, <2>3, <2>7, <3>3, <3>4, StaleOpened
          <5> QED
            BY <2>3, <4>2, <5>1 DEF AgreeAt
        <4>3. CASE t # s
          <5>1. pl'[t] = pl[t]
            BY <2>2, <2>7, <4>3
          <5> QED
            BY <2>3, <4>1, <5>1 DEF AgreeAt
        <4> QED
          BY <4>2, <4>3
      <3>5. Fits(b)'
        BY <2>1, <2>3, <3>2, <3>4, RefusalFits
      <3> QED
        BY <2>1, <2>3, <2>7, <3>1, <3>2, <3>5, AnsweredBy
    <2>8. ASSUME pl' = [pl EXCEPT ![s].rx = @ + 1], serving' = cmd, UNCHANGED to_client
          PROVE  Served'
      <3>1. OnlyUnasked'
        BY <2>3, <2>8 DEF OnlyUnasked, Unasked
      <3>2. ASSUME NEW t \in Slot PROVE HalfServed(t, sessions[t])'
        <4>1. AgreeAt(t, sessions[t])
          BY <2>3 DEF Agreed
        <4> HIDE DEF s
        <4>2. CASE t = s
          <5>1. pl' = [pl EXCEPT ![s] = Entry(pl[s].sid, pl[s].tx, pl[s].rx + 1)]
            BY <2>2, <2>8, CountedEntry, Zenon
          <5>2. pl'[t] = Entry(pl[t].sid, pl[t].tx, pl[t].rx + 1)
            BY <2>2, <4>2, <5>1
          <5>3. sessions[t] # None /\ sessions[t].boot = boot =>
                    pl'[t] = Entry(sessions[t].sid, sessions[t].rx, sessions[t].tx + 1)
            BY <4>1, <5>2 DEF AgreeAt, Entry
          <5> QED
            BY <2>3, <2>8, <4>1, <4>2, <5>3 DEF AgreeAt, HalfServed, s
        <4>3. CASE t # s
          <5>1. pl'[t] = pl[t]
            BY <2>2, <2>8, <4>3
          <5> QED
            BY <2>3, <2>8, <4>1, <4>3, <5>1 DEF AgreeAt, HalfServed, s
        <4> QED
          BY <4>2, <4>3
      <3> QED
        BY <2>1, <2>2, <2>3, <2>8, <3>1, <3>2 DEF Served
    <2>9. Served' \/ Answered'
      BY <2>5, <2>6, <2>7, <2>8
    <2>10. ~FwStatus /\ ~FwQuit
      BY <2>1 DEF FwStatus, FwQuit, Takes
    <2> QED
      BY <2>1, <2>4, <2>9, <2>10, WaitDialogue DEF Firmware
  <1> QED
    BY <1>1, <1>2

\* The client never waits for the answer to /quit.
LEMMA QuitNotAwaited ==
    ASSUME Types, Asking, client = "wait"
    PROVE  cmd.op # "QUIT"
  <1>1. CASE churn = None
    BY <1>1 DEF Asking, Awaiting
  <1>2. CASE churn # None
    <2>1. churn.phase \in Phase
      BY <1>2, ChurnFields
    <2> QED
      BY <1>2, <2>1 DEF Asking, Awaiting, Phase, Packet
  <1> QED
    BY <1>1, <1>2

\* An echo counts as many packets as the client will when it reads it.
LEMMA EncryptDialogue ==
    ASSUME Types, Asking, Dialogue, FwEncrypt
    PROVE  Dialogue'
  <1>1. CASE client = "down"
    BY <1>1, DownDialogue DEF Firmware
  <1>2. CASE client # "down"
    <2> DEFINE s == cmd.slot
               e == pl[s]
    <2>1. client = "wait" /\ Served /\ serving = cmd /\ to_board = <<>> /\ OnlyUnasked
      BY <1>2, PcValues DEF FwEncrypt, Dialogue, Resting, InFlight, Unsent, Served, Answered
    <2>2. /\ cmd \in Commands /\ cmd # None /\ cmd.op = "DATA" /\ s \in Slot
          /\ cmd.body \in Payload
          /\ pl \in [Slot -> [sid : SessionId, tx : Nat, rx : Nat]]
          /\ sessions \in [Slot -> Session \cup {None}]
      BY <2>1, CommandFields, PcValues DEF Types, Typed, Served
    <2>3. /\ UNCHANGED <<client, cmd, sessions, churn, boot, session_generation, fault,
                         session_active, session_id, to_board>>
          /\ serving' = None /\ pl' = [pl EXCEPT ![s].tx = @ + 1]
          /\ Answer(IF fault THEN Err("TX")
                    ELSE [kind |-> "RESP", slot |-> s, ctr |-> e.tx, sid |-> e.sid,
                          body |-> cmd.body])
      BY <2>1 DEF FwEncrypt, NoneElse, pc
    <2>4. ChurnApart'
      BY <2>1, <2>3, ChurnApartKept DEF Dialogue
    <2>5. ASSUME fault PROVE Answered'
      <3>1. PICK b : b = Err("TX")
        OBVIOUS
      <3>2. b \in Line /\ b.kind = "ERR" /\ b.why = "TX" /\ Answer(b)
        BY <2>3, <2>5, <3>1, LineTypes DEF Reason, Err
      <3>3. ~Expected(b)
        BY <2>2, <3>2 DEF Expected
      <3>4. Fits(b)'
        BY <2>1, <2>3, <3>2, <3>3, RefusalFits
      <3> QED
        BY <2>1, <2>2, <2>3, <3>2, <3>4, AnsweredBy
    <2>6. ASSUME ~fault PROVE Answered'
      <3>1. PICK b : b = [kind |-> "RESP", slot |-> s, ctr |-> e.tx, sid |-> e.sid,
                          body |-> cmd.body]
        OBVIOUS
      <3>2. e.tx \in Nat /\ e.sid \in SessionId
        BY <2>2
      <3>3. b \in Line /\ b.kind = "RESP" /\ Answer(b)
        BY <2>2, <2>3, <2>6, <3>1, <3>2, LineTypes
      <3>4. ASSUME Expected(b), NEW t \in Slot PROVE AgreeAt(t, Updated(b)[t])'
        <4>1. cmd.body # "stale"
          BY <2>2, <3>3, <3>4 DEF Expected, StaleProbe
        <4>2. HalfServed(t, sessions[t])
          BY <2>1, <4>1 DEF Served
        <4>3. /\ sessions[s] # None
              /\ Updated(b) = [sessions EXCEPT ![s] =
                      [sid |-> sessions[s].sid, tx |-> sessions[s].tx + 1,
                       rx |-> sessions[s].rx + 1, boot |-> sessions[s].boot]]
          BY <2>1, <2>2, <3>3, <3>4, UpdatedTo
        <4>4. Updated(b)' = Updated(b)
          BY <2>3, PcFrame
        <4> HIDE DEF s
        <4>5. CASE t = s
          <5> DEFINE held == Updated(b)[t]
          <5>1. /\ held.sid = sessions[s].sid /\ held.tx = sessions[s].tx + 1
                /\ held.rx = sessions[s].rx + 1 /\ held.boot = sessions[s].boot
            BY <2>2, <4>3, <4>5
          <5>2. pl' = [pl EXCEPT ![s] = Entry(pl[s].sid, pl[s].tx + 1, pl[s].rx)]
            BY <2>2, <2>3, CountedEntry, Zenon
          <5>3. pl'[s] = Entry(pl[s].sid, pl[s].tx + 1, pl[s].rx)
            BY <2>2, <5>2
          <5>4. sessions[s].boot = boot =>
                  /\ s \in session_active /\ session_id[s] = sessions[s].sid
                  /\ pl[s] = Entry(sessions[s].sid, sessions[s].rx, sessions[s].tx + 1)
            BY <2>1, <4>2, <4>3, <4>5 DEF HalfServed, s
          <5>5. sessions[s].boot = boot =>
                  pl'[s] = Entry(sessions[s].sid, sessions[s].rx + 1, sessions[s].tx + 1)
            BY <5>3, <5>4 DEF Entry
          <5>6. held' = held
            BY <4>4
          <5> HIDE DEF held
          <5>7. AgreeAt(t, held)'
            BY <2>3, <4>5, <5>1, <5>4, <5>5, <5>6 DEF AgreeAt
          <5> QED
            BY <5>7 DEF held
        <4>6. CASE t # s
          <5>1. pl'[t] = pl[t] /\ Updated(b)[t] = sessions[t]
            BY <2>2, <2>3, <4>3, <4>6
          <5> QED
            BY <2>1, <2>3, <4>2, <4>4, <4>6, <5>1 DEF AgreeAt, HalfServed, s
        <4> QED
          BY <4>5, <4>6
      <3>5. Fits(b)'
        <4>1. Expected(b)' <=> Expected(b)
          BY <2>3, PcFrame
        <4> QED
          BY <3>3, <3>4, <4>1 DEF Fits
      <3> QED
        BY <2>1, <2>2, <2>3, <3>3, <3>5, AnsweredBy
    <2>7. Answered'
      BY <2>5, <2>6
    <2>8. ~FwStatus /\ ~FwQuit
      BY <2>1, <2>2 DEF FwStatus, FwQuit, Takes
    <2> QED
      BY <2>1, <2>3, <2>4, <2>7, <2>8, WaitDialogue DEF Firmware
  <1> QED
    BY <1>1, <1>2

\* Every step of the firmware keeps the agreement.
LEMMA FirmwareDialogue ==
    ASSUME Types, Asking, Dialogue, Types', Firmware
    PROVE  Dialogue'
  <1>1. CASE FwStatus
    <2>1. /\ UNCHANGED <<running, client, cmd, sessions, churn, boot, session_active,
                         session_id, session_generation, pl, serving, fault>>
          /\ to_board # <<>> /\ to_board' = Tail(to_board)
          /\ Answer([kind |-> "STATUS"]) /\ running
      BY <1>1 DEF FwStatus, Takes, NoneElse, board, pc
    <2> QED
      BY <2>1, LineDialogue
  <1>2. CASE FwQuit
    <2>1. client = "down"
      BY <1>2, Located, QuitNotAwaited DEF FwQuit
    <2> QED
      BY <2>1, DownDialogue
  <1> QED
    BY <1>1, <1>2, OpenDialogue, LeaveDialogue, DecryptDialogue, EncryptDialogue DEF Firmware

-----------------------------------------------------------------------------
(* Agreement: the line, faults and restarts. *)

\* A session held since before a restart owes nothing to the board started over.
LEMMA RestartDialogue ==
    ASSUME Types, Asking, Dialogue, BoardRestart
    PROVE  Dialogue'
  <1>0. /\ boot \in Nat /\ boot' = boot + 1 /\ running' = TRUE /\ session_active' = {}
        /\ serving' = None
        /\ UNCHANGED <<to_board, to_client, client, cmd, sessions, churn>>
        /\ to_client \in Seq(Line) /\ sessions \in [Slot -> Session \cup {None}]
    BY PcValues DEF BoardRestart, uart, pc, Types, Typed
  <1>1. \A s \in Slot : sessions[s] # None => sessions[s].boot \in Nat /\ sessions[s].boot <= boot
    BY HeldFields DEF Asking, Announced
  <1>2. Agreed'
    BY <1>0, <1>1 DEF Agreed, AgreeAt
  <1>3. (StatusOnly => StatusOnly') /\ (OnlyUnasked => OnlyUnasked')
    BY <1>0 DEF StatusOnly, OnlyUnasked, Unasked
  <1>4. Resting'
    BY <1>0, <1>2, <1>3 DEF Dialogue, Resting
  <1>5. InFlight'
    <2> SUFFICES ASSUME client = "wait" PROVE (Unsent \/ Answered)'
      BY <1>0 DEF InFlight
    <2>1. CASE Unsent
      BY <1>0, <1>2, <1>3, <2>1 DEF Unsent
    <2>2. CASE Served
      <3>1. Dropped
        BY <1>0, NothingDropped
      <3>2. Answered'
        BY <1>0, <1>2, <2>2, <3>1, AnsweredBy DEF Served
      <3> QED
        BY <3>2
    <2>3. CASE Answered
      <3>1. ASSUME NEW a \in Line, Arriving(a) PROVE Fits(a)'
        <4>1. (Expected(a)' <=> Expected(a)) /\ Updated(a)' = Updated(a)
          BY <1>0, PcFrame
        <4>2. a.kind = "READY" => a.boot \in Nat /\ a.boot <= boot
          BY <3>1, LineFields DEF Arriving, Asking, Announced
        <4>3. ASSUME Expected(a), NEW t \in Slot
              PROVE  Updated(a)[t] # None => Updated(a)[t].boot # boot + 1
          <5> DEFINE u == Updated(a)
          <5>1. \/ u = sessions
                \/ /\ a.kind = "READY"
                   /\ u = [sessions EXCEPT ![cmd.slot] =
                              [sid |-> a.sid, tx |-> 0, rx |-> 0, boot |-> a.boot]]
                \/ u = [sessions EXCEPT ![cmd.slot] = None]
                \/ /\ cmd.slot \in Slot /\ sessions[cmd.slot] # None
                   /\ u = [sessions EXCEPT ![cmd.slot] =
                              [sid |-> sessions[cmd.slot].sid, tx |-> sessions[cmd.slot].tx + 1,
                               rx |-> sessions[cmd.slot].rx + 1,
                               boot |-> sessions[cmd.slot].boot]]
            BY <4>3, UpdatedTo
          <5> HIDE DEF u
          <5>2. \/ u[t] = sessions[t] \/ u[t] = None
                \/ a.kind = "READY" /\ u[t].boot = a.boot
                \/ /\ sessions[t] # None /\ u[t].boot = sessions[t].boot
            BY <1>0, <4>3, <5>1
          <5>3. u[t] # None => u[t].boot # boot + 1
            BY <1>0, <1>1, <4>2, <4>3, <5>2
          <5> QED
            BY <5>3 DEF u
        <4>4. Expected(a)' => \A t \in Slot : AgreeAt(t, Updated(a)[t])'
          BY <1>0, <4>1, <4>3 DEF AgreeAt
        <4>5. a.kind = "READY" => Apart(a)'
          BY <1>0, <4>2 DEF Apart
        <4> QED
          BY <4>4, <4>5 DEF Fits
      <3>2. \A a \in Line : Arriving(a)' => Fits(a)'
        BY <1>0, <3>1 DEF Arriving
      <3>3. \A i, j \in DOMAIN to_client' :
                i # j => Unasked(to_client'[i]) \/ Unasked(to_client'[j])
        BY <1>0, <2>3 DEF Answered
      <3> QED
        BY <1>0, <1>3, <2>3, <3>2, <3>3 DEF Answered, Unasked
    <2> QED
      BY <2>1, <2>2, <2>3 DEF Dialogue, InFlight
  <1>6. Stopped' /\ LastId'
    BY <1>0 DEF Stopped, LastId
  <1>7. QuitLast'
    BY <1>0 DEF Dialogue, QuitLast
  <1>8. ChurnApart'
    <2> SUFFICES ASSUME churn # None, churn.phase = "rejoined"
                 PROVE  Apart(sessions[churn.slot])'
      BY <1>0 DEF ChurnApart
    <2>1. sessions[churn.slot] # None /\ churn.slot \in Slot
      BY ChurnFields DEF Asking, Awaiting
    <2> QED
      BY <1>0, <1>1, <2>1 DEF Apart
  <1> QED
    BY <1>4, <1>5, <1>6, <1>7, <1>8 DEF Dialogue

\* The faults the model raises between handshakes are those of the first start.
LEMMA EnvironmentDialogue ==
    ASSUME Types, Asking, Dialogue, Types', Environment, GLITCHES \subseteq {0}
    PROVE  Dialogue'
  <1>0. Err("CMD") \in Line
    BY LineTypes DEF Reason
  <1>1. CASE Glitch
    <2>1. /\ boot = 0
          /\ UNCHANGED <<running, client, cmd, sessions, churn, boot, session_active,
                         session_id, session_generation, pl, serving, to_board, to_client>>
      BY <1>1 DEF Glitch, board, uart, pc, history
    <2> QED
      BY <2>1, NothingDropped, LineDialogue
  <1>2. CASE BoardRestart
    BY <1>2, RestartDialogue
  <1>3. CASE LoseCommand
    <2>1. /\ to_board # <<>> /\ to_board' = Tail(to_board)
          /\ UNCHANGED <<running, client, cmd, sessions, churn, boot, session_active,
                         session_id, session_generation, pl, serving, to_client, fault>>
      BY <1>3 DEF LoseCommand, board, pc, history
    <2> QED
      BY <2>1, NothingDropped, LineDialogue
  <1>4. CASE LoseAnswer
    <2>1. /\ to_client # <<>> /\ to_client' = Tail(to_client)
          /\ UNCHANGED <<running, client, cmd, sessions, churn, boot, session_active,
                         session_id, session_generation, pl, serving, to_board, fault>>
      BY <1>4 DEF LoseAnswer, board, pc, history
    <2> QED
      BY <2>1, HeadDropped, LineDialogue
  <1>5. CASE FwNoise
    <2>1. /\ running /\ Answer(Err("CMD"))
          /\ UNCHANGED <<running, client, cmd, sessions, churn, boot, session_active,
                         session_id, session_generation, pl, serving, to_board, fault>>
      BY <1>5 DEF FwNoise, board, pc, history
    <2> QED
      BY <2>1, LineDialogue
  <1> QED
    BY <1>1, <1>2, <1>3, <1>4, <1>5 DEF Environment

-----------------------------------------------------------------------------
(* Agreement: the steps of the client. *)

\* A command sent with nothing but old questions about the status before it.
LEMMA SendDialogue ==
    ASSUME Types, NEW c \in Commands, Send(c), c.op # "QUIT",
           UNCHANGED <<sessions, BoardSide>>,
           StatusOnly, OnlyUnasked', serving = None, Agreed, LastId,
           ~running => c.op = "STATUS" /\ to_client' = <<>>,
           ChurnApart'
    PROVE  Dialogue'
  <1>0. UNCHANGED <<running, session_active, session_generation, session_id, serving, pl, boot>>
    BY DEF BoardSide, board
  <1>1. /\ to_board' # <<>> /\ to_board'[Len(to_board')] = c /\ cmd' = c /\ client' = "wait"
        /\ \A i \in DOMAIN to_board' : i # Len(to_board') => to_board'[i].op = "STATUS"
        /\ \A i \in DOMAIN to_board' : to_board'[i] = c \/ to_board'[i].op = "STATUS"
    <2>1. /\ cmd' = c /\ client' = "wait" /\ to_board' # <<>>
          /\ Len(to_board) \in Nat /\ DOMAIN to_board = 1 .. Len(to_board)
          /\ DOMAIN to_board' = 1 .. Len(to_board) + 1 /\ Len(to_board') = Len(to_board) + 1
          /\ \A i \in DOMAIN to_board : to_board'[i] = to_board[i]
          /\ to_board'[Len(to_board) + 1] = c
      BY Sent
    <2>2. \A i \in DOMAIN to_board' : i # Len(to_board') => to_board'[i].op = "STATUS"
      BY <2>1 DEF StatusOnly
    <2> QED
      BY <2>1, <2>2
  <1>2. Agreed'
    BY <1>0 DEF Agreed, AgreeAt
  <1>3. Unsent'
    BY <1>0, <1>1, <1>2 DEF Unsent
  <1>4. Resting' /\ InFlight'
    BY <1>1, <1>3 DEF Resting, InFlight
  <1>5. Stopped'
    BY <1>0, <1>1 DEF Stopped, StatusOnly
  <1>6. QuitLast'
    BY <1>1 DEF QuitLast
  <1>7. LastId'
    BY <1>0 DEF LastId
  <1> QED
    BY <1>4, <1>5, <1>6, <1>7 DEF Dialogue

\* What holds before a command of a client that is not waiting.
LEMMA AtRest ==
    ASSUME Types, Asking, Dialogue, client \in {"prompt", "churn"}, UNCHANGED to_client
    PROVE  /\ StatusOnly /\ OnlyUnasked' /\ serving = None /\ Agreed /\ LastId /\ running
           /\ client = "prompt" => churn = None
  BY DEF Dialogue, Resting, Stopped, OnlyUnasked, Unasked, Asking, Awaiting

\* A client that starts after every answer is in finds nothing but its own status.
LEMMA StartDialogue ==
    ASSUME Types, Asking, Dialogue, ClientStart, LATE = FALSE, Types'
    PROVE  Dialogue'
  <1>1. /\ client = "down" /\ to_client = <<>> /\ serving = None
        /\ (running => to_board = <<>>)
        /\ Send([op |-> "STATUS"]) /\ UNCHANGED <<sessions, churn, BoardSide>>
    BY DEF ClientStart, Quiet
  <1>2. churn = None /\ sessions = NoSessions
    BY <1>1 DEF Asking, Awaiting
  <1>3. StatusOnly
    BY <1>1 DEF Dialogue, Stopped, StatusOnly, ClientStart, Quiet
  <1>4. to_client' = <<>>
    <2>1. DOMAIN to_client' = {}
      <3>1. Dropped /\ DOMAIN to_client = {}
        BY <1>1, StartDropped DEF ClientStart, Quiet
      <3> QED
        BY <3>1 DEF Dropped
    <2>2. to_client' \in Seq(Line)
      BY DEF Types, Typed
    <2> QED
      BY <2>1, <2>2
  <1>5. OnlyUnasked' /\ Agreed /\ ChurnApart'
    BY <1>1, <1>2, <1>4 DEF OnlyUnasked, Agreed, AgreeAt, NoSessions, ChurnApart
  <1>6. serving = None /\ LastId
    BY DEF ClientStart, Quiet, Dialogue
  <1>7. PICK c : c = [op |-> "STATUS"]
    OBVIOUS
  <1>8. c \in Commands /\ c.op = "STATUS" /\ Send(c) /\ UNCHANGED <<sessions, BoardSide>>
    BY <1>7, CommandTypes DEF ClientStart
  <1> QED
    BY <1>3, <1>4, <1>5, <1>6, <1>8, SendDialogue

\* /quit is the last command a client sends.
LEMMA QuitDialogue ==
    ASSUME Types, Asking, Dialogue, UserQuit
    PROVE  Dialogue'
  <1>1. /\ client = "prompt" /\ client' = "down" /\ UNCHANGED <<to_client, churn>>
        /\ to_board' = Append(to_board, [op |-> "QUIT"])
        /\ UNCHANGED <<running, session_active, session_generation, session_id>>
    BY DEF UserQuit, BoardSide, board
  <1>2. StatusOnly /\ LastId /\ running /\ churn = None
    BY <1>1, AtRest
  <1>3. QuitLast'
    <2>1. /\ Len(to_board) \in Nat /\ DOMAIN to_board = 1 .. Len(to_board)
          /\ DOMAIN to_board' = 1 .. Len(to_board) + 1 /\ Len(to_board') = Len(to_board) + 1
          /\ \A i \in DOMAIN to_board : to_board'[i] = to_board[i]
      BY <1>1, PcValues, CommandTypes, AppendIndex
    <2> QED
      BY <1>1, <1>2, <2>1 DEF QuitLast, StatusOnly
  <1> QED
    BY <1>1, <1>2, <1>3 DEF Dialogue, Resting, InFlight, Stopped, LastId, ChurnApart

\* The session a /churn leaves was opened with the id before the next one.
LEMMA ChurnDialogue ==
    ASSUME Types, Asking, Dialogue, NEW s \in Slot, UserChurn(s), GENERATIONS > 1
    PROVE  Dialogue'
  <1>1. /\ client = "prompt" /\ sessions[s] # None /\ UNCHANGED <<to_client, sessions, BoardSide>>
        /\ Send([op |-> "LEAVE", slot |-> s])
        /\ churn' = [phase |-> "leaving", slot |-> s, old |-> sessions[s]]
    BY DEF UserChurn
  <1>2. StatusOnly /\ OnlyUnasked' /\ serving = None /\ Agreed /\ LastId /\ running
    BY <1>1, AtRest
  <1>3. boot = 0 => make_session_id(s, session_generation[s]) # sessions[s].sid
    <2> SUFFICES ASSUME boot = 0
                 PROVE  make_session_id(s, session_generation[s]) # sessions[s].sid
      OBVIOUS
    <2>1. sessions[s].boot \in Nat /\ sessions[s].boot <= boot
      BY <1>1, HeldFields DEF Asking, Announced
    <2>2. s \in session_active /\ session_id[s] = sessions[s].sid
      BY <1>1, <1>2, <2>1 DEF Agreed, AgreeAt
    <2>3. /\ session_generation[s] > 0
          /\ sessions[s].sid = make_session_id(s, session_generation[s] - 1)
      BY <1>2, <2>2 DEF LastId
    <2>4. session_generation[s] \in Nat
      BY DEF Types, TypeOK
    <2> QED
      BY <2>3, <2>4, NextIdDiffers
  <1>4. ChurnApart'
    <2>1. UNCHANGED <<session_generation, boot>>
      BY <1>1 DEF BoardSide, board
    <2>2. churn'.slot = s /\ churn'.old = sessions[s] /\ churn'.phase = "leaving"
      BY <1>1
    <2>3. boot = 0 => NextId' # churn'.old.sid
      BY <1>3, <2>1, <2>2 DEF NextId, make_session_id
    <2> QED
      BY <2>1, <2>2, <2>3 DEF ChurnApart
  <1>5. PICK c : c = [op |-> "LEAVE", slot |-> s]
    OBVIOUS
  <1>6. c \in Commands /\ c.op = "LEAVE" /\ Send(c)
    BY <1>1, <1>5, CommandTypes
  <1> QED
    BY <1>1, <1>2, <1>4, <1>6, SendDialogue

\* The steps of /churn send one command each, its session known to both sides.
LEMMA ChurnStepDialogue ==
    ASSUME Types, Asking, Dialogue, ChurnStep
    PROVE  Dialogue'
  <1>1. client = "churn" /\ UNCHANGED <<to_client, sessions, BoardSide>>
    BY DEF ChurnStep, ChurnStale, ChurnJoin, ChurnEcho
  <1>2. /\ StatusOnly /\ OnlyUnasked' /\ serving = None /\ Agreed /\ LastId /\ running
        /\ ChurnApart /\ UNCHANGED <<boot, fault, session_generation>>
    BY <1>1, AtRest DEF Dialogue, BoardSide, board
  <1>3. churn # None /\ churn.slot \in Slot /\ churn.old \in Session
    BY <1>1, ChurnFields DEF Asking, Awaiting
  <1>4. CASE ChurnStale
    <2>1. PICK c : c = Packet(churn.slot, churn.old, "stale")
      OBVIOUS
    <2>2. c \in Commands /\ c.op = "DATA" /\ Send(c)
      BY <1>3, <1>4, <2>1, PacketType DEF ChurnStale, Payload
    <2>3. UNCHANGED churn /\ churn.phase \in {"left", "rejoined"}
      BY <1>4 DEF ChurnStale
    <2>4. JoinAhead' => JoinAhead
      BY <2>3 DEF JoinAhead
    <2>5. ChurnApart'
      BY <1>1, <1>2, <2>3, <2>4 DEF ChurnApart, NextId, Apart
    <2> QED
      BY <1>1, <1>2, <2>2, <2>5, SendDialogue
  <1>5. CASE ChurnJoin
    <2>1. PICK c : c = [op |-> "OPEN", slot |-> churn.slot]
      OBVIOUS
    <2>2. c \in Commands /\ c.op = "OPEN" /\ Send(c)
      BY <1>3, <1>5, <2>1, CommandTypes DEF ChurnJoin
    <2>3. UNCHANGED churn /\ churn.phase = "refused" /\ JoinAhead
      BY <1>1, <1>5 DEF ChurnJoin, JoinAhead
    <2>4. ChurnApart'
      BY <1>1, <1>2, <2>3 DEF ChurnApart, NextId, Apart
    <2> QED
      BY <1>1, <1>2, <2>2, <2>4, SendDialogue
  <1>6. CASE ChurnEcho
    <2>1. PICK body \in Body : Send(Packet(churn.slot, sessions[churn.slot], body))
      BY <1>6 DEF ChurnEcho
    <2>2. PICK c : c = Packet(churn.slot, sessions[churn.slot], body)
      OBVIOUS
    <2>3. sessions[churn.slot] # None
      BY <1>3, <1>6 DEF ChurnEcho, Asking, Awaiting
    <2>4. c \in Commands /\ c.op = "DATA" /\ Send(c)
      BY <1>3, <2>1, <2>2, <2>3, HeldFields, PacketType DEF Payload
    <2>5. ChurnApart'
      BY <1>6 DEF ChurnEcho, ChurnApart
    <2> QED
      BY <1>1, <1>2, <2>4, <2>5, SendDialogue
  <1> QED
    BY <1>4, <1>5, <1>6 DEF ChurnStep

\* Every command of the user keeps the agreement.
LEMMA UserDialogue ==
    ASSUME Types, Asking, Dialogue, User, Types', LATE = FALSE, GENERATIONS > 1
    PROVE  Dialogue'
  <1>1. ASSUME NEW c \in Commands, Send(c), c.op # "QUIT", client = "prompt",
               UNCHANGED <<to_client, sessions, churn, BoardSide>>
        PROVE  Dialogue'
    <2>1. /\ StatusOnly /\ OnlyUnasked' /\ serving = None /\ Agreed /\ LastId /\ running
          /\ churn = None
      BY <1>1, AtRest
    <2>2. ChurnApart'
      BY <1>1, <2>1 DEF ChurnApart
    <2> QED
      BY <1>1, <2>1, <2>2, SendDialogue
  <1>2. CASE UserStatus
    <2>1. PICK c : c = [op |-> "STATUS"]
      OBVIOUS
    <2>2. c \in Commands /\ c.op = "STATUS" /\ Send(c)
      BY <1>2, <2>1, CommandTypes DEF UserStatus
    <2> QED
      BY <1>1, <1>2, <2>2 DEF UserStatus
  <1>3. ASSUME NEW s \in Slot, UserJoin(s) PROVE Dialogue'
    <2>1. PICK c : c = [op |-> "OPEN", slot |-> s]
      OBVIOUS
    <2>2. c \in Commands /\ c.op = "OPEN" /\ Send(c)
      BY <1>3, <2>1, CommandTypes DEF UserJoin
    <2> QED
      BY <1>1, <1>3, <2>2 DEF UserJoin
  <1>4. ASSUME NEW s \in Slot, UserLeave(s) PROVE Dialogue'
    <2>1. PICK c : c = [op |-> "LEAVE", slot |-> s]
      OBVIOUS
    <2>2. c \in Commands /\ c.op = "LEAVE" /\ Send(c)
      BY <1>4, <2>1, CommandTypes DEF UserLeave
    <2> QED
      BY <1>1, <1>4, <2>2 DEF UserLeave
  <1>5. ASSUME NEW s \in Slot, NEW body \in Body, UserEcho(s, body) PROVE Dialogue'
    <2>1. PICK c : c = Packet(s, sessions[s], body)
      OBVIOUS
    <2>2. c \in Commands /\ c.op = "DATA" /\ Send(c)
      BY <1>5, <2>1, HeldFields, PacketType DEF UserEcho, Payload
    <2> QED
      BY <1>1, <1>5, <2>2 DEF UserEcho
  <1> QED
    BY <1>2, <1>3, <1>4, <1>5, StartDialogue, QuitDialogue, ChurnDialogue DEF User

\* A client that exits holds nothing to agree on.
LEMMA ExitDialogue ==
    ASSUME Types, Dialogue, Exit, UNCHANGED <<to_board, BoardSide>>
    PROVE  Dialogue'
  <1>1. client' = "down" /\ churn' = None
        /\ UNCHANGED <<running, session_active, session_generation, session_id>>
    BY DEF Exit, BoardSide, board
  <1>2. Stopped' /\ QuitLast' /\ LastId'
    BY <1>1 DEF Dialogue, Stopped, StatusOnly, QuitLast, LastId
  <1> QED
    BY <1>1, <1>2 DEF Dialogue, Resting, InFlight, ChurnApart

\* An accepted answer is a status nobody else can have asked for, or the one line that
\* answers the command.
LEMMA ReceiveDialogue ==
    ASSUME Types, Asking, Dialogue, Receive
    PROVE  Dialogue'
  <1> DEFINE a == Head(to_client)
  <1>0. /\ client = "wait" /\ a \in Line /\ a = to_client[1] /\ 1 \in DOMAIN to_client
        /\ to_client # <<>> /\ Arriving(a)
        /\ \A i \in DOMAIN to_client' :
              i \in Nat /\ i + 1 \in DOMAIN to_client /\ to_client'[i] = to_client[i + 1]
        /\ UNCHANGED <<to_board, BoardSide>>
        /\ UNCHANGED <<running, session_active, session_generation, session_id, serving>>
        /\ UNCHANGED <<pl, fault, boot>>
        /\ Dropped
    BY Read, ClientDrops DEF Arriving
  <1>1. CASE Exit
    BY <1>0, <1>1, ExitDialogue
  <1>2. CASE ~Exit
    <2>1. Expected(a) /\ sessions' = Updated(a) /\ client' \in {"prompt", "churn"}
      BY <1>2, Accepted
    <2>2. InFlight
      BY DEF Dialogue
    <2> HIDE DEF a
    <2>3. running
      BY <1>0 DEF Dialogue, Stopped
    <2>4. Unasked(a) => cmd.op = "STATUS" /\ Updated(a) = sessions /\ a.kind # "READY"
      BY <1>0, <2>1, UnaskedExpected
    <2>5. OnlyUnasked => Unasked(a)
      BY <1>0 DEF OnlyUnasked
    <2>6. ~Served
      BY <2>4, <2>5 DEF Served, Types, Typed
    <2>7. serving = None /\ StatusOnly
      BY <1>0, <2>2, <2>4, <2>5, <2>6 DEF InFlight, Unsent, Answered, StatusOnly
    <2>8. Agreed'
      <3>1. \A t \in Slot : AgreeAt(t, Updated(a)[t])
        BY <1>0, <2>1, <2>2, <2>4, <2>5, <2>6 DEF InFlight, Unsent, Answered, Fits, Agreed
      <3> QED
        BY <1>0, <2>1, <3>1 DEF Agreed, AgreeAt
    <2>9. OnlyUnasked'
      <3>1. CASE OnlyUnasked
        BY <1>0, <3>1, UnaskedKept
      <3>2. CASE ~OnlyUnasked
        <4>1. Answered /\ cmd.op # "STATUS"
          BY <1>0, <2>2, <2>6, <3>2 DEF InFlight, Unsent, Answered
        <4>2. ~Unasked(a)
          BY <2>4, <4>1
        <4>3. \A i \in DOMAIN to_client : i # 1 => Unasked(to_client[i])
          BY <1>0, <4>1, <4>2 DEF Answered
        <4>4. \A i \in DOMAIN to_client' : i + 1 # 1 /\ Unasked(to_client[i + 1])
          <5>1. to_client' \in Seq(Line)
            BY Read
          <5>2. \A i \in DOMAIN to_client' : i + 1 # 1
            BY <5>1
          <5> QED
            BY <1>0, <4>3, <5>2
        <4> QED
          BY <1>0, <4>4 DEF OnlyUnasked, Unasked
      <3> QED
        BY <3>1, <3>2
    <2>10. Resting' /\ InFlight'
      BY <1>0, <2>1, <2>7, <2>8, <2>9 DEF Resting, InFlight, StatusOnly
    <2>11. Stopped' /\ LastId'
      BY <1>0, <2>3 DEF Stopped, Dialogue, LastId
    <2>12. QuitLast'
      BY <1>0, <2>7 DEF QuitLast, StatusOnly
    <2>13. ChurnApart'
      <3>1. CASE churn = None
        BY <1>2, <3>1, Accepted DEF ChurnApart
      <3>2. CASE churn # None
        <4>1. /\ client' = "churn"
              /\ churn'.slot = churn.slot /\ churn'.old = churn.old
              /\ churn.phase \in Phase /\ churn.phase # "probed"
              /\ churn.phase = "leaving" => churn'.phase = "left"
              /\ churn.phase = "left" => churn'.phase = "refused"
              /\ churn.phase = "refused" => churn'.phase = "rejoined" /\ cmd.op = "OPEN"
                                            /\ cmd.slot = churn.slot
              /\ churn.phase = "rejoined" => churn'.phase = "probed"
          BY <1>2, <3>2, Accepted
        <4>2. CASE churn.phase \in {"leaving", "left"}
          <5>1. JoinAhead
            BY <4>2 DEF JoinAhead
          <5>2. boot = 0 => NextId # churn.old.sid
            BY <3>2, <5>1 DEF Dialogue, ChurnApart
          <5>3. NextId' = NextId
            BY <1>0, <4>1 DEF NextId
          <5> QED
            BY <1>0, <4>1, <4>2, <5>2, <5>3 DEF ChurnApart
        <4>3. CASE churn.phase = "refused"
          <5>1. /\ cmd.op = "OPEN" /\ a.kind = "READY" /\ cmd.slot \in Slot
                /\ cmd.slot = churn.slot
                /\ Updated(a) = [sessions EXCEPT ![cmd.slot] =
                                    [sid |-> a.sid, tx |-> 0, rx |-> 0, boot |-> a.boot]]
            BY <1>0, <2>1, <4>1, <4>3, UpdatedTo DEF StaleProbe
          <5>2. Answered
            BY <1>0, <2>2, <2>4, <2>5, <2>6, <5>1 DEF InFlight, Unsent
          <5>3. Apart(a)
            BY <1>0, <3>2, <5>1, <5>2 DEF Answered, Fits
          <5>4. sessions'[churn.slot].sid = a.sid /\ sessions'[churn.slot].boot = a.boot
            BY <2>1, <5>1, PcValues
          <5>5. Apart(sessions[churn.slot])'
            BY <1>0, <4>1, <5>3, <5>4 DEF Apart
          <5> QED
            BY <4>1, <4>3, <5>5 DEF ChurnApart, JoinAhead
        <4>4. CASE churn.phase = "rejoined"
          BY <4>1, <4>4 DEF ChurnApart, JoinAhead
        <4> QED
          BY <4>1, <4>2, <4>3, <4>4 DEF Phase
      <3> QED
        BY <3>1, <3>2
    <2> QED
      BY <2>10, <2>11, <2>12, <2>13 DEF Dialogue
  <1> QED
    BY <1>1, <1>2

\* At the start there is nothing to agree on.
LEMMA InitDialogue == Init => Dialogue
  BY DEF Init, Dialogue, Resting, InFlight, Stopped, QuitLast, LastId, ChurnApart, StatusOnly

\* Under the hypotheses of the agreement every step keeps it.
LEMMA StepDialogue ==
    ASSUME Types, Asking, Dialogue, [Next]_vars, Types',
           LATE = FALSE, GENERATIONS > 1, GLITCHES \subseteq {0}
    PROVE  Dialogue'
  <1>1. CASE Timeout \/ Interrupt
    BY <1>1, ExitDialogue DEF Timeout, Interrupt, uart
  <1>2. CASE UNCHANGED vars
    BY <1>2 DEF vars, board, uart, pc, history, Dialogue, Resting, InFlight, Stopped, QuitLast,
       LastId, ChurnApart, JoinAhead, NextId, Apart, Unsent, Served, HalfServed, Answered,
       Arriving, Fits, Expected, Updated, StaleProbe, Counted, StatusOnly, OnlyUnasked,
       Unasked, Agreed, AgreeAt
  <1> QED
    BY <1>1, <1>2, FirmwareDialogue, UserDialogue, ChurnStepDialogue, ReceiveDialogue,
       EnvironmentDialogue DEF Next

\* A client at rest agrees with both parts of the board.
LEMMA DialogueAgrees == Dialogue => SessionsAgree
  BY DEF Dialogue, Resting, Agreed, AgreeAt, SessionsAgree

\* Whatever commands, answers and echoes are lost, whatever noise comes in between, and
\* however often the board restarts and the client exits, a session the client holds is
\* the firmware's and the logic's, with the counters of the two sides equal.  Without
\* the hypotheses it fails: a late answer is taken for another's (LATE), the one value
\* of the generation field is every session's, and a fault raised after a restart has
\* the logic count a packet of the session of the same id before it.
THEOREM AgreementKept ==
    LATE = FALSE /\ GENERATIONS > 1 /\ GLITCHES \subseteq {0} => (Spec => []SessionsAgree)
  <1> SUFFICES ASSUME LATE = FALSE, GENERATIONS > 1, GLITCHES \subseteq {0}
               PROVE  Spec => []SessionsAgree
    OBVIOUS
  <1>1. Init => Dialogue
    BY InitDialogue
  <1>2. Types /\ Asking /\ Types' /\ Dialogue /\ [Next]_vars => Dialogue'
    BY StepDialogue
  <1>3. Dialogue => SessionsAgree
    BY DialogueAgrees
  <1> QED
    BY <1>1, <1>2, <1>3, AlwaysAsking, PTL DEF Spec
=============================================================================
