------------------------- MODULE AeadSessionManager -------------------------
(***************************************************************************)
(* The indexed AEAD session manager, aead_session_manager_bram.sv.         *)
(*                                                                         *)
(* A session is a block of 32-bit words in one RAM.  It is written one     *)
(* word per clock, read back one word per two clocks, and the packet       *)
(* counter of a direction is stored as two words that are written one      *)
(* after the other.  An action is one transition of the state machine;     *)
(* a clock in which it waits is a stuttering step.                         *)
(*                                                                         *)
(* Cryptography is symbolic.  The traffic material of one installation is  *)
(* one value m, and word w of it is <<m, w>>; a packet names the material  *)
(* its sender sealed it under, for the counter and length of the request,  *)
(* or is Forged.  Registers whose contents nobody reads any more are None. *)
(***************************************************************************)
EXTENDS Integers

CONSTANTS NUM_SESSIONS,  \* slots 0 .. NUM_SESSIONS-1 exist (64)
          SLOT_SPAN,     \* values of the slot field, 2^SLOT_WIDTH (64)
          KEY_WORDS,     \* words of one traffic key (8)
          WORD_BASE,     \* values of a counter word (2^32)
          MAX_LEN,       \* longest payload (64)
          Length,        \* payload lengths submitted
          Material,      \* traffic material
          Forged,        \* a packet no session has sealed
          Undef,         \* a word the RAM has held since power-up
          None,          \* nothing
          WithReset      \* may the reset input be asserted again?

ASSUME ManagerAssumption ==
    /\ NUM_SESSIONS \in Nat \ {0} /\ SLOT_SPAN \in Nat /\ SLOT_SPAN >= NUM_SESSIONS
    /\ KEY_WORDS \in Nat
    /\ WORD_BASE \in Nat \ {0, 1}
    /\ MAX_LEN \in Nat /\ Length \subseteq Nat
    /\ Forged \notin Material /\ None \notin Material
    /\ WithReset \in BOOLEAN

Slot == 0 .. NUM_SESSIONS - 1
Modulus == WORD_BASE * WORD_BASE
Counter == 0 .. Modulus - 1

-----------------------------------------------------------------------------
(* The layout of a session in the RAM. *)

WORD_SESSION_ID == 0
WORD_TX_KEY_0 == 1
WORD_RX_KEY_0 == WORD_TX_KEY_0 + KEY_WORDS
WORD_TX_PREFIX == WORD_RX_KEY_0 + KEY_WORDS
WORD_RX_PREFIX == WORD_TX_PREFIX + 1
WORD_TX_COUNT_LO == WORD_RX_PREFIX + 1
WORD_TX_COUNT_HI == WORD_TX_COUNT_LO + 1
WORD_RX_COUNT_LO == WORD_TX_COUNT_HI + 1
WORD_RX_COUNT_HI == WORD_RX_COUNT_LO + 1
WORD_RESERVED == WORD_RX_COUNT_HI + 1
WORDS_PER_SESSION == WORD_RESERVED + 1

Word == 0 .. WORD_RESERVED
MaterialWord == 0 .. WORD_RX_PREFIX
ReadWord == 0 .. WORD_RX_COUNT_HI      \* the words that are captured

Address == 0 .. NUM_SESSIONS * WORDS_PER_SESSION - 1

\* A definition whose name ends in a capitalised word, such as slot_base_Shared,
\* is a slip: the design with one mistake in it, which the properties find.
slot_base_Shared(s) == 0              \* slip: the slot does not reach the address
slot_base(s) == s * WORDS_PER_SESSION

\* What the RAM may hold at word w of a session.
ValueAt(w) == IF w \in MaterialWord THEN (Material \X {w}) \cup {Undef}
                                    ELSE (0 .. WORD_BASE - 1) \cup {Undef}

\* The word written at index w when material m is installed.
config_word(m, w) == IF w \in MaterialWord THEN <<m, w>> ELSE 0

\* The words a direction reads: session id, its key, its nonce prefix.
OperandWord(decrypt) ==
    {WORD_SESSION_ID} \cup
    (IF decrypt THEN (WORD_RX_KEY_0 .. WORD_TX_PREFIX - 1) \cup {WORD_RX_PREFIX}
                ELSE (WORD_TX_KEY_0 .. WORD_RX_KEY_0 - 1) \cup {WORD_TX_PREFIX})

count_word_lo_Shared(decrypt) == WORD_TX_COUNT_LO   \* slip: one low word for both
count_word_lo(decrypt) == IF decrypt THEN WORD_RX_COUNT_LO ELSE WORD_TX_COUNT_LO
count_word_hi(decrypt) == IF decrypt THEN WORD_RX_COUNT_HI ELSE WORD_TX_COUNT_HI

\* A 64-bit counter is the pair of its words.
Join(lo, hi) == lo + WORD_BASE * hi
low_word_Whole(c) == c                \* slip: not truncated
low_word(c) == c % WORD_BASE
high_word_Dropped(c) == 0             \* slip: never written
high_word(c) == c \div WORD_BASE

next_word_Same(w) == w                \* slip: the word index does not advance
next_word(w) == w + 1

Request == [slot : 0 .. SLOT_SPAN - 1, decrypt : {FALSE}, len : Length,
            counter : {0}, packet : {Forged}]
           \cup [slot : 0 .. SLOT_SPAN - 1, decrypt : {TRUE}, len : Length,
                 counter : Counter, packet : Material \cup {Forged}]
Response == [slot : 0 .. SLOT_SPAN - 1, auth_ok : BOOLEAN, error : BOOLEAN,
             counter : Counter, data : {"zero", "released"}]

\* None is told apart from everything a register or a table entry may hold.
ASSUME NoneAssumption ==
    /\ None \notin Request /\ None \notin Response
    /\ None \notin [mat : Material, tx : Counter, rx : Counter]

-----------------------------------------------------------------------------

VARIABLES mem,            \* session_mem: address -> word; reset leaves it alone
          session_valid,  \* the slots whose valid bit is set
          state,
          cfg,            \* latched slot and material of an installation
          cfg_word_q,
          cfg_done,
          req,            \* latched request
          read_word_q,
          mem_rdata,      \* the RAM's read register
          active,         \* words captured for the request
          updated_counter_q,
          rsp,            \* response registers
          rsp_valid

\* History, not registers of the design.
VARIABLES installed,      \* slot -> material of its latest completed install
          tx_used,        \* slot -> counters it has sealed under since then
          rx_used         \* slot -> counters it has opened under since then

regs == <<session_valid, state, cfg, cfg_word_q, cfg_done, req, read_word_q,
          mem_rdata, active, updated_counter_q, rsp, rsp_valid>>
history == <<installed, tx_used, rx_used>>
vars == <<mem, regs, history>>

State == {"S_IDLE", "S_CFG_WRITE", "S_READ_ISSUE", "S_READ_CAPTURE", "S_CHECK",
          "S_ENGINE_WAIT", "S_COUNT_WRITE_LO", "S_COUNT_WRITE_HI", "S_RESPONSE"}

ActiveCounter(decrypt) == Join(active[count_word_lo(decrypt)],
                               active[count_word_hi(decrypt)])
operation_counter == IF req.decrypt THEN req.counter ELSE ActiveCounter(FALSE)

StoredCounter(s, decrypt) == Join(mem[slot_base(s) + count_word_lo(decrypt)],
                                  mem[slot_base(s) + count_word_hi(decrypt)])

\* aead_fixed64_engine: sealing always succeeds; opening succeeds when the tag
\* was computed from the key, nonce and associated data the manager supplies.
engine_auth_ok == req.decrypt =>
                     \A w \in OperandWord(TRUE) : active[w] = <<req.packet, w>>

Zeroed == [w \in ReadWord |-> IF w \in MaterialWord THEN None ELSE 0]

Init == /\ mem = [a \in Address |-> Undef]
        /\ session_valid = {}
        /\ state = "S_IDLE"
        /\ cfg = None /\ cfg_word_q = 0 /\ cfg_done = FALSE
        /\ req = None /\ read_word_q = 0 /\ mem_rdata = None
        /\ active = Zeroed
        /\ updated_counter_q = 0
        /\ rsp = None /\ rsp_valid = FALSE
        /\ installed = [s \in Slot |-> None]
        /\ tx_used = [s \in Slot |-> {}]
        /\ rx_used = [s \in Slot |-> {}]

-----------------------------------------------------------------------------
(* Configuration port. *)

\* A slot past the table is acknowledged and ignored; without cfg_valid the
\* slot's valid bit is cleared.
CfgImmediate(s, valid) ==
    /\ state = "S_IDLE"
    /\ s \notin Slot \/ ~valid
    /\ session_valid' = session_valid \ {s}
    /\ cfg_done' = TRUE
    /\ UNCHANGED <<mem, state, cfg, cfg_word_q, req, read_word_q, mem_rdata,
                   active, updated_counter_q, rsp, rsp_valid, history>>

CfgAccept(s, m) ==
    /\ state = "S_IDLE"
    /\ s \in Slot
    /\ cfg' = [slot |-> s, mat |-> m]
    /\ cfg_word_q' = 0
    /\ state' = "S_CFG_WRITE"
    /\ cfg_done' = FALSE
    /\ UNCHANGED <<mem, session_valid, req, read_word_q, mem_rdata, active,
                   updated_counter_q, rsp, rsp_valid, history>>

\* One word per clock; the clock that writes the last one completes the install.
CfgWrite ==
    /\ state = "S_CFG_WRITE"
    /\ mem' = [mem EXCEPT ![slot_base(cfg.slot) + cfg_word_q] =
                                config_word(cfg.mat, cfg_word_q)]
    /\ \/ /\ cfg_word_q # WORD_RESERVED
          /\ cfg_word_q' = next_word(cfg_word_q)
          /\ UNCHANGED <<session_valid, state, cfg, cfg_done, history>>
       \/ /\ cfg_word_q = WORD_RESERVED
          /\ session_valid' = session_valid \cup {cfg.slot}
          /\ cfg_done' = TRUE
          /\ state' = "S_IDLE"
          /\ cfg' = None /\ cfg_word_q' = 0
          /\ installed' = [installed EXCEPT ![cfg.slot] = cfg.mat]
          /\ tx_used' = [tx_used EXCEPT ![cfg.slot] = {}]
          /\ rx_used' = [rx_used EXCEPT ![cfg.slot] = {}]
    /\ UNCHANGED <<req, read_word_q, mem_rdata, active, updated_counter_q, rsp,
                   rsp_valid>>

-----------------------------------------------------------------------------
(* Request port. *)

Refused_SlotZero(r, c) ==             \* slip: the slot is not latched
    [slot |-> 0, auth_ok |-> FALSE, error |-> TRUE, counter |-> c, data |-> "zero"]
Refused_Released(r, c) ==             \* slip: the output is not cleared
    [slot |-> r.slot, auth_ok |-> FALSE, error |-> TRUE, counter |-> c,
     data |-> "released"]
Refused(r, c) == [slot |-> r.slot, auth_ok |-> FALSE, error |-> TRUE,
                  counter |-> c, data |-> "zero"]

\* A bound: no direction of a session carries 2^64 - 1 packets, so that its
\* packet counter does not wrap.
Headroom(r) == r.slot \in Slot =>
    (Modulus - 2) \notin (IF r.decrypt THEN rx_used[r.slot] ELSE tx_used[r.slot])

ReqAccept(r) ==
    /\ state = "S_IDLE"
    /\ Headroom(r)
    /\ req' = r
    /\ cfg_done' = FALSE
    /\ \/ /\ r.slot \notin Slot \/ r.slot \notin session_valid
          /\ rsp' = Refused(r, IF r.decrypt THEN r.counter ELSE 0)
          /\ rsp_valid' = TRUE
          /\ state' = "S_RESPONSE"
          /\ UNCHANGED <<read_word_q, active>>
       \/ /\ r.slot \in Slot /\ r.slot \in session_valid
          /\ read_word_q' = 0
          /\ active' = Zeroed
          /\ state' = "S_READ_ISSUE"
          /\ UNCHANGED <<rsp, rsp_valid>>
    /\ UNCHANGED <<mem, session_valid, cfg, cfg_word_q, mem_rdata,
                   updated_counter_q, history>>

ReadIssue ==
    /\ state = "S_READ_ISSUE"
    /\ mem_rdata' = mem[slot_base(req.slot) + read_word_q]
    /\ state' = "S_READ_CAPTURE"
    /\ UNCHANGED <<mem, session_valid, cfg, cfg_word_q, cfg_done, req,
                   read_word_q, active, updated_counter_q, rsp, rsp_valid, history>>

ReadCapture ==
    /\ state = "S_READ_CAPTURE"
    /\ \/ /\ read_word_q # WORD_RESERVED
          /\ active' = [active EXCEPT ![read_word_q] = mem_rdata]
          /\ read_word_q' = next_word(read_word_q)
          /\ state' = "S_READ_ISSUE"
       \/ /\ read_word_q = WORD_RESERVED
          /\ state' = "S_CHECK"
          /\ UNCHANGED <<active, read_word_q>>
    /\ mem_rdata' = None
    /\ UNCHANGED <<mem, session_valid, cfg, cfg_word_q, cfg_done, req,
                   updated_counter_q, rsp, rsp_valid, history>>

\* Too long, or a packet to open that is not the next one in order.
CheckFails_AnyOrder == req.len > MAX_LEN         \* slip: replays are let through
CheckFails == \/ req.len > MAX_LEN
              \/ req.decrypt /\ req.counter # ActiveCounter(TRUE)

Check ==
    /\ state = "S_CHECK"
    /\ \/ /\ CheckFails
          /\ rsp' = Refused(req, IF req.decrypt THEN req.counter ELSE 0)
          /\ rsp_valid' = TRUE
          /\ state' = "S_RESPONSE"
          /\ UNCHANGED tx_used
       \/ /\ ~CheckFails
          /\ state' = "S_ENGINE_WAIT"
          /\ tx_used' = IF req.decrypt THEN tx_used
                        ELSE [tx_used EXCEPT ![req.slot] = @ \cup {operation_counter}]
          /\ UNCHANGED <<rsp, rsp_valid>>
    /\ UNCHANGED <<mem, session_valid, cfg, cfg_word_q, cfg_done, req, read_word_q,
                   mem_rdata, active, updated_counter_q, installed, rx_used>>

EngineDone ==
    /\ state = "S_ENGINE_WAIT"
    /\ \/ /\ engine_auth_ok
          /\ rsp' = [slot |-> req.slot, auth_ok |-> TRUE, error |-> FALSE,
                     counter |-> operation_counter, data |-> "released"]
          /\ updated_counter_q' = (ActiveCounter(req.decrypt) + 1) % Modulus
          /\ state' = "S_COUNT_WRITE_LO"
          /\ rx_used' = IF req.decrypt
                        THEN [rx_used EXCEPT ![req.slot] = @ \cup {operation_counter}]
                        ELSE rx_used
          /\ UNCHANGED rsp_valid
       \/ /\ ~engine_auth_ok
          /\ rsp' = Refused(req, operation_counter)
          /\ rsp_valid' = TRUE
          /\ state' = "S_RESPONSE"
          /\ UNCHANGED <<updated_counter_q, rx_used>>
    /\ UNCHANGED <<mem, session_valid, cfg, cfg_word_q, cfg_done, req, read_word_q,
                   mem_rdata, active, installed, tx_used>>

CountWriteLo ==
    /\ state = "S_COUNT_WRITE_LO"
    /\ mem' = [mem EXCEPT ![slot_base(req.slot) + count_word_lo(req.decrypt)] =
                                low_word(updated_counter_q)]
    /\ state' = "S_COUNT_WRITE_HI"
    /\ UNCHANGED <<session_valid, cfg, cfg_word_q, cfg_done, req, read_word_q,
                   mem_rdata, active, updated_counter_q, rsp, rsp_valid, history>>

CountWriteHi ==
    /\ state = "S_COUNT_WRITE_HI"
    /\ mem' = [mem EXCEPT ![slot_base(req.slot) + count_word_hi(req.decrypt)] =
                                high_word(updated_counter_q)]
    /\ rsp_valid' = TRUE
    /\ state' = "S_RESPONSE"
    /\ UNCHANGED <<session_valid, cfg, cfg_word_q, cfg_done, req, read_word_q,
                   mem_rdata, active, updated_counter_q, rsp, history>>

\* rsp_ready_i is high: the response is taken.
RspTake ==
    /\ state = "S_RESPONSE"
    /\ rsp_valid' = FALSE
    /\ state' = "S_IDLE"
    /\ rsp' = None /\ req' = None
    /\ read_word_q' = 0 /\ active' = Zeroed /\ updated_counter_q' = 0
    /\ UNCHANGED <<mem, session_valid, cfg, cfg_word_q, cfg_done, mem_rdata, history>>

\* cfg_done_o is a pulse of one clock.
DoneFalls ==
    /\ state = "S_IDLE" /\ cfg_done
    /\ cfg_done' = FALSE
    /\ UNCHANGED <<mem, session_valid, state, cfg, cfg_word_q, req, read_word_q,
                   mem_rdata, active, updated_counter_q, rsp, rsp_valid, history>>

valid_at_reset_Kept == session_valid  \* slip: reset forgets the valid bits
valid_at_reset == {}

\* Reset clears the registers and keeps the RAM, half-written blocks included.
Reset == /\ WithReset
         /\ session_valid' = valid_at_reset
         /\ state' = "S_IDLE"
         /\ cfg' = None /\ cfg_word_q' = 0 /\ cfg_done' = FALSE
         /\ req' = None /\ read_word_q' = 0 /\ mem_rdata' = None
         /\ active' = Zeroed
         /\ updated_counter_q' = 0
         /\ rsp' = None /\ rsp_valid' = FALSE
         /\ UNCHANGED <<mem, history>>

-----------------------------------------------------------------------------

Cfg == \E s \in 0 .. SLOT_SPAN - 1 :
          \/ \E valid \in BOOLEAN : CfgImmediate(s, valid)
          \/ \E m \in Material : CfgAccept(s, m)
Serve == \/ ReadIssue \/ ReadCapture \/ Check \/ EngineDone
         \/ CountWriteLo \/ CountWriteHi

Next == \/ Cfg \/ CfgWrite \/ DoneFalls
        \/ \E r \in Request : ReqAccept(r)
        \/ Serve \/ RspTake \/ Reset

Spec == Init /\ [][Next]_vars

\* The state machine advances every clock, the engine finishes (its two blocks
\* and its tag take a fixed number of clocks) and the consumer takes responses:
\* rsp_ready_i is the front-end's inflight bit.
FairSpec == Spec /\ WF_vars(CfgWrite) /\ WF_vars(Serve) /\ WF_vars(RspTake)

-----------------------------------------------------------------------------
(* Properties. *)

\* Every register and every word of the RAM holds a value of its kind.
TypeOK ==
    /\ DOMAIN mem = Address
    /\ \A s \in Slot, w \in Word : mem[slot_base(s) + w] \in ValueAt(w)
    /\ session_valid \subseteq Slot
    /\ state \in State
    /\ cfg \in [slot : Slot, mat : Material] \cup {None}
    /\ cfg_word_q \in Word
    /\ cfg_done \in BOOLEAN
    /\ req \in Request \cup {None}
    /\ read_word_q \in Word
    /\ mem_rdata \in ValueAt(read_word_q) \cup {None}
    /\ DOMAIN active = ReadWord
    /\ \A w \in ReadWord : active[w] \in ValueAt(w) \cup {None}
    /\ updated_counter_q \in Counter
    /\ rsp \in Response \cup {None}
    /\ rsp_valid \in BOOLEAN
    /\ installed \in [Slot -> Material \cup {None}]
    /\ tx_used \in [Slot -> SUBSET Counter]
    /\ rx_used \in [Slot -> SUBSET Counter]

\* The session id, key and nonce prefix the engine works with are words of one
\* and the same installation: the latest one completed in the slot, whatever
\* was interrupted, invalidated or installed elsewhere before.
NoTornOperands ==
    state = "S_ENGINE_WAIT" =>
        \A w \in OperandWord(req.decrypt) : active[w] = <<installed[req.slot], w>>

\* Counters of slot s are being replaced, or are in use by the request served.
Busy(s) == \/ state = "S_CFG_WRITE" /\ cfg.slot = s
           \/ /\ state \in {"S_ENGINE_WAIT", "S_COUNT_WRITE_LO", "S_COUNT_WRITE_HI"}
              /\ req.slot = s

\* The two counters stored for a session count exactly the packets it has
\* sealed and opened since it was installed, although they are written in two
\* halves: none is skipped and none is counted twice.
CountersMatchHistory ==
    \A s \in session_valid : ~Busy(s) =>
        /\ tx_used[s] = 0 .. StoredCounter(s, FALSE) - 1
        /\ rx_used[s] = 0 .. StoredCounter(s, TRUE) - 1

\* The engine never seals two packets of one installation under one nonce.
NonceNeverRepeats ==
    [][(state = "S_CHECK" /\ state' = "S_ENGINE_WAIT" /\ ~req.decrypt)
        => operation_counter \notin tx_used[req.slot]]_vars

\* A packet is opened only if the session's peer sealed it, after all the
\* earlier ones and never a second time.
OpenedOnceInOrder ==
    [][(state = "S_ENGINE_WAIT" /\ state' = "S_COUNT_WRITE_LO" /\ req.decrypt)
        => /\ req.packet = installed[req.slot]
           /\ rx_used[req.slot] = 0 .. req.counter - 1]_vars

\* Whatever is accepted comes to its end: a request is answered for the slot it
\* named, and an installation puts its material in place.
AcceptedCompletes ==
    /\ \A s \in 0 .. SLOT_SPAN - 1 :
          (req # None /\ req.slot = s) ~> (rsp_valid /\ rsp.slot = s)
    /\ \A s \in Slot, m \in Material :
          (cfg = [slot |-> s, mat |-> m])
              ~> (cfg_done /\ s \in session_valid /\ installed[s] = m)

-----------------------------------------------------------------------------
(* The manager implements SessionTable.  An installation takes effect when it *)
(* is accepted and a counter when the engine has finished, not when the last  *)
(* word reaches the RAM.                                                      *)

StoredMaterial(s) == mem[slot_base(s) + WORD_SESSION_ID][1]

CountInFlight(s, decrypt) ==
    /\ state \in {"S_COUNT_WRITE_LO", "S_COUNT_WRITE_HI"}
    /\ req.slot = s /\ req.decrypt = decrypt

CounterView(s, decrypt) == IF CountInFlight(s, decrypt) THEN updated_counter_q
                           ELSE StoredCounter(s, decrypt)

TableView ==
    [s \in Slot |->
        CASE state = "S_CFG_WRITE" /\ cfg.slot = s ->
                [mat |-> cfg.mat, tx |-> 0, rx |-> 0]
          [] ~(state = "S_CFG_WRITE" /\ cfg.slot = s) /\ s \in session_valid ->
                [mat |-> StoredMaterial(s), tx |-> CounterView(s, FALSE),
                 rx |-> CounterView(s, TRUE)]
          [] OTHER -> None]

Table == INSTANCE SessionTable WITH table <- TableView, op <- req

\* Every step of the word-level manager is one atomic step of the table, or
\* none: no request sees an entry half replaced or half counted.
ImplementsSessionTable == Table!TableSpec
=============================================================================
