---------------------- MODULE AeadSessionManagerProofs ----------------------
(***************************************************************************)
(* The session manager, proved for every number of slots, key length, word *)
(* size and set of material: its type invariant, that the engine works on  *)
(* one whole session, that the stored counters match what was sealed and   *)
(* opened, that no nonce repeats, and that packets open once and in order. *)
(*                                                                         *)
(* IInv is the inductive invariant.  It says what the RAM holds in every   *)
(* state of the machine: a valid block is one installation and two counts, *)
(* a block being installed is complete up to the word index, and the copy  *)
(* a request works on is the block it was read from.                       *)
(***************************************************************************)
EXTENDS AeadSessionManager, TLAPS

CountWord == WORD_TX_COUNT_LO .. WORD_RX_COUNT_HI
Half == 0 .. WORD_BASE - 1

Reading == {"S_READ_ISSUE", "S_READ_CAPTURE"}
Copied == {"S_CHECK", "S_ENGINE_WAIT"}
Counting == {"S_COUNT_WRITE_LO", "S_COUNT_WRITE_HI"}
Serving == Reading \cup Copied \cup Counting

Cell(s, w) == mem[slot_base(s) + w]
Used(s, decrypt) == IF decrypt THEN rx_used[s] ELSE tx_used[s]

\* Slot s is being written by the installation in progress.
Replacing(s) == state = "S_CFG_WRITE" /\ cfg.slot = s

\* The packets of a direction that its history holds: the stored counter, one
\* more while a packet is being sealed, and the new counter while it is written.
Due(s, decrypt) ==
    CASE /\ state = "S_ENGINE_WAIT" /\ req.slot = s
         /\ req.decrypt = FALSE /\ decrypt = FALSE
            -> StoredCounter(s, decrypt) + 1
      [] state \in Counting /\ req.slot = s /\ req.decrypt = decrypt
            -> updated_counter_q
      [] OTHER -> StoredCounter(s, decrypt)

Phases == /\ state = "S_CFG_WRITE" => cfg \in [slot : Slot, mat : Material]
          /\ state \in Serving => req \in Request /\ req.slot \in session_valid
          /\ state # "S_READ_CAPTURE" => mem_rdata = None

StoredSession ==
    \A s \in session_valid : ~Replacing(s) =>
        /\ \A w \in MaterialWord : Cell(s, w) = <<installed[s], w>>
        /\ \A w \in CountWord : Cell(s, w) \in Half

WrittenSoFar ==
    state = "S_CFG_WRITE" =>
        \A w \in Word : w < cfg_word_q => Cell(cfg.slot, w) = config_word(cfg.mat, w)

CopiedSoFar ==
    /\ state \in Reading =>
          \A w \in ReadWord : w < read_word_q => active[w] = Cell(req.slot, w)
    /\ state = "S_READ_CAPTURE" => mem_rdata = Cell(req.slot, read_word_q)
    /\ state \in Copied => \A w \in ReadWord : active[w] = Cell(req.slot, w)

HistoryMatches ==
    \A s \in session_valid : ~Replacing(s) =>
        \A decrypt \in BOOLEAN : Used(s, decrypt) = 0 .. Due(s, decrypt) - 1

\* No counter of the request served is about to wrap.
Room == state \in Reading \cup Copied =>
            StoredCounter(req.slot, req.decrypt) <= Modulus - 2

InOrder == state = "S_ENGINE_WAIT" /\ req.decrypt => req.counter = ActiveCounter(TRUE)

LowWritten == state = "S_COUNT_WRITE_HI" =>
    Cell(req.slot, count_word_lo(req.decrypt)) = low_word(updated_counter_q)

IInv == /\ TypeOK /\ Phases /\ StoredSession /\ WrittenSoFar /\ CopiedSoFar
        /\ HistoryMatches /\ Room /\ InOrder /\ LowWritten

-----------------------------------------------------------------------------
(* Arithmetic of the layout and of split counters. *)

\* The words of a block: material first, the four counter words after it.
LEMMA Layout ==
    /\ WORD_RESERVED \in Nat /\ WORDS_PER_SESSION = WORD_RESERVED + 1
    /\ MaterialWord \subseteq Word /\ CountWord \subseteq Word
    /\ ReadWord = MaterialWord \cup CountWord
    /\ ReadWord = Word \ {WORD_RESERVED}
    /\ MaterialWord \cap CountWord = {}
    /\ \A decrypt \in BOOLEAN :
          /\ OperandWord(decrypt) \subseteq MaterialWord
          /\ count_word_lo(decrypt) \in CountWord
          /\ count_word_hi(decrypt) \in CountWord
    /\ \A d, e \in BOOLEAN :
          /\ count_word_lo(d) # count_word_hi(e)
          /\ d # e => count_word_lo(d) # count_word_lo(e)
          /\ d # e => count_word_hi(d) # count_word_hi(e)
  BY ManagerAssumption
     DEF WORD_SESSION_ID, WORD_TX_KEY_0, WORD_RX_KEY_0, WORD_TX_PREFIX, WORD_RX_PREFIX,
         WORD_TX_COUNT_LO, WORD_TX_COUNT_HI, WORD_RX_COUNT_LO, WORD_RX_COUNT_HI,
         WORD_RESERVED, WORDS_PER_SESSION, Word, MaterialWord, ReadWord, CountWord,
         OperandWord, count_word_lo, count_word_hi

\* Blocks are laid one after the other: a block of n words starts at multiple n.
LEMMA BlockOrder ==
    ASSUME NEW n \in Nat, NEW s \in Nat, NEW t \in Nat, s < t
    PROVE  s * n + n <= t * n
  <1>1. (s + 1) * n <= t * n
    BY Z3
  <1> QED
    BY <1>1, Z3

\* The word of a slot is an address of the RAM.
LEMMA AddressOf ==
    ASSUME NEW s \in Slot, NEW w \in Word
    PROVE  slot_base(s) + w \in Address
  <1> DEFINE n == WORDS_PER_SESSION
  <1>1. n \in Nat /\ w \in Nat /\ w < n
    BY Layout DEF Word
  <1>2. s \in Nat /\ s < NUM_SESSIONS /\ NUM_SESSIONS \in Nat
    BY ManagerAssumption DEF Slot
  <1>3. s * n + n <= NUM_SESSIONS * n
    BY <1>1, <1>2, BlockOrder
  <1>4. s * n \in Nat /\ NUM_SESSIONS * n \in Nat
    BY <1>1, <1>2
  <1> HIDE DEF n
  <1>5. s * n + w \in 0 .. NUM_SESSIONS * n - 1
    BY <1>1, <1>3, <1>4
  <1> QED
    BY <1>5 DEF slot_base, Address, n

\* Two slots share no word of the RAM.
LEMMA AddressInjective ==
    ASSUME NEW s \in Slot, NEW t \in Slot, NEW w \in Word, NEW v \in Word,
           slot_base(s) + w = slot_base(t) + v
    PROVE  s = t /\ w = v
  <1> DEFINE n == WORDS_PER_SESSION
  <1>1. n \in Nat /\ w \in Nat /\ w < n /\ v \in Nat /\ v < n
    BY Layout DEF Word
  <1>2. s \in Nat /\ t \in Nat
    BY ManagerAssumption DEF Slot
  <1>3. s * n \in Nat /\ t * n \in Nat /\ s * n + w = t * n + v
    BY <1>1, <1>2 DEF slot_base
  <1>4. s < t => s * n + n <= t * n
    BY <1>1, <1>2, BlockOrder
  <1>5. t < s => t * n + n <= s * n
    BY <1>1, <1>2, BlockOrder
  <1> HIDE DEF n
  <1>6. ~ (s < t) /\ ~ (t < s)
    BY <1>1, <1>3, <1>4, <1>5
  <1>7. s = t
    BY <1>2, <1>6
  <1> QED
    BY <1>1, <1>3, <1>7

\* A step writes x at word w of slot s.
Writes(s, w, x) == mem' = [mem EXCEPT ![slot_base(s) + w] = x]

\* Writing one word of a slot changes that word and no other.
LEMMA WriteWord ==
    ASSUME DOMAIN mem = Address, NEW s \in Slot, NEW w \in Word, NEW x, Writes(s, w, x)
    PROVE  /\ DOMAIN mem' = Address
           /\ \A t \in Slot, v \in Word :
                mem'[slot_base(t) + v] =
                    IF t = s /\ v = w THEN x ELSE mem[slot_base(t) + v]
  <1>1. DOMAIN mem' = Address
    BY DEF Writes
  <1>2. ASSUME NEW t \in Slot, NEW v \in Word
        PROVE  mem'[slot_base(t) + v] =
                   IF t = s /\ v = w THEN x ELSE mem[slot_base(t) + v]
    <2>1. slot_base(t) + v \in Address
      BY AddressOf
    <2>2. (slot_base(t) + v = slot_base(s) + w) <=> (t = s /\ v = w)
      BY AddressInjective
    <2> QED
      BY <2>1, <2>2 DEF Writes
  <1> QED
    BY <1>1, <1>2

\* A counter is the pair of its halves, and a pair of halves is a counter.
LEMMA JoinHalves ==
    ASSUME NEW lo \in Half, NEW hi \in Half
    PROVE  Join(lo, hi) \in Counter
  <1> DEFINE b == WORD_BASE
  <1>1. b \in Nat /\ b > 1 /\ lo \in Nat /\ hi \in Nat /\ lo < b /\ hi < b
    BY ManagerAssumption DEF Half
  <1>2. hi * b + b <= b * b
    BY <1>1, BlockOrder
  <1>3. hi * b \in Nat /\ b * b \in Nat /\ b * hi = hi * b
    BY <1>1, Z3
  <1> HIDE DEF b
  <1>4. lo + b * hi \in 0 .. b * b - 1
    BY <1>1, <1>2, <1>3
  <1> QED
    BY <1>4 DEF Join, Counter, Modulus, b

LEMMA SplitCounter ==
    ASSUME NEW c \in Counter
    PROVE  /\ low_word(c) \in Half /\ high_word(c) \in Half
           /\ Join(low_word(c), high_word(c)) = c
  <1> DEFINE b == WORD_BASE
  <1>1. b \in Nat /\ b > 1
    BY ManagerAssumption
  <1>2. c \in Nat /\ c < b * b
    BY <1>1, ManagerAssumption, Z3 DEF Counter, Modulus
  <1>3. c % b \in 0 .. b - 1 /\ c \div b \in Nat /\ c = b * (c \div b) + (c % b)
    BY <1>1, <1>2, Z3
  <1>4. c \div b < b
    BY <1>1, <1>2, <1>3, Z3
  <1> QED
    BY <1>1, <1>2, <1>3, <1>4 DEF Half, low_word, high_word, Join

-----------------------------------------------------------------------------
(* What the invariant says of the request being served. *)

\* A request has the fields of its kind.
LEMMA RequestFields ==
    ASSUME NEW r \in Request
    PROVE  /\ r.slot \in 0 .. SLOT_SPAN - 1 /\ r.decrypt \in BOOLEAN
           /\ r.len \in Length /\ r.counter \in Counter
           /\ r.packet \in Material \cup {Forged}
  <1>1. 0 \in Counter
    <2>1. WORD_BASE \in Nat /\ WORD_BASE > 1
      BY ManagerAssumption
    <2>2. WORD_BASE * WORD_BASE >= 1
      BY <2>1, Z3
    <2> QED
      BY <2>1, <2>2 DEF Counter, Modulus
  <1> QED
    BY <1>1 DEF Request

\* The slot served holds a whole session with two counters in range.
LEMMA ServedSession ==
    ASSUME IInv, state \in Serving
    PROVE  /\ req \in Request /\ req.slot \in Slot /\ req.slot \in session_valid
           /\ req.decrypt \in BOOLEAN
           /\ ~Replacing(req.slot)
           /\ \A w \in CountWord : Cell(req.slot, w) \in Half
           /\ \A decrypt \in BOOLEAN : StoredCounter(req.slot, decrypt) \in Counter
  <1>1. req \in Request /\ req.slot \in Slot /\ req.slot \in session_valid
    BY DEF IInv, TypeOK, Phases
  <1>2. req.decrypt \in BOOLEAN
    BY <1>1, RequestFields
  <1>3. ~Replacing(req.slot)
    BY DEF Replacing, Serving, Reading, Copied, Counting
  <1>4. \A w \in CountWord : Cell(req.slot, w) \in Half
    BY <1>1, <1>3 DEF IInv, StoredSession
  <1>5. \A decrypt \in BOOLEAN : StoredCounter(req.slot, decrypt) \in Counter
    BY <1>4, Layout, JoinHalves DEF StoredCounter, Cell
  <1> QED
    BY <1>1, <1>2, <1>3, <1>4, <1>5

\* Once copied, the registers hold the session of the slot, counters included.
LEMMA CopyOfSession ==
    ASSUME IInv, state \in Copied
    PROVE  /\ \A w \in MaterialWord : active[w] = <<installed[req.slot], w>>
           /\ \A decrypt \in BOOLEAN :
                ActiveCounter(decrypt) = StoredCounter(req.slot, decrypt)
           /\ \A decrypt \in BOOLEAN : ActiveCounter(decrypt) \in Counter
  <1>1. /\ req.slot \in session_valid /\ ~Replacing(req.slot)
        /\ \A decrypt \in BOOLEAN : StoredCounter(req.slot, decrypt) \in Counter
    BY ServedSession DEF Serving
  <1>2. \A w \in ReadWord : active[w] = Cell(req.slot, w)
    BY DEF IInv, CopiedSoFar
  <1>3. \A w \in MaterialWord : active[w] = <<installed[req.slot], w>>
    BY <1>1, <1>2, Layout DEF IInv, StoredSession
  <1>4. \A decrypt \in BOOLEAN :
            ActiveCounter(decrypt) = StoredCounter(req.slot, decrypt)
    BY <1>2, Layout DEF ActiveCounter, StoredCounter, Cell
  <1> QED
    BY <1>1, <1>3, <1>4

\* The counter after the one a request uses is a counter: it does not wrap.
LEMMA NextCounter ==
    ASSUME IInv, state \in Copied
    PROVE  /\ ActiveCounter(req.decrypt) + 1 \in Counter
           /\ (ActiveCounter(req.decrypt) + 1) % Modulus = ActiveCounter(req.decrypt) + 1
  <1> DEFINE c == ActiveCounter(req.decrypt)
  <1>1. req.decrypt \in BOOLEAN
    BY ServedSession DEF Serving
  <1>2. c \in Counter /\ c <= Modulus - 2
    BY <1>1, CopyOfSession DEF IInv, Room
  <1>3. Modulus \in Nat
    BY ManagerAssumption, Z3 DEF Modulus
  <1> HIDE DEF c
  <1>4. c + 1 \in Counter
    BY <1>2, <1>3 DEF Counter
  <1>5. c + 1 \in Nat /\ c + 1 < Modulus
    BY <1>3, <1>4 DEF Counter
  <1>6. (c + 1) % Modulus = c + 1
    BY <1>3, <1>5
  <1> QED
    BY <1>4, <1>6 DEF c

-----------------------------------------------------------------------------
(* The initial state. *)

\* Every memory word is one a slot can hold; numbers used below are counters.
LEMMA Values ==
    /\ 0 \in Counter /\ 0 \in Half /\ 0 \in Word /\ Counter \subseteq Nat
    /\ \A w \in Word : Undef \in ValueAt(w)
    /\ \A w \in CountWord : Half \subseteq ValueAt(w)
    /\ \A m \in Material, w \in Word : config_word(m, w) \in ValueAt(w)
    /\ \A w \in ReadWord : Zeroed[w] \in ValueAt(w) \cup {None}
    /\ DOMAIN Zeroed = ReadWord
  <1>1. 0 \in Half /\ 0 \in Word
    BY ManagerAssumption, Layout DEF Half, Word
  <1>2. 0 \in Counter /\ Counter \subseteq Nat
    <2>1. low_word(0) = 0 /\ Join(0, 0) = 0
      BY ManagerAssumption, Z3 DEF low_word, Join
    <2>2. Join(0, 0) \in Counter
      BY <1>1, JoinHalves
    <2> QED
      BY <2>1, <2>2 DEF Counter
  <1>3. \A w \in Word : Undef \in ValueAt(w)
    BY DEF ValueAt
  <1>4. \A w \in CountWord : Half \subseteq ValueAt(w)
    BY Layout DEF ValueAt, Half
  <1>5. \A m \in Material, w \in Word : config_word(m, w) \in ValueAt(w)
    BY <1>1 DEF ValueAt, config_word, Half
  <1>6. /\ \A w \in ReadWord : Zeroed[w] \in ValueAt(w) \cup {None}
        /\ DOMAIN Zeroed = ReadWord
    BY <1>1 DEF Zeroed, ValueAt, Half
  <1> QED
    BY <1>1, <1>2, <1>3, <1>4, <1>5, <1>6

LEMMA InitEstablishes == Init => IInv
  <1> SUFFICES ASSUME Init PROVE IInv
    OBVIOUS
  <1>1. TypeOK
    <2>1. \A s \in Slot, w \in Word : mem[slot_base(s) + w] \in ValueAt(w)
      BY AddressOf, Values DEF Init
    <2>2. DOMAIN mem = Address
      BY DEF Init
    <2>3. /\ DOMAIN active = ReadWord
          /\ \A w \in ReadWord : active[w] \in ValueAt(w) \cup {None}
      BY Values DEF Init
    <2> QED
      BY <2>1, <2>2, <2>3, Values DEF Init, TypeOK, State
  <1>2. Phases /\ StoredSession /\ WrittenSoFar /\ CopiedSoFar
    BY DEF Init, Phases, StoredSession, WrittenSoFar, CopiedSoFar, Serving, Reading,
           Copied, Counting
  <1>3. HistoryMatches /\ Room /\ InOrder /\ LowWritten
    BY DEF Init, HistoryMatches, Room, InOrder, LowWritten, Reading, Copied
  <1> QED
    BY <1>1, <1>2, <1>3 DEF IInv

-----------------------------------------------------------------------------
(* Types are preserved by every step. *)

\* A refusal is a response.
LEMMA RefusedType ==
    ASSUME NEW r \in Request, NEW c \in Counter
    PROVE  Refused(r, c) \in Response
  BY RequestFields DEF Refused, Response

\* A word written into a slot keeps the RAM well typed.
LEMMA WriteType ==
    ASSUME TypeOK, NEW s \in Slot, NEW w \in Word, NEW x \in ValueAt(w),
           Writes(s, w, x)
    PROVE  /\ DOMAIN mem' = Address
           /\ \A t \in Slot, v \in Word : mem'[slot_base(t) + v] \in ValueAt(v)
  <1>1. /\ DOMAIN mem = Address
        /\ \A t \in Slot, v \in Word : mem[slot_base(t) + v] \in ValueAt(v)
    BY DEF TypeOK
  <1>2. /\ DOMAIN mem' = Address
        /\ \A t \in Slot, v \in Word :
             mem'[slot_base(t) + v] = IF t = s /\ v = w THEN x ELSE mem[slot_base(t) + v]
    BY <1>1, WriteWord
  <1> QED
    BY <1>1, <1>2

LEMMA TypeStep == IInv /\ [Next]_vars => TypeOK'
  <1> SUFFICES ASSUME IInv, [Next]_vars PROVE TypeOK'
    OBVIOUS
  <1> TypeOK
    BY DEF IInv
  <1>1. ASSUME NEW s \in 0 .. SLOT_SPAN - 1, NEW valid \in BOOLEAN, CfgImmediate(s, valid)
        PROVE  TypeOK'
    BY <1>1 DEF CfgImmediate, TypeOK, history
  <1>2. ASSUME NEW s \in 0 .. SLOT_SPAN - 1, NEW m \in Material, CfgAccept(s, m)
        PROVE  TypeOK'
    BY <1>2, Values DEF CfgAccept, TypeOK, history, State
  <1>3. CASE CfgWrite
    <2>1. cfg.slot \in Slot /\ cfg.mat \in Material
      BY <1>3 DEF CfgWrite, IInv, Phases, TypeOK
    <2>2. /\ DOMAIN mem' = Address
          /\ \A t \in Slot, v \in Word : mem'[slot_base(t) + v] \in ValueAt(v)
      BY <1>3, <2>1, WriteType, Values DEF CfgWrite, TypeOK, Writes
    <2>3. CASE cfg_word_q # WORD_RESERVED
      <3>1. cfg_word_q' \in Word
        BY <1>3, <2>3, Layout DEF CfgWrite, next_word, TypeOK, Word
      <3> QED
        BY <1>3, <2>2, <2>3, <3>1 DEF CfgWrite, TypeOK, history
    <2>4. CASE cfg_word_q = WORD_RESERVED
      BY <1>3, <2>1, <2>2, <2>4, Values DEF CfgWrite, TypeOK, State
    <2> QED
      BY <2>3, <2>4
  <1>4. CASE DoneFalls
    BY <1>4 DEF DoneFalls, TypeOK, history
  <1>5. ASSUME NEW r \in Request, ReqAccept(r)
        PROVE  TypeOK'
    <2>1. Refused(r, IF r.decrypt THEN r.counter ELSE 0) \in Response
      BY RequestFields, RefusedType, Values
    <2>2. mem_rdata = None
      BY <1>5 DEF ReqAccept, IInv, Phases
    <2>3. CASE r.slot \notin Slot \/ r.slot \notin session_valid
      BY <1>5, <2>1, <2>2, <2>3 DEF ReqAccept, TypeOK, history, State
    <2>4. CASE r.slot \in Slot /\ r.slot \in session_valid
      BY <1>5, <2>2, <2>4, Values DEF ReqAccept, TypeOK, history, State
    <2> QED
      BY <2>3, <2>4
  <1>6. CASE ReadIssue
    <2>1. req.slot \in Slot
      BY <1>6, ServedSession DEF ReadIssue, Serving, Reading
    <2>2. mem_rdata' \in ValueAt(read_word_q)
      BY <1>6, <2>1 DEF ReadIssue, TypeOK
    <2> QED
      BY <1>6, <2>2 DEF ReadIssue, TypeOK, history, State
  <1>7. CASE ReadCapture
    <2>1. CASE read_word_q # WORD_RESERVED
      <3>1. read_word_q \in ReadWord /\ read_word_q' \in Word
        BY <1>7, <2>1, Layout DEF ReadCapture, next_word, TypeOK, Word
      <3> QED
        BY <1>7, <2>1, <3>1 DEF ReadCapture, TypeOK, history, State
    <2>2. CASE read_word_q = WORD_RESERVED
      BY <1>7, <2>2 DEF ReadCapture, TypeOK, history, State
    <2> QED
      BY <2>1, <2>2
  <1>8. CASE Check
    <2>1. req \in Request /\ req.slot \in Slot /\ req.decrypt \in BOOLEAN
      BY <1>8, ServedSession DEF Check, Serving, Copied
    <2>2. Refused(req, IF req.decrypt THEN req.counter ELSE 0) \in Response
      BY <2>1, RequestFields, RefusedType, Values
    <2>3. operation_counter \in Counter
      BY <1>8, <2>1, CopyOfSession, RequestFields DEF operation_counter, Check, Copied
    <2>4. CASE CheckFails
      BY <1>8, <2>2, <2>4 DEF Check, TypeOK, State
    <2>5. CASE ~CheckFails
      <3>1. tx_used' \in [Slot -> SUBSET Counter]
        BY <1>8, <2>1, <2>3, <2>5 DEF Check, TypeOK
      <3> QED
        BY <1>8, <2>5, <3>1 DEF Check, TypeOK, State
    <2> QED
      BY <2>4, <2>5
  <1>9. CASE EngineDone
    <2>1. req \in Request /\ req.slot \in Slot /\ req.decrypt \in BOOLEAN
      BY <1>9, ServedSession DEF EngineDone, Serving, Copied
    <2>2. operation_counter \in Counter
      BY <1>9, <2>1, CopyOfSession, RequestFields
         DEF operation_counter, EngineDone, Copied
    <2>3. Refused(req, operation_counter) \in Response
      BY <2>1, <2>2, RefusedType
    <2>4. (ActiveCounter(req.decrypt) + 1) % Modulus \in Counter
      BY <1>9, NextCounter DEF EngineDone, Copied
    <2>5. [slot |-> req.slot, auth_ok |-> TRUE, error |-> FALSE,
           counter |-> operation_counter, data |-> "released"] \in Response
      BY <2>1, <2>2, RequestFields DEF Response
    <2>6. CASE engine_auth_ok
      <3>1. rx_used' \in [Slot -> SUBSET Counter]
        BY <1>9, <2>1, <2>2, <2>6 DEF EngineDone, TypeOK
      <3> QED
        BY <1>9, <2>4, <2>5, <2>6, <3>1 DEF EngineDone, TypeOK, State
    <2>7. CASE ~engine_auth_ok
      BY <1>9, <2>3, <2>7 DEF EngineDone, TypeOK, State
    <2> QED
      BY <2>6, <2>7
  <1>10. CASE CountWriteLo
    <2>1. req.slot \in Slot /\ req.decrypt \in BOOLEAN
      BY <1>10, ServedSession DEF CountWriteLo, Serving, Counting
    <2>2. /\ count_word_lo(req.decrypt) \in Word
          /\ low_word(updated_counter_q) \in ValueAt(count_word_lo(req.decrypt))
      BY <2>1, Layout, SplitCounter, Values DEF TypeOK
    <2>3. /\ DOMAIN mem' = Address
          /\ \A t \in Slot, v \in Word : mem'[slot_base(t) + v] \in ValueAt(v)
      BY <1>10, <2>1, <2>2, WriteType DEF CountWriteLo, Writes
    <2> QED
      BY <1>10, <2>3 DEF CountWriteLo, TypeOK, history, State
  <1>11. CASE CountWriteHi
    <2>1. req.slot \in Slot /\ req.decrypt \in BOOLEAN
      BY <1>11, ServedSession DEF CountWriteHi, Serving, Counting
    <2>2. /\ count_word_hi(req.decrypt) \in Word
          /\ high_word(updated_counter_q) \in ValueAt(count_word_hi(req.decrypt))
      BY <2>1, Layout, SplitCounter, Values DEF TypeOK
    <2>3. /\ DOMAIN mem' = Address
          /\ \A t \in Slot, v \in Word : mem'[slot_base(t) + v] \in ValueAt(v)
      BY <1>11, <2>1, <2>2, WriteType DEF CountWriteHi, Writes
    <2> QED
      BY <1>11, <2>3 DEF CountWriteHi, TypeOK, history, State
  <1>12. CASE RspTake
    <2>1. mem_rdata = None
      BY <1>12 DEF RspTake, IInv, Phases
    <2> QED
      BY <1>12, <2>1, Values DEF RspTake, TypeOK, history, State
  <1>13. CASE Reset
    BY <1>13, Values DEF Reset, TypeOK, history, State, valid_at_reset
  <1>14. CASE UNCHANGED vars
    BY <1>14 DEF vars, regs, history, TypeOK
  <1> QED
    BY <1>1, <1>2, <1>3, <1>4, <1>5, <1>6, <1>7, <1>8, <1>9, <1>10, <1>11, <1>12,
       <1>13, <1>14 DEF Next, Cfg, Serve

-----------------------------------------------------------------------------
(* The invariant is preserved by every step. *)

\* A step that leaves the RAM alone and serves no request any longer keeps it.
LEMMA Settled ==
    ASSUME IInv, TypeOK', state' \in {"S_IDLE", "S_RESPONSE"}, mem_rdata' = None,
           UNCHANGED <<mem, history>>, session_valid' \subseteq session_valid,
           \A s \in session_valid' :
               /\ ~Replacing(s)
               /\ \A decrypt \in BOOLEAN : Due(s, decrypt) = StoredCounter(s, decrypt)
    PROVE  IInv'
  <1>1. Phases'
    BY DEF Phases, Serving, Reading, Copied, Counting
  <1>2. StoredSession'
    BY DEF IInv, StoredSession, Cell, history
  <1>3. WrittenSoFar' /\ CopiedSoFar' /\ Room' /\ InOrder' /\ LowWritten'
    BY DEF WrittenSoFar, CopiedSoFar, Room, InOrder, LowWritten, Reading, Copied
  <1>4. HistoryMatches'
    <2>1. ASSUME NEW s \in session_valid', NEW decrypt \in BOOLEAN
          PROVE  Used(s, decrypt)' = 0 .. Due(s, decrypt)' - 1
      <3>1. Due(s, decrypt)' = StoredCounter(s, decrypt)'
        BY DEF Due, Counting
      <3>2. StoredCounter(s, decrypt)' = StoredCounter(s, decrypt)
        BY DEF StoredCounter
      <3>3. Used(s, decrypt)' = Used(s, decrypt)
        BY DEF Used, history
      <3>4. Used(s, decrypt) = 0 .. StoredCounter(s, decrypt) - 1
        BY DEF IInv, HistoryMatches
      <3> QED
        BY <3>1, <3>2, <3>3, <3>4
    <2> QED
      BY <2>1 DEF HistoryMatches
  <1> QED
    BY <1>1, <1>2, <1>3, <1>4 DEF IInv

\* Idle and refusing states count nothing and replace nothing.
LEMMA NothingDue ==
    ASSUME state \notin {"S_CFG_WRITE", "S_ENGINE_WAIT"} \cup Counting, NEW s
    PROVE  /\ ~Replacing(s)
           /\ \A decrypt \in BOOLEAN : Due(s, decrypt) = StoredCounter(s, decrypt)
  BY DEF Replacing, Due, Counting

LEMMA AcceptInstall ==
    ASSUME IInv, TypeOK', NEW s \in Slot, NEW m \in Material, CfgAccept(s, m)
    PROVE  IInv'
  <1>1. state = "S_IDLE" /\ state' = "S_CFG_WRITE" /\ mem_rdata = None
    BY DEF CfgAccept, IInv, Phases
  <1>2. Phases'
    BY <1>1 DEF CfgAccept, IInv, Phases, Serving, Reading, Copied, Counting, TypeOK
  <1>3. StoredSession'
    BY <1>1 DEF CfgAccept, IInv, StoredSession, Cell, history, Replacing
  <1>4. WrittenSoFar'
    BY <1>1 DEF CfgAccept, WrittenSoFar, Word
  <1>5. CopiedSoFar' /\ Room' /\ InOrder' /\ LowWritten'
    BY <1>1 DEF CopiedSoFar, Room, InOrder, LowWritten, Reading, Copied
  <1>6. HistoryMatches'
    <2>1. ASSUME NEW t \in session_valid', NEW decrypt \in BOOLEAN
          PROVE  Used(t, decrypt)' = 0 .. Due(t, decrypt)' - 1
      <3>1. Due(t, decrypt)' = StoredCounter(t, decrypt)'
        BY <1>1 DEF Due, Counting
      <3>2. /\ StoredCounter(t, decrypt)' = StoredCounter(t, decrypt)
            /\ Used(t, decrypt)' = Used(t, decrypt)
            /\ t \in session_valid
        BY DEF StoredCounter, Used, history, CfgAccept
      <3>3. ~Replacing(t) /\ Due(t, decrypt) = StoredCounter(t, decrypt)
        BY <1>1, NothingDue DEF Counting
      <3> QED
        BY <3>1, <3>2, <3>3 DEF IInv, HistoryMatches
    <2> QED
      BY <2>1 DEF HistoryMatches
  <1> QED
    BY <1>2, <1>3, <1>4, <1>5, <1>6 DEF IInv

\* A word of a new block is written; the last one makes the block a session.
LEMMA WriteBlock ==
    ASSUME IInv, TypeOK', CfgWrite, NEW c \in Slot, NEW m \in Material, NEW k \in Word,
           cfg.slot = c, cfg.mat = m, cfg_word_q = k
    PROVE  IInv'
  <1>1. state = "S_CFG_WRITE" /\ mem_rdata = None
    BY DEF CfgWrite, IInv, Phases
  <1>2. /\ \A t \in Slot, v \in Word :
             Cell(t, v)' = IF t = c /\ v = k THEN config_word(m, k) ELSE Cell(t, v)
        /\ UNCHANGED <<req, mem_rdata, active, updated_counter_q>>
    <2>1. Writes(c, k, config_word(m, k)) /\ DOMAIN mem = Address
      BY DEF CfgWrite, Writes, IInv, TypeOK
    <2> QED
      BY <1>1, <2>1, WriteWord DEF Cell, CfgWrite
  <1>3. \A v \in Word : v <= k => Cell(c, v)' = config_word(m, v)
    BY <1>1, <1>2 DEF IInv, WrittenSoFar, Word
  <1>4. ASSUME NEW t \in session_valid, t # c
        PROVE  /\ t \in Slot /\ ~Replacing(t)
               /\ \A v \in Word : Cell(t, v)' = Cell(t, v)
               /\ \A decrypt \in BOOLEAN : /\ Due(t, decrypt) = StoredCounter(t, decrypt)
                                           /\ StoredCounter(t, decrypt)'
                                                  = StoredCounter(t, decrypt)
    <2>1. t \in Slot
      BY DEF IInv, TypeOK
    <2>2. \A v \in Word : Cell(t, v)' = Cell(t, v)
      BY <1>2, <1>4, <2>1
    <2>3. \A decrypt \in BOOLEAN : StoredCounter(t, decrypt)' = StoredCounter(t, decrypt)
      BY <2>2, Layout DEF StoredCounter, Cell
    <2> QED
      BY <1>1, <1>4, <2>1, <2>2, <2>3 DEF Replacing, Due, Counting
  <1>5. CASE k # WORD_RESERVED
    <2>1. /\ state' = "S_CFG_WRITE" /\ cfg' = cfg /\ cfg_word_q' = k + 1
          /\ UNCHANGED <<session_valid, history>>
      BY <1>1, <1>5 DEF CfgWrite, next_word
    <2>2. Phases' /\ CopiedSoFar' /\ Room' /\ InOrder' /\ LowWritten'
      BY <1>1, <1>2, <2>1 DEF IInv, Phases, CopiedSoFar, Room, InOrder, LowWritten,
         Serving, Reading, Copied, Counting
    <2>3. StoredSession'
      BY <1>4, <2>1, Layout DEF IInv, StoredSession, history, Replacing
    <2>4. WrittenSoFar'
      BY <1>1, <1>3, <2>1 DEF WrittenSoFar, Word
    <2>5. HistoryMatches'
      <3>1. ASSUME NEW t \in session_valid', ~Replacing(t)', NEW decrypt \in BOOLEAN
            PROVE  Used(t, decrypt)' = 0 .. Due(t, decrypt)' - 1
        <4>1. t \in session_valid /\ t # c
          BY <2>1, <3>1 DEF Replacing
        <4>2. /\ Due(t, decrypt)' = StoredCounter(t, decrypt)'
              /\ Used(t, decrypt)' = Used(t, decrypt)
          BY <2>1 DEF Due, Counting, Used, history
        <4> QED
          BY <1>4, <4>1, <4>2 DEF IInv, HistoryMatches
      <3> QED
        BY <3>1 DEF HistoryMatches
    <2> QED
      BY <2>2, <2>3, <2>4, <2>5 DEF IInv
  <1>6. CASE k = WORD_RESERVED
    <2>1. /\ state' = "S_IDLE"
          /\ session_valid' = session_valid \cup {c}
          /\ installed' = [installed EXCEPT ![c] = m]
          /\ tx_used' = [tx_used EXCEPT ![c] = {}]
          /\ rx_used' = [rx_used EXCEPT ![c] = {}]
      BY <1>1, <1>6 DEF CfgWrite
    <2>2. Phases' /\ WrittenSoFar' /\ CopiedSoFar' /\ Room' /\ InOrder' /\ LowWritten'
      BY <1>1, <1>2, <2>1 DEF Phases, WrittenSoFar, CopiedSoFar, Room, InOrder,
         LowWritten, Serving, Reading, Copied, Counting
    <2>3. \A v \in Word : Cell(c, v)' = config_word(m, v)
      BY <1>3, <1>6, Layout DEF Word
    <2>4. /\ \A w \in MaterialWord : Cell(c, w)' = <<m, w>>
          /\ \A w \in CountWord : Cell(c, w)' = 0
      BY <2>3, Layout DEF config_word
    <2>5. /\ installed'[c] = m /\ tx_used'[c] = {} /\ rx_used'[c] = {}
          /\ \A t \in Slot : t # c => /\ installed'[t] = installed[t]
                                      /\ tx_used'[t] = tx_used[t]
                                      /\ rx_used'[t] = rx_used[t]
      BY <1>1, <2>1 DEF IInv, TypeOK
    <2>6. StoredSession'
      <3>1. ASSUME NEW t \in session_valid'
            PROVE  /\ \A w \in MaterialWord : Cell(t, w)' = <<installed'[t], w>>
                   /\ \A w \in CountWord : Cell(t, w)' \in Half
        <4>1. CASE t = c
          BY <2>4, <2>5, <4>1, Values
        <4>2. CASE t # c
          BY <1>4, <2>1, <2>5, <4>2, Layout DEF IInv, StoredSession
        <4> QED
          BY <4>1, <4>2
      <3> QED
        BY <3>1 DEF StoredSession
    <2>7. HistoryMatches'
      <3>1. ASSUME NEW t \in session_valid', NEW decrypt \in BOOLEAN
            PROVE  Used(t, decrypt)' = 0 .. Due(t, decrypt)' - 1
        <4>1. Due(t, decrypt)' = StoredCounter(t, decrypt)'
          BY <2>1 DEF Due, Counting
        <4>2. CASE t = c
          <5>1. StoredCounter(t, decrypt)' = Join(0, 0)
            BY <2>4, <4>2, Layout DEF StoredCounter, Cell
          <5>2. Join(0, 0) = 0
            BY ManagerAssumption, Z3 DEF Join
          <5>3. Used(t, decrypt)' = {}
            BY <2>5, <4>2 DEF Used
          <5> QED
            BY <4>1, <5>1, <5>2, <5>3
        <4>3. CASE t # c
          <5>1. t \in session_valid /\ Used(t, decrypt)' = Used(t, decrypt)
            BY <1>4, <2>1, <2>5, <4>3 DEF Used
          <5> QED
            BY <1>4, <4>1, <4>3, <5>1 DEF IInv, HistoryMatches
        <4> QED
          BY <4>2, <4>3
      <3> QED
        BY <3>1 DEF HistoryMatches
    <2> QED
      BY <2>2, <2>6, <2>7 DEF IInv
  <1> QED
    BY <1>5, <1>6

\* Steps that leave the RAM, the sessions and their history as they are, and
\* after which every direction is due what it was due before.
LEMMA SameSessions ==
    ASSUME IInv, UNCHANGED <<mem, session_valid, history>>,
           state # "S_CFG_WRITE", state' # "S_CFG_WRITE",
           \A s \in session_valid : \A decrypt \in BOOLEAN :
               Due(s, decrypt)' = Due(s, decrypt)
    PROVE  StoredSession' /\ HistoryMatches' /\ WrittenSoFar'
  <1>1. StoredSession'
    BY DEF IInv, StoredSession, Cell, history, Replacing
  <1>2. HistoryMatches'
    <2>1. ASSUME NEW s \in session_valid', NEW decrypt \in BOOLEAN
          PROVE  Used(s, decrypt)' = 0 .. Due(s, decrypt)' - 1
      <3>1. Used(s, decrypt)' = Used(s, decrypt) /\ ~Replacing(s)
        BY DEF Used, history, Replacing
      <3> QED
        BY <3>1 DEF IInv, HistoryMatches
    <2> QED
      BY <2>1 DEF HistoryMatches
  <1> QED
    BY <1>1, <1>2 DEF WrittenSoFar

\* A request for a session starts with an empty copy and room in its counter.
LEMMA AcceptRequest ==
    ASSUME IInv, TypeOK', NEW r \in Request, ReqAccept(r),
           r.slot \in Slot, r.slot \in session_valid
    PROVE  IInv'
  <1>1. /\ state = "S_IDLE" /\ state' = "S_READ_ISSUE" /\ mem_rdata' = None
        /\ req' = r /\ read_word_q' = 0 /\ UNCHANGED <<mem, session_valid, history>>
    BY DEF ReqAccept, IInv, Phases
  <1>2. \A s, decrypt : /\ Due(s, decrypt) = StoredCounter(s, decrypt)
                        /\ Due(s, decrypt)' = StoredCounter(s, decrypt)'
                        /\ StoredCounter(s, decrypt)' = StoredCounter(s, decrypt)
    BY <1>1 DEF Due, Counting, StoredCounter
  <1>3. StoredSession' /\ HistoryMatches' /\ WrittenSoFar'
    BY <1>1, <1>2, SameSessions
  <1>4. Phases' /\ CopiedSoFar' /\ InOrder' /\ LowWritten'
    BY <1>1 DEF Phases, CopiedSoFar, InOrder, LowWritten, Serving, Reading, Copied,
                Counting, ReadWord
  <1>5. Room'
    <2>1. r.decrypt \in BOOLEAN /\ ~Replacing(r.slot)
      BY <1>1, RequestFields DEF Replacing
    <2>2. StoredCounter(r.slot, r.decrypt) \in Counter
      <3>1. \A w \in CountWord : Cell(r.slot, w) \in Half
        BY <2>1 DEF IInv, StoredSession
      <3> QED
        BY <2>1, <3>1, Layout, JoinHalves DEF StoredCounter, Cell
    <2>3. Used(r.slot, r.decrypt) = 0 .. StoredCounter(r.slot, r.decrypt) - 1
      BY <1>2, <2>1 DEF IInv, HistoryMatches
    <2>4. (Modulus - 2) \notin Used(r.slot, r.decrypt)
      BY DEF ReqAccept, Headroom, Used
    <2>5. Modulus \in Nat /\ Modulus >= 2
      BY ManagerAssumption, Z3 DEF Modulus
    <2>6. StoredCounter(r.slot, r.decrypt) <= Modulus - 2
      BY <2>2, <2>3, <2>4, <2>5 DEF Counter
    <2> QED
      BY <1>1, <1>2, <2>6 DEF Room
  <1> QED
    BY <1>3, <1>4, <1>5 DEF IInv

\* Steps of the copying loop move one word from the RAM to the registers.
LEMMA CopyWord ==
    ASSUME IInv, TypeOK', ReadIssue \/ ReadCapture
    PROVE  IInv'
  <1>1. /\ state \in Reading /\ state' \in Reading \cup {"S_CHECK"}
        /\ UNCHANGED <<mem, session_valid, history, req>>
        /\ req \in Request /\ req.slot \in session_valid
    BY DEF ReadIssue, ReadCapture, Reading, IInv, Phases, Serving
  <1>2. \A s, decrypt : /\ Due(s, decrypt) = StoredCounter(s, decrypt)
                        /\ Due(s, decrypt)' = StoredCounter(s, decrypt)'
                        /\ StoredCounter(s, decrypt)' = StoredCounter(s, decrypt)
    BY <1>1 DEF Due, Counting, StoredCounter, Reading
  <1>3. StoredSession' /\ HistoryMatches' /\ WrittenSoFar'
    BY <1>1, <1>2, SameSessions DEF Reading
  <1>4. Room'
    BY <1>1, <1>2 DEF IInv, Room, Reading, Copied
  <1>5. InOrder' /\ LowWritten'
    BY <1>1 DEF InOrder, LowWritten, Reading
  <1>6. Phases' /\ CopiedSoFar'
    <2>1. CASE ReadIssue
      BY <1>1, <2>1 DEF ReadIssue, IInv, Phases, CopiedSoFar, Cell, Serving, Reading,
                        Copied, Counting
    <2>2. CASE ReadCapture /\ read_word_q # WORD_RESERVED
      <3>1. /\ state = "S_READ_CAPTURE" /\ state' = "S_READ_ISSUE" /\ mem_rdata' = None
            /\ active' = [active EXCEPT ![read_word_q] = mem_rdata]
            /\ read_word_q' = read_word_q + 1 /\ read_word_q \in ReadWord
            /\ DOMAIN active = ReadWord
        BY <2>2, Layout DEF ReadCapture, next_word, IInv, TypeOK
      <3>2. \A w \in ReadWord : w < read_word_q' => active'[w] = Cell(req.slot, w)'
        BY <1>1, <3>1 DEF IInv, CopiedSoFar, Cell, ReadWord, Reading
      <3> QED
        BY <1>1, <3>1, <3>2 DEF Phases, CopiedSoFar, Serving, Reading, Copied, Counting
    <2>3. CASE ReadCapture /\ read_word_q = WORD_RESERVED
      <3>1. /\ state = "S_READ_CAPTURE" /\ state' = "S_CHECK" /\ mem_rdata' = None
            /\ active' = active
        BY <2>3 DEF ReadCapture
      <3>2. \A w \in ReadWord : w < read_word_q
        BY <2>3, Layout DEF ReadWord, Word
      <3>3. \A w \in ReadWord : active'[w] = Cell(req.slot, w)'
        BY <1>1, <3>1, <3>2 DEF IInv, CopiedSoFar, Cell, Reading
      <3> QED
        BY <1>1, <3>1, <3>3 DEF Phases, CopiedSoFar, Serving, Reading, Copied, Counting
    <2> QED
      BY <2>1, <2>2, <2>3
  <1> QED
    BY <1>3, <1>4, <1>5, <1>6 DEF IInv

\* A packet that passes the checks: sealing takes the counter of its nonce.
LEMMA StartEngine ==
    ASSUME IInv, TypeOK', Check, ~CheckFails, NEW s, req.slot = s,
           NEW decrypt \in BOOLEAN, req.decrypt = decrypt
    PROVE  IInv'
  <1>1. /\ state = "S_CHECK" /\ state' = "S_ENGINE_WAIT"
        /\ UNCHANGED <<mem, session_valid, installed, rx_used, req, active, mem_rdata>>
        /\ req \in Request /\ s \in Slot /\ s \in session_valid
    BY ServedSession DEF Check, Serving, Copied
  <1>2. /\ ActiveCounter(decrypt) = StoredCounter(s, decrypt)
        /\ StoredCounter(s, decrypt) \in Counter
    BY <1>1, CopyOfSession DEF Copied
  <1>3. Phases' /\ CopiedSoFar' /\ LowWritten' /\ WrittenSoFar'
    BY <1>1 DEF IInv, Phases, CopiedSoFar, LowWritten, WrittenSoFar, Cell, Serving,
                Reading, Copied, Counting
  <1>4. StoredSession'
    BY <1>1 DEF IInv, StoredSession, Cell, Replacing
  <1>5. Room'
    BY <1>1 DEF IInv, Room, StoredCounter, Reading, Copied
  <1>6. InOrder'
    BY <1>1 DEF CheckFails, InOrder, ActiveCounter
  <1>7. HistoryMatches'
    <2>1. ASSUME NEW t \in session_valid', NEW e \in BOOLEAN
          PROVE  Used(t, e)' = 0 .. Due(t, e)' - 1
      <3>1. /\ Used(t, e) = 0 .. StoredCounter(t, e) - 1
            /\ StoredCounter(t, e)' = StoredCounter(t, e)
        <4>1. ~Replacing(t) /\ Due(t, e) = StoredCounter(t, e)
          BY <1>1 DEF Replacing, Due, Counting
        <4> QED
          BY <1>1, <4>1 DEF IInv, HistoryMatches, StoredCounter
      <3>2. CASE t = s /\ decrypt = FALSE /\ e = FALSE
        <4>1. Due(t, e)' = StoredCounter(t, e) + 1
          BY <1>1, <3>1, <3>2 DEF Due, Counting
        <4>2. Used(t, e)' = Used(t, e) \cup {StoredCounter(t, e)}
          BY <1>1, <1>2, <3>2 DEF Check, Used, operation_counter, IInv, TypeOK
        <4>3. StoredCounter(t, e) \in Nat
          BY <1>2, <3>2, Values
        <4> QED
          BY <3>1, <4>1, <4>2, <4>3
      <3>3. CASE ~ (t = s /\ decrypt = FALSE /\ e = FALSE)
        <4>1. Due(t, e)' = StoredCounter(t, e)'
          BY <1>1, <3>3 DEF Due, Counting
        <4>2. Used(t, e)' = Used(t, e)
          BY <1>1, <3>3 DEF Check, Used, IInv, TypeOK
        <4> QED
          BY <3>1, <4>1, <4>2
      <3> QED
        BY <3>2, <3>3
    <2> QED
      BY <2>1 DEF HistoryMatches
  <1> QED
    BY <1>3, <1>4, <1>5, <1>6, <1>7 DEF IInv

\* The engine succeeds: the new counter is one more than the history held when
\* sealing began, or the counter of the packet just opened joins the history.
LEMMA EngineSucceeds ==
    ASSUME IInv, TypeOK', EngineDone, engine_auth_ok, NEW s, req.slot = s,
           NEW decrypt \in BOOLEAN, req.decrypt = decrypt
    PROVE  IInv'
  <1>1. /\ state = "S_ENGINE_WAIT" /\ state' = "S_COUNT_WRITE_LO"
        /\ UNCHANGED <<mem, session_valid, installed, tx_used, req, mem_rdata>>
        /\ req \in Request /\ s \in Slot /\ s \in session_valid
    BY ServedSession DEF EngineDone, Serving, Copied
  <1>2. /\ ActiveCounter(decrypt) = StoredCounter(s, decrypt)
        /\ StoredCounter(s, decrypt) \in Nat
        /\ operation_counter = StoredCounter(s, decrypt)
    BY <1>1, CopyOfSession, Values DEF Copied, IInv, InOrder, operation_counter
  <1>3. updated_counter_q' = StoredCounter(s, decrypt) + 1
    BY <1>1, <1>2, NextCounter DEF EngineDone, Copied
  <1>4. Phases' /\ CopiedSoFar' /\ LowWritten' /\ WrittenSoFar' /\ Room' /\ InOrder'
    BY <1>1 DEF IInv, Phases, CopiedSoFar, LowWritten, WrittenSoFar, Room, InOrder,
                Serving, Reading, Copied, Counting
  <1>5. StoredSession'
    BY <1>1 DEF IInv, StoredSession, Cell, Replacing
  <1>6. HistoryMatches'
    <2>1. ASSUME NEW t \in session_valid', NEW e \in BOOLEAN
          PROVE  Used(t, e)' = 0 .. Due(t, e)' - 1
      <3>1. /\ Used(t, e) = 0 .. Due(t, e) - 1
            /\ StoredCounter(t, e)' = StoredCounter(t, e)
        BY <1>1 DEF IInv, HistoryMatches, StoredCounter, Replacing
      <3>2. CASE t = s /\ e = decrypt
        <4>1. Due(t, e)' = StoredCounter(t, e) + 1
          BY <1>1, <1>3, <3>2 DEF Due, Counting
        <4>2. CASE decrypt = TRUE
          <5>1. Due(t, e) = StoredCounter(t, e)
            BY <1>1, <3>2, <4>2 DEF Due, Counting
          <5>2. Used(t, e)' = Used(t, e) \cup {StoredCounter(t, e)}
            BY <1>1, <1>2, <3>2, <4>2 DEF EngineDone, Used, IInv, TypeOK
          <5> QED
            BY <1>2, <3>1, <3>2, <4>1, <5>1, <5>2
        <4>3. CASE decrypt = FALSE
          <5>1. Due(t, e) = StoredCounter(t, e) + 1
            BY <1>1, <3>2, <4>3 DEF Due, Counting
          <5>2. Used(t, e)' = Used(t, e)
            BY <1>1, <3>2, <4>3 DEF Used
          <5> QED
            BY <3>1, <4>1, <5>1, <5>2
        <4> QED
          BY <4>2, <4>3
      <3>3. CASE ~ (t = s /\ e = decrypt)
        <4>1. Due(t, e)' = StoredCounter(t, e) /\ Due(t, e) = StoredCounter(t, e)
          BY <1>1, <3>1, <3>3 DEF Due, Counting
        <4>2. Used(t, e)' = Used(t, e)
          BY <1>1, <3>3 DEF EngineDone, Used, IInv, TypeOK
        <4> QED
          BY <3>1, <4>1, <4>2
      <3> QED
        BY <3>2, <3>3
    <2> QED
      BY <2>1 DEF HistoryMatches
  <1> QED
    BY <1>4, <1>5, <1>6 DEF IInv

\* Half of a new counter is written over one word of the served slot.
LEMMA WriteHalf ==
    ASSUME IInv, CountWriteLo \/ CountWriteHi, NEW s \in Slot, req.slot = s,
           NEW k \in CountWord, NEW x \in Half, Writes(s, k, x)
    PROVE  /\ \A t \in Slot, v \in Word :
                Cell(t, v)' = IF t = s /\ v = k THEN x ELSE Cell(t, v)
           /\ StoredSession'
           /\ \A t \in session_valid, e \in BOOLEAN : Used(t, e) = 0 .. Due(t, e) - 1
  <1>1. /\ state \in Counting /\ state' \in {"S_COUNT_WRITE_HI", "S_RESPONSE"}
        /\ UNCHANGED <<session_valid, history>>
    BY DEF CountWriteLo, CountWriteHi, Counting
  <1>2. \A t \in Slot, v \in Word :
            Cell(t, v)' = IF t = s /\ v = k THEN x ELSE Cell(t, v)
    BY WriteWord, Layout DEF IInv, TypeOK, Cell
  <1>3. StoredSession'
    <2>1. ASSUME NEW t \in session_valid'
          PROVE  /\ \A w \in MaterialWord : Cell(t, w)' = <<installed'[t], w>>
                 /\ \A w \in CountWord : Cell(t, w)' \in Half
      <3>1. t \in session_valid /\ t \in Slot /\ ~Replacing(t) /\ installed' = installed
        BY <1>1 DEF IInv, TypeOK, Replacing, Counting, history
      <3>2. \A w \in MaterialWord : Cell(t, w)' = <<installed'[t], w>>
        BY <1>2, <3>1, Layout DEF IInv, StoredSession
      <3>3. \A w \in CountWord : Cell(t, w)' \in Half
        BY <1>2, <3>1, Layout DEF IInv, StoredSession
      <3> QED
        BY <3>2, <3>3
    <2> QED
      BY <2>1 DEF StoredSession
  <1>4. \A t \in session_valid, e \in BOOLEAN : Used(t, e) = 0 .. Due(t, e) - 1
    BY <1>1 DEF IInv, HistoryMatches, Replacing, Counting
  <1> QED
    BY <1>2, <1>3, <1>4

LEMMA WriteLow ==
    ASSUME IInv, TypeOK', CountWriteLo, NEW s, req.slot = s,
           NEW decrypt \in BOOLEAN, req.decrypt = decrypt
    PROVE  IInv'
  <1> DEFINE k == count_word_lo(decrypt)
             x == low_word(updated_counter_q)
  <1>1. /\ state = "S_COUNT_WRITE_LO" /\ state' = "S_COUNT_WRITE_HI"
        /\ UNCHANGED <<session_valid, history, req, updated_counter_q, mem_rdata>>
        /\ req \in Request /\ s \in Slot /\ s \in session_valid
    BY ServedSession DEF CountWriteLo, Serving, Counting
  <1>2. k \in CountWord /\ x \in Half /\ Writes(s, k, x)
    BY <1>1, Layout, SplitCounter DEF IInv, TypeOK, CountWriteLo, Writes
  <1>3. /\ \A t \in Slot, v \in Word :
             Cell(t, v)' = IF t = s /\ v = k THEN x ELSE Cell(t, v)
        /\ StoredSession'
        /\ \A t \in session_valid, e \in BOOLEAN : Used(t, e) = 0 .. Due(t, e) - 1
    BY <1>1, <1>2, WriteHalf
  <1>4. Phases' /\ WrittenSoFar' /\ CopiedSoFar' /\ Room' /\ InOrder'
    BY <1>1 DEF IInv, Phases, WrittenSoFar, CopiedSoFar, Room, InOrder, Serving, Reading,
                Copied, Counting
  <1>5. LowWritten'
    <2>1. Cell(s, k)' = x
      BY <1>1, <1>2, <1>3, Layout
    <2> QED
      BY <1>1, <2>1 DEF LowWritten, Cell
  <1>6. HistoryMatches'
    <2>1. ASSUME NEW t \in session_valid', NEW e \in BOOLEAN
          PROVE  Used(t, e)' = 0 .. Due(t, e)' - 1
      <3>1. /\ t \in session_valid /\ t \in Slot
            /\ Used(t, e)' = Used(t, e) /\ Used(t, e) = 0 .. Due(t, e) - 1
        BY <1>1, <1>3 DEF Used, history, IInv, TypeOK
      <3>2. CASE t = s /\ e = decrypt
        BY <1>1, <3>1, <3>2 DEF Due, Counting
      <3>3. CASE ~ (t = s /\ e = decrypt)
        <4>1. StoredCounter(t, e)' = StoredCounter(t, e)
          BY <1>3, <3>1, <3>3, Layout DEF StoredCounter, Cell
        <4>2. Due(t, e)' = StoredCounter(t, e)' /\ Due(t, e) = StoredCounter(t, e)
          BY <1>1, <3>3 DEF Due, Counting
        <4> QED
          BY <3>1, <4>1, <4>2
      <3> QED
        BY <3>2, <3>3
    <2> QED
      BY <2>1 DEF HistoryMatches
  <1> QED
    BY <1>3, <1>4, <1>5, <1>6 DEF IInv

LEMMA WriteHigh ==
    ASSUME IInv, TypeOK', CountWriteHi, NEW s, req.slot = s,
           NEW decrypt \in BOOLEAN, req.decrypt = decrypt
    PROVE  IInv'
  <1> DEFINE k == count_word_hi(decrypt)
             x == high_word(updated_counter_q)
  <1>1. /\ state = "S_COUNT_WRITE_HI" /\ state' = "S_RESPONSE"
        /\ UNCHANGED <<session_valid, history, req, updated_counter_q, mem_rdata>>
        /\ req \in Request /\ s \in Slot /\ s \in session_valid
        /\ mem_rdata = None
    BY ServedSession DEF CountWriteHi, Serving, Counting, IInv, Phases
  <1>2. k \in CountWord /\ x \in Half /\ Writes(s, k, x)
    BY <1>1, Layout, SplitCounter DEF IInv, TypeOK, CountWriteHi, Writes
  <1>3. /\ \A t \in Slot, v \in Word :
             Cell(t, v)' = IF t = s /\ v = k THEN x ELSE Cell(t, v)
        /\ StoredSession'
        /\ \A t \in session_valid, e \in BOOLEAN : Used(t, e) = 0 .. Due(t, e) - 1
    BY <1>1, <1>2, WriteHalf
  <1>4. Phases' /\ WrittenSoFar' /\ CopiedSoFar' /\ Room' /\ InOrder' /\ LowWritten'
    BY <1>1 DEF Phases, WrittenSoFar, CopiedSoFar, Room, InOrder, LowWritten, Serving,
                Reading, Copied, Counting
  <1>5. HistoryMatches'
    <2>1. ASSUME NEW t \in session_valid', NEW e \in BOOLEAN
          PROVE  Used(t, e)' = 0 .. Due(t, e)' - 1
      <3>1. /\ t \in session_valid /\ t \in Slot
            /\ Used(t, e)' = Used(t, e) /\ Used(t, e) = 0 .. Due(t, e) - 1
            /\ Due(t, e)' = StoredCounter(t, e)'
        BY <1>1, <1>3 DEF Used, history, IInv, TypeOK, Due, Counting
      <3>2. CASE t = s /\ e = decrypt
        <4>1. /\ Cell(s, count_word_lo(decrypt))' = low_word(updated_counter_q)
              /\ Cell(s, count_word_hi(decrypt))' = high_word(updated_counter_q)
          <5>1. Cell(s, count_word_lo(decrypt)) = low_word(updated_counter_q)
            BY <1>1 DEF IInv, LowWritten, Cell
          <5> QED
            BY <1>1, <1>3, <5>1, Layout
        <4>2. StoredCounter(t, e)' = updated_counter_q
          BY <3>2, <4>1, SplitCounter DEF StoredCounter, Cell, IInv, TypeOK
        <4>3. Due(t, e) = updated_counter_q
          BY <1>1, <3>2 DEF Due, Counting
        <4> QED
          BY <3>1, <4>2, <4>3
      <3>3. CASE ~ (t = s /\ e = decrypt)
        <4>1. StoredCounter(t, e)' = StoredCounter(t, e)
          BY <1>3, <3>1, <3>3, Layout DEF StoredCounter, Cell
        <4>2. Due(t, e) = StoredCounter(t, e)
          BY <1>1, <3>3 DEF Due, Counting
        <4> QED
          BY <3>1, <4>1, <4>2
      <3> QED
        BY <3>2, <3>3
    <2> QED
      BY <2>1 DEF HistoryMatches
  <1> QED
    BY <1>3, <1>4, <1>5 DEF IInv

\* Every step preserves the invariant.
LEMMA InvariantStep == IInv /\ [Next]_vars => IInv'
  <1> SUFFICES ASSUME IInv, [Next]_vars PROVE IInv'
    OBVIOUS
  <1> TypeOK'
    BY TypeStep
  <1>1. ASSUME NEW s \in 0 .. SLOT_SPAN - 1, NEW valid \in BOOLEAN, CfgImmediate(s, valid)
        PROVE  IInv'
    <2>1. state = "S_IDLE" /\ state' = "S_IDLE" /\ mem_rdata' = None
      BY <1>1 DEF CfgImmediate, IInv, Phases
    <2> QED
      BY <1>1, <2>1, NothingDue, Settled DEF CfgImmediate, Counting
  <1>2. ASSUME NEW s \in 0 .. SLOT_SPAN - 1, NEW m \in Material, CfgAccept(s, m)
        PROVE  IInv'
    BY <1>2, AcceptInstall DEF CfgAccept
  <1>3. CASE CfgWrite
    <2>1. cfg.slot \in Slot /\ cfg.mat \in Material /\ cfg_word_q \in Word
      BY <1>3 DEF CfgWrite, IInv, Phases, TypeOK
    <2> QED
      BY <1>3, <2>1, WriteBlock
  <1>4. CASE DoneFalls
    <2>1. state = "S_IDLE" /\ state' = "S_IDLE" /\ mem_rdata' = None
      BY <1>4 DEF DoneFalls, IInv, Phases
    <2> QED
      BY <1>4, <2>1, NothingDue, Settled DEF DoneFalls, Counting
  <1>5. ASSUME NEW r \in Request, ReqAccept(r)
        PROVE  IInv'
    <2>1. CASE r.slot \in Slot /\ r.slot \in session_valid
      BY <1>5, <2>1, AcceptRequest
    <2>2. CASE ~ (r.slot \in Slot /\ r.slot \in session_valid)
      <3>1. state = "S_IDLE" /\ state' = "S_RESPONSE" /\ mem_rdata' = None
        BY <1>5, <2>2 DEF ReqAccept, IInv, Phases
      <3> QED
        BY <1>5, <3>1, NothingDue, Settled DEF ReqAccept, Counting
    <2> QED
      BY <2>1, <2>2
  <1>6. CASE ReadIssue \/ ReadCapture
    BY <1>6, CopyWord
  <1>7. CASE Check
    <2>1. req.decrypt \in BOOLEAN
      BY <1>7, ServedSession DEF Check, Serving, Copied
    <2>2. CASE ~CheckFails
      BY <1>7, <2>1, <2>2, StartEngine
    <2>3. CASE CheckFails
      <3>1. state = "S_CHECK" /\ state' = "S_RESPONSE" /\ mem_rdata' = None
        BY <1>7, <2>3 DEF Check, IInv, Phases
      <3> QED
        BY <1>7, <2>3, <3>1, NothingDue, Settled DEF Check, Counting, history
    <2> QED
      BY <2>2, <2>3
  <1>8. CASE EngineDone
    <2>1. req.decrypt \in BOOLEAN
      BY <1>8, ServedSession DEF EngineDone, Serving, Copied
    <2>2. CASE engine_auth_ok
      BY <1>8, <2>1, <2>2, EngineSucceeds
    <2>3. CASE ~engine_auth_ok
      <3>1. /\ state = "S_ENGINE_WAIT" /\ state' = "S_RESPONSE" /\ mem_rdata' = None
            /\ req.decrypt = TRUE
        BY <1>8, <2>1, <2>3 DEF EngineDone, IInv, Phases, engine_auth_ok
      <3>2. \A s \in session_valid' :
                /\ ~Replacing(s)
                /\ \A decrypt \in BOOLEAN : Due(s, decrypt) = StoredCounter(s, decrypt)
        BY <3>1 DEF Replacing, Due, Counting
      <3> QED
        BY <1>8, <2>3, <3>1, <3>2, Settled DEF EngineDone, history
    <2> QED
      BY <2>2, <2>3
  <1>9. CASE CountWriteLo
    <2>1. req.decrypt \in BOOLEAN
      BY <1>9, ServedSession DEF CountWriteLo, Serving, Counting
    <2> QED
      BY <1>9, <2>1, WriteLow
  <1>10. CASE CountWriteHi
    <2>1. req.decrypt \in BOOLEAN
      BY <1>10, ServedSession DEF CountWriteHi, Serving, Counting
    <2> QED
      BY <1>10, <2>1, WriteHigh
  <1>11. CASE RspTake
    <2>1. state = "S_RESPONSE" /\ state' = "S_IDLE" /\ mem_rdata' = None
      BY <1>11 DEF RspTake, IInv, Phases
    <2> QED
      BY <1>11, <2>1, NothingDue, Settled DEF RspTake, Counting
  <1>12. CASE Reset
    BY <1>12, Settled DEF Reset, valid_at_reset
  <1>13. CASE UNCHANGED vars
    <2>1. /\ UNCHANGED <<mem, session_valid, state, cfg, cfg_word_q, req, read_word_q>>
          /\ UNCHANGED <<mem_rdata, active, updated_counter_q>>
          /\ UNCHANGED <<installed, tx_used, rx_used>>
      BY <1>13 DEF vars, regs, history
    <2>2. Phases' /\ InOrder'
      BY <2>1 DEF IInv, Phases, InOrder, ActiveCounter
    <2>3. StoredSession'
      BY <2>1 DEF IInv, StoredSession, Replacing, Cell
    <2>4. WrittenSoFar' /\ CopiedSoFar' /\ LowWritten'
      BY <2>1 DEF IInv, WrittenSoFar, CopiedSoFar, LowWritten, Cell
    <2>5. HistoryMatches' /\ Room'
      BY <2>1 DEF IInv, HistoryMatches, Room, Replacing, Used, Due, StoredCounter
    <2> QED
      BY <2>2, <2>3, <2>4, <2>5 DEF IInv
  <1> QED
    BY <1>1, <1>2, <1>3, <1>4, <1>5, <1>6, <1>7, <1>8, <1>9, <1>10, <1>11, <1>12, <1>13
       DEF Next, Cfg, Serve

LEMMA Inductive == Spec => []IInv
  <1>1. Init => IInv
    BY InitEstablishes
  <1>2. IInv /\ [Next]_vars => IInv'
    BY InvariantStep
  <1> QED
    BY <1>1, <1>2, PTL DEF Spec

-----------------------------------------------------------------------------
(* Theorems. *)

\* Every register and every word of the RAM keeps to its kind: the words of a
\* block that S_CFG_WRITE and the counter writes leave behind, the copy the read
\* loop makes of them, and the response registers.
THEOREM TypeCorrect == Spec => []TypeOK
  <1>1. IInv => TypeOK
    BY DEF IInv
  <1> QED
    BY <1>1, Inductive, PTL

\* The engine is never started on words of two installations, although a block
\* is written one word per clock, read one word per two clocks, and survives a
\* reset half written.
THEOREM OperandsWhole == Spec => []NoTornOperands
  <1>1. IInv => NoTornOperands
    <2> SUFFICES ASSUME IInv, state = "S_ENGINE_WAIT", NEW w \in OperandWord(req.decrypt)
                 PROVE  active[w] = <<installed[req.slot], w>>
      BY DEF NoTornOperands
    <2>1. req.decrypt \in BOOLEAN
      BY ServedSession DEF Serving, Copied
    <2>2. w \in MaterialWord
      BY <2>1, Layout
    <2> QED
      BY <2>2, CopyOfSession DEF Copied
  <1> QED
    BY <1>1, Inductive, PTL

\* The two-word counters count the packets of the session exactly, although
\* S_COUNT_WRITE_LO and S_COUNT_WRITE_HI write them in two clocks.
THEOREM CountersExact == Spec => []CountersMatchHistory
  <1>1. IInv => CountersMatchHistory
    <2> SUFFICES ASSUME IInv, NEW s \in session_valid, ~Busy(s)
                 PROVE  /\ tx_used[s] = 0 .. StoredCounter(s, FALSE) - 1
                        /\ rx_used[s] = 0 .. StoredCounter(s, TRUE) - 1
      BY DEF CountersMatchHistory
    <2>1. ~Replacing(s)
      BY DEF Busy, Replacing
    <2>2. \A decrypt \in BOOLEAN : Due(s, decrypt) = StoredCounter(s, decrypt)
      BY DEF Busy, Due, Counting
    <2>3. \A decrypt \in BOOLEAN : Used(s, decrypt) = 0 .. StoredCounter(s, decrypt) - 1
      BY <2>1, <2>2 DEF IInv, HistoryMatches
    <2> QED
      BY <2>3 DEF Used
  <1> QED
    BY <1>1, Inductive, PTL

\* S_CHECK never starts the engine to seal under a counter the session has used.
THEOREM NoncesFresh == Spec => NonceNeverRepeats
  <1> DEFINE Fresh == (state = "S_CHECK" /\ state' = "S_ENGINE_WAIT" /\ ~req.decrypt)
                          => operation_counter \notin tx_used[req.slot]
  <1>1. IInv /\ [Next]_vars => [Fresh]_vars
    <2> SUFFICES ASSUME IInv, state = "S_CHECK", ~req.decrypt
                 PROVE  operation_counter \notin tx_used[req.slot]
      OBVIOUS
    <2>1. /\ req.slot \in session_valid /\ ~Replacing(req.slot)
          /\ StoredCounter(req.slot, FALSE) \in Nat
          /\ ActiveCounter(FALSE) = StoredCounter(req.slot, FALSE)
      BY ServedSession, CopyOfSession, Values DEF Serving, Copied
    <2>2. Due(req.slot, FALSE) = StoredCounter(req.slot, FALSE)
      BY DEF Due, Counting
    <2>3. tx_used[req.slot] = 0 .. StoredCounter(req.slot, FALSE) - 1
      BY <2>1, <2>2 DEF IInv, HistoryMatches, Used
    <2>4. req.decrypt = FALSE
      BY ServedSession DEF Serving, Copied
    <2>5. operation_counter = StoredCounter(req.slot, FALSE)
      BY <2>1, <2>4 DEF operation_counter
    <2>6. \A c \in Nat : c \notin 0 .. c - 1
      OBVIOUS
    <2>7. StoredCounter(req.slot, FALSE) \notin tx_used[req.slot]
      BY <2>1, <2>3, <2>6
    <2> QED
      BY <2>5, <2>7
  <1> QED
    BY <1>1, Inductive, PTL DEF Spec, NonceNeverRepeats

\* S_ENGINE_WAIT lets a packet through only if the session's peer sealed it, and
\* then in order and once.
THEOREM OpenedInOrder == Spec => OpenedOnceInOrder
  <1> DEFINE Next1 == (state = "S_ENGINE_WAIT" /\ state' = "S_COUNT_WRITE_LO" /\ req.decrypt)
                          => /\ req.packet = installed[req.slot]
                             /\ rx_used[req.slot] = 0 .. req.counter - 1
  <1>1. IInv /\ [Next]_vars => [Next1]_vars
    <2> SUFFICES ASSUME IInv, [Next]_vars, state = "S_ENGINE_WAIT",
                        state' = "S_COUNT_WRITE_LO", req.decrypt
                 PROVE  /\ req.packet = installed[req.slot]
                        /\ rx_used[req.slot] = 0 .. req.counter - 1
      OBVIOUS
    <2>1. /\ req.slot \in session_valid /\ ~Replacing(req.slot) /\ req.decrypt = TRUE
          /\ ActiveCounter(TRUE) = StoredCounter(req.slot, TRUE)
      BY ServedSession, CopyOfSession DEF Serving, Copied
    <2>2. engine_auth_ok
      BY DEF Next, Cfg, CfgImmediate, CfgAccept, CfgWrite, DoneFalls, ReqAccept, Serve,
         ReadIssue, ReadCapture, Check, EngineDone, CountWriteLo, CountWriteHi, RspTake,
         Reset, vars, regs
    <2>3. WORD_SESSION_ID \in OperandWord(TRUE) /\ WORD_SESSION_ID \in MaterialWord
      BY Layout DEF OperandWord
    <2>4. active[WORD_SESSION_ID] = <<req.packet, WORD_SESSION_ID>>
      BY <2>1, <2>2, <2>3 DEF engine_auth_ok
    <2>5. active[WORD_SESSION_ID] = <<installed[req.slot], WORD_SESSION_ID>>
      BY <2>3, CopyOfSession DEF Copied
    <2>6. Due(req.slot, TRUE) = StoredCounter(req.slot, TRUE)
      BY <2>1 DEF Due, Counting
    <2>7. rx_used[req.slot] = 0 .. req.counter - 1
      BY <2>1, <2>6 DEF IInv, HistoryMatches, Used, InOrder
    <2> QED
      BY <2>4, <2>5, <2>7
  <1> QED
    BY <1>1, Inductive, PTL DEF Spec, OpenedOnceInOrder
=============================================================================
